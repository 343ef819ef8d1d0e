# Verification of the 5G NR RedCap stack of ns3-lena-redcap

The repository is ns-3.38 with a modified 5G-LENA module (`contrib/nr`) that
adds what Reduced Capability (RedCap) devices need: a real random access
procedure with PRACH occasions and collisions, RRC inactive with suspension and
resume, small data transmission, paging with eDRX, a scheduling-request machine
with timers, a resource manager with search spaces, and an energy model. This
directory holds TLA+ specifications of that added control logic, TLC runs that
check them on small instances and TLAPS proofs for all instances. File names
below are relative to `src/ns-3.38/contrib/nr/model/`.

ns-3 is a discrete-event simulator: there is one thread, and "concurrency" is
the order in which events of different nodes and layers are executed. The hard
behaviours are those of a distributed protocol all the same: messages of other
nodes arrive between any two events, timers race them, an event that was
scheduled without keeping its `EventId` cannot be cancelled, and a
`NS_FATAL_ERROR` or `NS_ASSERT` on an unforeseen order ends a simulation that
may have run for days.

## 1. Inventory

| Component | State | Operations | Talks to |
|---|---|---|---|
| UE MAC, SR/BSR (`nr-ue-mac.cc`) | `m_srState`, two timers, `m_ulBsrReceived`, `m_rnti` | buffer reports, slot indication, UL DCI, timeouts, reset | RLC (reports), PHY (slots, DCI, SR), RRC (setup, reset) |
| UE MAC, random access (`nr-ue-mac.cc`) | `m_startingRach`, `m_waitForPrachOcc`, `m_waitingForRaResponse`, counter, scheduled events | start, preamble, window, timeout, RAR, page | RRC (start, success), PHY (preamble, RAR, paging) |
| UE MAC, filling a grant | HARQ packet buffers | `SendRetxData`, `SendTxData`, `SendNewData`, `SendNewStatusData` | RLC |
| gNB MAC (`nr-gnb-mac.cc`) | preamble counts, `m_rapIdRntiMap`, SR/BSR/ack-DCI/paging lists | preamble, RAR, slot indications, paging | scheduler (SAP), RRC (temporary RNTIs), PHY |
| MAC scheduler (`nr-mac-scheduler-ns3.cc`) | `m_ueMap`, `m_srList`, `m_rachList`, LCGs, HARQ | configure/release UE, SR, BSR, RACH, UL/DL trigger | gNB MAC, resource manager, SRS |
| SRS (`nr-mac-scheduler-srs-default.cc`) | periodicity, free offsets | add/remove UE, increase, decrease | scheduler |
| LCG and BSR levels, resource manager, policies, AMC, HARQ vector | queue sizes, grids, process slots | assignment | scheduler |
| UE RRC (`nr-ue-rrc.cc`) | `m_state`, T300, bearers, suspend configuration, stored packets | connect, resume, small data, setup, reconfiguration, reject, release, T300 | MAC, NAS, gNB RRC |
| gNB RRC (`nr-gnb-rrc.cc`) | one `UeManagerNr` per RNTI: state, four timers | temporary RNTI, connection and resume request, setup complete, reconfiguration, release, paging | MAC, scheduler, EPC, UE RRC |
| RRC protocol (`nr-rrc-protocol-real.cc`) | the RLC and PDCP entities of a context | messages on SRB0 and SRB1 | both RRCs, RLC |
| RLC acknowledged mode (`../../../src/lte/model/lte-rlc-am.cc`) | three buffers and two windows per side, five timers, the segment kept | SDU, transmission opportunity, data and STATUS PDU, timeouts, `StopTimer` | PDCP, MAC, UE RRC (stop of a timer) |
| Bandwidth parts, PHY, spectrum, energy, channel access, helpers, RLC UM/TM, PDCP, EPC, ns-3 core | | | |

`PROJECT.json` lists all of them with their status and the reason where they
are left out, and under `hazards` the places that a test hardly reaches. What
makes the parts correct, in a sentence each:

* SR/BSR: data that the RLC reported is eventually granted; no timer fires in a
  state that does not expect it; nothing survives a connection.
* Random access: a started procedure ends; a RAR is used by the UE whose
  preamble it answers; temporary contexts are reclaimed.
* Scheduler: it only knows UEs that exist; no request is lost; SRS resources
  are conserved.
* RRC: UE and gNB agree on the state of a connection, or come to agree again
  after every loss and timeout; no message or timer meets an unforeseen state.
* RLC AM: SDUs arrive whole, once and in order, and all of them arrive.

## 2. Modules

| Module | Models | Uses |
|---|---|---|
| `NrUeMacSr` | SR/BSR machine of the UE MAC, with an unconstrained environment | |
| `NrUeMacRa` | random access of the UE MAC and the RRC states that start and consume it | |
| `NrUeMac` | the UE MAC: both machines under one clock, one RNTI and one reset, with the RRC procedures above and the RLC report timer | EXTENDS both |
| `NrUlRequest` | SR, BSR and DCI between one UE, the gNB MAC's lists and the scheduler, with other UEs coming and going | EXTENDS `NrUeMacSr` |
| `NrMacSchedulerSrs` | SRS offsets and periodicity | |
| `NrPrach` | occasion numbering and RA-RNTI, as computed by the UE and by the gNB (pure operators) | |
| `NrRandomAccess` | several UEs contending for a cell, up to Msg3 and the first timers of the gNB RRC | EXTENDS `NrPrach` |
| `MCNrRandomAccess` | rows of the PRACH table for the runs | EXTENDS `NrRandomAccess` |
| `NrRrcProtocol` | the real RRC protocol as channels: SRB0 with losses, SRB1 in order, nothing for a removed context | |
| `NrUeRrc` | the UE RRC from camping on, with the NAS | EXTENDS `NrRrcProtocol` |
| `NrGnbRrc` | `UeManagerNr` for every RNTI, the paging and eDRX lists of the gNB MAC, the route of the EPC | EXTENDS `NrRrcProtocol` |
| `NrConnection` | abstract: the life of a connection as its two sides see it | |
| `NrRrc` | one UE RRC and the gNB RRC joined, with RARs, pages and data | EXTENDS `NrUeRrc`, `NrGnbRrc`; INSTANCE `NrConnection` |
| `LteRlcAm` | one direction of a bearer in RLC acknowledged mode, both ends | |
| `NrUeMacSrProofs`, `NrUeMacProofs`, `NrUlRequestProofs`, `NrMacSchedulerSrsProofs`, `NrRandomAccessProofs`, `NrConnectionProofs`, `NrRrcProofs`, `LteRlcAmProofs` | theorems | EXTENDS the modules named |

Conventions. Variables carry the member's name without `m_`. A definition whose
name ends like `...KeepsTimer` and whose comment starts with "Mutant of" is a
plausible error in the code that a run must detect; the specifications do not
use it. A fatal error is a state (`srFatal`, `raFatal`, `failed`, `fatal`) in
which nothing happens any more, so runs with such states do not check deadlock.
`cell_random_access`, in which no error is reachable, does, and so do the runs of
`NrRrc`, where a simulation that has ended stutters (`Ended`).

Time. An event scheduled by `Simulator::Schedule` is a countdown that is due at
0. Time does not advance past a due event, and events that are due at one
instant are executed in any order: ns-3 orders them by the time of their
scheduling, which the abstraction does not keep. An `EventId` that is
overwritten leaves an event that nothing can cancel: `orphanedTimeouts`, and
`startWaitingEvents` for the calls that never kept one.

**NrUeMacSr.** Buffer sizes are bounded numbers; what a grant takes out of the
queues (`ServedBy`) is any part of what was reported, because it depends on the
transport block size. `SrSlotIndication` moves the machine to ACTIVE even when
`SendSR` drops the SR for want of an RNTI, as the code does.

**NrUeMacRa.** Slots are numbered within a PRACH period, two per subframe. One
slot indication may send two preambles, because the code tests
`m_waitForPrachOcc` after it may have set it. `DoReset` cancels the response
timeout and nothing else of the procedure. `triggersOverlap`, chosen once for a
behaviour, tells whether a page or the RRC may start a procedure while another
is running; the properties say which of the two they need.

**NrUeMac.** `drbs` is the existence of data bearers. A suspended bearer keeps
its RLC entity, and the report timer of that entity keeps running;
`RlcReportsWhileNotConnected` tells whether such a queue can be non-empty.

**NrUlRequest.** One UE in detail; the others are SRs in the gNB's list and
members of `m_ueMap`. The slot of the gNB is one action with the order of the
code: SRs, BSRs, trigger. Whether a slot has symbols left and whether the
resource manager finds room is a choice. `puschLoses` tells whether transport
blocks are lost in a behaviour: UL HARQ feedback is discarded by
`NrGnbMac::DoSlotUlIndication`, so a lost block is lost for good.

**NrMacSchedulerSrs.** The shuffled vector of offsets is a set; the invariant
`OffsetsPartitioned` justifies that. The slot counter wraps at `CounterWrap`
(2^32 in the code).

**NrRandomAccess.** Time is in subframes. The UE MAC is reduced to its phases;
backing off is a free choice of the next PRACH subframe. Keys of the preamble
map, the `uint8_t` keys of `m_rapIdRntiMap` and the `uint8_t` occasion are kept
with their widths. `sender` is a history variable. The PRACH configuration is
chosen at the start from a set.

**NrUeRrc, NrGnbRrc, NrRrc.** Time is in steps of 10 ms, the delay of
`SendRrcSetupCompleted`, `ProcessRrcRelease` and `BwpSwitchCompleted`. The state of
a context is a record per RNTI; `NONE` is a missing entry of `m_ueMap`. Events
without `EventId` are countdowns of their own, and an overwritten one is kept as an
orphan. Handlers keep the order of the code: state test, assertions, timers,
messages, `SwitchToState`. A handler that meets a state without a case sets `fatal`
to its name. The RNTI is the first free one; a new connection comes with a new
temporary context, a resuming UE names its old one. RARs may be missed, Msg3 and
its answer lost; SRB1 is in order, as `LteRlcAm` shows that the RLC makes it.

**NrConnection** has two variables, `ue` and `net`. `UeMode` and `NetMode` of `NrRrc`
map the state of the UE RRC and that of the context of the RNTI it transmits with.

**LteRlcAm.** Bytes are numbered units and an SDU is an interval of them, so the
framing (which SDUs and segments a PDU holds, `FirstByte`, `LastByte`) is kept, and
headers and length indicators are not. A transmission opportunity has room for any
number of units up to a bound. Reassembly (`rx.reassembly`: the segment kept, the SN
expected, what PDCP got) takes the PDUs that leave the reception buffer one after the
other (`Reassembled`). The two MACs are one bit each: has the entity's
buffer been reported and not been forgotten since? The MAC takes off what it
granted, not what the RLC used, so after an opportunity that bit may be lost. PDUs
stay in order in the uplink, where HARQ feedback is discarded; in the downlink one
data PDU may be overtaken by the next, if they are less than a window apart. Several
STATUS PDUs may be on their way: t-StatusProhibit only separates two, and the scenario
sets it to 0. They keep their order unless `StatusOvertakes`, a matter of
configuration: HARQ would have to hold one back for longer than t-StatusProhibit. The
LTE schedulers, which use the same RLC, repeat a downlink block up to three times, each
7 ms or more after the last, and can; NR's resource manager repeats no block, whatever
`EnableHarqReTx` says (`nr-mac-scheduler-ns3.cc:2695` and `3695` are commented out; the
scheduling without it, `LegacyScheduling`, is not modelled). Overtaken data is therefore
more than NR does by itself, and the properties hold with it. `SwitchBwp` is what a switch of the bandwidth part does to an entity of SRB1:
the UE MAC is reset without transferring its buffer status, and t-PollRetransmit is
stopped.

## 3. Runs

| Run | Result | Distinct states | Shows |
|---|---|---|---|
| `ue_mac` | pass | 513 402 | both SR timers match the state and the fatal error of `DciReceptionTimeout` is unreachable; one phase of random access at a time without overlap; a procedure the RRC waits for is never forgotten and ends; nothing of the SR machine or the RNTI survives a release, a suspension or T300 |
| `paging_during_access` | violation | | a page that comes after the UE began to connect ends the simulation |
| `ue_mac_stale_rlc` | violation | | a non-empty RLC queue of a suspended bearer makes the next RRC setup fatal |
| `ul_request` | pass | about 407 000 | no lost wake-up, `m_srList` only holds known UEs, requests are answered, grants keep coming |
| `srs` | pass | about 124 000 | SRS slots are neither shared nor lost; every UE is sounded again and again |
| `cell_random_access` | pass | 629 040 | RARs are used by their senders only, and by them; no unforeseen RRC event; contexts are reclaimed |
| `prach_seven_nine` | violation | | with PRACH subframes 7 and 9 the UE and the gNB compute different RA-RNTIs |
| `rrc` | pass | 312 544 | connections that the UE starts: no handler meets an unforeseen state, every event fits what it will find, UE and gNB agree, `NrRrc` implements `NrConnection`, attempts end, stored data leaves |
| `rrc_downlink` | pass | 568 020 | with downlink data and paging: the only errors are `DownlinkErrors`, every page has a cycle, the EPC never sends to a removed context |
| `rrc_retry` | violation | | after T300 the UE camps for ever, although the comment promises that it tries again at once |
| `rlc_am` | pass | 698 676 | in-order delivery, no failed assertion, buffers and windows that agree, and arrival of every SDU, through a loss, overtaken data, two STATUS PDUs on their way, early timeouts and a switch of the bandwidth part |
| `rlc_am_late_status` | violation | | a STATUS PDU that was overtaken by the next acknowledges an SN behind VT(A) and frees PDUs that were never received |

Every property of a passing run has a mutant of the code model that breaks it.

### Bounds

* Timers are shortened (100 ms to 1-3 slots, 30 ms to 1-2): what matters is
  that each may expire before or after every other event. The windows of
  `NrRandomAccess` (1 and 11 ms, 15 ms request timer) are the real ones.
* One or two logical channels and queues of 0 to 2: the machine only
  distinguishes no report, empty and not empty.
* A PRACH period of four to six slots with one PRACH subframe has slots before,
  at and after the occasion and a response window that ends in each of them.
  Three preambles reach a retry that succeeds and the limit.
* `NrUlRequest`: two SRs in a list are enough for one behind another; two DCIs
  and two BSRs in flight for a second one to overtake the knowledge of the
  first. `MaxLateSrs` bounds the SRs of removed UEs.
* `NrMacSchedulerSrs`: periodicities 2 and 3 with four UEs fill both, and
  reach the assertion that no larger one is left. A counter that wraps at 8 is
  no multiple of 3, as 2^32 is none of the table's periodicities.
* `NrRandomAccess`: two UEs, two preambles, two frequency-domain occasions, two
  preambles each: same and different preamble in same and different occasions,
  and a retry while the context of the first attempt is still there.
* `NrRrc`: one UE. Durations keep the order of the defaults (request timer shorter
  than setup timer, setup timer longer than `MaxDelay`, shorter than T300). Three
  RNTIs hold a suspended context, a temporary one and one whose RAR was missed; two
  do with downlink data. One packet stored or buffered, two failed attempts
  (`ConnEstFailLimit`).
* `LteRlcAm`: numbers modulo 4 and windows of 2 keep the ratio of 1024 and 512, so
  VT(S) and VR(H) wrap around in the run. Two SDUs of two units in opportunities of
  one or two units give whole SDUs, first and last segments, and PDUs with the end
  of one SDU and the beginning of the next. A buffer of three units discards an SDU.
  Timers that run out at any time repeat PDUs that were not lost and ask for STATUS PDUs
  again, so one loss, of data or of a STATUS PDU, meets every other event. Two STATUS PDUs
  on their way are what it takes for one to arrive after the window has moved, or to wait
  while the PDUs it reports are repeated. The theorems hold for any number of each. (With
  two losses TLC finds no error either, in 1 274 795 states, nor in the invariants with
  three STATUS PDUs and two losses, in 2 146 327.)

### Fairness

The simulator executes every scheduled event, so slots, ticks, due timers and
deliveries of messages are weakly fair. SIB1 is periodic. Beyond that:

* `NrUlRequest` assumes that a UE the scheduler believes to have bytes is served
  infinitely often if it is eligible infinitely often (strong fairness of a slot
  with room); this is the scheduler's round-robin promise. Strong fairness of
  `GnbReceivesSr` only undoes the bound on the list.
* The RLC report is fair while the queue is not empty and the machine INACTIVE:
  the `m_rbsTimer` of the RLC entities.
* `UeMacFairness`: the slots, ticks and due events of the UE MAC, and nothing of RARs,
  pages, uplink data or the RRC.
* `NrRrc`: weak fairness of `Proceed`, the simulator's own progress (time, due events,
  deliveries). `rrc_retry` also gives the broadcast of system information fairness, so
  that the UE cannot be said to wait for it.
* `LteRlcAm`: timers run out and blocks arrive or are lost (weak); a buffer that has
  been reported again and again gets the largest opportunity again and again (strong).
  Losses are bounded by `MaxLosses`, so "no PDU is lost for ever" needs no assumption.

## 4. Proofs

The theorems are proved from the ASSUMEs of the modules: sizes are
positive, the response window begins before it ends, PRACH subframes lie in the
period, the start periodicity is in the table, durations are natural numbers. In
`NrRandomAccess` the window opens after at most 2 ms and closes after at most 11
(`SendRaPreamble` fixes 1 and 11), and the gNB answers within it. Where a theorem has
a hypothesis of its own, it is named below.

* **SR machine** (`NrUeMacSrProofs`). `SrInductive` is the conjunction of the
  types, `SrTimersMatchState` and `NoDciTimeoutInOtherState`. The fatal error is
  excluded because a timer of 0 is a running timer, which fixes the state; the
  types are needed so that counting down cannot turn a stopped timer into a
  running one.
* **Random access of the UE** (`NrUeMacProofs`, first part). `RaNeverForgotten` becomes inductive
  with the types and with `CounterWithinLimit` (the counter passes the limit
  only in the step that ends the run). The argument goes through the phases: a
  slot turns "starting" into "waiting" or into a scheduled timeout, a timeout
  into "starting", "waiting" or another timeout, and only a RAR or the RRC ends
  the wait. Orphaned timeouts do no harm to this property because each of them
  leaves one of the three behind. `OnePhaseAtATime` needs more: `Phases` says for
  each phase which of the flags and events exist, and that an event that starts the
  wait is earlier than the timeout of the same preamble. It is inductive only while
  triggers do not overlap (`PhasesUnlessOverlap`), and then also gives
  `RaSuccessIsExpected`: the overlap `paging_during_access` finds is the only way to
  break it (`RaSuccessExpectedUnlessOverlap`).
* **UE MAC** (`NrUeMacProofs`, second part). Every step of the composition is a step or a
  stutter of each part (`NextIsSrStep`, `NextIsRaStep`), so the invariants of
  the parts are invariants of the whole, and `UeMacImplementsSr` says that the
  composition implements the SR machine's specification; `UeMacTypeCorrect` joins
  the types of the parts. `RntiMatchesRrc` is
  inductive by itself. `SrQuietUnlessConnected` and `SetupFindsSrInactive` are
  proved together, with the type of the buffer status from `SrInductive`, under
  the hypothesis that suspended queues are empty; `ue_mac_stale_rlc` shows that
  the hypothesis is needed.
* **Uplink requests** (`NrUlRequestProofs`). `SrListIsKnown` holds step by step, but
  `DemandIsSignalled` is not inductive: it must hold of a machine that waits for a
  grant whether bytes are queued or not (the next report does not wake it up), and of
  several BSRs on their way only the last counts, because each overwrites what the
  scheduler knew (`LastWord`, `WaitsForSomething`). The timers come from the SR
  machine: its lemmas are used for the UE's half of each step.
* **Contention-based random access** (`NrRandomAccessProofs`). Why a RAR is for one
  UE only is a matter of time. Preambles of one subframe with one key collide and are
  not answered; a UE that used the same key in another frame is 10 ms older or
  younger, and the window has closed, or not opened, when the RAR arrives. `RaInv`
  says since when every preamble is where it is (`PreamblesOnTheirWay`), which UE
  waits for a RAR and that no UE of its age has the same key (`RarsHaveSenders`), that
  the contexts Msg3 can reach are new (`ContextsAreNew`), and that some function tells
  which preamble of which UE an RNTI answers (`Answers`, which bounds the RNTIs by the
  preambles). Two hypotheses: `PrachAgrees`, that UE and gNB derive the same RA-RNTI
  from an occasion and no two occasions of a frame share one, and `InsertsAreNew`, that
  no `m_rapIdRntiMap.insert` finds its `uint8_t` key taken. `RandomAccessFewRntis`
  meets the second for the first 256 RNTIs. `PrachAgreesInPlace` meets the first for
  every configuration in which occasion numbers fit 8 bits and `SfN.at(sf % size)` is
  sf. With four frequency-domain occasions 70 of the 105 rows of
  `PRACH_configurations.csv` that have PRACH in every frame and a number of slots are
  such; {7, 9} of `prach_seven_nine` is not.
* **SRS** (`NrMacSchedulerSrsProofs`). `NoSharedSrsSlot` is not inductive: a new
  UE gets an offset that must not be another UE's, so the invariant also has to
  say that free offsets are not in use (`OffsetsPartitioned`). Together with the
  types, `SrsInductive`.

* **Abstract connection** (`NrConnectionProofs`). `Agreement` is inductive together with
  the types: the network answers a UE that asked and forgets only attempts.
* **gNB RRC** (`NrRrcProofs`, first part). `GnbInductive` has the types of the contexts
  and three facts: a context in a suspended state has an eDRX cycle
  (`SuspendedHaveCycle`), the paging list holds only RNTIs with one, and the RNTI the
  bearers of the EPC lead to has a context (`BearersHaveContext`). The first makes the
  second inductive, because `SendData` queues a page only for a suspended context and
  only `SendRrcRelease` suspends. Each operation of the gNB has a lemma of its own, so
  the proof of the composition only distributes the steps of `NrRrc` over them; nothing
  is assumed of the UE, the delays or the losses. `RrcTypeCorrect` adds the types of the
  UE and of the channels, again without a hypothesis.
* **UE and gNB RRC together** (`NrRrcProofs`, second part). `NoUnexpectedEvent`,
  `EventsFitTheContext`, `EventsFitTheUe` and `ContextsAgree` follow from one joint
  invariant, `RrcInv`; none of them is inductive, not even all four together, because
  what a handler will find depends on the messages on their way. `RrcInv` adds: which
  events and flags a context has in each state (`Fits`); what SRB1 can hold for it
  (`DownFits`); that a context of a connection is the UE's own (`ServesUe`); that Msg3
  belongs to a temporary context and names one that waits for it, and that no two do
  (`Msg3sFit`); what an answer on SRB0 will find (`AnswersFit`); that a context is
  removed on request only after the UE has left it (`RemovalsFit`); and for every state
  of the UE the states its context can be in, with the one message of SRB1 in either
  direction (`ServingFits`). Two races are decided by time and therefore appear as
  sums: the setup timer against RrcSetup, the procedure delay and RrcSetupCompleted,
  and the inactivity timer against a reconfiguration (`AnswerFits`, `ConnectedFits`).
  The hypothesis is `UeInitiated`: no downlink data (`MaxBuffered = 0`; the run
  `rrc_downlink` shows what it can do) and `DurationsInOrder`, which is
  `ReleaseBwpSwitch <= ProcDelay` (10 ms each in the code), `MaxDelay <
  DataInactivityInterval` (50 ms; the comment at `nr-gnb-rrc.cc:196` reports trouble at
  30) and `2 * MaxDelay + ProcDelay < ConnectionSetupTimeoutDuration` (150 ms, which
  "must account for" the two messages, `nr-gnb-rrc.cc:2508`). The configuration of `rrc`
  satisfies it, and TLC finds violations once the release switch is longer, the setup
  timer shorter, or the inactivity timer half of `MaxDelay`. Nothing is assumed of the
  request and the rejection timers. Each step is shown to keep `RrcInv` unless it is
  `SendData` (`RrcInvKept`), so that the proof serves the fourth part as well.
* **Refinement of `NrConnection`** (`NrRrcProofs`, third part). With `RrcInv`, every
  step of `NrRrc` is a step of the abstract connection or leaves both modes alone; there
  is one lemma per group of actions. One more fact is needed: that the gNB answers only
  a UE that is still trying, because the abstract network answers nobody else.
  `AttemptsGuarded` says that T300 runs as long as Msg3 is on its way and has not used
  up more than the time Msg3 has waited; it is inductive if `MaxDelay < T300`
  (`T300IsLongEnough`; T300 is 2 s, at least 100 ms). `ContextsAgree` thus follows a
  second time, from `ConnectionAgrees`. The fairness of `NrRrc` plays no role:
  `NrConnection` is a safety specification.

* **With downlink data** (`NrRrcProofs`, fourth part). `OnlyDownlinkErrors` needs a joint
  invariant that survives pages at any time: the UE may then be released twice, a
  context may be connected again while its release is on its way, and most of `RrcInv`
  is gone. `PagedInv` is what remains of a RedCap UE. Of a context: its removing
  timeouts fit its state, and before its bearers exist nothing else is scheduled for it
  (`PagedFits`), so `RemoveUe` never meets an event that would outlive the context. Of
  the UE: whenever it has had bearers, its context has them too (`ServingPaged`,
  `Established`), so nothing that names a context finds none; of a UE that is being set
  up, exactly where RrcSetupCompleted is and how long the setup timer has run
  (`SettingUp`), so the setup never times out under it; of the releases it has received,
  that they suspend the connection it has and are over before T300 (`PendingReleases`),
  so the UE does not fall to idle and start a connection that an old release would end.
  Each action keeps `PagedInv` or ends the simulation with one of `DownlinkErrors`; which
  one, and from which state, the lemma of the action tells. A UE that is not RedCap never
  has a paging cycle, hence no suspended context (`NeverSuspended`): a downlink packet
  for it is delivered or is the error `SendData`, and otherwise `RrcInv` holds. The
  hypothesis `EveryoneIsAdmitted` is `DurationsInOrder`, `ProcDelay < T300` (10 ms and
  2 s), and that the gNB rejects nobody (`AdmitRrcConnectionRequest` is true by default).
  The last one is needed: a rejected resumption removes the context, and if a page
  started it the release that came before may still be received; the UE then resumes
  with an RNTI the gNB has forgotten (with `AdmitChoices = {TRUE, FALSE}` TLC finds the
  error `DoRecvRrcResumeRequest` in `rrc_downlink`). The configuration of
  `rrc_downlink` satisfies all three. That the list itself is not longer than it must be is
  not proved; it was found with TLC.
* **RLC AM** (`LteRlcAmProofs`). Sequence numbers wrap around, so nothing about their order
  is inductive. `IInv` says that *positions* exist, natural numbers that never wrap
  (`Positions`), for VT(A), VT(S), VR(R), VR(MS), VR(H), VR(X), every data PDU on its way
  and the ACK_SN of every STATUS PDU on its way, of which the state holds the remainders
  (`Pos`). They are in one order within
  one window (`WindowsAt`); each PDU has the units that follow those of the one before
  (`CutAt`); the buffers hold at each SN of their window the PDU of that position
  (`SenderAt`, `ReceiverAt`); what is on its way is less than a window from VR(H), from
  VT(S) and from what is behind it (`FlightAt`); each STATUS PDU is still true when it
  arrives (`Truthful`), has an ACK_SN from VT(A) on, and misses nothing that one sent before
  it acknowledges (`Precedes`; all in `StatusAt`); and what has been sent is received or kept (`KeptAt`). The
  assumption `SnModulus >= 2 * WindowSize` (1024 and 512) is what makes an SN stand for
  one position only: two candidates for it would be less than two windows apart. That
  PDUs on their way are less than a window apart is the guard of `Transmit`; with an
  exact half of the numbers it cannot be dropped (section 5). `ReceiverAt` says that
  `rx.reassembly` is what the units up to VR(R) make (`Delivered`), which gives
  `DeliveredInOrder`. What `Reassembled` and `FirstMissing` compute over any number of
  PDUs would take an induction: instead the least index at which a claim fails is
  taken (`NatMin`, from the library's well-foundedness of the naturals), and it fails at
  none. The theorems hold for any SDU size, opportunity, buffer, number of losses, data and
  STATUS PDUs on their way and switches of the bandwidth part. Beyond the ASSUME they have one
  hypothesis, `StatusesInOrder`: no STATUS PDU overtakes another (`RlcAmTypeCorrect` has it
  because all six follow from the one `IInv`). It is needed for a place in the order to exist
  for each ACK_SN; `rlc_am_late_status` shows a PDU lost without it.

Every invariant and action property of a passing run, and the refinement, is stated by a
theorem. Only model-checked, because the prover does not do liveness:
`RandomAccessEnds`, `RequestIsAnswered`, `GrantsKeepComing`, `EveryUeIsSounded`,
`ContextsAreReclaimed`, `AttemptsEnd`, `StoredDataLeaves`, `EverySduArrives`.

## 5. Findings and observations

The findings of `PROJECT.json` are the five violation runs. Observations that are
not contradictions of a stated intent:

* A BSR that is lost with its transport block, sent by a machine that is ACTIVE,
  leaves the UE with data, no timer and no BSR on its way. A new report of the RLC
  does not help, because it only moves a machine that is INACTIVE; the UE waits
  for a grant the scheduler gives it for another reason. `DemandIsSignalled` and
  `GrantsKeepComing` are therefore stated for behaviours without losses;
  `RequestIsAnswered` holds with them too.
* `m_rapIdRntiMap` has `uint8_t` keys for 16-bit RNTIs, and `insert` keeps an
  existing entry. With fewer than 256 allocations between two RARs this is
  harmless.
* The UE and gNB formulas for the RA-RNTI agree for the PRACH subframe sets
  {0..9}, {4,9}, {8,9}, {2,7} and single subframes, which include the
  configuration of the scenarios in `scratch/`.

* `DciReceptionTimeout` makes the SR machine INACTIVE over a queue that is not empty;
  the next report of the RLC starts it again. `DecreasePeriodicity`, which nothing
  calls, finds the current periodicity again and does not decrease it.
* Downlink data reaches handlers in states they have no case for (`DownlinkErrors`):
  a packet for a UE that was told to go idle (`nr-gnb-rrc.cc:1074`), a page in the
  middle of a resumption, and the release by an inactivity timer that
  `BwpSwitchCompleted` armed for a context that is being paged or resumed (its guard at
  `nr-gnb-rrc.cc:1471` asks for INACTIVE only, and line 1473 overwrites the `EventId`).
* An SR of a removed UE ends the loop over the list with `break`
  (`nr-mac-scheduler-ns3.cc:3810`), so the SRs behind it are dropped as well, although the
  log says that one is skipped; their UEs repeat them after the SR timer (`MergeSr`).
* After T300 the context of a UE whose resumption failed stays at the gNB for ever.
  After small data the gNB keeps the context INACTIVE_CONNECTING, where downlink data
  is buffered and no page is sent. Small data is erased before it is acknowledged.
* RLC AM: when a switch of the bandwidth part stops t-PollRetransmit and the PDUs on
  their way are lost, the entity waits for a new SDU, and for ever if its window is
  full; the fork no longer reports transmitted PDUs. `EverySduArrives` names this as
  its exception. Overtaking by more than a window would break delivery; the
  window of 512 keeps it away. With a window of exactly half the numbers, a repeated PDU that is
  overtaken by the first PDU of the next window is taken for a new one: it needs 512
  PDUs outstanding, and `Transmit` leaves it out.
* Filling a grant (`nr-ue-mac.cc:971`, `1022`) counts used bytes twice: after a STATUS or a
  retransmission PDU a single channel gets nothing more of the grant, and of two long
  queues the second is skipped, in the fixed order of the map.

## 6. Not modelled

Continuous signal models, scheduling policies and link adaptation (numerical,
without control state of their own), encoding of messages, scenario helpers and
stock ns-3 are out of scope. Within the modelled files: filling a grant byte by byte
and the HARQ packet buffers of the UE MAC; DL data, CQI and HARQ of the scheduler;
cell search, measurements, handover, radio link failure, X2 and carrier aggregation
inherited from LTE RRC; re-segmentation, which the RLC does not have; header sizes
and opportunities smaller than a header in the RLC.

## 7. Plan

In order of importance:

1. Bandwidth parts: the switch and its inactivity timer between UE, gNB and both RRCs,
   with the composition of `LteRlcAm` and `NrRrc` on SRB1.
2. Pure algorithms against reference definitions: BSR levels, logical channel
   groups, the division of a grant, occasion numbering over the whole table,
   the HARQ process vector, `SfnSf` arithmetic.
3. The power states of the energy model, the resource manager's grid on a small
   instance.
