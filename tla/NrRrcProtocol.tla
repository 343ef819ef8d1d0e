--------------------------- MODULE NrRrcProtocol ---------------------------
(***************************************************************************)
(* The RRC messages between one UE and its cell (nr-rrc-protocol-real.cc), *)
(* and what NrUeRrc and NrGnbRrc share: RNTIs, countdowns and the error    *)
(* that ends the simulation.                                               *)
(*                                                                         *)
(* SRB0 (RLC TM) carries Msg3 up and RrcSetup and RrcConnectionReject      *)
(* down; what its HARQ process gives up is lost.  SRB1 (RLC AM) delivers   *)
(* in order and loses nothing while the MAC of the UE has the RNTI of the  *)
(* context that sent it.  Delays are arbitrary.                            *)
(***************************************************************************)
EXTENDS Integers, Sequences

CONSTANTS
    Rntis,       \* the RNTIs the cell can give to the UE (bound)
    ProcDelay    \* RRC procedure delay of the UE (10 ms)

ASSUME RrcProtocolAssumption ==
    /\ Rntis \subseteq Nat \ {0}
    /\ ProcDelay \in Nat \ {0}

VARIABLES
    ccchUp,      \* Msg3 on its way: RrcConnectionRequest or RrcResumeRequest
    ccchDown,    \* RrcSetup and RrcConnectionReject on their way
    dcchUp,      \* SRB1 towards the gNB
    dcchDown,    \* SRB1 of every context towards the UE
    removals,    \* SendIdealUeContextRemoveRequest, scheduled with no delay
    fatal        \* the NS_FATAL_ERROR, or the access to nothing, that ended the run

messages == <<ccchUp, ccchDown, dcchUp, dcchDown, removals>>

NoRnti == 0
Off == -1                                   \* an event that is not scheduled

\* Mutant of Countdown: an event runs on after it was due.
CountdownRunsOn(t) == t - 1

Countdown(t) == IF t > 0 THEN t - 1 ELSE t
IsRunning(t) == t # Off

CcchDownTypes == {"RrcSetup", "RrcConnectionReject"}
DcchDownTypes == {"RrcReconfiguration", "RrcResume", "RrcRelease", "RrcReleaseSuspend"}
DcchUpTypes == {"RrcSetupCompleted", "RrcResumeComplete", "RrcReconfigurationCompleted"}

AnyRnti == Rntis \cup {NoRnti}

ChannelsOK ==
    /\ ccchUp \subseteq [rnti : Rntis, resumeIdentity : AnyRnti, sdt : BOOLEAN]
    /\ ccchDown \subseteq [type : CcchDownTypes, rnti : Rntis]
    /\ dcchUp \in Seq([type : DcchUpTypes, rnti : AnyRnti])
    /\ dcchDown \in [Rntis -> Seq(DcchDownTypes)]
    /\ removals \subseteq AnyRnti

ChannelsInit ==
    /\ ccchUp = {} /\ ccchDown = {} /\ removals = {}
    /\ dcchUp = << >>
    /\ dcchDown = [r \in Rntis |-> << >>]
    /\ fatal = "none"

-----------------------------------------------------------------------------
\* DoSendRrcConnectionRequest, DoSendRrcResumeRequest: SRB0, as Msg3.  A
\* connection request carries no resume identity.
SendMsg3(r, id, sdt) ==
    ccchUp' = ccchUp \cup {[rnti |-> r, resumeIdentity |-> id, sdt |-> sdt]}

\* DoSendRrcConnectionSetupCompleted and its like: SRB1.
SendUp(type, r) == dcchUp' = Append(dcchUp, [type |-> type, rnti |-> r])

\* DoSendRrcSetup, DoSendRrcConnectionReject.
SendCcchDown(type, r) == ccchDown' = ccchDown \cup {[type |-> type, rnti |-> r]}

\* DoSendRrcReconfiguration, DoSendRrcResume, DoSendRrcRelease.
SendDown(type, r) == dcchDown' = [dcchDown EXCEPT ![r] = Append(@, type)]

\* The next message of an SRB1 is handed to its receiver.
ReceiveUp(type, r) ==
    /\ dcchUp # << >>
    /\ Head(dcchUp) = [type |-> type, rnti |-> r]
    /\ dcchUp' = Tail(dcchUp)

\* DoRemoveUe of the protocol and RemoveUe of the MAC: nothing is transmitted to
\* the context's UE any more.
DropChannels(r) ==
    /\ ccchDown' = {m \in ccchDown : m.rnti # r}
    /\ dcchDown' = [dcchDown EXCEPT ![r] = << >>]

\* HARQ gives a transport block of SRB0 up.
LoseCcch ==
    /\ \/ \E m \in ccchUp : ccchUp' = ccchUp \ {m} /\ UNCHANGED ccchDown
       \/ \E m \in ccchDown : ccchDown' = ccchDown \ {m} /\ UNCHANGED ccchUp
    /\ UNCHANGED <<dcchUp, dcchDown, removals, fatal>>
=============================================================================
