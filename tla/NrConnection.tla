---------------------------- MODULE NrConnection ----------------------------
(***************************************************************************)
(* What the two RRC entities promise each other: the life of a connection  *)
(* as the UE sees it (ue) and as the context that serves the UE does       *)
(* (net), without messages, timers or RNTIs.  NrRrc implements it as long  *)
(* as every connection is started by the UE.                               *)
(***************************************************************************)
VARIABLES ue, net

UeModes == {"Idle", "Connecting", "Connected", "Released", "Suspended", "Resuming"}
NetModes == {"None", "Asked", "Admitted", "Refused", "Suspended", "Resuming", "Released"}

Init == ue = "Idle" /\ net = "None"

\* The UE asks with a new context; what became of an earlier one is forgotten.
Request == ue = "Idle" /\ ue' = "Connecting" /\ net' = "Asked"

\* A suspended UE asks for its context back.
Resume ==
    /\ ue = "Suspended" /\ net \in {"Suspended", "Resuming"}
    /\ ue' = "Resuming" /\ UNCHANGED net

\* The network answers what it was asked.
Answer ==
    /\ \/ ue = "Connecting" /\ net = "Asked" /\ net' \in {"Admitted", "Refused"}
       \/ /\ ue = "Resuming" /\ net \in {"Suspended", "Resuming"}
          /\ net' \in {"Resuming", "Refused"}
    /\ UNCHANGED ue

\* The UE hears of it.
Establish ==
    /\ \/ ue = "Connecting" /\ net = "Admitted"
       \/ ue = "Resuming" /\ net = "Resuming"
    /\ ue' = "Connected" /\ UNCHANGED net

\* The network hears that a resumed UE is back.
Confirm == ue = "Connected" /\ net = "Resuming" /\ net' = "Admitted" /\ UNCHANGED ue

\* The UE gives an attempt up; the network may not know.
Fail ==
    /\ ue \in {"Connecting", "Resuming"}
    /\ ue' = "Idle" /\ net' \in {net, "None"}

\* The network forgets an attempt that did not succeed, never a connection.
Expire ==
    /\ net \in {"Asked", "Admitted", "Refused"}
    /\ ue \in {"Idle", "Connecting", "Resuming"}
    /\ net' = "None" /\ UNCHANGED ue

\* The network ends the connection of a connected UE.
Release ==
    /\ ue = "Connected" /\ net = "Admitted"
    /\ net' \in {"Suspended", "Released"} /\ UNCHANGED ue

\* The UE hears of it, or of the end of its small data transmission.
ReceiveRelease ==
    /\ \/ ue = "Connected" /\ net \in {"Suspended", "Released"}
       \/ ue = "Resuming" /\ net = "Resuming"
    /\ ue' = "Released" /\ UNCHANGED net

\* The UE acts on it.
Leave ==
    /\ ue = "Released"
    /\ \/ net \in {"Suspended", "Resuming"} /\ ue' = "Suspended" /\ UNCHANGED net
       \/ net = "Released" /\ ue' = "Idle" /\ net' = "None"

Next ==
    \/ Request \/ Resume \/ Answer \/ Establish \/ Confirm \/ Fail
    \/ Expire \/ Release \/ ReceiveRelease \/ Leave

vars == <<ue, net>>
Spec == Init /\ [][Next]_vars

-----------------------------------------------------------------------------
TypeOK == ue \in UeModes /\ net \in NetModes

\* A UE that is connected, released or suspended has a context, in a state that
\* fits: the network neither forgets a connection nor resumes one behind the
\* UE's back.
Agreement ==
    /\ ue = "Connected" => net \in {"Admitted", "Resuming", "Suspended", "Released"}
    /\ ue = "Released" => net \in {"Suspended", "Resuming", "Released"}
    /\ ue = "Suspended" => net \in {"Suspended", "Resuming"}
    /\ ue = "Resuming" => net \in {"Suspended", "Resuming", "Refused", "None"}
    /\ net = "Released" => ue \in {"Connected", "Released"}
=============================================================================
