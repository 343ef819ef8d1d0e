------------------------- MODULE NrConnectionProofs -------------------------
(***************************************************************************)
(* The abstract connection keeps its two sides in agreement, so whatever   *)
(* implements it does.                                                     *)
(***************************************************************************)
EXTENDS NrConnection, TLAPS

Inductive == TypeOK /\ Agreement

\* Agreement is inductive together with the types: what the network answers it
\* answers to a UE that asked, and it forgets only attempts.
LEMMA NextInductive == Inductive /\ [Next]_vars => Inductive'
<1> SUFFICES ASSUME Inductive, [Next]_vars PROVE Inductive'
    OBVIOUS
<1> USE DEF Inductive, TypeOK, Agreement, UeModes, NetModes
<1>u. CASE UNCHANGED vars
    BY <1>u DEF vars
<1>1. CASE Request \/ Resume
    BY <1>1 DEF Request, Resume
<1>2. CASE Answer
    BY <1>2 DEF Answer
<1>3. CASE Establish \/ Confirm
    BY <1>3 DEF Establish, Confirm
<1>4. CASE Fail
    BY <1>4 DEF Fail
<1>5. CASE Expire
    BY <1>5 DEF Expire
<1>6. CASE Release
    BY <1>6 DEF Release
<1>7. CASE ReceiveRelease
    BY <1>7 DEF ReceiveRelease
<1>8. CASE Leave
    BY <1>8 DEF Leave
<1> QED BY <1>u, <1>1, <1>2, <1>3, <1>4, <1>5, <1>6, <1>7, <1>8 DEF Next

\* The modes of both sides are modes.
THEOREM ConnectionTypeCorrect == Spec => []TypeOK
<1>1. Init => Inductive
    BY DEF Init, Inductive, TypeOK, Agreement, UeModes, NetModes
<1>2. Inductive => TypeOK
    BY DEF Inductive
<1> QED BY <1>1, <1>2, NextInductive, PTL DEF Spec

\* A connected, released or suspended UE has a context that fits: neither side
\* of a connection acts behind the other's back (UeManagerNr and NrUeRrc).
THEOREM ConnectionAgrees == Spec => []Agreement
<1>1. Init => Inductive
    BY DEF Init, Inductive, TypeOK, Agreement, UeModes, NetModes
<1>2. Inductive => Agreement
    BY DEF Inductive
<1> QED BY <1>1, <1>2, NextInductive, PTL DEF Spec
=============================================================================
