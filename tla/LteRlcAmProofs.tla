--------------------------- MODULE LteRlcAmProofs ---------------------------
(***************************************************************************)
(* The acknowledged mode delivers what was submitted, for every modulus of *)
(* at least two windows, every size of SDUs and opportunities and any      *)
(* number of data and STATUS PDUs on their way, and none of its assertions *)
(* fails, provided that no STATUS PDU overtakes another.                   *)
(*                                                                         *)
(* Sequence numbers wrap around, the argument is about positions that do   *)
(* not: the p-th PDU the sender numbers has the position p and the SN      *)
(* Pos(p).  The invariant says that positions g exist for the state        *)
(* variables of both sides, for the PDUs on their way and for the ACK_SNs  *)
(* of the STATUS PDUs, in an order and close enough that an SN stands for  *)
(* one of them only (At(g)).  The module has the arithmetic of positions,  *)
(* what reassembly makes of PDUs in sequence, then each action.            *)
(* What a recursive function or a CHOOSE of the least computes is proved   *)
(* with the least element of a set of naturals (NatMin).                   *)
(***************************************************************************)
EXTENDS LteRlcAm, WellFoundedInduction, SequenceTheorems, TLAPS

(***************************************************************************)
(* Arithmetic                                                              *)
(***************************************************************************)
\* The least element of a set of naturals: what induction rests on here.
LEMMA NatMin ==
    ASSUME NEW T \in SUBSET Nat, T # {}
    PROVE  \E x \in T : \A y \in T : x <= y
<1> DEFINE R == {ss \in Nat \X Nat : ss[1] < ss[2]}
<1>1. IsWellFoundedOn(R, Nat)
    BY ONLY NatLessThanWellFounded, Zenon DEF OpToRel
<1>2. \A x, y \in Nat : y < x => <<y, x>> \in R
    OBVIOUS
<1> HIDE DEF R
<1>3. T \subseteq Nat
    OBVIOUS
<1>4. PICK x \in T : \A y \in T : <<y, x>> \notin R
    BY ONLY <1>1, <1>3, T # {}, WFMin
<1>5. ASSUME NEW y \in T PROVE x <= y
    <2>1. x \in Nat /\ y \in Nat /\ ~(y < x)
        BY ONLY <1>2, <1>3, <1>4, x \in T, y \in T
    <2> QED BY ONLY <2>1
<1> QED BY <1>5

\* Quotient and remainder.
LEMMA DivMod ==
    ASSUME NEW m \in Nat \ {0}, NEW a \in Int
    PROVE  a % m \in 0..(m - 1) /\ a \div m \in Int /\ a = m * (a \div m) + (a % m)
OBVIOUS

\* They are the only ones.
LEMMA ModUnique ==
    ASSUME NEW m \in Nat \ {0}, NEW a \in Int, NEW q \in Int, NEW r \in 0..(m - 1),
           a = m * q + r
    PROVE  a % m = r /\ a \div m = q
OBVIOUS

\* A product distributes over a sum and a difference.
LEMMA Distributes ==
    ASSUME NEW m \in Int, NEW u \in Int, NEW q \in Int
    PROVE  /\ m * u \in Int /\ m * q \in Int
           /\ m * (u - q) = m * u - m * q
           /\ m * (u + q) = m * u + m * q
OBVIOUS

\* A term of a sum may be reduced before the sum is.
LEMMA ModShift ==
    ASSUME NEW m \in Nat \ {0}, NEW a \in Int, NEW b \in Int
    PROVE  /\ ((a % m) + b) % m = (a + b) % m
           /\ (b - (a % m)) % m = (b - a) % m
           /\ ((b % m) - a) % m = (b - a) % m
<1> DEFINE q == a \div m
           p == b \div m
           u == (a + b) \div m
           v == (b - a) \div m
           A == a % m
           B == b % m
           U == (a + b) % m
           V == (b - a) % m
<1>0. m \in Int /\ a + b \in Int /\ b - a \in Int
    OBVIOUS
<1>1. A \in 0..(m - 1) /\ q \in Int /\ a = m * q + A
    BY DivMod
<1>2. U \in 0..(m - 1) /\ u \in Int /\ a + b = m * u + U
    BY <1>0, DivMod
<1>3. V \in 0..(m - 1) /\ v \in Int /\ b - a = m * v + V
    BY <1>0, DivMod
<1>9. B \in 0..(m - 1) /\ p \in Int /\ b = m * p + B
    BY DivMod
<1> HIDE DEF q, p, u, v, A, B, U, V
<1>4. A + b = m * (u - q) + U /\ u - q \in Int /\ A + b \in Int
    BY ONLY <1>0, <1>1, <1>2, a \in Int, b \in Int, Distributes
<1>5. b - A = m * (v + q) + V /\ v + q \in Int /\ b - A \in Int
    BY ONLY <1>0, <1>1, <1>3, a \in Int, b \in Int, Distributes
<1>6. B - a = m * (v - p) + V /\ v - p \in Int /\ B - a \in Int
    BY ONLY <1>0, <1>9, <1>3, a \in Int, b \in Int, Distributes
<1>7. (A + b) % m = U
    BY <1>2, <1>4, ModUnique
<1>8. (b - A) % m = V /\ (B - a) % m = V
    BY <1>3, <1>5, <1>6, ModUnique
<1> QED BY <1>7, <1>8 DEF A, B, U, V

(***************************************************************************)
(* Positions                                                               *)
(***************************************************************************)
\* The SN of the PDU at a position: the sender numbers its PDUs 0, 1, 2, ...
Pos(p) == p % SnModulus

\* What the proofs need of the constants.
LEMMA Constants ==
    /\ SnModulus \in Nat \ {0} /\ WindowSize \in Nat \ {0} /\ SnModulus >= 2 * WindowSize
    /\ WindowSize < SnModulus
    /\ SduSize \in Nat \ {0} /\ MaxSdus \in Nat \ {0} /\ MaxTxBuffer \in Nat \ {0}
    /\ MaxOpportunity \in Nat \ {0} /\ MaxInFlight \in Nat \ {0}
    /\ MaxSwitches \in Nat /\ MaxLosses \in Nat
<1>1. \A n \in {SduSize, MaxSdus, MaxTxBuffer, MaxOpportunity, MaxInFlight} : n \in Nat \ {0}
    BY RlcAmAssumption
<1>2. SnModulus \in Nat \ {0} /\ WindowSize \in Nat \ {0} /\ SnModulus >= 2 * WindowSize
    BY RlcAmAssumption
<1>3. MaxSwitches \in Nat /\ MaxLosses \in Nat
    BY RlcAmAssumption
<1>4. WindowSize < SnModulus
    BY ONLY <1>2
<1>5. /\ SduSize \in Nat \ {0} /\ MaxSdus \in Nat \ {0} /\ MaxTxBuffer \in Nat \ {0}
      /\ MaxOpportunity \in Nat \ {0} /\ MaxInFlight \in Nat \ {0}
    BY <1>1, Zenon
<1> QED BY ONLY <1>2, <1>3, <1>4, <1>5, Zenon

\* A position has a sequence number.
LEMMA PosIsSn == ASSUME NEW p \in Int PROVE Pos(p) \in Sns
BY DivMod, Constants DEF Pos, Sns

\* Going on by n numbers is going on by n positions.
LEMMA PlusPos ==
    ASSUME NEW p \in Int, NEW n \in Int
    PROVE  Plus(Pos(p), n) = Pos(p + n)
BY ModShift, Constants DEF Pos, Plus

\* The distance of two numbers is that of their positions, reduced.
LEMMA DistanceMod ==
    ASSUME NEW p \in Int, NEW q \in Int
    PROVE  Distance(Pos(p), Pos(q)) = (q - p) % SnModulus
<1>1. (Pos(q) - Pos(p)) % SnModulus = (Pos(q) - p) % SnModulus
    <2>1. Pos(q) \in Int BY PosIsSn, Constants DEF Sns
    <2> QED BY <2>1, ModShift, Constants DEF Pos
<1>2. (Pos(q) - p) % SnModulus = (q - p) % SnModulus
    BY ModShift, Constants DEF Pos
<1> QED BY <1>1, <1>2 DEF Distance

\* Positions that are less than the modulus apart have their own distance, or, the
\* other way around, what is missing to the modulus.
LEMMA DistancePos ==
    ASSUME NEW p \in Int, NEW q \in Int
    PROVE  /\ 0 <= q - p /\ q - p < SnModulus => Distance(Pos(p), Pos(q)) = q - p
           /\ q - p < 0 /\ 0 <= q - p + SnModulus =>
                  Distance(Pos(p), Pos(q)) = q - p + SnModulus
<1>1. ASSUME 0 <= q - p, q - p < SnModulus
      PROVE  (q - p) % SnModulus = q - p
    BY <1>1, Constants, ModUnique, q - p = SnModulus * 0 + (q - p)
<1>2. ASSUME q - p < 0, 0 <= q - p + SnModulus
      PROVE  (q - p) % SnModulus = q - p + SnModulus
    BY <1>2, Constants, ModUnique, q - p = SnModulus * (-1) + (q - p + SnModulus)
<1> QED BY <1>1, <1>2, DistanceMod

\* Positions that are less than the modulus apart have different numbers.
LEMMA PosInjective ==
    ASSUME NEW p \in Int, NEW q \in Int, Pos(p) = Pos(q),
           q - p < SnModulus, p - q < SnModulus
    PROVE  p = q
<1>1. Distance(Pos(p), Pos(q)) = 0
    BY DistancePos, Constants
<1> QED BY <1>1, DistancePos, Constants

\* From a position on, every number has a position.
LEMMA PositionOf ==
    ASSUME NEW p \in Int, NEW sn \in Sns
    PROVE  /\ Distance(Pos(p), sn) \in 0..(SnModulus - 1)
           /\ Pos(p + Distance(Pos(p), sn)) = sn
<1>1. Pos(sn) = sn
    BY Constants DEF Pos, Sns
<1>2. sn \in Int
    BY Constants DEF Sns
<1>3. Distance(Pos(p), sn) = (sn - p) % SnModulus
    BY <1>1, <1>2, DistanceMod
<1>4. (((sn - p) % SnModulus) + p) % SnModulus = ((sn - p) + p) % SnModulus
    BY <1>2, sn - p \in Int, ModShift, Constants
<1>5. (sn - p) + p = sn
    BY <1>2
<1>6. (sn - p) % SnModulus \in 0..(SnModulus - 1)
    BY <1>2, DivMod, Constants
<1>7. Pos(((sn - p) % SnModulus) + p) = sn
    BY <1>1, <1>4, <1>5 DEF Pos
<1>8. ((sn - p) % SnModulus) + p = p + ((sn - p) % SnModulus)
    BY <1>6, Constants
<1> QED BY <1>3, <1>6, <1>7, <1>8

(***************************************************************************)
(* Reassembly                                                              *)
(***************************************************************************)
\* The units from a to b.
Run(a, b) == [k \in 1..(b - a + 1) |-> a + k - 1]

\* What reassembly has made of the first c units, when it waits for the SN e.
Delivered(c, e) ==
    [keepS0   |-> Run((c \div SduSize) * SduSize + 1, c),
     expected |-> e,
     sdus     |-> [i \in 1..(c \div SduSize) |-> Sdu(i)],
     error    |-> FALSE]

\* A run is a sequence, of the length b - a + 1.
LEMMA RunIsSeq ==
    ASSUME NEW a \in Int, NEW b \in Int, a <= b + 1
    PROVE  Run(a, b) \in Seq(Int) /\ Len(Run(a, b)) = b - a + 1
           /\ \A k \in 1..(b - a + 1) : Run(a, b)[k] = a + k - 1
BY DEF Run

\* A run that ends before it begins is empty.
LEMMA RunEmpty == ASSUME NEW a \in Int PROVE Run(a, a - 1) = << >>
BY RunIsSeq, EmptySeq DEF Run

\* Two runs that meet are one.
LEMMA RunConcat ==
    ASSUME NEW a \in Int, NEW b \in Int, NEW c \in Int, a <= b + 1, b <= c
    PROVE  Run(a, b) \o Run(b + 1, c) = Run(a, c)
<1> DEFINE x == Run(a, b)
           y == Run(b + 1, c)
           z == Run(a, c)
<1>0. b + 1 \in Int /\ b + 1 <= c + 1 /\ a <= c + 1 /\ c - (b + 1) + 1 = c - b
    OBVIOUS
<1>1. /\ x \in Seq(Int) /\ Len(x) = b - a + 1
      /\ \A k \in 1..(b - a + 1) : x[k] = a + k - 1
    BY ONLY RunIsSeq, a \in Int, b \in Int, a <= b + 1
<1>2. /\ y \in Seq(Int) /\ Len(y) = c - (b + 1) + 1
      /\ \A k \in 1..(c - (b + 1) + 1) : y[k] = (b + 1) + k - 1
    BY ONLY RunIsSeq, <1>0, c \in Int
<1>3. /\ z \in Seq(Int) /\ Len(z) = c - a + 1
      /\ \A k \in 1..(c - a + 1) : z[k] = a + k - 1
    BY ONLY RunIsSeq, <1>0, a \in Int, c \in Int
<1> HIDE DEF x, y, z
<1>4. /\ x \o y \in Seq(Int) /\ Len(x \o y) = Len(x) + Len(y)
      /\ \A i \in 1..(Len(x) + Len(y)) :
            (x \o y)[i] = IF i <= Len(x) THEN x[i] ELSE y[i - Len(x)]
    BY ONLY <1>1, <1>2, ConcatProperties
<1>5. Len(x \o y) = c - a + 1
    BY <1>1, <1>2, <1>4
<1>6. ASSUME NEW k \in 1..(c - a + 1)
      PROVE  (x \o y)[k] = z[k]
    <2>1. CASE k <= b - a + 1
        BY <1>1, <1>2, <1>3, <1>4, <2>1
    <2>2. CASE k > b - a + 1
        <3>1. (x \o y)[k] = y[k - (b - a + 1)]
            BY <1>1, <1>2, <1>4, <2>2
        <3>2. k - (b - a + 1) \in 1..(c - (b + 1) + 1)
            BY <2>2
        <3>3. y[k - (b - a + 1)] = (b + 1) + (k - (b - a + 1)) - 1
            BY ONLY <1>2, <3>2
        <3>4. z[k] = a + k - 1
            BY ONLY <1>3, k \in 1..(c - a + 1)
        <3>5. (b + 1) + (k - (b - a + 1)) - 1 = a + k - 1
            OBVIOUS
        <3> QED BY ONLY <3>1, <3>3, <3>4, <3>5
    <2>3. k <= b - a + 1 \/ k > b - a + 1
        OBVIOUS
    <2> QED BY ONLY <2>1, <2>2, <2>3
<1>7. x \o y = z
    BY <1>3, <1>4, <1>5, <1>6, SeqEqual
<1> QED BY <1>7 DEF x, y, z

\* An SDU is the run of its units.
LEMMA SduIsRun ==
    ASSUME NEW i \in Int
    PROVE  Sdu(i) = Run((i - 1) * SduSize + 1, i * SduSize)
<1>1. (i - 1) * SduSize \in Int /\ i * SduSize \in Int /\ i * SduSize = (i - 1) * SduSize + SduSize
    BY Constants
<1> QED BY <1>1, Constants DEF Sdu, Run

\* The SDUs before the i-th have i * SduSize units.
LEMMA Multiples ==
    ASSUME NEW i \in Int, NEW j \in Int
    PROVE  /\ i * SduSize \in Int
           /\ (i + 1) * SduSize = i * SduSize + SduSize
           /\ (i - 1) * SduSize = i * SduSize - SduSize
           /\ i < j => i * SduSize + SduSize <= j * SduSize
           /\ i <= j => i * SduSize <= j * SduSize
<1> DEFINE S == SduSize
<1>1. S \in Nat /\ S >= 1
    BY Constants
<1> HIDE DEF S
<1>2. i < j => i * S + S <= j * S
    <2>1. SUFFICES ASSUME i < j PROVE (j - i) * S >= S
        BY ONLY <1>1, i \in Int, j \in Int
    <2>2. j - i \in Nat /\ j - i >= 1
        BY ONLY <2>1, i \in Int, j \in Int
    <2> QED BY ONLY <1>1, <2>2
<1>3. i * S \in Int /\ (i + 1) * S = i * S + S /\ (i - 1) * S = i * S - S
    BY ONLY <1>1, i \in Int
<1>4. i <= j => i * S <= j * S
    BY ONLY <1>1, <1>2, <1>3, i \in Int, j \in Int
<1> QED BY <1>2, <1>3, <1>4 DEF S

\* The bounds of the i-th SDU from the (f + 1)-th on lie between those of f and l.
LEMMA MultiplesBetween ==
    ASSUME NEW f \in Nat, NEW l \in Nat, NEW i \in 1..(l - f + 1)
    PROVE  /\ f + i - 1 \in f..l /\ f + i \in Int
           /\ (f + i - 1) * SduSize \in Int /\ (f + i) * SduSize \in Int
           /\ (f + i) * SduSize = (f + i - 1) * SduSize + SduSize
           /\ f * SduSize <= (f + i - 1) * SduSize /\ (f + i - 1) * SduSize <= l * SduSize
<1> DEFINE j == f + i - 1
<1>1. j \in Int /\ f <= j /\ j <= l /\ f + i = j + 1
    OBVIOUS
<1> HIDE DEF j
<1>2. /\ j * SduSize \in Int /\ (j + 1) * SduSize = j * SduSize + SduSize
      /\ f * SduSize <= j * SduSize /\ j * SduSize <= l * SduSize
    BY <1>1, Multiples
<1>3. (j + 1) * SduSize \in Int
    BY <1>2, Constants
<1>4. f + i - 1 = j
    BY DEF j
<1> QED BY ONLY <1>1, <1>2, <1>3, <1>4

\* The pieces of the units c + 1 to d.
LEMMA PiecesAre ==
    ASSUME NEW c \in Nat, NEW d \in Nat, c < d,
           NEW f, f = c \div SduSize, NEW l, l = (d - 1) \div SduSize
    PROVE  /\ f \in Nat /\ l \in Nat /\ f <= l
           /\ f * SduSize <= c /\ c < f * SduSize + SduSize
           /\ l * SduSize < d /\ d <= l * SduSize + SduSize
           /\ Pieces([from |-> c + 1, to |-> d]) =
                  [i \in 1..(l - f + 1) |->
                      Run(IF i = 1 THEN c + 1 ELSE (f + i - 1) * SduSize + 1,
                          IF i = l - f + 1 THEN d ELSE (f + i) * SduSize)]
<1>1. /\ f \in Int /\ l \in Int
      /\ f * SduSize <= c /\ c < f * SduSize + SduSize
      /\ l * SduSize < d /\ d <= l * SduSize + SduSize
    <2>1. c % SduSize \in 0..(SduSize - 1) /\ f \in Int /\ c = SduSize * f + (c % SduSize)
        BY DivMod, Constants
    <2>2. /\ (d - 1) % SduSize \in 0..(SduSize - 1) /\ l \in Int
          /\ d - 1 = SduSize * l + ((d - 1) % SduSize)
        BY DivMod, Constants, d - 1 \in Int
    <2>3. SduSize * f = f * SduSize /\ SduSize * l = l * SduSize
        BY ONLY <2>1, <2>2, Constants
    <2> QED BY <2>1, <2>2, <2>3, Multiples, Constants
<1>2. f >= 0 /\ l >= 0 /\ f <= l
    <2>1. ~(f < 0)
        BY <1>1, Multiples, Constants
    <2>2. ~(l < 0)
        BY <1>1, Multiples, Constants
    <2>3. ~(l < f)
        BY <1>1, Multiples, Constants
    <2> QED BY <1>1, <2>1, <2>2, <2>3
<1> DEFINE S == SduSize
           Bound(x, low, high) == IF x < low THEN low ELSE IF x > high THEN high ELSE x
<1>3. Pieces([from |-> c + 1, to |-> d]) =
          [i \in 1..(l - f + 1) |-> Run(Bound((f + i - 1) * S + 1, c + 1, d),
                                       Bound((f + i) * S, c + 1, d))]
    BY (c + 1) - 1 = c DEF Pieces, Run
<1>4. ASSUME NEW i \in 1..(l - f + 1)
      PROVE  /\ Bound((f + i - 1) * S + 1, c + 1, d) =
                    IF i = 1 THEN c + 1 ELSE (f + i - 1) * S + 1
             /\ Bound((f + i) * S, c + 1, d) = IF i = l - f + 1 THEN d ELSE (f + i) * S
    <2>0. /\ f + i - 1 \in Int /\ f + i \in Int /\ f + i - 1 >= f /\ f + i - 1 <= l
          /\ i \in Int
        BY <1>1
    <2>1. (f + i - 1) * S \in Int /\ (f + i) * S = (f + i - 1) * S + S /\ S \in Nat
          /\ f * S \in Int /\ l * S \in Int
        <3>1. f + i = (f + i - 1) + 1
            BY <2>0, <1>1
        <3> QED BY ONLY <3>1, <2>0, <1>1, Multiples, Constants
    <2>2. (f + i - 1) * S <= l * S /\ f * S <= (f + i - 1) * S
        BY <1>1, <2>0, Multiples
    <2>3. i > 1 => f * S + S <= (f + i - 1) * S
        BY <1>1, <2>0, Multiples
    <2>4. i < l - f + 1 => (f + i - 1) * S + S <= l * S
        BY <1>1, <2>0, Multiples
    <2>5. i = 1 => (f + i - 1) * S = f * S
        BY <1>1
    <2>6. i = l - f + 1 => (f + i - 1) * S = l * S
        BY <1>1
    <2> HIDE DEF S
    <2>7. f * S <= c /\ c < f * S + S /\ l * S < d /\ d <= l * S + S
        BY <1>1 DEF S
    <2> DEFINE A == (f + i - 1) * S
               F == f * S
               L == l * S
    <2>8. /\ A \in Int /\ F \in Int /\ L \in Int /\ S \in Nat
          /\ A <= L /\ F <= A /\ (i > 1 => F + S <= A) /\ (i < l - f + 1 => A + S <= L)
          /\ (i = 1 => A = F) /\ (i = l - f + 1 => A = L) /\ (f + i) * S = A + S
          /\ F <= c /\ c < F + S /\ L < d /\ d <= L + S
        BY <2>1, <2>2, <2>3, <2>4, <2>5, <2>6, <2>7
    <2> HIDE DEF A, F, L
    <2>9. /\ Bound(A + 1, c + 1, d) = IF i = 1 THEN c + 1 ELSE A + 1
          /\ Bound(A + S, c + 1, d) = IF i = l - f + 1 THEN d ELSE A + S
        BY ONLY <1>1, <2>0, <2>8, c \in Nat, d \in Nat, c < d
    <2> QED BY <2>8, <2>9 DEF A
<1> DEFINE G(i) == Run(Bound((f + i - 1) * S + 1, c + 1, d), Bound((f + i) * S, c + 1, d))
           H(i) == Run(IF i = 1 THEN c + 1 ELSE (f + i - 1) * S + 1,
                       IF i = l - f + 1 THEN d ELSE (f + i) * S)
<1>5. \A i \in 1..(l - f + 1) : G(i) = H(i)
    BY <1>4
<1>6. Pieces([from |-> c + 1, to |-> d]) = [i \in 1..(l - f + 1) |-> H(i)]
    <2> HIDE DEF G, H
    <2>1. [i \in 1..(l - f + 1) |-> G(i)] = [i \in 1..(l - f + 1) |-> H(i)]
        BY <1>5
    <2> QED BY <1>3, <2>1 DEF G
<1> QED BY <1>1, <1>2, <1>6

\* The SDUs from the (f + 1)-th on, up to the unit d in the (l + 1)-th.
Rest(f, l, d) ==
    [i \in 1..(l - f + 1) |->
        IF i = l - f + 1 THEN Run((f + i - 1) * SduSize + 1, d) ELSE Sdu(f + i)]

\* They are a sequence: whole SDUs, then the units up to d.
LEMMA RestIsSeq ==
    ASSUME NEW f \in Nat, NEW l \in Nat, f <= l, NEW d \in Nat, l * SduSize < d
    PROVE  /\ Rest(f, l, d) \in Seq(Seq(Int))
           /\ Len(Rest(f, l, d)) = l - f + 1
           /\ \A i \in 1..(l - f) : Rest(f, l, d)[i] = Sdu(f + i)
           /\ Rest(f, l, d)[l - f + 1] = Run(l * SduSize + 1, d)
<1>1. ASSUME NEW i \in 1..(l - f)
      PROVE  Sdu(f + i) \in Seq(Int)
    <2>1. f + i \in Int /\ (f + i - 1) * SduSize + 1 \in Int /\ (f + i) * SduSize \in Int
          /\ (f + i) * SduSize = (f + i - 1) * SduSize + SduSize
        <3>1. f + i \in Int /\ f + i - 1 \in Int
            OBVIOUS
        <3> QED BY <3>1, Multiples, Constants
    <2>2. (f + i - 1) * SduSize + 1 <= (f + i) * SduSize + 1
        BY <2>1, Constants
    <2>3. Run((f + i - 1) * SduSize + 1, (f + i) * SduSize) \in Seq(Int)
        BY ONLY <2>1, <2>2, RunIsSeq
    <2> QED BY ONLY <2>1, <2>3, SduIsRun
<1>2. Run(l * SduSize + 1, d) \in Seq(Int)
    <2>1. l * SduSize \in Int
        BY Multiples
    <2>2. l * SduSize + 1 \in Int /\ l * SduSize + 1 <= d + 1 /\ d \in Int
        BY <2>1
    <2> QED BY ONLY <2>2, RunIsSeq
<1>3. f + (l - f + 1) - 1 = l /\ l - f + 1 \in Nat
    OBVIOUS
<1>4. ASSUME NEW i \in 1..(l - f + 1)
      PROVE  /\ i = l - f + 1 => Rest(f, l, d)[i] = Run(l * SduSize + 1, d)
             /\ i # l - f + 1 => Rest(f, l, d)[i] = Sdu(f + i)
             /\ Rest(f, l, d)[i] \in Seq(Int)
    <2>1. CASE i = l - f + 1
        BY <1>2, <1>3, <2>1 DEF Rest
    <2>2. CASE i # l - f + 1
        <3>1. i \in 1..(l - f)
            BY <2>2
        <3> QED BY <1>1, <2>2, <3>1 DEF Rest
    <2> QED BY <2>1, <2>2
<1>5. Rest(f, l, d) = [i \in 1..(l - f + 1) |-> Rest(f, l, d)[i]]
    BY DEF Rest
<1>6. Rest(f, l, d) \in [1..(l - f + 1) -> Seq(Int)]
    BY ONLY <1>4, <1>5
<1> HIDE DEF Rest
<1>7. Rest(f, l, d) \in Seq(Seq(Int)) /\ Len(Rest(f, l, d)) = l - f + 1
    BY ONLY <1>3, <1>6
<1>8. l - f + 1 \in 1..(l - f + 1)
    OBVIOUS
<1>9. ASSUME NEW i \in 1..(l - f)
      PROVE  Rest(f, l, d)[i] = Sdu(f + i)
    <2>1. i \in 1..(l - f + 1) /\ i # l - f + 1
        OBVIOUS
    <2> QED BY ONLY <1>4, <2>1
<1> QED BY ONLY <1>4, <1>7, <1>8, <1>9

\* What is kept and the first piece make the segment whole again.
LEMMA RestIsJoined ==
    ASSUME NEW c \in Nat, NEW d \in Nat, c < d, NEW e,
           NEW f, f = c \div SduSize, NEW l, l = (d - 1) \div SduSize,
           NEW p, p = [from |-> c + 1, to |-> d]
    PROVE  (IF FirstByte(p) THEN Pieces(p) ELSE Joined(Delivered(c, e), Pieces(p))) =
               Rest(f, l, d)
<1> DEFINE S == SduSize
           N == l - f + 1
           Q == [i \in 1..N |-> Run(IF i = 1 THEN c + 1 ELSE (f + i - 1) * S + 1,
                                   IF i = N THEN d ELSE (f + i) * S)]
<1>1. /\ f \in Nat /\ l \in Nat /\ f <= l
      /\ f * S <= c /\ c < f * S + S /\ l * S < d /\ d <= l * S + S
      /\ Pieces(p) = Q
    BY PiecesAre
<1>2. f * S \in Int /\ l * S \in Int /\ S \in Nat /\ (f + 1) * S = f * S + S
    BY <1>1, Multiples, Constants
<1>3. Rest(f, l, d) = [i \in 1..N |-> Run((f + i - 1) * S + 1, IF i = N THEN d ELSE (f + i) * S)]
    <2>1. ASSUME NEW i \in 1..N PROVE Sdu(f + i) = Run((f + i - 1) * S + 1, (f + i) * S)
        BY <1>1, f + i \in Int, SduIsRun
    <2> QED BY <2>1 DEF Rest
<1>4. CASE FirstByte(p)
    <2>1. c = f * S
        <3>1. c % S = 0
            BY <1>4 DEF FirstByte
        <3> QED BY <3>1, DivMod, Constants
    <2> DEFINE G(i) == Run(IF i = 1 THEN c + 1 ELSE (f + i - 1) * S + 1,
                           IF i = N THEN d ELSE (f + i) * S)
               H(i) == Run((f + i - 1) * S + 1, IF i = N THEN d ELSE (f + i) * S)
    <2>2. ASSUME NEW i \in 1..N PROVE G(i) = H(i)
        <3>1. (IF i = 1 THEN c + 1 ELSE (f + i - 1) * S + 1) = (f + i - 1) * S + 1
            BY <1>1, <2>1
        <3> QED BY ONLY <3>1
    <2>3. Q = [i \in 1..N |-> G(i)] /\ Rest(f, l, d) = [i \in 1..N |-> H(i)]
        BY <1>3
    <2> HIDE DEF G, H, Q, N
    <2> QED BY ONLY <1>1, <1>4, <2>2, <2>3
<1>5. CASE ~FirstByte(p)
    <2> DEFINE x == Run(f * S + 1, c)
               h == IF N = 1 THEN d ELSE (f + 1) * S
    <2>1. N \in Nat /\ 1 \in 1..N /\ f + 1 \in Int
        BY <1>1
    <2>2. h \in Int /\ c <= h
        BY <1>1, <1>2, SMTT(20)
    <2>3. ASSUME NEW i \in 1..N
          PROVE  Q[i] \in Seq(Int)
        <3>1. /\ f + i - 1 \in f..l /\ (f + i - 1) * S \in Int /\ (f + i) * S \in Int
              /\ (f + i) * S = (f + i - 1) * S + S
              /\ (f + i - 1) * S <= l * S /\ f * S <= (f + i - 1) * S
              /\ i > 1 => f * S + S <= (f + i - 1) * S
            <4>1. i > 1 => f < f + i - 1
                BY <1>1
            <4>2. f + i - 1 \in Int
                BY <1>1
            <4>3. f < f + i - 1 => f * S + S <= (f + i - 1) * S
                BY ONLY <1>1, <4>2, Multiples
            <4> QED BY <1>1, <4>1, <4>3, MultiplesBetween
        <3> DEFINE a == IF i = 1 THEN c + 1 ELSE (f + i - 1) * S + 1
                   b == IF i = N THEN d ELSE (f + i) * S
        <3>3. a \in Int /\ b \in Int /\ a <= b + 1
            <4> DEFINE F == f * S
                       L == l * S
                       A == (f + i - 1) * S
                       B == (f + i) * S
                       T == S
            <4>1. /\ F \in Int /\ L \in Int /\ A \in Int /\ B \in Int /\ T \in Nat
                  /\ F <= c /\ c < F + T /\ L < d /\ d <= L + T
                  /\ B = A + T /\ A <= L /\ F <= A /\ (i > 1 => F + T <= A)
                BY <1>1, <1>2, <3>1
            <4> HIDE DEF F, L, A, B, T
            <4>2. /\ (IF i = 1 THEN c + 1 ELSE A + 1) \in Int
                  /\ (IF i = N THEN d ELSE B) \in Int
                  /\ (IF i = 1 THEN c + 1 ELSE A + 1) <= (IF i = N THEN d ELSE B) + 1
                BY <1>1, <4>1
            <4> QED BY <4>2 DEF A, B
        <3>4. Q[i] = Run(a, b)
            OBVIOUS
        <3> QED BY ONLY <3>3, <3>4, RunIsSeq
    <2>4. Q \in Seq(Seq(Int)) /\ Len(Q) = N
        <3>1. Q \in [1..N -> Seq(Int)]
            BY <2>3
        <3> HIDE DEF Q, N
        <3> QED BY ONLY <2>1, <3>1
    <2>5. Q[1] = Run(c + 1, h)
        BY <1>1
    <2>6. Head(Q) = Q[1] /\ Q # << >>
        BY ONLY <2>1, <2>4
    <2>7. x \o Head(Q) = Run(f * S + 1, h)
        <3>1. f * S + 1 \in Int /\ f * S + 1 <= c + 1 /\ c \in Int
            BY <1>1, <1>2, SMTT(20)
        <3> HIDE DEF Q, h
        <3>2. Run(f * S + 1, c) \o Run(c + 1, h) = Run(f * S + 1, h)
            BY ONLY <2>2, <3>1, RunConcat
        <3> QED BY <2>5, <2>6, <3>2
    <2> DEFINE y == x \o Head(Q)
               R == Rest(f, l, d)
    <2>8. /\ R \in Seq(Seq(Int)) /\ Len(R) = N
          /\ \A i \in 1..N : R[i] = Run((f + i - 1) * S + 1, IF i = N THEN d ELSE (f + i) * S)
        <3>1. R \in Seq(Seq(Int)) /\ Len(R) = N
            BY ONLY <1>1, RestIsSeq, d \in Nat
        <3>2. ASSUME NEW i \in 1..N
              PROVE  R[i] = Run((f + i - 1) * S + 1, IF i = N THEN d ELSE (f + i) * S)
            <4> HIDE DEF N
            <4> QED BY <1>3
        <3> QED BY ONLY <3>1, <3>2
    <2>9. R[1] = y
        <3>1. f + 1 - 1 = f
            BY <1>1
        <3>2. R[1] = Run((f + 1 - 1) * S + 1, IF 1 = N THEN d ELSE (f + 1) * S)
            BY ONLY <2>1, <2>8
        <3>3. (IF 1 = N THEN d ELSE (f + 1) * S) = h
            OBVIOUS
        <3>4. y = Run(f * S + 1, h)
            BY <2>7
        <3> HIDE DEF y, h, R, N
        <3> QED BY ONLY <3>1, <3>2, <3>3, <3>4
    <2>10. ASSUME NEW i \in 2..N PROVE R[i] = Q[i]
        BY <2>8, SMTT(20)
    <2>11. Joined(Delivered(c, e), Pieces(p)) = <<y>> \o Tail(Q)
        BY <1>1 DEF Joined, Delivered
    <2>12. y \in Seq(Int)
        <3> HIDE DEF R, N
        <3>1. R[1] \in Seq(Int)
            BY ONLY <2>1, <2>8
        <3> QED BY <2>9, <3>1
    <2> HIDE DEF y, R, Q, N, x, h
    <2>13. /\ Tail(Q) \in Seq(Seq(Int)) /\ Len(Tail(Q)) = N - 1
           /\ \A i \in 1..(N - 1) : Tail(Q)[i] = Q[i + 1]
        BY ONLY <2>1, <2>4, <2>6, HeadTailProperties
    <2>14. <<y>> \in Seq(Seq(Int)) /\ Len(<<y>>) = 1 /\ <<y>>[1] = y
        BY ONLY <2>12
    <2>15. /\ <<y>> \o Tail(Q) \in Seq(Seq(Int)) /\ Len(<<y>> \o Tail(Q)) = 1 + (N - 1)
           /\ \A i \in 1..(1 + (N - 1)) :
                 (<<y>> \o Tail(Q))[i] = IF i <= 1 THEN <<y>>[i] ELSE Tail(Q)[i - 1]
        BY ONLY <2>13, <2>14, ConcatProperties
    <2>16. ASSUME NEW i \in 1..N PROVE (<<y>> \o Tail(Q))[i] = R[i]
        <3>1. CASE i = 1
            BY ONLY <3>1, <2>1, <2>9, <2>14, <2>15
        <3>2. CASE i > 1
            <4>1. (<<y>> \o Tail(Q))[i] = Tail(Q)[i - 1]
                BY ONLY <3>2, <2>1, <2>15, i \in 1..N
            <4>2. Tail(Q)[i - 1] = Q[(i - 1) + 1]
                BY ONLY <3>2, <2>1, <2>13, i \in 1..N
            <4>3. (i - 1) + 1 = i /\ i \in 2..N
                BY <3>2, <2>1
            <4> QED BY ONLY <4>1, <4>2, <4>3, <2>10
        <3>3. i = 1 \/ i > 1
            BY ONLY <2>1, i \in 1..N
        <3> QED BY ONLY <3>1, <3>2, <3>3
    <2>17. <<y>> \o Tail(Q) = R
        BY ONLY <2>1, <2>8, <2>15, <2>16, SeqEqual
    <2> QED BY <1>5, <2>11, <2>17 DEF R
<1> QED BY <1>4, <1>5

\* An SDU is a sequence of units.
LEMMA SduIsSeq == ASSUME NEW i \in Int PROVE Sdu(i) \in Seq(Int)
<1>1. (i - 1) * SduSize \in Int /\ SduSize \in Nat
    BY i - 1 \in Int, Multiples, Constants
<1> QED BY <1>1 DEF Sdu

\* The first f SDUs are a sequence.
LEMMA SdusIsSeq ==
    ASSUME NEW f \in Nat
    PROVE  /\ [i \in 1..f |-> Sdu(i)] \in Seq(Seq(Int))
           /\ Len([i \in 1..f |-> Sdu(i)]) = f
           /\ \A i \in 1..f : [j \in 1..f |-> Sdu(j)][i] = Sdu(i)
<1>1. \A i \in 1..f : Sdu(i) \in Seq(Int)
    BY SduIsSeq
<1>2. [i \in 1..f |-> Sdu(i)] \in [1..f -> Seq(Int)]
    BY <1>1
<1> QED BY <1>2

\* SDUs that follow the first f.
LEMMA SdusConcat ==
    ASSUME NEW f \in Nat, NEW g \in Nat, f <= g, NEW s \in Seq(Seq(Int)), Len(s) = g - f,
           \A i \in 1..(g - f) : s[i] = Sdu(f + i)
    PROVE  [i \in 1..f |-> Sdu(i)] \o s = [i \in 1..g |-> Sdu(i)]
<1> DEFINE x == [i \in 1..f |-> Sdu(i)]
           z == [i \in 1..g |-> Sdu(i)]
<1>1. x \in Seq(Seq(Int)) /\ Len(x) = f /\ \A i \in 1..f : x[i] = Sdu(i)
    BY ONLY SdusIsSeq, f \in Nat
<1>2. z \in Seq(Seq(Int)) /\ Len(z) = g /\ \A i \in 1..g : z[i] = Sdu(i)
    BY ONLY SdusIsSeq, g \in Nat
<1> HIDE DEF x, z
<1>3. /\ x \o s \in Seq(Seq(Int)) /\ Len(x \o s) = Len(x) + Len(s)
      /\ \A i \in 1..(Len(x) + Len(s)) :
            (x \o s)[i] = IF i <= Len(x) THEN x[i] ELSE s[i - Len(x)]
    BY ONLY <1>1, ConcatProperties, s \in Seq(Seq(Int))
<1>4. Len(x) + Len(s) = g
    BY <1>1
<1>5. ASSUME NEW i \in 1..g PROVE (x \o s)[i] = z[i]
    <2>1. CASE i <= f
        BY <1>1, <1>2, <1>3, <1>4, <2>1
    <2>2. CASE i > f
        <3>1. i - f \in 1..(g - f) /\ f + (i - f) = i
            BY <2>2
        <3>2. (x \o s)[i] = s[i - f]
            BY ONLY <1>1, <1>3, <1>4, <2>2, i \in 1..g, f \in Nat, g \in Nat
        <3> QED BY <1>2, <3>1, <3>2
    <2>3. i <= f \/ i > f
        OBVIOUS
    <2> QED BY ONLY <2>1, <2>2, <2>3
<1>6. x \o s = z
    BY ONLY <1>2, <1>3, <1>4, <1>5, SeqEqual
<1> QED BY <1>6 DEF x, z

\* A PDU that continues where the last one ended is reassembled without loss or error.
LEMMA ReassembleStep ==
    ASSUME NEW c \in Nat, NEW d \in Nat, c < d, NEW e
    PROVE  ReassembleAndDeliver(Delivered(c, e), [sn |-> e, pdu |-> [from |-> c + 1, to |-> d]]) =
               Delivered(d, Plus(e, 1))
<1> DEFINE S == SduSize
           f == c \div SduSize
           l == (d - 1) \div SduSize
           p == [from |-> c + 1, to |-> d]
           r == Delivered(c, e)
           rest == Rest(f, l, d)
           m == [sn |-> e, pdu |-> p]
           front == [i \in 1..f |-> Sdu(i)]
<1>1. /\ f \in Nat /\ l \in Nat /\ f <= l
      /\ f * S <= c /\ c < f * S + S /\ l * S < d /\ d <= l * S + S
    BY PiecesAre
<1>2. (IF FirstByte(p) THEN Pieces(p) ELSE Joined(r, Pieces(p))) = rest
    BY RestIsJoined
<1>3. /\ rest \in Seq(Seq(Int)) /\ Len(rest) = l - f + 1
      /\ \A i \in 1..(l - f) : rest[i] = Sdu(f + i)
      /\ rest[l - f + 1] = Run(l * S + 1, d)
    BY <1>1, RestIsSeq, ZenonT(40)
<1>4. FirstByte(p) <=> r.keepS0 = << >>
    <2>1. FirstByte(p) <=> c = f * S
        <3>1. FirstByte(p) <=> c % S = 0
            BY DEF FirstByte
        <3>2. c = S * f + (c % S) /\ c % S \in Int /\ S * f = f * S /\ f * S \in Int
            BY <1>1, DivMod, Constants
        <3> QED BY ONLY <3>1, <3>2, c \in Nat
    <2>2. r.keepS0 = Run(f * S + 1, c)
        BY DEF Delivered
    <2>3. f * S \in Int /\ f * S + 1 \in Int /\ f * S + 1 <= c + 1 /\ c \in Int
        <3>1. f * S \in Int
            BY <1>1, Multiples
        <3> HIDE DEF f, l, S
        <3> QED BY <1>1, <3>1
    <2>4. Run(f * S + 1, (f * S + 1) - 1) = << >>
        BY ONLY <2>3, RunEmpty
    <2>5. Len(Run(f * S + 1, c)) = c - (f * S + 1) + 1
        BY ONLY <2>3, RunIsSeq
    <2>6. Run(f * S + 1, c) = << >> => c - (f * S + 1) + 1 = 0
        BY ONLY <2>5, EmptySeq
    <2>7. (f * S + 1) - 1 = f * S
        BY ONLY <2>3
    <2>8. c - (f * S + 1) + 1 = 0 => c = f * S
        BY ONLY <2>3
    <2>9. c = f * S => Run(f * S + 1, c) = << >>
        BY ONLY <2>4, <2>7
    <2> QED BY ONLY <2>1, <2>2, <2>6, <2>8, <2>9
<1>5. rest # << >>
    <2>1. Len(rest) >= 1
        <3> HIDE DEF rest, f, l
        <3> QED BY <1>1, <1>3
    <2> QED BY <2>1
<1>6. ReassembleAndDeliver(r, m) =
          [r EXCEPT !.expected = Plus(e, 1),
                    !.sdus = @ \o (IF d % S # 0 THEN Front(rest) ELSE rest),
                    !.keepS0 = IF d % S # 0 THEN Last(rest) ELSE << >>]
    <2>1. r.error = FALSE /\ r.expected = e
        BY DEF Delivered
    <2>2. m.sn = r.expected /\ m.pdu = p
        BY <2>1
    <2>3. LastByte(p) <=> d % S = 0
        BY DEF LastByte
    <2> HIDE DEF r, p, rest
    <2> QED BY <1>2, <1>4, <1>5, <2>1, <2>2, <2>3 DEF ReassembleAndDeliver
<1> DEFINE q == d \div S
<1>7. /\ q \in Int /\ d = S * q + (d % S) /\ d % S \in 0..(S - 1) /\ S * q = q * S
      /\ q * S \in Int /\ l * S \in Int /\ (l + 1) * S = l * S + S /\ S \in Nat \ {0}
      /\ (q + 1) * S = q * S + S
    BY <1>1, DivMod, Multiples, Constants
<1> HIDE DEF q, f, l, S, rest
<1>8. CASE d % S = 0
    <2>1. d = q * S
        BY <1>7, <1>8
    <2>2. q = l + 1
        <3>1. ~(q <= l)
            <4>1. q <= l => q * S <= l * S
                BY <1>1, <1>7, Multiples DEF S
            <4> QED BY <1>1, <1>7, <2>1, <4>1
        <3>2. ~(l + 1 < q)
            <4>1. l + 1 < q => (l + 1) * S + S <= q * S
                BY <1>1, <1>7, Multiples, l + 1 \in Int DEF S
            <4> QED BY <1>1, <1>7, <2>1, <4>1
        <3> QED BY <1>1, <1>7, <3>1, <3>2
    <2>3. rest[l - f + 1] = Sdu(f + (l - f + 1))
        <3>1. f + (l - f + 1) = l + 1 /\ (l + 1) - 1 = l /\ l + 1 \in Int
            BY <1>1
        <3>2. Sdu(l + 1) = Run(l * S + 1, (l + 1) * S)
            BY ONLY <3>1, SduIsRun DEF S
        <3> QED BY <1>3, <2>1, <2>2, <3>1, <3>2
    <2>4. front \o rest = [i \in 1..(l + 1) |-> Sdu(i)]
        <3>1. l + 1 \in Nat /\ f <= l + 1 /\ Len(rest) = (l + 1) - f
            BY <1>1, <1>3
        <3>2. ASSUME NEW i \in 1..((l + 1) - f) PROVE rest[i] = Sdu(f + i)
            <4>1. i \in 1..(l - f) \/ i = l - f + 1
                BY <1>1
            <4> QED BY ONLY <1>3, <2>3, <4>1
        <3> QED BY ONLY <1>1, <1>3, <3>1, <3>2, SdusConcat
    <2>5. Run(q * S + 1, d) = << >>
        <3>1. q * S + 1 \in Int /\ (q * S + 1) - 1 = d
            BY <1>7, <2>1
        <3> QED BY ONLY <3>1, RunEmpty
    <2>6. r.sdus = front
        BY DEF Delivered, f, S
    <2>7. Delivered(d, Plus(e, 1)) =
              [keepS0 |-> << >>, expected |-> Plus(e, 1), sdus |-> front \o rest, error |-> FALSE]
        BY <2>2, <2>4, <2>5 DEF Delivered, q, S
    <2> HIDE DEF front
    <2> QED BY <1>6, <1>8, <2>6, <2>7 DEF Delivered
<1>9. CASE d % S # 0
    <2>1. q = l
        <3>1. ~(q < l)
            <4>1. q < l => q * S + S <= l * S
                BY <1>1, <1>7, Multiples DEF S
            <4> QED BY <1>1, <1>7, <4>1
        <3>2. ~(l < q)
            <4>1. l < q => l * S + S <= q * S
                BY <1>1, <1>7, Multiples DEF S
            <4> QED BY <1>1, <1>7, <1>9, <4>1
        <3> QED BY <1>1, <1>7, <3>1, <3>2
    <2>2. /\ Front(rest) \in Seq(Seq(Int)) /\ Len(Front(rest)) = l - f
          /\ \A i \in 1..(l - f) : Front(rest)[i] = rest[i]
        <3>1. 1 \in 1..(Len(rest) + 1) /\ Len(rest) - 1 \in (1 - 1)..Len(rest)
              /\ Len(rest) - 1 = l - f
            BY <1>1, <1>3
        <3> QED BY ONLY <1>1, <1>3, <3>1, SubSeqProperties DEF Front
    <2>3. front \o Front(rest) = [i \in 1..l |-> Sdu(i)]
        BY ONLY <1>1, <1>3, <2>2, SdusConcat, SMTT(20)
    <2>4. Last(rest) = Run(q * S + 1, d)
        BY <1>3, <2>1 DEF Last
    <2>5. r.sdus = front
        BY DEF Delivered, f, S
    <2>6. Delivered(d, Plus(e, 1)) =
              [keepS0 |-> Last(rest), expected |-> Plus(e, 1), sdus |-> front \o Front(rest),
               error |-> FALSE]
        BY <2>1, <2>3, <2>4 DEF Delivered, q, S
    <2> HIDE DEF front
    <2> QED BY <1>6, <1>9, <2>5, <2>6 DEF Delivered
<1> QED BY <1>8, <1>9

(***************************************************************************)
(* The reception buffer                                                    *)
(***************************************************************************)
\* The PDU at a position, when the PDU at p ends with the unit cut[p + 1].
Pdu(cut, p) == [from |-> cut[p] + 1, to |-> cut[p + 1]]

\* The PDUs from p to q are in the buffer.
InSequence(v, cut, p, q) ==
    \A j \in p..(q - 1) : /\ cut[j] \in Nat /\ cut[j + 1] \in Nat /\ cut[j] < cut[j + 1]
                          /\ v.rxon[Pos(j)] = Pdu(cut, j)

\* PDUs that are in the buffer in sequence are reassembled in sequence.
LEMMA ReassembledInSequence ==
    ASSUME NEW v, NEW cut, NEW p \in Nat, NEW q \in Nat, p <= q,
           v.vrR = Pos(p), v.reassembly = Delivered(cut[p], Pos(p)),
           InSequence(v, cut, p, q), NEW n, n = q - p
    PROVE  Reassembled(v, n) = Delivered(cut[q], Pos(q))
<1> DEFINE D(k) == Delivered(cut[p + k], Pos(p + k))
           PduAt(k) == [sn |-> Plus(v.vrR, k - 1), pdu |-> v.rxon[Plus(v.vrR, k - 1)]]
           Recursion(f) == f = [k \in 0..n |->
                                   IF k = 0 THEN v.reassembly
                                   ELSE ReassembleAndDeliver(f[k - 1], PduAt(k))]
           after == CHOOSE f : Recursion(f)
<1>1. n \in Nat /\ D(0) = v.reassembly /\ D(n) = Delivered(cut[q], Pos(q))
    <2>1. p + 0 = p /\ p + n = q /\ n \in Nat
        OBVIOUS
    <2> QED BY ONLY <2>1, v.reassembly = Delivered(cut[p], Pos(p))
<1>2. Reassembled(v, n) = after[n]
    BY DEF Reassembled
<1>3. ASSUME NEW k \in 1..n
      PROVE  ReassembleAndDeliver(D(k - 1), PduAt(k)) = D(k)
    <2> DEFINE j == p + (k - 1)
    <2>1. j \in p..(q - 1) /\ j \in Int /\ p + k = j + 1 /\ k - 1 \in Int
        OBVIOUS
    <2>2. Plus(v.vrR, k - 1) = Pos(j)
        BY <2>1, PlusPos
    <2>3. PduAt(k) = [sn |-> Pos(j), pdu |-> [from |-> cut[j] + 1, to |-> cut[j + 1]]]
        BY <2>1, <2>2 DEF Pdu, InSequence
    <2>4. cut[j] \in Nat /\ cut[j + 1] \in Nat /\ cut[j] < cut[j + 1]
        BY <2>1 DEF InSequence
    <2>5. Plus(Pos(j), 1) = Pos(j + 1)
        BY <2>1, PlusPos
    <2>6. D(k) = Delivered(cut[j + 1], Pos(j + 1))
        BY <2>1
    <2> HIDE DEF j, PduAt
    <2>7. ReassembleAndDeliver(Delivered(cut[j], Pos(j)), PduAt(k)) =
              Delivered(cut[j + 1], Plus(Pos(j), 1))
        BY ONLY <2>3, <2>4, ReassembleStep
    <2> QED BY <2>5, <2>6, <2>7 DEF j
<1> HIDE DEF D, PduAt
<1>4. Recursion([k \in 0..n |-> D(k)])
    <2> DEFINE f == [k \in 0..n |-> D(k)]
    <2>1. ASSUME NEW k \in 0..n
          PROVE  D(k) = IF k = 0 THEN v.reassembly ELSE ReassembleAndDeliver(f[k - 1], PduAt(k))
        <3>1. CASE k = 0
            BY <1>1, <3>1
        <3>2. CASE k # 0
            <4>1. k \in 1..n /\ k - 1 \in 0..n
                BY <1>1, <3>2
            <4> QED BY <1>3, <3>2, <4>1
        <3> QED BY <3>1, <3>2
    <2> QED BY <2>1
<1>5. Recursion(after)
    <2> HIDE DEF Recursion
    <2> QED BY <1>4
<1>6. ASSUME NEW k \in 0..n PROVE after[k] = D(k)
    <2> DEFINE bad == {j \in 0..n : after[j] # D(j)}
    <2>1. SUFFICES ASSUME bad # {} PROVE FALSE
        OBVIOUS
    <2>2. bad \in SUBSET Nat
        OBVIOUS
    <2>3. PICK j \in bad : \A i \in bad : j <= i
        BY ONLY <2>1, <2>2, NatMin
    <2> HIDE DEF after
    <2>4. j # 0
        BY <1>1, <1>5, <2>3
    <2>5. j \in 1..n /\ j - 1 \in 0..n /\ j - 1 \notin bad
        BY <1>1, <2>3, <2>4
    <2>6. after[j - 1] = D(j - 1)
        BY <2>5
    <2>7. after[j] = ReassembleAndDeliver(after[j - 1], PduAt(j))
        BY <1>5, <2>4, <2>5, <1>1
    <2> QED BY <1>3, <2>3, <2>5, <2>6, <2>7
<1>7. after[n] = D(n)
    <2>1. n \in 0..n
        BY <1>1
    <2> QED BY <1>6, <2>1
<1> QED BY ONLY <1>1, <1>2, <1>7

\* The first missing SN from one position on, when a later one is missing.
LEMMA FirstMissingIs ==
    ASSUME NEW v, NEW p \in Nat, NEW h \in Nat, p <= h, h - p < SnModulus, Pos(h) \notin Rxon(v)
    PROVE  \E q \in p..h : /\ FirstMissing(v, Pos(p)) = Pos(q) /\ Pos(q) \notin Rxon(v)
                           /\ \A j \in p..(q - 1) : Pos(j) \in Rxon(v)
<1> DEFINE First(d) == /\ Plus(Pos(p), d) \notin Rxon(v)
                       /\ \A j \in 0..(d - 1) : Plus(Pos(p), j) \in Rxon(v)
           d == CHOOSE k \in 0..(SnModulus - 1) : First(k)
           T == {k \in 0..(h - p) : Plus(Pos(p), k) \notin Rxon(v)}
<1>1. \A k \in Int : Plus(Pos(p), k) = Pos(p + k)
    BY PlusPos
<1>2. h - p \in T
    BY <1>1, p + (h - p) = h
<1>3. PICK m \in T : \A k \in T : m <= k
    <2>1. T \in SUBSET Nat /\ T # {}
        BY <1>2
    <2> QED BY ONLY <2>1, NatMin
<1>4. m \in 0..(SnModulus - 1) /\ First(m)
    <2>1. m \in 0..(h - p) /\ m \in 0..(SnModulus - 1)
        BY Constants
    <2>2. ASSUME NEW j \in 0..(m - 1) PROVE Plus(Pos(p), j) \in Rxon(v)
        <3>1. j \in 0..(h - p) /\ ~(m <= j)
            BY <2>1
        <3> QED BY <1>3, <3>1
    <2> QED BY <2>1, <2>2
<1>5. d \in 0..(SnModulus - 1) /\ First(d)
    <2> HIDE DEF First
    <2> QED BY <1>4
<1>6. d <= h - p
    <2>1. SUFFICES ASSUME h - p < d PROVE FALSE
        BY <1>5, Constants
    <2>2. h - p \in 0..(d - 1)
        BY <1>5, <2>1, Constants
    <2> QED BY <1>2, <1>5, <2>2
<1>7. FirstMissing(v, Pos(p)) = Plus(Pos(p), d)
    BY DEF FirstMissing
<1> HIDE DEF d
<1>8. d \in Nat /\ p + d \in p..h
    BY <1>5, <1>6, Constants
<1>9. ASSUME NEW j \in p..((p + d) - 1) PROVE Pos(j) \in Rxon(v)
    <2>1. j - p \in 0..(d - 1) /\ p + (j - p) = j /\ j - p \in Int
        BY <1>8
    <2> QED BY <1>1, <1>5, <2>1
<1>10. Plus(Pos(p), d) = Pos(p + d)
    BY <1>1, <1>8
<1> QED BY <1>5, <1>7, <1>8, <1>9, <1>10

(***************************************************************************)
(* The invariant                                                           *)
(***************************************************************************)
\* Where a STATUS PDU might overtake another, it does not: data goes down, so that they
\* go up, or HARQ repeats none for longer than StatusProhibitTimer.
StatusesInOrder == ueSends => ~StatusOvertakes

\* Positions of VT(A), VT(S), VR(R), VR(MS), VR(H) and VR(X), the last units of the
\* PDUs (cut), and the positions of the PDUs on their way (n).
Positions ==
    [a : Nat, s : Nat, r : Nat, ms : Nat, h : Nat, x : Nat,
     cut : [Nat -> Nat], n : Seq(Nat)]

\* A buffer holds PDUs of the positions from lo to hi, each at its SN.
Holds(buffer, lo, hi, cut) ==
    \A sn \in Sns : buffer[sn] # NoPdu =>
        \E p \in lo..hi : sn = Pos(p) /\ buffer[sn] = Pdu(cut, p)

\* The PDU at p has been received: it was delivered or is in the buffer.
Received(g, p) == p < g.r \/ Pos(p) \in Rxon(rx)

\* Both windows, in one order, and no longer than a window.
WindowsAt(g) ==
    g.a <= g.r /\ g.r <= g.ms /\ g.ms <= g.h /\ g.h <= g.s /\ g.s <= g.a + WindowSize

\* Each PDU has the units that follow those of the one before, and at least one.
CutAt(g) ==
    /\ g.cut[0] = 0
    /\ \A p, q \in 0..g.s : p < q => g.cut[p] < g.cut[q]

\* The transmitting side: what it has taken, and what it keeps, at the SNs from VT(A) on.
SenderAt(g) ==
    /\ tx.vtA = Pos(g.a) /\ tx.vtS = Pos(g.s)
    /\ tx.taken = g.cut[g.s] /\ tx.taken <= submitted * SduSize
    /\ Holds(tx.txed, g.a, g.s - 1, g.cut) /\ Holds(tx.retx, g.a, g.s - 1, g.cut)
    /\ Txed \cap Retx = {}

\* The receiving side: what came out of sequence is in the buffer, and what came in
\* sequence is reassembled, with neither a loss nor an error.
ReceiverAt(g) ==
    /\ rx.vrR = Pos(g.r) /\ rx.vrMs = Pos(g.ms) /\ rx.vrH = Pos(g.h) /\ rx.vrX = Pos(g.x)
    /\ rx.reorderingTimer => g.r < g.x /\ g.x <= g.h
    /\ Holds(rx.rxon, g.r + 1, g.h - 1, g.cut) /\ Pos(g.ms) \notin Rxon(rx)
    /\ rx.reassembly = Delivered(g.cut[g.r], Pos(g.r))

\* What is on its way is less than a window from VR(H), from VT(S) and from what is
\* behind it; the last PDU may be one further back when it was overtaken.
FlightAt(g) ==
    /\ Len(g.n) = Len(dataPdus)
    /\ \A i \in 1..Len(g.n) :
          /\ dataPdus[i].sn = Pos(g.n[i]) /\ dataPdus[i].pdu = Pdu(g.cut, g.n[i])
          /\ g.n[i] < g.s /\ g.h <= g.n[i] + WindowSize
          /\ \A j \in 1..Len(g.n) : i < j => g.n[i] < g.n[j] + WindowSize
    /\ Len(g.n) > 0 =>
          g.s <= g.n[Len(g.n)] + WindowSize + (IF dataPdus[Len(g.n)].late THEN 1 ELSE 0)

\* The STATUS PDU m with its ACK_SN at k tells the truth, still: what it does not NACK
\* has been received, and what it NACKs is in a buffer.
Truthful(g, m, k) ==
    /\ m.ack = Pos(k)
    /\ \A p \in g.a..(k - 1) :
          IF Pos(p) \in m.nacks THEN Pos(p) \in Txed \cup Retx ELSE Received(g, p)

\* The later STATUS PDU l misses nothing that m acknowledges.
Precedes(g, m, k, l) ==
    \A p \in g.a..(k - 1) : Pos(p) \in l.nacks \/ Pos(p) = l.ack => Pos(p) \in m.nacks

\* The STATUS PDUs are true, and in the order they were sent in.
StatusAt(g) ==
    \A i \in 1..Len(statusPdus) :
        \E k \in g.a..g.h :
            /\ Truthful(g, statusPdus[i], k)
            /\ \A j \in 1..Len(statusPdus) :
                  i < j => Precedes(g, statusPdus[i], k, statusPdus[j])

\* What has been sent is received or kept.
KeptAt(g) == \A p \in g.a..(g.s - 1) : Received(g, p) \/ Pos(p) \in Txed \cup Retx

\* The positions fit the state.
At(g) ==
    /\ WindowsAt(g) /\ CutAt(g) /\ SenderAt(g) /\ ReceiverAt(g)
    /\ FlightAt(g) /\ StatusAt(g) /\ KeptAt(g)

\* The transmitting side but for its flags and timers.
SameSender ==
    /\ tx'.vtA = tx.vtA /\ tx'.vtS = tx.vtS /\ tx'.taken = tx.taken
    /\ tx'.txed = tx.txed /\ tx'.retx = tx.retx

\* The receiving side but for its flags and timers.
SameReceiver ==
    /\ rx'.vrR = rx.vrR /\ rx'.vrMs = rx.vrMs /\ rx'.vrH = rx.vrH /\ rx'.vrX = rx.vrX
    /\ rx'.rxon = rx.rxon /\ rx'.reassembly = rx.reassembly
    /\ rx'.reorderingTimer => rx.reorderingTimer

\* What the flags and the timers have no part in.
LEMMA SenderStays ==
    ASSUME TypeOK, NEW g \in Positions, SenderAt(g), SameSender, submitted' \in Nat,
           submitted <= submitted'
    PROVE  SenderAt(g)' /\ Txed' = Txed /\ Retx' = Retx
<1>1. Txed' = Txed /\ Retx' = Retx
    BY DEF SameSender, Txed, Retx
<1>2. tx'.taken <= submitted' * SduSize
    <2>1. submitted \in Nat /\ submitted' \in Nat
        BY Constants DEF TypeOK
    <2>2. submitted * SduSize <= submitted' * SduSize
        BY ONLY <2>1, Multiples, submitted <= submitted'
    <2>3. submitted * SduSize \in Int /\ submitted' * SduSize \in Int
        BY ONLY <2>1, Multiples
    <2>4. tx'.taken \in Int /\ tx'.taken <= submitted * SduSize
        <3>1. tx'.taken = tx.taken
            BY DEF SameSender
        <3>2. tx.taken = g.cut[g.s] /\ tx.taken <= submitted * SduSize
            BY DEF SenderAt
        <3>3. g.cut[g.s] \in Int
            BY DEF Positions
        <3> QED BY ONLY <3>1, <3>2, <3>3
    <2> QED BY ONLY <2>2, <2>3, <2>4
<1>3. tx'.taken = g.cut[g.s]
    BY DEF SenderAt, SameSender
<1>4. Holds(tx.txed, g.a, g.s - 1, g.cut)' /\ Holds(tx.retx, g.a, g.s - 1, g.cut)'
    BY DEF SenderAt, SameSender, Holds
<1>5. Txed' \cap Retx' = {} /\ tx'.vtA = Pos(g.a) /\ tx'.vtS = Pos(g.s)
    BY <1>1 DEF SenderAt, SameSender
<1> QED BY <1>1, <1>2, <1>3, <1>4, <1>5 DEF SenderAt

\* The same of the receiving side.
LEMMA ReceiverStays ==
    ASSUME NEW g \in Positions, ReceiverAt(g), SameReceiver
    PROVE  /\ ReceiverAt(g)' /\ Rxon(rx)' = Rxon(rx)
           /\ \A p : Received(g, p)' <=> Received(g, p)
<1>1. Rxon(rx)' = Rxon(rx)
    BY DEF SameReceiver, Rxon
<1>2. Holds(rx.rxon, g.r + 1, g.h - 1, g.cut)'
    BY DEF ReceiverAt, SameReceiver, Holds
<1> QED BY <1>1, <1>2 DEF ReceiverAt, SameReceiver, Received

\* What StatusAt says of the STATUS PDUs q after a step.
LEMMA StatusAfter ==
    ASSUME NEW e, NEW q, statusPdus' = q,
           \A i \in 1..Len(q) : \E k \in e.a..e.h :
               /\ Truthful(e, q[i], k)'
               /\ \A j \in 1..Len(q) : i < j => Precedes(e, q[i], k, q[j])
    PROVE  StatusAt(e)'
BY DEF StatusAt, Precedes

\* The PDUs on their way have no part in it.
LEMMA StatusAlike ==
    ASSUME NEW g, NEW e, StatusAt(g)', e.a = g.a, e.r = g.r, e.h = g.h
    PROVE  StatusAt(e)'
BY DEF StatusAt, Truthful, Precedes, Received

\* STATUS PDUs stay true when more is received and what is kept stays kept.
LEMMA StatusStays ==
    ASSUME NEW g \in Positions, StatusAt(g), UNCHANGED statusPdus, NEW e \in Positions,
           e.a = g.a, g.h <= e.h,
           \A p \in g.a..(g.h - 1) :
               /\ Received(g, p) => Received(e, p)'
               /\ Pos(p) \in Txed \cup Retx => Pos(p) \in Txed' \cup Retx'
    PROVE  StatusAt(e)'
<1>1. g.a \in Nat /\ g.h \in Nat /\ e.h \in Nat
    BY DEF Positions
<1>2. PICK q : q = statusPdus
    OBVIOUS
<1>3. SUFFICES ASSUME NEW i \in 1..Len(q)
               PROVE  \E k \in e.a..e.h :
                          /\ Truthful(e, q[i], k)'
                          /\ \A j \in 1..Len(q) : i < j => Precedes(e, q[i], k, q[j])
    BY <1>2, StatusAfter
<1>4. PICK k \in g.a..g.h : /\ Truthful(g, q[i], k)
                            /\ \A j \in 1..Len(q) : i < j => Precedes(g, q[i], k, q[j])
    BY <1>2 DEF StatusAt
<1>5. k \in e.a..e.h /\ \A p \in g.a..(k - 1) : p \in g.a..(g.h - 1)
    BY <1>1
<1>6. Truthful(e, q[i], k)'
    BY <1>4, <1>5 DEF Truthful
<1>7. \A j \in 1..Len(q) : i < j => Precedes(e, q[i], k, q[j])
    BY <1>4 DEF Precedes
<1> QED BY <1>5, <1>6, <1>7

\* A step that sets flags and timers only keeps the positions.
LEMMA Stays ==
    ASSUME TypeOK, NEW g \in Positions, At(g), SameSender, SameReceiver,
           submitted' \in Nat, submitted <= submitted'
    PROVE  /\ WindowsAt(g)' /\ CutAt(g)' /\ SenderAt(g)' /\ ReceiverAt(g)' /\ KeptAt(g)'
           /\ UNCHANGED dataPdus => FlightAt(g)'
           /\ UNCHANGED statusPdus => StatusAt(g)'
<1>1. SenderAt(g)' /\ Txed' = Txed /\ Retx' = Retx
    BY SenderStays DEF At
<1>2. ReceiverAt(g)' /\ Rxon(rx)' = Rxon(rx) /\ \A p : Received(g, p)' <=> Received(g, p)
    BY ReceiverStays DEF At
<1>3. WindowsAt(g)' /\ CutAt(g)'
    BY DEF At, WindowsAt, CutAt
<1>4. KeptAt(g)'
    BY <1>1, <1>2 DEF At, KeptAt
<1>5. UNCHANGED dataPdus => FlightAt(g)'
    BY DEF At, FlightAt
<1>6. ASSUME UNCHANGED statusPdus PROVE StatusAt(g)'
    <2>1. g.h <= g.h /\ StatusAt(g)
        BY g.h \in Nat DEF Positions, At
    <2> QED BY <1>1, <1>2, <1>6, <2>1, StatusStays
<1> QED BY <1>1, <1>2, <1>3, <1>4, <1>5, <1>6

\* The inductive invariant.
IInv == TypeOK /\ fatal = "none" /\ \E g \in Positions : At(g)

\* The record types of the two sides, as TypeOK states them.
TxType == [vtA : Sns, vtS : Sns, txed : [Sns -> Pdus], retx : [Sns -> Pdus],
           taken : {0} \cup Units, pollSn : Sns, pollRetransmitTimer : BOOLEAN,
           justExpired : BOOLEAN, rbsTimer : BOOLEAN, reported : BOOLEAN]

RxType == [vrR : Sns, vrX : Sns, vrMs : Sns, vrH : Sns, rxon : [Sns -> Pdus],
           reorderingTimer : BOOLEAN, statusPduRequested : BOOLEAN,
           statusProhibitTimer : BOOLEAN, statusReported : BOOLEAN,
           reassembly : [keepS0 : Seq(Units), expected : Sns, sdus : Seq(Seq(Units)),
                         error : BOOLEAN]]

\* A PDU on its way.
DataType == [sn : Sns, pdu : Pdus, poll : BOOLEAN, late : BOOLEAN]

\* The type invariant in terms of these types.
LEMMA TypeParts ==
    TypeOK <=> /\ ueSends \in BOOLEAN /\ submitted \in 0..MaxSdus
               /\ tx \in TxType /\ rx \in RxType
               /\ dataPdus \in Seq(DataType) /\ statusPdus \in Seq([ack : Sns, nacks : SUBSET Sns])
               /\ switches \in 0..MaxSwitches /\ losses \in 0..MaxLosses
BY Zenon DEF TypeOK, TxType, RxType, DataType

\* The same after a step.
LEMMA TypePartsPrime ==
    TypeOK' <=> /\ ueSends' \in BOOLEAN /\ submitted' \in 0..MaxSdus
                /\ tx' \in TxType /\ rx' \in RxType
                /\ dataPdus' \in Seq(DataType)
                /\ statusPdus' \in Seq([ack : Sns, nacks : SUBSET Sns])
                /\ switches' \in 0..MaxSwitches /\ losses' \in 0..MaxLosses
BY Zenon DEF TypeOK, TxType, RxType, DataType

\* A report to the MAC changes what the MAC knows.
LEMMA ReportedChanges ==
    ASSUME NEW t \in TxType, NEW n \in Nat
    PROVE  Reported(t, n) \in TxType /\ \E b \in BOOLEAN : Reported(t, n) = [t EXCEPT !.reported = b]
<1> DEFINE b == t.reported \/ n * SduSize > t.taken \/ \E sn \in Sns : t.retx[sn] # NoPdu
<1>1. b \in BOOLEAN
    BY DEF TxType
<1>2. Reported(t, n) = [t EXCEPT !.reported = b]
    BY DEF Reported
<1> HIDE DEF b
<1>3. [t EXCEPT !.reported = b] \in TxType
    BY <1>1 DEF TxType
<1> QED BY <1>1, <1>2, <1>3

\* Steps that set flags and timers only.
LEMMA TransmitPdcpPduKeeps ==
    ASSUME IInv, UNCHANGED ueSends, DoTransmitPdcpPdu PROVE IInv'
<1>1. PICK g \in Positions : At(g)
    BY DEF IInv
<1>2. submitted' \in 0..MaxSdus /\ submitted <= submitted' /\ tx \in TxType
    BY TypeParts, Constants, SMTT(20) DEF IInv, DoTransmitPdcpPdu
<1>3. PICK b \in BOOLEAN : Reported(tx, submitted') = [tx EXCEPT !.reported = b]
    BY <1>2, ReportedChanges
<1>4. tx' = [tx EXCEPT !.reported = b, !.rbsTimer = TRUE]
    BY <1>2, <1>3 DEF DoTransmitPdcpPdu, TxType
<1>5. tx' \in TxType /\ SameSender
    BY <1>2, <1>4 DEF TxType, SameSender
<1>6. SameReceiver
    BY DEF DoTransmitPdcpPdu, SameReceiver
<1>7. At(g)'
    BY <1>1, <1>2, <1>5, <1>6, Stays DEF IInv, DoTransmitPdcpPdu, At
<1>8. TypeOK'
    BY <1>2, <1>5, TypeParts, TypePartsPrime DEF IInv, DoTransmitPdcpPdu
<1> QED BY <1>7, <1>8 DEF IInv, DoTransmitPdcpPdu

\* The report is repeated.
LEMMA ExpireRbsTimerKeeps ==
    ASSUME IInv, UNCHANGED ueSends, ExpireRbsTimer PROVE IInv'
<1>1. PICK g \in Positions : At(g)
    BY DEF IInv
<1>2. tx \in TxType /\ submitted \in Nat /\ submitted' = submitted
    BY TypeParts, Constants DEF IInv, ExpireRbsTimer
<1>3. PICK b \in BOOLEAN : Reported(tx, submitted) = [tx EXCEPT !.reported = b]
    BY <1>2, ReportedChanges
<1>4. tx' = [tx EXCEPT !.reported = b] \/ tx' = [tx EXCEPT !.rbsTimer = FALSE]
    BY <1>2, <1>3 DEF ExpireRbsTimer
<1>5. tx' \in TxType /\ SameSender
    BY <1>2, <1>4 DEF TxType, SameSender
<1>6. SameReceiver
    BY DEF ExpireRbsTimer, SameReceiver
<1>7. At(g)'
    BY <1>1, <1>2, <1>5, <1>6, Stays DEF IInv, ExpireRbsTimer, At
<1>8. TypeOK'
    BY <1>2, <1>5, TypeParts, TypePartsPrime DEF IInv, ExpireRbsTimer
<1> QED BY <1>7, <1>8 DEF IInv, ExpireRbsTimer

\* A STATUS PDU may be sent again.
LEMMA ExpireStatusProhibitTimerKeeps ==
    ASSUME IInv, UNCHANGED ueSends, ExpireStatusProhibitTimer PROVE IInv'
<1>1. PICK g \in Positions : At(g)
    BY DEF IInv
<1>2. rx \in RxType /\ submitted \in Nat /\ submitted' = submitted
    BY TypeParts, Constants DEF IInv, ExpireStatusProhibitTimer
<1>3. rx' \in RxType /\ SameReceiver
    BY <1>2 DEF ExpireStatusProhibitTimer, RxType, SameReceiver
<1>4. SameSender
    BY DEF ExpireStatusProhibitTimer, SameSender
<1>5. At(g)'
    BY <1>1, <1>2, <1>3, <1>4, Stays DEF IInv, ExpireStatusProhibitTimer, At
<1>6. TypeOK'
    BY <1>2, <1>3, TypeParts, TypePartsPrime DEF IInv, ExpireStatusProhibitTimer
<1> QED BY <1>5, <1>6 DEF IInv, ExpireStatusProhibitTimer

\* A switch of the bandwidth part makes the MAC forget its reports.
LEMMA SwitchBwpKeeps ==
    ASSUME IInv, UNCHANGED ueSends, SwitchBwp PROVE IInv'
<1>1. PICK g \in Positions : At(g)
    BY DEF IInv
<1>2. /\ tx \in TxType /\ rx \in RxType /\ submitted \in Nat /\ submitted' = submitted
      /\ switches' \in 0..MaxSwitches
    BY TypeParts, Constants, SMTT(20) DEF IInv, SwitchBwp
<1>3. /\ \/ tx' = [tx EXCEPT !.reported = FALSE, !.pollRetransmitTimer = FALSE]
         \/ tx' = tx
      /\ \/ rx' = [rx EXCEPT !.statusReported = FALSE]
         \/ rx' = rx
    BY DEF SwitchBwp
<1>4. tx' \in TxType /\ SameSender
    BY <1>2, <1>3 DEF TxType, SameSender
<1>5. rx' \in RxType /\ SameReceiver
    BY <1>2, <1>3 DEF RxType, SameReceiver
<1>6. At(g)'
    BY <1>1, <1>2, <1>4, <1>5, Stays DEF IInv, SwitchBwp, At
<1>7. TypeOK'
    BY <1>2, <1>4, <1>5, TypeParts, TypePartsPrime DEF IInv, SwitchBwp
<1> QED BY <1>6, <1>7 DEF IInv, SwitchBwp

\* The elements that are left when the head leaves.
LEMMA TailOf ==
    ASSUME NEW S, NEW q \in Seq(S), q # << >>
    PROVE  /\ Tail(q) \in Seq(S) /\ Len(Tail(q)) = Len(q) - 1 /\ Len(q) \in Nat /\ Len(q) >= 1
           /\ \A i \in 1..(Len(q) - 1) : Tail(q)[i] = q[i + 1]
           /\ Head(q) = q[1] /\ q[1] \in S
<1>1. /\ Head(q) \in S /\ Tail(q) \in Seq(S) /\ Len(Tail(q)) = Len(q) - 1
      /\ \A i \in 1..Len(Tail(q)) : Tail(q)[i] = q[i + 1]
    BY HeadTailProperties
<1>2. Len(q) \in Nat /\ Len(q) >= 1 /\ Head(q) = q[1]
    BY EmptySeq
<1> QED BY <1>1, <1>2

\* The PDU at the head leaves: received or lost, or both parties go on without it.
LEMMA FlightTail ==
    ASSUME NEW g \in Positions, FlightAt(g), dataPdus \in Seq(DataType), dataPdus # << >>,
           dataPdus' = Tail(dataPdus),
           NEW h \in Nat, \A i \in 2..Len(g.n) : h <= g.n[i] + WindowSize,
           NEW e \in Positions, e.n = Tail(g.n), e.cut = g.cut, e.s = g.s, e.h = h
    PROVE  FlightAt(e)'
<1>1. g.n \in Seq(Nat) /\ Len(g.n) = Len(dataPdus) /\ g.n # << >>
    BY EmptySeq DEF FlightAt, Positions
<1>2. /\ Len(e.n) = Len(g.n) - 1 /\ Len(g.n) \in Nat /\ Len(g.n) >= 1
      /\ \A i \in 1..(Len(g.n) - 1) : e.n[i] = g.n[i + 1]
    BY <1>1, TailOf
<1>3. /\ Len(dataPdus') = Len(dataPdus) - 1
      /\ \A i \in 1..(Len(dataPdus) - 1) : dataPdus'[i] = dataPdus[i + 1]
    BY TailOf
<1>4. Len(e.n) = Len(dataPdus')
    BY <1>1, <1>2, <1>3
<1>5. ASSUME NEW i \in 1..Len(e.n)
      PROVE  /\ dataPdus'[i].sn = Pos(e.n[i]) /\ dataPdus'[i].pdu = Pdu(e.cut, e.n[i])
             /\ e.n[i] < e.s /\ e.h <= e.n[i] + WindowSize
             /\ \A j \in 1..Len(e.n) : i < j => e.n[i] < e.n[j] + WindowSize
    <2>1. /\ i + 1 \in 2..Len(g.n) /\ i + 1 \in 1..Len(g.n) /\ e.n[i] = g.n[i + 1]
          /\ dataPdus'[i] = dataPdus[i + 1]
        BY <1>1, <1>2, <1>3, SMTT(20)
    <2>2. ASSUME NEW j \in 1..Len(e.n), i < j PROVE e.n[i] < e.n[j] + WindowSize
        <3>1. j + 1 \in 1..Len(g.n) /\ e.n[j] = g.n[j + 1] /\ i + 1 < j + 1
            BY <1>2, <2>2
        <3> QED BY ONLY <2>1, <3>1, FlightAt(g) DEF FlightAt
    <2> QED BY <2>1, <2>2 DEF FlightAt
<1>6. ASSUME Len(e.n) > 0
      PROVE  e.s <= e.n[Len(e.n)] + WindowSize + (IF dataPdus'[Len(e.n)].late THEN 1 ELSE 0)
    <2>1. Len(e.n) \in 1..(Len(g.n) - 1) /\ Len(e.n) + 1 = Len(g.n)
        BY <1>2, <1>6
    <2>2. e.n[Len(e.n)] = g.n[Len(g.n)] /\ dataPdus'[Len(e.n)] = dataPdus[Len(g.n)]
        BY <1>1, <1>2, <1>3, <2>1
    <2>3. g.s <= g.n[Len(g.n)] + WindowSize + (IF dataPdus[Len(g.n)].late THEN 1 ELSE 0)
        BY <1>2 DEF FlightAt
    <2> QED BY ONLY <2>2, <2>3, e.s = g.s
<1> QED BY <1>4, <1>5, <1>6 DEF FlightAt

\* Lost PDUs change nothing that the two sides know.
LEMMA LoseKeeps ==
    ASSUME IInv, UNCHANGED ueSends, Lose PROVE IInv'
<1>1. PICK g \in Positions : At(g)
    BY DEF IInv
<1>2. /\ submitted \in Nat /\ submitted' = submitted /\ losses' \in 0..MaxLosses
      /\ dataPdus \in Seq(DataType) /\ statusPdus \in Seq([ack : Sns, nacks : SUBSET Sns])
    BY TypeParts, Constants DEF IInv, Lose
<1>3. SameSender /\ SameReceiver
    BY DEF Lose, SameSender, SameReceiver
<1>4. CASE dataPdus # << >> /\ dataPdus' = Tail(dataPdus) /\ UNCHANGED statusPdus
    <2> DEFINE e == [g EXCEPT !.n = Tail(@)]
    <2>1. dataPdus' \in Seq(DataType)
        BY <1>2, <1>4, TailOf
    <2>2. g.n \in Seq(Nat) /\ g.n # << >>
        BY <1>1, <1>2, <1>4, EmptySeq DEF At, FlightAt, Positions
    <2>3. Tail(g.n) \in Seq(Nat)
        BY <2>2, TailOf
    <2>4. /\ e \in Positions /\ e.a = g.a /\ e.s = g.s /\ e.r = g.r /\ e.ms = g.ms /\ e.h = g.h
          /\ e.x = g.x /\ e.cut = g.cut /\ e.n = Tail(g.n)
        BY <2>3 DEF Positions
    <2> HIDE DEF e
    <2>5. FlightAt(e)'
        <3>1. \A i \in 2..Len(g.n) : g.h <= g.n[i] + WindowSize
            BY <1>1, <2>2, LenProperties DEF At, FlightAt
        <3>2. g.h \in Nat
            BY DEF Positions
        <3> QED BY <1>1, <1>2, <1>4, <2>4, <3>1, <3>2, FlightTail DEF At
    <2>6. /\ WindowsAt(g)' /\ CutAt(g)' /\ SenderAt(g)' /\ ReceiverAt(g)' /\ KeptAt(g)'
          /\ StatusAt(g)'
        BY <1>1, <1>2, <1>3, <1>4, Stays DEF IInv
    <2>7. /\ WindowsAt(e)' /\ CutAt(e)' /\ SenderAt(e)' /\ ReceiverAt(e)' /\ KeptAt(e)'
        BY <2>4, <2>6 DEF WindowsAt, CutAt, SenderAt, ReceiverAt, KeptAt, Received
    <2>10. StatusAt(e)'
        BY <2>4, <2>6, StatusAlike
    <2>8. At(e)'
        BY <2>5, <2>7, <2>10 DEF At
    <2>9. TypeOK'
        BY <1>2, <1>4, <2>1, TypeParts, TypePartsPrime DEF IInv, Lose
    <2> QED BY <2>4, <2>8, <2>9 DEF IInv, Lose
<1>5. CASE statusPdus # << >> /\ statusPdus' = Tail(statusPdus) /\ UNCHANGED dataPdus
    <2>1. statusPdus' \in Seq([ack : Sns, nacks : SUBSET Sns])
        BY <1>2, <1>5, TailOf
    <2>2. StatusAt(g)'
        <3>1. PICK s, q : s = statusPdus /\ q = statusPdus'
            OBVIOUS
        <3>2. /\ Len(s) \in Nat /\ Len(q) = Len(s) - 1
              /\ \A i \in 1..Len(q) : q[i] = s[i + 1] /\ i + 1 \in 1..Len(s)
            <4>1. s \in Seq([ack : Sns, nacks : SUBSET Sns]) /\ s # << >> /\ q = Tail(s)
                BY <1>2, <1>5, <3>1
            <4>2. /\ Len(s) \in Nat /\ Len(q) = Len(s) - 1
                  /\ \A i \in 1..(Len(s) - 1) : q[i] = s[i + 1]
                BY ONLY <4>1, TailOf
            <4> QED BY ONLY <4>2
        <3>3. /\ Txed' = Txed /\ Retx' = Retx /\ \A p : Received(g, p)' <=> Received(g, p)
            BY <1>1, <1>2, <1>3, SenderStays, ReceiverStays DEF IInv, At
        <3>4. ASSUME NEW i \in 1..Len(q)
              PROVE  \E k \in g.a..g.h :
                         /\ Truthful(g, q[i], k)'
                         /\ \A j \in 1..Len(q) : i < j => Precedes(g, q[i], k, q[j])
            <4>1. PICK k \in g.a..g.h :
                      /\ Truthful(g, s[i + 1], k)
                      /\ \A j \in 1..Len(s) : i + 1 < j => Precedes(g, s[i + 1], k, s[j])
                BY <1>1, <3>1, <3>2 DEF At, StatusAt
            <4>2. Truthful(g, q[i], k)'
                BY <3>2, <3>3, <4>1 DEF Truthful
            <4>3. \A j \in 1..Len(q) : i < j => i + 1 < j + 1
                OBVIOUS
            <4> QED BY <3>2, <4>1, <4>2, <4>3
        <3> QED BY <3>1, <3>4, StatusAfter
    <2>3. At(g)'
        BY <1>1, <1>2, <1>3, <1>5, <2>2, Stays DEF IInv, At
    <2>4. TypeOK'
        BY <1>2, <1>5, <2>1, TypeParts, TypePartsPrime DEF IInv, Lose
    <2> QED BY <2>3, <2>4 DEF IInv, Lose
<1> QED BY <1>4, <1>5 DEF Lose

\* One element before the last one.
LEMMA Overtake ==
    ASSUME NEW S, NEW q \in Seq(S), q # << >>, NEW u \in S, NEW v \in S
    PROVE  /\ Front(q) \o <<u, v>> \in Seq(S)
           /\ Len(Front(q) \o <<u, v>>) = Len(q) + 1
           /\ \A i \in 1..(Len(q) - 1) : (Front(q) \o <<u, v>>)[i] = q[i]
           /\ (Front(q) \o <<u, v>>)[Len(q)] = u
           /\ (Front(q) \o <<u, v>>)[Len(q) + 1] = v
<1> DEFINE N == Len(q)
           f == Front(q)
           w == <<u, v>>
<1>1. N \in Nat /\ N >= 1
    BY EmptySeq
<1>2. f \in Seq(S) /\ Len(f) = N - 1 /\ \A i \in 1..(N - 1) : f[i] = q[i]
    <2>1. \A i \in 1..(N - 1) : q[i] \in S
        BY <1>1
    <2>2. N - 1 \in Int /\ (N - 1) - 1 + 1 = N - 1 /\ \A i \in Int : 1 + i - 1 = i
        BY <1>1
    <2> HIDE DEF N
    <2>3. /\ SubSeq(q, 1, N - 1) \in Seq(S)
          /\ Len(SubSeq(q, 1, N - 1)) = IF 1 <= N - 1 THEN (N - 1) - 1 + 1 ELSE 0
          /\ \A i \in 1..((N - 1) - 1 + 1) : SubSeq(q, 1, N - 1)[i] = q[1 + i - 1]
        BY ONLY <2>1, <2>2, SubSeqProperties
    <2>4. f = SubSeq(q, 1, N - 1)
        BY DEF Front, N
    <2> HIDE DEF f
    <2> QED BY <1>1, <2>2, <2>3, <2>4
<1>3. w \in Seq(S) /\ Len(w) = 2 /\ w[1] = u /\ w[2] = v
    OBVIOUS
<1> HIDE DEF N, f, w
<1>4. /\ f \o w \in Seq(S) /\ Len(f \o w) = Len(f) + Len(w)
      /\ \A i \in 1..(Len(f) + Len(w)) : (f \o w)[i] = IF i <= Len(f) THEN f[i] ELSE w[i - Len(f)]
    BY ONLY <1>2, <1>3, ConcatProperties
<1>5. Len(f) + Len(w) = N + 1 /\ Len(f) = N - 1
    BY <1>1, <1>2, <1>3
<1>6. \A i \in 1..(N - 1) : (f \o w)[i] = q[i]
    BY <1>1, <1>2, <1>4, <1>5
<1>7. N \in 1..(N + 1) /\ ~(N <= N - 1) /\ N - (N - 1) = 1
      /\ N + 1 \in 1..(N + 1) /\ ~(N + 1 <= N - 1) /\ (N + 1) - (N - 1) = 2
    BY <1>1
<1>8. (f \o w)[N] = u /\ (f \o w)[N + 1] = v
    BY ONLY <1>3, <1>4, <1>5, <1>7
<1> QED BY <1>4, <1>5, <1>6, <1>8 DEF f, w, N

\* The types of the positions.
LEMMA PositionsType ==
    ASSUME NEW g \in Positions
    PROVE  /\ g.a \in Nat /\ g.s \in Nat /\ g.r \in Nat /\ g.ms \in Nat /\ g.h \in Nat
           /\ g.x \in Nat /\ g.cut \in [Nat -> Nat] /\ g.n \in Seq(Nat)
           /\ Len(g.n) \in Nat /\ \A i \in 1..Len(g.n) : g.n[i] \in Nat
<1>1. /\ g.a \in Nat /\ g.s \in Nat /\ g.r \in Nat /\ g.ms \in Nat /\ g.h \in Nat
      /\ g.x \in Nat /\ g.cut \in [Nat -> Nat] /\ g.n \in Seq(Nat)
    BY DEF Positions
<1>2. Len(g.n) \in Nat /\ \A i \in 1..Len(g.n) : g.n[i] \in Nat
    <2> DEFINE n == g.n
    <2>1. n \in Seq(Nat)
        BY <1>1
    <2> HIDE DEF n
    <2>2. Len(n) \in Nat /\ \A i \in 1..Len(n) : n[i] \in Nat
        BY ONLY <2>1, LenProperties, ElementOfSeq
    <2> QED BY <2>2 DEF n
<1> QED BY <1>1, <1>2

\* The positions of what is on its way when the PDU at p is sent.
Sent(n, p, m) ==
    IF dataPdus' = Append(dataPdus, m) THEN Append(n, p) ELSE Front(n) \o <<p, n[Len(n)]>>

\* A PDU is sent at the end, or just before the last one: the PDUs on their way stay
\* less than a window apart from those behind them and from the receiver.
LEMMA TransmitFlight ==
    ASSUME NEW g \in Positions, WindowsAt(g), FlightAt(g), dataPdus \in Seq(DataType),
           NEW m \in DataType, Transmit(m), m.late = FALSE,
           NEW cut, \A j \in 0..g.s : cut[j] = g.cut[j],
           NEW p \in Nat, g.a <= p, p <= g.s, m.sn = Pos(p), m.pdu = Pdu(cut, p),
           NEW s \in {g.s, g.s + 1}, p < s, s <= p + WindowSize, NEW e
    PROVE  /\ dataPdus' \in Seq(DataType) /\ Sent(g.n, p, m) \in Seq(Nat)
           /\ e.n = Sent(g.n, p, m) /\ e.s = s /\ e.h = g.h /\ e.cut = cut => FlightAt(e)'
<1> DEFINE N == Len(g.n)
<1>0. /\ g.n \in Seq(Nat) /\ N \in Nat /\ g.a \in Nat /\ g.s \in Nat /\ g.h \in Nat
      /\ WindowSize \in Nat \ {0} /\ N = Len(dataPdus)
    BY PositionsType, Constants DEF FlightAt
<1> HIDE DEF N
<1>N. N \in Nat
    BY <1>0
<1>1. /\ g.s <= g.a + WindowSize /\ g.h <= g.s /\ s \in Nat /\ g.s <= s /\ s <= g.s + 1
    <2>1. g.s <= g.a + WindowSize /\ g.h <= g.s
        BY <1>0 DEF WindowsAt
    <2> QED BY <1>0, <2>1
<1>2. \A i \in 1..N :
          /\ g.n[i] \in Nat
          /\ dataPdus[i].sn = Pos(g.n[i]) /\ dataPdus[i].pdu = Pdu(cut, g.n[i])
          /\ g.n[i] < g.s /\ g.n[i] < s /\ g.h <= g.n[i] + WindowSize
          /\ \A j \in 1..N : i < j => g.n[i] < g.n[j] + WindowSize
          /\ g.n[i] < p + WindowSize
    <2>1. ASSUME NEW i \in 1..N
          PROVE  /\ g.n[i] \in Nat
                 /\ dataPdus[i].sn = Pos(g.n[i]) /\ dataPdus[i].pdu = Pdu(cut, g.n[i])
                 /\ g.n[i] < g.s /\ g.n[i] < s /\ g.h <= g.n[i] + WindowSize
                 /\ \A j \in 1..N : i < j => g.n[i] < g.n[j] + WindowSize
                 /\ g.n[i] < p + WindowSize
        <3>1. g.n[i] \in Nat
            BY PositionsType DEF N
        <3>2. /\ dataPdus[i].sn = Pos(g.n[i]) /\ dataPdus[i].pdu = Pdu(g.cut, g.n[i])
              /\ g.n[i] < g.s /\ g.h <= g.n[i] + WindowSize
              /\ \A j \in 1..N : i < j => g.n[i] < g.n[j] + WindowSize
            BY DEF FlightAt, N
        <3>3. Pdu(cut, g.n[i]) = Pdu(g.cut, g.n[i])
            <4>1. g.n[i] \in 0..g.s /\ g.n[i] + 1 \in 0..g.s
                BY ONLY <1>0, <3>1, <3>2, SMTT(20)
            <4> QED BY <4>1 DEF Pdu
        <3>4. g.n[i] < s /\ g.n[i] < p + WindowSize
            BY <1>0, <1>1, <3>1, <3>2, SMTT(20)
        <3> QED BY ONLY <3>1, <3>2, <3>3, <3>4
    <2> QED BY <2>1
<1>3. g.h <= p + WindowSize
    BY <1>0, <1>1
<1>4. CASE dataPdus' = Append(dataPdus, m)
    <2> DEFINE n == Append(g.n, p)
    <2>1. /\ dataPdus' \in Seq(DataType) /\ Len(dataPdus') = N + 1 /\ dataPdus'[N + 1] = m
          /\ \A i \in 1..N : dataPdus'[i] = dataPdus[i]
        BY <1>0, <1>4, AppendProperties
    <2>2. /\ n \in Seq(Nat) /\ Len(n) = N + 1 /\ n[N + 1] = p
          /\ \A i \in 1..N : n[i] = g.n[i]
        BY <1>0, AppendProperties DEF N
    <2> HIDE DEF n
    <2>3. ASSUME e.n = n, e.s = s, e.h = g.h, e.cut = cut PROVE FlightAt(e)'
        <3>1. ASSUME NEW i \in 1..(N + 1)
              PROVE  /\ dataPdus'[i].sn = Pos(n[i]) /\ dataPdus'[i].pdu = Pdu(cut, n[i])
                     /\ n[i] < s /\ g.h <= n[i] + WindowSize
                     /\ \A j \in 1..(N + 1) : i < j => n[i] < n[j] + WindowSize
            <4>1. CASE i = N + 1
                <5>1. \A j \in 1..(N + 1) : ~(N + 1 < j)
                    BY ONLY <1>N
                <5> QED BY <1>0, <1>3, <2>1, <2>2, <4>1, <5>1
            <4>2. CASE i # N + 1
                <5>1. i \in 1..N
                    BY ONLY <1>N, <4>2, i \in 1..(N + 1)
                <5>2. ASSUME NEW j \in 1..(N + 1), i < j PROVE n[i] < n[j] + WindowSize
                    <6>1. j \in 1..N \/ j = N + 1
                        BY ONLY <1>N, j \in 1..(N + 1)
                    <6> QED BY <1>2, <2>2, <5>1, <5>2, <6>1
                <5> QED BY <1>2, <2>1, <2>2, <5>1, <5>2
            <4> QED BY <1>0, <4>1, <4>2
        <3>2. s <= n[N + 1] + WindowSize + (IF dataPdus'[N + 1].late THEN 1 ELSE 0)
            <4>1. n[N + 1] = p /\ ~dataPdus'[N + 1].late
                BY <2>1, <2>2
            <4> QED BY <1>0, <1>1, <4>1
        <3> QED BY <1>0, <2>1, <2>2, <2>3, <3>1, <3>2 DEF FlightAt
    <2>4. Sent(g.n, p, m) = n
        BY <1>4 DEF Sent, n
    <2> QED BY <2>1, <2>2, <2>3, <2>4
<1>5. CASE /\ dataPdus' # Append(dataPdus, m)
           /\ ~ueSends /\ dataPdus # << >> /\ ~Last(dataPdus).late
           /\ \/ Distance(Last(dataPdus).sn, m.sn) < WindowSize
              \/ Distance(m.sn, Last(dataPdus).sn) < WindowSize
           /\ dataPdus' = Front(dataPdus) \o <<m, [Last(dataPdus) EXCEPT !.late = TRUE]>>
    <2> DEFINE l == g.n[N]
               late == [dataPdus[N] EXCEPT !.late = TRUE]
               n == Front(g.n) \o <<p, l>>
    <2>0. N >= 1 /\ N \in 1..N /\ g.n # << >> /\ Last(dataPdus) = dataPdus[N]
        <3>1. N # 0 /\ Last(dataPdus) = dataPdus[N]
            BY <1>0, <1>5, EmptySeq DEF Last
        <3>2. g.n # << >>
            BY <1>0, <3>1, EmptySeq DEF N
        <3> QED BY <1>0, <3>1, <3>2
    <2>1. dataPdus[N] \in DataType /\ late \in DataType
          /\ late.sn = Pos(l) /\ late.pdu = Pdu(cut, l) /\ late.late = TRUE
        <3>1. dataPdus[N] \in DataType
            BY <1>0, <2>0
        <3>2. late \in DataType /\ late.sn = dataPdus[N].sn /\ late.pdu = dataPdus[N].pdu
              /\ late.late = TRUE
            BY <3>1 DEF DataType
        <3> QED BY <1>2, <2>0, <3>1, <3>2
    <2>2. l \in Nat /\ g.s <= l + WindowSize
        <3>1. l \in Nat /\ ~dataPdus[N].late
            BY <1>2, <1>5, <2>0
        <3>2. g.s <= l + WindowSize + (IF dataPdus[N].late THEN 1 ELSE 0)
            BY <1>0, <2>0 DEF FlightAt, N
        <3> QED BY <1>0, <3>1, <3>2
    <2>3. p < l + WindowSize
        <3>0. p <= l + WindowSize
            BY ONLY <1>0, <2>2, p \in Nat, p <= g.s
        <3>1. SUFFICES ASSUME p = l + WindowSize PROVE FALSE
            <4>1. l \in Nat /\ WindowSize \in Nat
                BY <1>0, <2>2
            <4> HIDE DEF l
            <4> QED BY <3>0, <4>1
        <3>2. Distance(Pos(l), Pos(p)) = p - l
            BY <2>2, <3>1, DistancePos, Constants, SMTT(20)
        <3>3. Distance(Pos(p), Pos(l)) = l - p + SnModulus
            <4>1. l - p < 0 /\ 0 <= l - p + SnModulus
                BY <2>2, <3>1, Constants
            <4> QED BY <2>2, <4>1, DistancePos
        <3>4. dataPdus[N].sn = Pos(l)
            BY <1>2, <2>0 DEF l
        <3>5. p - l < WindowSize \/ l - p + SnModulus < WindowSize
            BY <1>5, <2>0, <3>2, <3>3, <3>4
        <3> QED BY <2>2, <3>1, <3>5, Constants, SMTT(20)
    <2>4. /\ dataPdus' \in Seq(DataType) /\ Len(dataPdus') = N + 1 /\ dataPdus'[N + 1] = late
          /\ dataPdus'[N] = m /\ \A i \in 1..(N - 1) : dataPdus'[i] = dataPdus[i]
        <3>1. dataPdus' = Front(dataPdus) \o <<m, late>>
            BY <1>5, <2>0
        <3>2. late \in DataType /\ m \in DataType /\ dataPdus \in Seq(DataType) /\ dataPdus # << >>
            BY <1>5, <2>1
        <3> DEFINE w == Front(dataPdus) \o <<m, late>>
        <3> HIDE DEF late
        <3>3. /\ w \in Seq(DataType) /\ Len(w) = Len(dataPdus) + 1
              /\ \A i \in 1..(Len(dataPdus) - 1) : w[i] = dataPdus[i]
              /\ w[Len(dataPdus)] = m /\ w[Len(dataPdus) + 1] = late
            BY ONLY <3>2, Overtake
        <3> HIDE DEF w
        <3>4. dataPdus' = w /\ Len(dataPdus) = N
            BY <1>0, <3>1 DEF w
        <3> QED BY ONLY <3>3, <3>4
    <2>5. /\ n \in Seq(Nat) /\ Len(n) = N + 1 /\ n[N + 1] = l
          /\ n[N] = p /\ \A i \in 1..(N - 1) : n[i] = g.n[i]
        <3> DEFINE q == g.n
                   w == Front(q) \o <<p, l>>
        <3>1. q \in Seq(Nat) /\ q # << >> /\ l \in Nat /\ p \in Nat
            BY <1>0, <2>0, <2>2
        <3> HIDE DEF l, q
        <3>2. /\ w \in Seq(Nat) /\ Len(w) = Len(q) + 1
              /\ \A i \in 1..(Len(q) - 1) : w[i] = q[i]
              /\ w[Len(q)] = p /\ w[Len(q) + 1] = l
            <4> DEFINE S == Nat
            <4>1. q \in Seq(S) /\ q # << >> /\ l \in S /\ p \in S
                BY <3>1
            <4> HIDE DEF S
            <4>2. /\ w \in Seq(S) /\ Len(w) = Len(q) + 1
                  /\ \A i \in 1..(Len(q) - 1) : w[i] = q[i]
                  /\ w[Len(q)] = p /\ w[Len(q) + 1] = l
                BY ONLY <4>1, Overtake
            <4> QED BY <4>2 DEF S
        <3> QED BY <3>2 DEF N, q
    <2> HIDE DEF n, late, l
    <2>6. ASSUME e.n = n, e.s = s, e.h = g.h, e.cut = cut PROVE FlightAt(e)'
        <3>1. ASSUME NEW i \in 1..(N + 1)
              PROVE  /\ dataPdus'[i].sn = Pos(n[i]) /\ dataPdus'[i].pdu = Pdu(cut, n[i])
                     /\ n[i] < s /\ g.h <= n[i] + WindowSize
                     /\ \A j \in 1..(N + 1) : i < j => n[i] < n[j] + WindowSize
            <4>1. CASE i = N + 1
                <5>1. \A j \in 1..(N + 1) : ~(N + 1 < j)
                    BY ONLY <1>N
                <5>2. l < s /\ g.h <= l + WindowSize
                    BY <1>2, <2>0 DEF l
                <5> QED BY <2>1, <2>4, <2>5, <4>1, <5>1, <5>2
            <4>2. CASE i = N
                <5>1. ASSUME NEW j \in 1..(N + 1), i < j PROVE n[i] < n[j] + WindowSize
                    <6>1. j = N + 1
                        BY ONLY <1>N, <4>2, <5>1, j \in 1..(N + 1)
                    <6> QED BY <2>3, <2>5, <4>2, <6>1
                <5> QED BY <1>0, <1>3, <2>0, <2>4, <2>5, <4>2, <5>1
            <4>3. CASE i \in 1..(N - 1)
                <5>1. i \in 1..N /\ n[i] = g.n[i] /\ dataPdus'[i] = dataPdus[i]
                    BY <1>0, <2>4, <2>5, <4>3, SMTT(20)
                <5>2. ASSUME NEW j \in 1..(N + 1), i < j PROVE n[i] < n[j] + WindowSize
                    <6>1. j \in 1..(N - 1) \/ j = N \/ j = N + 1
                        BY ONLY <1>N, j \in 1..(N + 1)
                    <6>2. CASE j \in 1..(N - 1)
                        <7>1. j \in 1..N
                            BY ONLY <1>N, <6>2
                        <7> QED BY ONLY <1>2, <2>5, <5>1, <5>2, <6>2, <7>1
                    <6>3. CASE j = N
                        BY ONLY <1>2, <2>5, <5>1, <6>3
                    <6>4. CASE j = N + 1
                        <7>1. i < N /\ N \in 1..N
                            BY <1>0, <4>3
                        <7>2. g.n[i] < l + WindowSize
                            BY ONLY <1>2, <5>1, <7>1 DEF l
                        <7> QED BY ONLY <2>5, <5>1, <6>4, <7>2
                    <6> QED BY <6>1, <6>2, <6>3, <6>4
                <5> QED BY ONLY <1>2, <5>1, <5>2
            <4>4. i = N + 1 \/ i = N \/ i \in 1..(N - 1)
                BY ONLY <1>N, i \in 1..(N + 1)
            <4> QED BY <4>1, <4>2, <4>3, <4>4
        <3>2. s <= n[N + 1] + WindowSize + (IF dataPdus'[N + 1].late THEN 1 ELSE 0)
            <4>1. n[N + 1] = l /\ dataPdus'[N + 1].late = TRUE
                BY <2>1, <2>4, <2>5
            <4> QED BY <1>0, <1>1, <2>2, <4>1
        <3> QED BY <1>0, <2>4, <2>5, <2>6, <3>1, <3>2 DEF FlightAt
    <2>7. Sent(g.n, p, m) = n
        BY <1>5 DEF Sent, n, l, N
    <2> QED BY <2>4, <2>5, <2>6, <2>7
<1> QED BY <1>4, <1>5 DEF Transmit

(***************************************************************************)
(* The transmitting side                                                   *)
(***************************************************************************)
\* The SNs from VT(A) to VT(S) are the positions from a to s.
LEMMA SentAre ==
    ASSUME NEW g \in Positions, WindowsAt(g), SenderAt(g)
    PROVE  /\ g.s - g.a \in 0..WindowSize
           /\ Outstanding = g.s - g.a
           /\ \A p \in g.a..g.s : Distance(tx.vtA, Pos(p)) = p - g.a
           /\ \A p \in g.a..(g.s - 1) : Pos(p) \in SentSns
           /\ \A sn \in SentSns : \E p \in g.a..(g.s - 1) : sn = Pos(p)
           /\ Txed \subseteq SentSns /\ Retx \subseteq SentSns
<1>1. /\ g.a \in Nat /\ g.s \in Nat /\ g.a <= g.s /\ g.s <= g.a + WindowSize
      /\ WindowSize \in Nat /\ SnModulus \in Nat /\ WindowSize < SnModulus
    <2>1. /\ g.a \in Nat /\ g.s \in Nat /\ g.r \in Nat /\ g.ms \in Nat /\ g.h \in Nat
        BY PositionsType
    <2> QED BY <2>1, Constants DEF WindowsAt
<1>2. tx.vtA = Pos(g.a) /\ tx.vtS = Pos(g.s)
    BY DEF SenderAt
<1>3. ASSUME NEW p \in g.a..g.s PROVE Distance(tx.vtA, Pos(p)) = p - g.a
    <2>1. p \in Int /\ 0 <= p - g.a /\ p - g.a < SnModulus
        BY <1>1
    <2> QED BY ONLY <1>1, <1>2, <2>1, DistancePos
<1>4. Outstanding = g.s - g.a /\ g.s - g.a \in 0..WindowSize
    BY <1>1, <1>2, <1>3 DEF Outstanding
<1>5. ASSUME NEW p \in g.a..(g.s - 1) PROVE Pos(p) \in SentSns
    <2>1. p \in g.a..g.s /\ p \in Int /\ p - g.a < g.s - g.a
        BY <1>1
    <2>2. Pos(p) \in Sns
        BY <2>1, PosIsSn
    <2> QED BY <1>3, <1>4, <2>1, <2>2 DEF SentSns
<1>6. ASSUME NEW sn \in SentSns PROVE \E p \in g.a..(g.s - 1) : sn = Pos(p)
    <2> DEFINE d == Distance(tx.vtA, sn)
    <2>1. sn \in Sns /\ d < g.s - g.a
        BY <1>4 DEF SentSns
    <2>2. d \in 0..(SnModulus - 1) /\ Pos(g.a + d) = sn
        BY <1>1, <1>2, <2>1, PositionOf
    <2> HIDE DEF d
    <2>3. g.a + d \in g.a..(g.s - 1)
        BY <1>1, <2>1, <2>2
    <2> QED BY <2>2, <2>3
<1>7. Txed \subseteq SentSns /\ Retx \subseteq SentSns
    BY <1>5 DEF SenderAt, Holds, Txed, Retx
<1> QED BY <1>3, <1>4, <1>5, <1>6, <1>7

\* PDUs go from one buffer to the other.
LEMMA SenderMoves ==
    ASSUME NEW g \in Positions, At(g), UNCHANGED <<rx, submitted>>,
           tx'.vtA = tx.vtA, tx'.vtS = tx.vtS, tx'.taken = tx.taken,
           Txed' \cup Retx' = Txed \cup Retx, Txed' \cap Retx' = {},
           \A sn \in Sns : /\ tx'.txed[sn] \in {NoPdu, tx.txed[sn], tx.retx[sn]}
                           /\ tx'.retx[sn] \in {NoPdu, tx.txed[sn], tx.retx[sn]}
    PROVE  /\ WindowsAt(g)' /\ CutAt(g)' /\ SenderAt(g)' /\ ReceiverAt(g)' /\ KeptAt(g)'
           /\ UNCHANGED statusPdus => StatusAt(g)'
           /\ UNCHANGED dataPdus => FlightAt(g)'
<1>1. Rxon(rx)' = Rxon(rx) /\ \A p : Received(g, p)' <=> Received(g, p)
    BY DEF Rxon, Received
<1>2. Holds(tx.txed, g.a, g.s - 1, g.cut)' /\ Holds(tx.retx, g.a, g.s - 1, g.cut)'
    BY DEF At, SenderAt, Holds
<1>3. SenderAt(g)'
    BY <1>2 DEF At, SenderAt
<1>4. ReceiverAt(g)'
    BY DEF At, ReceiverAt, Holds
<1>5. KeptAt(g)'
    BY <1>1 DEF At, KeptAt
<1>6. ASSUME UNCHANGED statusPdus PROVE StatusAt(g)'
    <2>1. g.h <= g.h /\ StatusAt(g)
        BY g.h \in Nat DEF Positions, At
    <2> QED BY <1>1, <1>6, <2>1, StatusStays
<1>7. WindowsAt(g)' /\ CutAt(g)' /\ (UNCHANGED dataPdus => FlightAt(g)')
    BY DEF At, WindowsAt, CutAt, FlightAt
<1> QED BY <1>3, <1>4, <1>5, <1>6, <1>7

\* t-PollRetransmit: what was transmitted is to be sent again.
LEMMA ExpirePollRetransmitTimerKeeps ==
    ASSUME IInv, UNCHANGED ueSends, ExpirePollRetransmitTimer PROVE IInv'
<1>1. PICK g \in Positions : At(g)
    BY DEF IInv
<1>2. tx \in TxType /\ submitted \in Nat
    BY TypeParts, Constants DEF IInv
<1>3. Txed \subseteq SentSns /\ Txed \cap Retx = {}
    BY <1>1, SentAre DEF At, SenderAt
<1> DEFINE t == [tx EXCEPT !.pollRetransmitTimer = FALSE, !.justExpired = TRUE]
           retx == [sn \in Sns |-> IF sn \in Txed \cap SentSns THEN tx.txed[sn] ELSE tx.retx[sn]]
           txed == [sn \in Sns |-> IF sn \in SentSns THEN NoPdu ELSE tx.txed[sn]]
           all == [t EXCEPT !.retx = retx, !.txed = txed]
<1>4. PICK u \in {t, all} : tx' = Reported(u, submitted)
    <2>1. all = [t EXCEPT !.retx = [sn \in Sns |-> IF sn \in Txed \cap SentSns THEN t.txed[sn]
                                                                             ELSE @[sn]],
                          !.txed = [sn \in Sns |-> IF sn \in SentSns THEN NoPdu ELSE @[sn]]]
        BY <1>2 DEF TxType
    <2> QED BY <2>1 DEF ExpirePollRetransmitTimer
<1>5. /\ t \in TxType /\ t.vtA = tx.vtA /\ t.vtS = tx.vtS /\ t.taken = tx.taken
      /\ t.txed = tx.txed /\ t.retx = tx.retx
    BY <1>2 DEF TxType
<1>6. /\ tx.txed \in [Sns -> Pdus] /\ tx.retx \in [Sns -> Pdus]
      /\ retx \in [Sns -> Pdus] /\ txed \in [Sns -> Pdus]
    <2>1. tx.txed \in [Sns -> Pdus] /\ tx.retx \in [Sns -> Pdus] /\ NoPdu \in Pdus
        BY <1>2 DEF TxType, Pdus
    <2> QED BY <2>1
<1>7. /\ all \in TxType /\ all.vtA = tx.vtA /\ all.vtS = tx.vtS /\ all.taken = tx.taken
      /\ all.txed = txed /\ all.retx = retx
    <2> HIDE DEF retx, txed, t
    <2> QED BY <1>5, <1>6 DEF TxType
<1>8. /\ u \in TxType /\ u.vtA = tx.vtA /\ u.vtS = tx.vtS /\ u.taken = tx.taken
      /\ (u.txed = tx.txed /\ u.retx = tx.retx) \/ (u.txed = txed /\ u.retx = retx)
    BY <1>4, <1>5, <1>7
<1> HIDE DEF t, all
<1>9. /\ tx' \in TxType /\ tx'.vtA = tx.vtA /\ tx'.vtS = tx.vtS /\ tx'.taken = tx.taken
      /\ (tx'.txed = tx.txed /\ tx'.retx = tx.retx) \/ (tx'.txed = txed /\ tx'.retx = retx)
    <2>1. PICK b \in BOOLEAN : Reported(u, submitted) = [u EXCEPT !.reported = b]
        BY ONLY <1>2, <1>8, ReportedChanges
    <2>2. Reported(u, submitted) \in TxType
        BY ONLY <1>2, <1>8, ReportedChanges
    <2> HIDE DEF txed, retx
    <2>3. /\ tx'.vtA = u.vtA /\ tx'.vtS = u.vtS /\ tx'.taken = u.taken
          /\ tx'.txed = u.txed /\ tx'.retx = u.retx
        BY <1>4, <1>8, <2>1 DEF TxType
    <2> QED BY <1>4, <1>8, <2>2, <2>3
<1>10. Txed' \cup Retx' = Txed \cup Retx /\ Txed' \cap Retx' = {}
    <2>1. CASE tx'.txed = tx.txed /\ tx'.retx = tx.retx
        BY <1>3, <2>1 DEF Txed, Retx
    <2>2. CASE tx'.txed = txed /\ tx'.retx = retx
        BY <1>3, <2>2 DEF Txed, Retx
    <2> QED BY <1>9, <2>1, <2>2
<1>11. \A sn \in Sns : /\ tx'.txed[sn] \in {NoPdu, tx.txed[sn], tx.retx[sn]}
                       /\ tx'.retx[sn] \in {NoPdu, tx.txed[sn], tx.retx[sn]}
    BY <1>9
<1>12. At(g)'
    <2>1. UNCHANGED <<rx, submitted, statusPdus, dataPdus>>
        BY DEF ExpirePollRetransmitTimer
    <2> QED BY <1>1, <1>9, <1>10, <1>11, <2>1, SenderMoves DEF At
<1>13. TypeOK'
    BY <1>9, TypeParts, TypePartsPrime DEF IInv, ExpirePollRetransmitTimer
<1> QED BY <1>12, <1>13 DEF IInv, ExpirePollRetransmitTimer

\* A polling bit changes the timer and what it waits for.
LEMMA PolledIs ==
    ASSUME NEW t \in TxType, NEW poll \in BOOLEAN
    PROVE  /\ Polled(t, poll) \in TxType
           /\ Polled(t, poll).vtA = t.vtA /\ Polled(t, poll).vtS = t.vtS
           /\ Polled(t, poll).taken = t.taken
           /\ Polled(t, poll).txed = t.txed /\ Polled(t, poll).retx = t.retx
<1>1. Plus(t.vtS, SnModulus - 1) \in Sns
    <2>1. t.vtS \in Int /\ SnModulus - 1 \in Int /\ SnModulus \in Nat \ {0}
        BY Constants DEF TxType, Sns
    <2>2. t.vtS + (SnModulus - 1) \in Int
        BY <2>1
    <2> QED BY ONLY <2>1, <2>2, DivMod DEF Plus, Sns
<1> QED BY <1>1 DEF Polled, TxType

\* PDUs that are sent go from one buffer to the other, and one is on its way.
LEMMA RetransmitKeeps ==
    ASSUME IInv, NEW n \in 1..MaxOpportunity, Retx # {}, Retransmit(n),
           UNCHANGED <<ueSends, submitted, rx, statusPdus, switches, losses>>
    PROVE  IInv'
<1>1. PICK g \in Positions : At(g)
    BY DEF IInv
<1>2. tx \in TxType /\ submitted \in Nat /\ dataPdus \in Seq(DataType)
    BY TypeParts, Constants DEF IInv
<1>3. /\ Txed \subseteq SentSns /\ Retx \subseteq SentSns /\ Txed \cap Retx = {}
      /\ \A q \in g.a..g.s : Distance(tx.vtA, Pos(q)) = q - g.a
    BY <1>1, SentAre DEF At, SenderAt
<1> DEFINE sn == CHOOSE s \in Retx : \A q \in Retx : Distance(tx.vtA, s) <= Distance(tx.vtA, q)
           poll == \/ (TxonSize(submitted) = 0 /\ Retx = {sn})
                   \/ Stalled \/ tx.justExpired
           m == [sn |-> sn, pdu |-> tx.retx[sn], poll |-> poll, late |-> FALSE]
<1>4. sn \in Retx
    <2> DEFINE T == {Distance(tx.vtA, q) : q \in Retx}
    <2>1. T \in SUBSET Nat /\ T # {}
        <3>1. \A q \in Retx : Distance(tx.vtA, q) \in Nat
            <4>1. \A q \in Retx : q \in Int /\ tx.vtA \in Int
                BY <1>2 DEF Retx, TxType, Sns
            <4>2. SnModulus \in Nat \ {0}
                BY Constants
            <4> QED BY <4>1, <4>2, DivMod DEF Distance
        <3> QED BY <3>1
    <2>2. PICK x \in T : \A y \in T : x <= y
        BY ONLY <2>1, NatMin
    <2>3. \E s \in Retx : \A q \in Retx : Distance(tx.vtA, s) <= Distance(tx.vtA, q)
        BY <2>2
    <2> QED BY <2>3
<1> HIDE DEF sn
<1>5. PICK p \in g.a..(g.s - 1) : sn = Pos(p) /\ tx.retx[sn] = Pdu(g.cut, p)
    BY <1>1, <1>4 DEF At, SenderAt, Holds, Retx
<1>6. /\ p \in Nat /\ g.a \in Nat /\ g.s \in Nat /\ g.a <= p /\ p <= g.s /\ p < g.s
      /\ g.s <= p + WindowSize
    <2>1. g.a \in Nat /\ g.s \in Nat /\ WindowSize \in Nat
        BY PositionsType, Constants
    <2>2. g.s <= g.a + WindowSize
        BY <1>1 DEF At, WindowsAt
    <2> QED BY <2>1, <2>2
<1>7. m \in DataType
    <2>1. poll \in BOOLEAN
        BY <1>2 DEF TxType
    <2>2. sn \in Sns /\ tx.retx[sn] \in Pdus
        BY <1>2, <1>4 DEF TxType, Retx
    <2> HIDE DEF poll
    <2> QED BY <2>1, <2>2 DEF DataType
<1>8. CASE tx' \in {tx, [tx EXCEPT !.reported = FALSE]} /\ UNCHANGED <<dataPdus, fatal>>
    <2>1. tx' \in TxType /\ SameSender
        BY <1>2, <1>8 DEF TxType, SameSender
    <2>2. SameReceiver
        BY DEF SameReceiver
    <2>3. At(g)'
        BY <1>1, <1>2, <1>8, <2>1, <2>2, Stays DEF IInv, At
    <2>4. TypeOK'
        BY <1>2, <1>8, <2>1, TypeParts, TypePartsPrime DEF IInv
    <2> QED BY <1>8, <2>3, <2>4 DEF IInv
<1>9. CASE /\ Transmit(m)
           /\ \E r \in {FALSE, tx.reported} :
                  tx' = Polled([Retransmitted(tx, sn) EXCEPT !.reported = r], poll)
           /\ UNCHANGED fatal
    <2>1. PICK r \in {FALSE, tx.reported} :
                  tx' = Polled([Retransmitted(tx, sn) EXCEPT !.reported = r], poll)
        BY <1>9
    <2>2. poll \in BOOLEAN /\ r \in BOOLEAN
        BY <1>2, <2>1 DEF TxType
    <2> DEFINE u == [Retransmitted(tx, sn) EXCEPT !.reported = r]
    <2>3. /\ u \in TxType /\ u.vtA = tx.vtA /\ u.vtS = tx.vtS /\ u.taken = tx.taken
          /\ u.txed = [tx.txed EXCEPT ![sn] = tx.retx[sn]]
          /\ u.retx = [tx.retx EXCEPT ![sn] = NoPdu]
        <3>1. sn \in Sns /\ NoPdu \in Pdus
            BY <1>4 DEF Retx, Pdus
        <3> QED BY <1>2, <2>2, <3>1 DEF TxType, Retransmitted
    <2> HIDE DEF u, poll
    <2>4. /\ tx' \in TxType /\ tx'.vtA = tx.vtA /\ tx'.vtS = tx.vtS /\ tx'.taken = tx.taken
          /\ tx'.txed = [tx.txed EXCEPT ![sn] = tx.retx[sn]]
          /\ tx'.retx = [tx.retx EXCEPT ![sn] = NoPdu]
        <3>1. tx' = Polled(u, poll)
            BY <2>1 DEF u
        <3> QED BY ONLY <2>2, <2>3, <3>1, PolledIs
    <2>5. tx.txed \in [Sns -> Pdus] /\ tx.retx \in [Sns -> Pdus]
        BY <1>2 DEF TxType
    <2>6. Txed' = Txed \cup {sn} /\ Retx' = Retx \ {sn}
        <3>1. tx.retx[sn] # NoPdu /\ sn \in Sns
            BY <1>4 DEF Retx
        <3> QED BY <2>4, <2>5, <3>1 DEF Txed, Retx
    <2>7. Txed' \cup Retx' = Txed \cup Retx /\ Txed' \cap Retx' = {}
        BY <1>3, <1>4, <2>6
    <2>8. \A s \in Sns : /\ tx'.txed[s] \in {NoPdu, tx.txed[s], tx.retx[s]}
                         /\ tx'.retx[s] \in {NoPdu, tx.txed[s], tx.retx[s]}
        BY <2>4, <2>5
    <2>9. /\ WindowsAt(g)' /\ CutAt(g)' /\ SenderAt(g)' /\ ReceiverAt(g)' /\ KeptAt(g)'
          /\ StatusAt(g)'
        BY <1>1, <2>4, <2>7, <2>8, SenderMoves
    <2>a. PICK k : k = Sent(g.n, p, m)
        OBVIOUS
    <2> DEFINE e == [g EXCEPT !.n = k]
    <2>10. /\ dataPdus' \in Seq(DataType) /\ k \in Seq(Nat)
           /\ e.n = k /\ e.s = g.s /\ e.h = g.h /\ e.cut = g.cut => FlightAt(e)'
        <3> DEFINE cut == g.cut
                   s == g.s
        <3>1. m \in DataType /\ m.sn = Pos(p) /\ m.pdu = Pdu(cut, p) /\ m.late = FALSE
            BY <1>5, <1>7
        <3>2. /\ WindowsAt(g) /\ FlightAt(g) /\ Transmit(m) /\ dataPdus \in Seq(DataType)
              /\ g \in Positions
            BY <1>1, <1>2, <1>9 DEF At, m, poll
        <3>3. s \in {g.s, g.s + 1} /\ \A j \in 0..g.s : cut[j] = g.cut[j]
            OBVIOUS
        <3>4. p \in Nat /\ g.a <= p /\ p <= g.s /\ p < s /\ s <= p + WindowSize
            BY <1>6
        <3> HIDE DEF m, cut, s, e
        <3>5. /\ dataPdus' \in Seq(DataType) /\ Sent(g.n, p, m) \in Seq(Nat)
              /\ e.n = Sent(g.n, p, m) /\ e.s = s /\ e.h = g.h /\ e.cut = cut => FlightAt(e)'
            BY ONLY <3>1, <3>2, <3>3, <3>4, TransmitFlight
        <3> QED BY <2>a, <3>5 DEF cut, s
    <2>11. /\ e \in Positions /\ e.a = g.a /\ e.s = g.s /\ e.r = g.r /\ e.ms = g.ms /\ e.h = g.h
           /\ e.x = g.x /\ e.cut = g.cut /\ e.n = k
        BY <2>10 DEF Positions
    <2> HIDE DEF e
    <2>12. At(e)'
        <3>1. /\ WindowsAt(e)' /\ CutAt(e)' /\ SenderAt(e)' /\ ReceiverAt(e)' /\ KeptAt(e)'
            BY <2>9, <2>11 DEF WindowsAt, CutAt, SenderAt, ReceiverAt, KeptAt, Received
        <3>2. StatusAt(e)'
            BY <2>9, <2>11, StatusAlike
        <3> QED BY <2>10, <2>11, <3>1, <3>2 DEF At
    <2>13. TypeOK'
        BY <1>2, <2>4, <2>10, TypeParts, TypePartsPrime DEF IInv
    <2> QED BY <1>9, <2>11, <2>12, <2>13 DEF IInv
<1>10. sn \in Retx \cap SentSns
    BY <1>3, <1>4
<1> QED
    <2>1. \/ tx' \in {tx, [tx EXCEPT !.reported = FALSE]} /\ UNCHANGED <<dataPdus, fatal>>
          \/ /\ Transmit(m)
             /\ \E r \in {FALSE, tx.reported} :
                   tx' = Polled([Retransmitted(tx, sn) EXCEPT !.reported = r], poll)
             /\ UNCHANGED fatal
        BY <1>10 DEF Retransmit, sn
    <2> QED BY <1>8, <1>9, <2>1

\* A buffer that holds PDUs of some positions holds PDUs of more of them.
LEMMA HoldsWider ==
    ASSUME NEW buffer, NEW lo \in Nat, NEW hi \in Int, NEW top \in Int, hi <= top,
           NEW cut, NEW cutt, \A j \in 0..(hi + 1) : cutt[j] = cut[j], Holds(buffer, lo, hi, cut)
    PROVE  Holds(buffer, lo, top, cutt)
<1>1. SUFFICES ASSUME NEW sn \in Sns, buffer[sn] # NoPdu
               PROVE  \E p \in lo..top : sn = Pos(p) /\ buffer[sn] = Pdu(cutt, p)
    BY DEF Holds
<1>2. PICK p \in lo..hi : sn = Pos(p) /\ buffer[sn] = Pdu(cut, p)
    BY <1>1 DEF Holds
<1>3. p \in lo..top /\ p \in 0..(hi + 1) /\ p + 1 \in 0..(hi + 1)
    OBVIOUS
<1> QED BY <1>2, <1>3 DEF Pdu

\* A new PDU takes the next units and the next SN.
LEMMA NewPduKeeps ==
    ASSUME IInv, NEW n \in 1..MaxOpportunity, Retx = {}, TxonSize(submitted) > 0, ~Stalled,
           NewPdu(n), UNCHANGED <<ueSends, submitted, rx, statusPdus, switches, losses>>
    PROVE  IInv'
<1>1. PICK g \in Positions : At(g)
    BY DEF IInv
<1>2. tx \in TxType /\ submitted \in 0..MaxSdus /\ dataPdus \in Seq(DataType)
    BY TypeParts, Constants DEF IInv
<1>b. g.cut \in [Nat -> Nat]
    BY PositionsType
<1>c. g.n \in Seq(Nat)
    BY PositionsType
<1>3. /\ g.a \in Nat /\ g.s \in Nat /\ g.r \in Nat /\ g.ms \in Nat /\ g.h \in Nat
      /\ WindowSize \in Nat \ {0} /\ SduSize \in Nat \ {0} /\ MaxSdus \in Nat
    BY PositionsType, Constants
<1>4. /\ g.a <= g.r /\ g.r <= g.ms /\ g.ms <= g.h /\ g.h <= g.s /\ g.s <= g.a + WindowSize
      /\ Outstanding = g.s - g.a /\ g.s # g.a + WindowSize
    <2>1. Outstanding = g.s - g.a /\ Outstanding # WindowSize
        BY <1>1, SentAre DEF At, Stalled
    <2>2. /\ g.a <= g.r /\ g.r <= g.ms /\ g.ms <= g.h /\ g.h <= g.s /\ g.s <= g.a + WindowSize
        BY <1>1 DEF At, WindowsAt
    <2> QED BY <1>3, <2>1, <2>2
<1> DEFINE all == submitted * SduSize
           to == IF TxonSize(submitted) <= n THEN all ELSE tx.taken + n
           p == [from |-> tx.taken + 1, to |-> to]
           sn == tx.vtS
           m == [sn |-> sn, pdu |-> p, poll |-> TRUE, late |-> FALSE]
<1>5. /\ tx.taken \in Nat /\ all \in Nat /\ all <= MaxSdus * SduSize
      /\ MaxSdus * SduSize \in Nat /\ to \in Nat /\ tx.taken < to /\ to <= all
    <2>1. tx.taken \in Nat
        BY <1>1, <1>b, <1>3 DEF At, SenderAt
    <2>2. submitted \in Int /\ MaxSdus \in Int /\ 0 \in Int /\ 0 <= submitted /\ submitted <= MaxSdus
        BY <1>2, <1>3
    <2>3. /\ 0 * SduSize <= all /\ all <= MaxSdus * SduSize /\ 0 * SduSize \in Int /\ all \in Int
          /\ MaxSdus * SduSize \in Int
        BY ONLY <2>2, Multiples
    <2>4. 0 * SduSize = 0
        BY <1>3
    <2>5. TxonSize(submitted) = all - tx.taken
        BY DEF TxonSize
    <2> HIDE DEF all
    <2>6. all \in Nat /\ MaxSdus * SduSize \in Nat
        BY ONLY <2>3, <2>4
    <2>7. all - tx.taken > 0 /\ n \in Nat /\ n >= 1
        BY <2>5
    <2>8. to = IF all - tx.taken <= n THEN all ELSE tx.taken + n
        BY <2>5
    <2>9. to \in Nat /\ tx.taken < to /\ to <= all
        BY ONLY <2>1, <2>6, <2>7, <2>8
    <2> QED BY ONLY <2>1, <2>3, <2>6, <2>9
<1> HIDE DEF all, to
<1>6. /\ p \in Pdus /\ p # NoPdu /\ tx.taken \in {0} \cup Units /\ to \in {0} \cup Units
    BY <1>5, <1>2 DEF Pdus, Units, NoPdu, TxType
<1>7. /\ tx.vtA = Pos(g.a) /\ sn = Pos(g.s) /\ tx.taken = g.cut[g.s] /\ sn \in Sns
    BY <1>1, <1>2 DEF At, SenderAt, TxType
<1>d. Plus(tx.vtS, 1) = Pos(g.s + 1) /\ Pos(g.s + 1) \in Sns
    <2>1. g.s \in Int /\ 1 \in Int /\ g.s + 1 \in Int
        BY <1>3
    <2>2. Plus(Pos(g.s), 1) = Pos(g.s + 1)
        BY ONLY <2>1, PlusPos
    <2>3. Pos(g.s + 1) \in Sns
        BY ONLY <2>1, PosIsSn
    <2> QED BY <1>7, <2>2, <2>3
<1>8. m \in DataType
    BY <1>6, <1>7 DEF DataType
<1>9. PICK k : k = Sent(g.n, g.s, m)
    OBVIOUS
<1>10. PICK cut : cut = [g.cut EXCEPT ![g.s + 1] = to]
    <2>1. \E c : c = [g.cut EXCEPT ![g.s + 1] = to]
        OBVIOUS
    <2> QED BY <2>1
<1>11. /\ cut \in [Nat -> Nat] /\ cut[g.s + 1] = to /\ \A j \in 0..g.s : cut[j] = g.cut[j]
    BY <1>b, <1>3, <1>5, <1>10
<1>12. p = Pdu(cut, g.s)
    <2>1. g.s \in 0..g.s
        BY <1>3
    <2> QED BY <1>7, <1>11, <2>1 DEF Pdu
<1> DEFINE e == [g EXCEPT !.s = g.s + 1, !.cut = cut, !.n = k]
<1>13. Transmit(m) /\ UNCHANGED fatal
    BY DEF NewPdu, m, p, sn, to, all
<1>14. /\ dataPdus' \in Seq(DataType) /\ k \in Seq(Nat)
       /\ e.n = k /\ e.s = g.s + 1 /\ e.h = g.h /\ e.cut = cut => FlightAt(e)'
    <2>1. m.sn = Pos(g.s) /\ m.pdu = Pdu(cut, g.s) /\ m.late = FALSE
        BY <1>7, <1>12
    <2>2. WindowsAt(g) /\ FlightAt(g)
        BY <1>1 DEF At
    <2> DEFINE s == g.s + 1
               q == g.s
    <2>3. /\ s \in {g.s, g.s + 1} /\ q \in Nat /\ g.a <= q /\ q <= g.s /\ q < s /\ s <= q + WindowSize
        BY <1>3, <1>4
    <2>4. m.sn = Pos(q) /\ m.pdu = Pdu(cut, q)
        BY <2>1
    <2>5. k = Sent(g.n, q, m)
        BY <1>9
    <2> HIDE DEF m, e, s, q
    <2>6. /\ dataPdus' \in Seq(DataType) /\ Sent(g.n, q, m) \in Seq(Nat)
          /\ e.n = Sent(g.n, q, m) /\ e.s = s /\ e.h = g.h /\ e.cut = cut => FlightAt(e)'
        BY ONLY <1>2, <1>8, <1>11, <1>13, <2>1, <2>2, <2>3, <2>4, TransmitFlight, g \in Positions
    <2> QED BY <2>5, <2>6 DEF s
<1>15. /\ e \in Positions /\ e.a = g.a /\ e.s = g.s + 1 /\ e.r = g.r /\ e.ms = g.ms /\ e.h = g.h
       /\ e.x = g.x /\ e.cut = cut /\ e.n = k
    <2>1. g.s + 1 \in Nat
        BY <1>3
    <2>2. k \in Seq(Nat) /\ cut \in [Nat -> Nat]
        BY <1>11, <1>14
    <2>3. e \in Positions
        BY <2>1, <2>2 DEF Positions
    <2>4. /\ e.a = g.a /\ e.s = g.s + 1 /\ e.r = g.r /\ e.ms = g.ms /\ e.h = g.h
          /\ e.x = g.x /\ e.cut = cut /\ e.n = k
        BY DEF Positions
    <2> QED BY <2>3, <2>4
<1>16. /\ tx' \in TxType /\ tx'.vtA = tx.vtA /\ tx'.vtS = Plus(tx.vtS, 1) /\ tx'.taken = to
       /\ tx'.txed = [tx.txed EXCEPT ![sn] = p] /\ tx'.retx = tx.retx
    <2>1. PICK r \in {FALSE, tx.reported} :
              tx' = Polled([tx EXCEPT !.vtS = Plus(@, 1), !.txed[sn] = p, !.taken = p.to,
                                      !.reported = r], TRUE)
        BY DEF NewPdu, p, sn, to, all
    <2> DEFINE u == [tx EXCEPT !.vtS = Plus(@, 1), !.txed[sn] = p, !.taken = p.to, !.reported = r]
    <2>2. Plus(tx.vtS, 1) \in Sns
        BY <1>d
    <2>3. r \in BOOLEAN
        BY <1>2, <2>1 DEF TxType
    <2>4. /\ u \in TxType /\ u.vtA = tx.vtA /\ u.vtS = Plus(tx.vtS, 1) /\ u.taken = to
          /\ u.txed = [tx.txed EXCEPT ![sn] = p] /\ u.retx = tx.retx
        <3>1. p.to = to
            OBVIOUS
        <3> HIDE DEF p
        <3> QED BY <1>2, <1>6, <1>7, <2>2, <2>3, <3>1 DEF TxType
    <2> HIDE DEF u
    <2>5. tx' = Polled(u, TRUE)
        BY <2>1 DEF u
    <2> QED BY <2>4, <2>5, PolledIs
<1> HIDE DEF e, m
<1>17. tx.txed \in [Sns -> Pdus] /\ tx.retx \in [Sns -> Pdus]
    BY <1>2 DEF TxType
<1>18. Txed' = Txed \cup {sn} /\ Retx' = {}
    <2> HIDE DEF p
    <2>1. tx'.txed[sn] = p /\ \A q \in Sns : q # sn => tx'.txed[q] = tx.txed[q]
        BY <1>7, <1>16, <1>17
    <2> QED BY <1>6, <1>7, <1>16, <2>1 DEF Txed, Retx
<1>19. WindowsAt(e)'
    BY <1>3, <1>4, <1>15 DEF WindowsAt
<1>20. CutAt(e)'
    <2>1. cut[0] = 0
        <3>1. 0 \in 0..g.s
            BY <1>3
        <3> QED BY <1>1, <1>11, <3>1 DEF At, CutAt
    <2>2. ASSUME NEW i \in 0..(g.s + 1), NEW j \in 0..(g.s + 1), i < j PROVE cut[i] < cut[j]
        <3>1. i \in 0..g.s /\ (j \in 0..g.s \/ j = g.s + 1)
            BY <1>3, <2>2
        <3>2. CASE j \in 0..g.s
            BY <1>1, <1>11, <2>2, <3>1, <3>2 DEF At, CutAt
        <3>3. CASE j = g.s + 1
            <4>1. g.cut[i] <= g.cut[g.s]
                <5>1. i = g.s \/ i < g.s
                    BY <1>3, <3>1
                <5>2. g.s \in 0..g.s
                    BY <1>3
                <5>3. i < g.s => g.cut[i] < g.cut[g.s]
                    BY <1>1, <3>1, <5>2 DEF At, CutAt
                <5>4. i \in Nat /\ g.cut[i] \in Nat /\ g.cut[g.s] \in Nat
                    BY <1>b, <1>3, <3>1
                <5> QED BY <5>1, <5>3, <5>4
            <4>2. cut[i] = g.cut[i] /\ cut[j] = to /\ g.cut[g.s] < to
                BY <1>5, <1>7, <1>11, <3>1, <3>3
            <4>3. g.cut[i] \in Nat /\ g.cut[g.s] \in Nat
                BY <1>b, <1>3, <3>1
            <4> QED BY <1>5, <4>1, <4>2, <4>3
        <3> QED BY <3>1, <3>2, <3>3
    <2> QED BY <1>15, <2>1, <2>2 DEF CutAt
<1>21. SenderAt(e)'
    <2>1. tx'.vtS = Pos(g.s + 1)
        BY <1>d, <1>16
    <2>2. Holds(tx.txed, g.a, g.s, cut)'
        <3>1. Holds(tx.txed, g.a, g.s, cut)
            <4>1. /\ Holds(tx.txed, g.a, g.s - 1, g.cut) /\ g.s - 1 \in Int /\ g.s - 1 <= g.s
                  /\ (g.s - 1) + 1 = g.s /\ g.s \in Int
                BY <1>1, <1>b, <1>3 DEF At, SenderAt
            <4>2. \A j \in 0..((g.s - 1) + 1) : cut[j] = g.cut[j]
                BY <1>11, <4>1
            <4> QED BY ONLY <1>3, <4>1, <4>2, HoldsWider
        <3>2. ASSUME NEW q \in Sns, tx'.txed[q] # NoPdu
              PROVE  \E i \in g.a..g.s : q = Pos(i) /\ tx'.txed[q] = Pdu(cut, i)
            <4>1. CASE q = sn
                <5>1. g.s \in g.a..g.s
                    BY <1>3, <1>4
                <5>2. tx'.txed[q] = p
                    BY <1>7, <1>16, <1>17, <4>1
                <5> QED BY <1>7, <1>12, <4>1, <5>1, <5>2
            <4>2. CASE q # sn
                <5>1. tx'.txed[q] = tx.txed[q]
                    BY <1>16, <1>17, <4>2
                <5> QED BY <3>1, <3>2, <5>1 DEF Holds
            <4> QED BY <4>1, <4>2
        <3> QED BY <3>2 DEF Holds
    <2>3. Holds(tx.retx, g.a, g.s, cut)'
        BY <1>18 DEF Holds, Retx
    <2>4. e.s - 1 = g.s
        BY <1>3, <1>15
    <2> QED BY <1>5, <1>7, <1>11, <1>15, <1>16, <1>18, <2>1, <2>2, <2>3, <2>4 DEF SenderAt, all
<1>22. ReceiverAt(e)'
    <2>1. ReceiverAt(g)
        BY <1>1 DEF At
    <2>2. Holds(rx.rxon, g.r + 1, g.h - 1, cut)
        <3>1. /\ g.r + 1 \in Nat /\ g.h - 1 \in Int /\ g.h - 1 <= g.h - 1
              /\ \A j \in 0..((g.h - 1) + 1) : j \in 0..g.s
            BY <1>3, <1>4
        <3>2. \A j \in 0..((g.h - 1) + 1) : cut[j] = g.cut[j]
            BY <1>11, <3>1
        <3>3. Holds(rx.rxon, g.r + 1, g.h - 1, g.cut)
            BY <2>1 DEF ReceiverAt
        <3> QED BY ONLY <3>1, <3>2, <3>3, HoldsWider
    <2>3. cut[g.r] = g.cut[g.r]
        <3>1. g.r \in 0..g.s
            BY <1>3, <1>4
        <3> QED BY <1>11, <3>1
    <2> QED BY <1>15, <2>1, <2>2, <2>3 DEF ReceiverAt, Holds
<1>23. \A i : Received(e, i)' <=> Received(g, i)
    BY <1>15 DEF Received, Rxon
<1>24. StatusAt(e)'
    <2>1. StatusAt(g) /\ UNCHANGED statusPdus /\ e.a = g.a /\ g.h <= e.h
        BY <1>1, <1>3, <1>15 DEF At
    <2>2. \A q \in g.a..(g.h - 1) : q \in g.a..(g.s - 1)
        BY <1>3, <1>4
    <2>3. \A q \in g.a..(g.h - 1) : Pos(q) \in Txed \cup Retx => Pos(q) \in Txed' \cup Retx'
        BY <1>18, <2>2
    <2> QED BY <1>15, <1>23, <2>1, <2>3, StatusStays
<1>25. KeptAt(e)'
    <2>1. ASSUME NEW i \in g.a..g.s PROVE Received(e, i)' \/ Pos(i) \in Txed' \cup Retx'
        <3>1. i \in g.a..(g.s - 1) \/ i = g.s
            BY <1>3
        <3>2. CASE i = g.s
            BY <1>7, <1>18, <3>2
        <3>3. CASE i \in g.a..(g.s - 1)
            BY <1>1, <1>18, <1>23, <3>3 DEF At, KeptAt
        <3> QED BY <3>1, <3>2, <3>3
    <2>2. e.s - 1 = g.s
        BY <1>3, <1>15
    <2> QED BY <1>15, <2>1, <2>2 DEF KeptAt
<1>26. TypeOK'
    BY <1>14, <1>16, TypeParts, TypePartsPrime DEF IInv
<1> QED BY <1>13, <1>14, <1>15, <1>19, <1>20, <1>21, <1>22, <1>24, <1>25, <1>26 DEF IInv, At

\* An opportunity is used for a PDU to be sent again, for a new one, or for none.
LEMMA DoNotifyTxOpportunityKeeps ==
    ASSUME IInv, UNCHANGED ueSends, NEW n \in 1..MaxOpportunity, DoNotifyTxOpportunity(n)
    PROVE  IInv'
<1>1. CASE Retx # {}
    BY <1>1, RetransmitKeeps DEF DoNotifyTxOpportunity
<1>2. CASE Retx = {} /\ TxonSize(submitted) > 0 /\ ~Stalled
    BY <1>2, NewPduKeeps DEF DoNotifyTxOpportunity
<1>3. CASE Retx = {} /\ Stalled
    <2>1. tx' \in {tx, [tx EXCEPT !.reported = FALSE]} /\ UNCHANGED <<dataPdus, fatal>>
          /\ UNCHANGED <<submitted, rx, statusPdus, switches, losses>>
        BY <1>3 DEF DoNotifyTxOpportunity
    <2>2. PICK g \in Positions : At(g)
        BY DEF IInv
    <2>3. tx \in TxType /\ submitted \in Nat
        BY TypeParts, Constants DEF IInv
    <2>4. tx' \in TxType /\ SameSender
        BY <2>1, <2>3 DEF TxType, SameSender
    <2>5. SameReceiver
        BY <2>1 DEF SameReceiver
    <2>6. At(g)'
        BY <2>1, <2>2, <2>3, <2>4, <2>5, Stays DEF IInv, At
    <2>7. TypeOK'
        BY <2>1, <2>4, TypeParts, TypePartsPrime DEF IInv
    <2> QED BY <2>1, <2>6, <2>7 DEF IInv
<1> QED BY <1>1, <1>2, <1>3 DEF DoNotifyTxOpportunity

\* The SN that the receiver waits for is not in its buffer.
LEMMA WaitedFor ==
    ASSUME NEW g \in Positions, WindowsAt(g), ReceiverAt(g)
    PROVE  ~Received(g, g.r) /\ Pos(g.r) \notin Rxon(rx)
<1>1. /\ g.a \in Nat /\ g.s \in Nat /\ g.r \in Nat /\ g.ms \in Nat /\ g.h \in Nat
      /\ WindowSize \in Nat /\ SnModulus \in Nat /\ WindowSize < SnModulus
    BY PositionsType, Constants
<1>2. g.a <= g.r /\ g.h <= g.a + WindowSize
    BY <1>1 DEF WindowsAt
<1>3. SUFFICES ASSUME Pos(g.r) \in Rxon(rx) PROVE FALSE
    BY <1>1 DEF Received
<1>4. PICK p \in (g.r + 1)..(g.h - 1) : Pos(g.r) = Pos(p)
    BY <1>3 DEF ReceiverAt, Holds, Rxon
<1>5. p \in Int /\ g.r \in Int /\ p - g.r < SnModulus /\ g.r - p < SnModulus /\ g.r # p
    BY <1>1, <1>2
<1> QED BY ONLY <1>4, <1>5, PosInjective

\* What a STATUS PDU acknowledges is freed, and it has been received.
LEMMA ReceiveStatusPduKeeps ==
    ASSUME IInv, UNCHANGED ueSends, ReceiveStatusPdu PROVE IInv'
<1>1. PICK g \in Positions : At(g)
    BY DEF IInv
<1>2. /\ tx \in TxType /\ submitted \in 0..MaxSdus
      /\ statusPdus \in Seq([ack : Sns, nacks : SUBSET Sns])
    BY TypeParts, Constants DEF IInv
<1>3. /\ g.a \in Nat /\ g.s \in Nat /\ g.r \in Nat /\ g.ms \in Nat /\ g.h \in Nat
      /\ WindowSize \in Nat /\ SnModulus \in Nat \ {0} /\ WindowSize < SnModulus
    BY PositionsType, Constants
<1> DEFINE s == Head(statusPdus)
           covered == {sn \in SentSns : Distance(tx.vtA, sn) < Distance(tx.vtA, s.ack)}
           nacked  == covered \cap s.nacks
           stop    == {Distance(tx.vtA, sn) : sn \in nacked} \cup
                      {Distance(tx.vtA, s.ack), Outstanding}
           move    == CHOOSE d \in stop : \A e \in stop : d <= e
<1>b. PICK q : q = statusPdus
    OBVIOUS
<1>4. /\ q # << >> /\ q \in Seq([ack : Sns, nacks : SUBSET Sns])
      /\ statusPdus' = Tail(q) /\ s = q[1] /\ Tail(q) \in Seq([ack : Sns, nacks : SUBSET Sns])
      /\ Len(q) \in Nat /\ Len(q) >= 1 /\ Len(Tail(q)) = Len(q) - 1
      /\ \A i \in 1..(Len(q) - 1) : Tail(q)[i] = q[i + 1]
    <2>1. q # << >> /\ statusPdus' = Tail(q) /\ s = Head(q)
        BY <1>b DEF ReceiveStatusPdu
    <2> QED BY ONLY <1>2, <1>b, <2>1, TailOf
<1> HIDE DEF s
<1>5. PICK k \in g.a..g.h : /\ Truthful(g, s, k)
                            /\ \A j \in 2..Len(q) : Precedes(g, s, k, q[j])
    <2>1. 1 \in 1..Len(q) /\ \A j \in 2..Len(q) : j \in 1..Len(q) /\ 1 < j
        BY <1>4
    <2>2. PICK k \in g.a..g.h : /\ Truthful(g, q[1], k)
                                /\ \A j \in 1..Len(q) : 1 < j => Precedes(g, q[1], k, q[j])
        BY <1>1, <1>b, <2>1 DEF At, StatusAt
    <2> QED BY <1>4, <2>1, <2>2
<1>6. /\ s.ack = Pos(k) /\ k \in Nat /\ g.a <= k /\ k <= g.h
      /\ \A p \in g.a..(k - 1) :
             IF Pos(p) \in s.nacks THEN Pos(p) \in Txed \cup Retx ELSE Received(g, p)
    BY <1>3, <1>5 DEF Truthful
<1>7. /\ g.a <= g.r /\ g.r <= g.ms /\ g.ms <= g.h /\ g.h <= g.s /\ g.s <= g.a + WindowSize
    BY <1>1 DEF At, WindowsAt
<1>8. /\ Outstanding = g.s - g.a
      /\ \A p \in g.a..g.s : Distance(tx.vtA, Pos(p)) = p - g.a
      /\ \A p \in g.a..(g.s - 1) : Pos(p) \in SentSns
      /\ \A sn \in SentSns : \E p \in g.a..(g.s - 1) : sn = Pos(p)
      /\ Txed \subseteq SentSns /\ Retx \subseteq SentSns
    BY <1>1, SentAre DEF At
<1>9. Distance(tx.vtA, s.ack) = k - g.a
    <2>1. k \in g.a..g.s
        BY <1>3, <1>6, <1>7
    <2> QED BY <1>6, <1>8, <2>1
\* What is covered are the positions from a to k.
<1>10. ASSUME NEW p \in g.a..(g.s - 1) PROVE Pos(p) \in covered <=> p < k
    <2>1. p \in g.a..g.s /\ p \in Int
        BY <1>3
    <2>2. Distance(tx.vtA, Pos(p)) = p - g.a /\ Pos(p) \in SentSns
        BY <1>8, <2>1
    <2> QED BY <1>3, <1>9, <2>1, <2>2
<1>11. stop \in SUBSET Nat /\ stop # {}
    <2>1. g.s - g.a \in Nat /\ k - g.a \in Nat
        BY <1>3, <1>6, <1>7
    <2>2. ASSUME NEW sn \in nacked PROVE Distance(tx.vtA, sn) \in Nat
        <3>1. sn \in SentSns
            OBVIOUS
        <3>2. PICK p \in g.a..(g.s - 1) : sn = Pos(p)
            BY <1>8, <3>1
        <3>3. p \in g.a..g.s /\ p - g.a \in Nat
            BY <1>3
        <3> QED BY <1>8, <3>2, <3>3
    <2> HIDE DEF nacked
    <2> QED BY <1>8, <1>9, <2>1, <2>2
<1>12. /\ move \in Nat /\ move <= k - g.a
       /\ \A sn \in nacked : move <= Distance(tx.vtA, sn)
    <2>1. PICK x \in stop : \A y \in stop : x <= y
        BY ONLY <1>11, NatMin
    <2>2. move \in stop /\ \A y \in stop : move <= y
        <3> HIDE DEF stop
        <3> QED BY <2>1
    <2> HIDE DEF move, nacked
    <2> QED BY <1>9, <1>11, <2>2
<1> HIDE DEF move, stop
<1>13. g.a + move <= g.r
    <2>1. SUFFICES ASSUME g.r < g.a + move PROVE FALSE
        BY <1>3, <1>12
    <2>2. g.r \in g.a..(k - 1) /\ g.r \in g.a..(g.s - 1) /\ g.r \in g.a..g.s /\ g.r < k
        BY <1>3, <1>6, <1>7, <1>12, <2>1
    <2>3. Pos(g.r) \in covered
        BY <1>10, <2>2
    <2>4. Pos(g.r) \notin s.nacks
        <3>1. Distance(tx.vtA, Pos(g.r)) = g.r - g.a
            BY <1>8, <2>2
        <3>2. ~(move <= g.r - g.a)
            BY <1>3, <1>12, <2>1
        <3> HIDE DEF covered
        <3> QED BY <1>12, <2>3, <3>1, <3>2
    <2>5. Received(g, g.r)
        BY <1>6, <2>2, <2>4
    <2> QED BY <1>1, <2>5, WaitedFor DEF At
<1> HIDE DEF covered
<1>14. nacked \subseteq Txed \cup Retx
    <2>1. ASSUME NEW sn \in nacked PROVE sn \in Txed \cup Retx
        <3>1. sn \in covered /\ sn \in s.nacks /\ sn \in SentSns
            BY DEF covered
        <3>2. PICK p \in g.a..(g.s - 1) : sn = Pos(p)
            BY <1>8, <3>1
        <3>3. p \in g.a..(k - 1)
            BY <1>3, <1>10, <3>1, <3>2
        <3> QED BY <1>6, <3>1, <3>2, <3>3
    <2> QED BY <2>1
<1>15. UNCHANGED <<fatal, submitted, rx, dataPdus, switches, losses>>
    <2>1. fatal' = IF \E sn \in nacked : sn \notin Txed \cup Retx THEN "NackOfFreedPdu"
                   ELSE IF \E sn \in covered \ nacked : sn \in Txed \cap Retx
                   THEN "AckedPduTwice" ELSE fatal
        BY DEF ReceiveStatusPdu, s, covered
    <2>2. Txed \cap Retx = {}
        BY <1>1 DEF At, SenderAt
    <2> QED BY <1>14, <2>1, <2>2 DEF ReceiveStatusPdu
<1> DEFINE retx == [sn \in Sns |-> IF sn \in nacked
                                   THEN IF tx.txed[sn] # NoPdu THEN tx.txed[sn] ELSE tx.retx[sn]
                                   ELSE IF sn \in covered THEN NoPdu ELSE tx.retx[sn]]
           txed == [sn \in Sns |-> IF sn \in covered THEN NoPdu ELSE tx.txed[sn]]
<1>a. PICK a : a = g.a + move
    OBVIOUS
<1> DEFINE e == [g EXCEPT !.a = a]
<1>16. tx.txed \in [Sns -> Pdus] /\ tx.retx \in [Sns -> Pdus] /\ NoPdu \in Pdus
    BY <1>2 DEF TxType, Pdus
<1>17. /\ tx.vtA = Pos(g.a) /\ tx.vtS = Pos(g.s)
       /\ Holds(tx.txed, g.a, g.s - 1, g.cut) /\ Holds(tx.retx, g.a, g.s - 1, g.cut)
       /\ Txed \cap Retx = {}
    BY <1>1 DEF At, SenderAt
<1>18. a \in Nat /\ Plus(tx.vtA, move) = Pos(a) /\ Pos(a) \in Sns
    <2>1. g.a \in Int /\ move \in Int /\ g.a + move \in Int /\ g.a + move \in Nat
        BY <1>3, <1>12
    <2>2. Plus(Pos(g.a), move) = Pos(g.a + move)
        BY ONLY <2>1, PlusPos
    <2>3. Pos(g.a + move) \in Sns
        BY ONLY <2>1, PosIsSn
    <2> QED BY <1>a, <1>17, <2>1, <2>2, <2>3
<1>19. /\ tx' \in TxType /\ tx'.vtA = Pos(a) /\ tx'.vtS = tx.vtS /\ tx'.taken = tx.taken
       /\ tx'.txed = txed /\ tx'.retx = retx
    <2>1. tx' = [Sorted(tx, covered, nacked) EXCEPT
                   !.vtA = Plus(@, move),
                   !.pollRetransmitTimer = @ /\ tx.pollSn \notin covered]
        BY DEF ReceiveStatusPdu, s, covered, stop, move
    <2>2. txed \in [Sns -> Pdus] /\ retx \in [Sns -> Pdus]
        BY <1>16
    <2> HIDE DEF nacked
    <2>3. Sorted(tx, covered, nacked) = [tx EXCEPT !.retx = retx, !.txed = txed]
        BY <1>2 DEF TxType, Sorted
    <2> HIDE DEF txed, retx
    <2>4. /\ [tx EXCEPT !.retx = retx, !.txed = txed] \in TxType
        BY <1>2, <2>2 DEF TxType
    <2> DEFINE u == [tx EXCEPT !.retx = retx, !.txed = txed]
    <2>5. /\ u \in TxType /\ u.vtA = tx.vtA /\ u.vtS = tx.vtS /\ u.taken = tx.taken
          /\ u.txed = txed /\ u.retx = retx
        BY <1>2, <2>4 DEF TxType
    <2> HIDE DEF u
    <2>6. tx' = [u EXCEPT !.vtA = Plus(@, move),
                          !.pollRetransmitTimer = @ /\ tx.pollSn \notin covered]
        BY <2>1, <2>3 DEF u
    <2> QED BY <1>18, <2>5, <2>6 DEF TxType
<1>20. /\ e \in Positions /\ e.a = a /\ e.s = g.s /\ e.r = g.r /\ e.ms = g.ms /\ e.h = g.h
       /\ e.x = g.x /\ e.cut = g.cut /\ e.n = g.n
    BY <1>18 DEF Positions
<1> HIDE DEF e
<1>21. Txed' = Txed \ covered /\ Retx' = (Retx \ covered) \cup nacked
    <2>1. Txed' = Txed \ covered
        BY <1>19 DEF Txed
    <2>2. nacked \subseteq Sns /\ Retx \subseteq Sns
        BY DEF covered, SentSns, Retx
    <2>3. ASSUME NEW sn \in Sns PROVE retx[sn] # NoPdu <=> sn \in (Retx \ covered) \cup nacked
        <3>1. CASE sn \in nacked
            BY <1>14, <3>1 DEF Txed, Retx
        <3>2. CASE sn \notin nacked
            BY <3>2 DEF Retx
        <3> QED BY <3>1, <3>2
    <2> HIDE DEF retx, nacked
    <2> QED BY <1>19, <2>1, <2>2, <2>3 DEF Retx
<1>22. WindowsAt(e)'
    <2>1. g.s <= a + WindowSize /\ a <= g.r
        BY <1>a, <1>3, <1>7, <1>12, <1>13
    <2> QED BY <1>7, <1>20, <2>1 DEF WindowsAt
<1>23. SenderAt(e)'
    <2>1. ASSUME NEW sn \in Sns, NEW p \in g.a..(g.s - 1), sn = Pos(p), sn \notin covered \/ sn \in nacked
          PROVE  p \in a..(g.s - 1)
        <3>1. p \in g.a..g.s /\ p \in Int
            BY <1>3
        <3>2. Distance(tx.vtA, sn) = p - g.a
            BY <1>8, <2>1, <3>1
        <3>3. CASE sn \in nacked
            <4>1. move <= p - g.a
                BY <1>12, <3>2, <3>3
            <4> QED BY <1>a, <1>3, <1>12, <3>1, <4>1
        <3>4. CASE sn \notin covered
            <4>1. ~(p < k)
                BY <1>10, <2>1, <3>4
            <4> QED BY <1>a, <1>3, <1>12, <3>1, <4>1
        <3> QED BY <2>1, <3>3, <3>4
    <2>2. Holds(txed, a, g.s - 1, g.cut)
        <3>1. SUFFICES ASSUME NEW sn \in Sns, txed[sn] # NoPdu
                       PROVE  \E p \in a..(g.s - 1) : sn = Pos(p) /\ txed[sn] = Pdu(g.cut, p)
            BY DEF Holds
        <3>2. sn \notin covered /\ txed[sn] = tx.txed[sn]
            BY <3>1
        <3>3. PICK p \in g.a..(g.s - 1) : sn = Pos(p) /\ tx.txed[sn] = Pdu(g.cut, p)
            BY <1>17, <3>1, <3>2 DEF Holds
        <3>4. p \in a..(g.s - 1)
            BY <2>1, <3>2, <3>3
        <3> QED BY <3>2, <3>3, <3>4
    <2>3. Holds(retx, a, g.s - 1, g.cut)
        <3>1. SUFFICES ASSUME NEW sn \in Sns, retx[sn] # NoPdu
                       PROVE  \E p \in a..(g.s - 1) : sn = Pos(p) /\ retx[sn] = Pdu(g.cut, p)
            BY DEF Holds
        <3>2. sn \in nacked \/ sn \notin covered
            BY <3>1
        <3>3. retx[sn] = tx.txed[sn] \/ retx[sn] = tx.retx[sn]
            BY <3>1
        <3> HIDE DEF retx, nacked
        <3>4. PICK p \in g.a..(g.s - 1) : sn = Pos(p) /\ retx[sn] = Pdu(g.cut, p)
            BY <1>17, <3>1, <3>3 DEF Holds
        <3>5. p \in a..(g.s - 1)
            BY <2>1, <3>2, <3>4
        <3> QED BY <3>4, <3>5
    <2> HIDE DEF retx, txed, nacked
    <2>4. Holds(tx.txed, a, g.s - 1, g.cut)' /\ Holds(tx.retx, a, g.s - 1, g.cut)'
        BY <1>19, <2>2, <2>3 DEF Holds
    <2>5. Txed' \cap Retx' = {}
        BY <1>17, <1>21 DEF nacked
    <2> QED BY <1>1, <1>15, <1>19, <1>20, <2>4, <2>5 DEF At, SenderAt
<1>24. /\ ReceiverAt(e)' /\ CutAt(e)' /\ FlightAt(e)'
    BY <1>1, <1>15, <1>20 DEF At, ReceiverAt, Holds, CutAt, FlightAt
<1>25. StatusAt(e)'
    <2>1. ASSUME NEW i \in 1..Len(Tail(q))
          PROVE  \E l \in e.a..e.h :
                     /\ Truthful(e, Tail(q)[i], l)'
                     /\ \A j \in 1..Len(Tail(q)) :
                           i < j => Precedes(e, Tail(q)[i], l, Tail(q)[j])
        <3>1. /\ i + 1 \in 2..Len(q) /\ i + 1 \in 1..Len(q)
              /\ i \in 1..(Len(q) - 1) /\ Tail(q)[i] = q[i + 1]
            BY <1>4
        <3>m. PICK m : m = q[i + 1] /\ m = Tail(q)[i]
            BY <3>1
        <3>2. PICK l \in g.a..g.h :
                  /\ Truthful(g, m, l)
                  /\ \A j \in 1..Len(q) : i + 1 < j => Precedes(g, m, l, q[j])
            BY <1>1, <1>b, <3>1, <3>m DEF At, StatusAt
        <3>3. l \in Nat /\ Pos(l) = m.ack /\ Precedes(g, s, k, m)
            BY <1>3, <1>5, <3>1, <3>2, <3>m DEF Truthful
        <3>4. a <= l
            <4>1. SUFFICES ASSUME l < a PROVE FALSE
                BY <1>18, <3>3
            <4>2. l \in g.a..(k - 1) /\ l \in g.a..(g.s - 1) /\ l \in g.a..g.s /\ l < k
                BY <1>a, <1>3, <1>6, <1>7, <1>12, <3>2, <4>1
            <4>3. Pos(l) \in nacked
                BY <1>10, <3>3, <4>2 DEF Precedes
            <4>4. move <= Distance(tx.vtA, Pos(l)) /\ Distance(tx.vtA, Pos(l)) = l - g.a
                BY <1>8, <1>12, <4>2, <4>3
            <4> QED BY <1>a, <1>3, <1>12, <3>3, <4>1, <4>4
        <3>5. Truthful(e, m, l)'
            <4>1. ASSUME NEW p \in a..(l - 1)
                  PROVE  IF Pos(p) \in m.nacks THEN Pos(p) \in Txed' \cup Retx'
                                               ELSE Received(e, p)'
                <5>1. p \in g.a..(l - 1) /\ p \in g.a..(g.s - 1)
                    <6>1. g.a \in Nat /\ a \in Nat /\ g.a <= a /\ g.h \in Nat /\ g.s \in Nat
                        BY <1>a, <1>3, <1>12, <1>18
                    <6>2. l \in Nat /\ l <= g.h /\ g.h <= g.s
                        BY <1>3, <1>7, <3>2, <3>3
                    <6> QED BY ONLY p \in a..(l - 1), <6>1, <6>2
                <5>2. Received(e, p)' <=> Received(g, p)
                    BY <1>15, <1>20 DEF Received, Rxon
                <5>3. CASE Pos(p) \in m.nacks /\ Pos(p) \in covered
                    <6>1. p \in g.a..(k - 1)
                        BY <1>3, <1>6, <1>10, <5>1, <5>3
                    <6>2. Pos(p) \in nacked
                        BY <3>3, <5>3, <6>1 DEF Precedes
                    <6> HIDE DEF nacked
                    <6> QED BY <1>21, <5>3, <6>2
                <5>4. CASE Pos(p) \in m.nacks /\ Pos(p) \notin covered
                    <6>1. Pos(p) \in Txed \cup Retx
                        BY <3>2, <5>1, <5>4 DEF Truthful
                    <6> HIDE DEF nacked
                    <6> QED BY <1>21, <5>4, <6>1
                <5>5. CASE Pos(p) \notin m.nacks
                    BY <3>2, <5>1, <5>2, <5>5 DEF Truthful
                <5> QED BY <5>3, <5>4, <5>5
            <4> HIDE DEF nacked
            <4> QED BY <1>20, <3>3, <4>1 DEF Truthful
        <3>6. ASSUME NEW j \in 1..Len(Tail(q)), i < j
              PROVE  Precedes(e, m, l, Tail(q)[j])
            <4>1. j + 1 \in 1..Len(q) /\ i + 1 < j + 1 /\ Tail(q)[j] = q[j + 1]
                BY <1>4, <3>6
            <4>2. \A p \in a..(l - 1) : p \in g.a..(l - 1)
                <5>1. a \in Nat /\ g.a <= a
                    BY <1>a, <1>3, <1>12, <1>18
                <5> QED BY ONLY <1>3, <3>3, <5>1
            <4> QED BY <1>20, <3>2, <4>1, <4>2 DEF Precedes
        <3> QED BY <1>20, <3>2, <3>3, <3>4, <3>5, <3>6, <3>m
    <2> QED BY <1>4, <2>1, StatusAfter
<1>26. KeptAt(e)'
    <2>1. ASSUME NEW p \in a..(g.s - 1) PROVE Received(g, p) \/ Pos(p) \in Txed' \cup Retx'
        <3>1. p \in g.a..(g.s - 1)
            BY <1>a, <1>3, <1>12
        <3>2. CASE Pos(p) \in covered
            <4>1. p \in g.a..(k - 1)
                BY <1>3, <1>10, <3>1, <3>2
            <4> QED BY <1>6, <1>21, <3>2, <4>1
        <3>3. CASE Pos(p) \notin covered
            BY <1>1, <1>21, <3>1, <3>3 DEF At, KeptAt
        <3> QED BY <3>2, <3>3
    <2>2. \A p : Received(e, p)' <=> Received(g, p)
        BY <1>15, <1>20 DEF Received, Rxon
    <2> QED BY <1>20, <2>1, <2>2 DEF KeptAt
<1>27. TypeOK'
    <2>1. statusPdus' \in Seq([ack : Sns, nacks : SUBSET Sns])
        BY <1>4
    <2> QED BY <1>15, <1>19, <2>1, TypeParts, TypePartsPrime DEF IInv
<1> QED BY <1>15, <1>20, <1>22, <1>23, <1>24, <1>25, <1>26, <1>27 DEF IInv, At

(***************************************************************************)
(* The receiving side                                                      *)
(***************************************************************************)
\* The windows as numbers.
LEMMA WindowsNumbers ==
    ASSUME NEW g \in Positions, WindowsAt(g)
    PROVE  /\ g.a \in Nat /\ g.s \in Nat /\ g.r \in Nat /\ g.ms \in Nat /\ g.h \in Nat
           /\ g.a <= g.r /\ g.r <= g.ms /\ g.ms <= g.h /\ g.h <= g.s /\ g.s <= g.a + WindowSize
           /\ WindowSize \in Nat \ {0} /\ SnModulus \in Nat \ {0} /\ SnModulus >= 2 * WindowSize
           /\ WindowSize < SnModulus
<1>1. /\ g.a \in Nat /\ g.s \in Nat /\ g.r \in Nat /\ g.ms \in Nat /\ g.h \in Nat
    BY PositionsType
<1>2. /\ g.a <= g.r /\ g.r <= g.ms /\ g.ms <= g.h /\ g.h <= g.s /\ g.s <= g.a + WindowSize
    BY DEF WindowsAt
<1> QED BY <1>1, <1>2, Constants

\* Distances from the position of VR(R).
LEMMA FromVrR ==
    ASSUME NEW r \in Nat
    PROVE  /\ \A p \in r..(r + SnModulus - 1) : Distance(Pos(r), Pos(p)) = p - r
           /\ \A p \in Int : r - SnModulus <= p /\ p < r =>
                  Distance(Pos(r), Pos(p)) = p - r + SnModulus
           /\ \A sn \in Sns : \E p \in r..(r + SnModulus - 1) : sn = Pos(p)
<1>1. SnModulus \in Nat \ {0}
    BY Constants
<1>2. ASSUME NEW p \in r..(r + SnModulus - 1) PROVE Distance(Pos(r), Pos(p)) = p - r
    <2>1. p \in Int /\ r \in Int /\ 0 <= p - r /\ p - r < SnModulus
        BY <1>1
    <2> QED BY ONLY <2>1, DistancePos
<1>3. ASSUME NEW p \in Int, r - SnModulus <= p, p < r
      PROVE  Distance(Pos(r), Pos(p)) = p - r + SnModulus
    <2>1. r \in Int /\ p - r < 0 /\ 0 <= p - r + SnModulus
        BY <1>1, <1>3
    <2> QED BY ONLY <2>1, DistancePos, p \in Int
<1>4. ASSUME NEW sn \in Sns PROVE \E p \in r..(r + SnModulus - 1) : sn = Pos(p)
    <2> DEFINE d == Distance(Pos(r), sn)
    <2>1. d \in 0..(SnModulus - 1) /\ Pos(r + d) = sn
        BY PositionOf
    <2> HIDE DEF d
    <2>2. r + d \in r..(r + SnModulus - 1)
        BY <1>1, <2>1
    <2> QED BY <2>1, <2>2
<1> QED BY <1>2, <1>3, <1>4

\* A STATUS PDU tells of every SN before its ACK_SN that has not been received.
LEMMA SendStatusPduKeeps ==
    ASSUME IInv, StatusesInOrder, UNCHANGED ueSends, NEW c \in 0..WindowSize, SendStatusPdu(c)
    PROVE  IInv'
<1>1. PICK g \in Positions : At(g)
    BY DEF IInv
<1>2. rx \in RxType /\ submitted \in Nat /\ submitted' = submitted
    BY TypeParts, Constants DEF IInv, SendStatusPdu
<1>3. /\ g.a \in Nat /\ g.s \in Nat /\ g.r \in Nat /\ g.ms \in Nat /\ g.h \in Nat
      /\ g.a <= g.r /\ g.r <= g.ms /\ g.ms <= g.h /\ g.h <= g.s /\ g.s <= g.a + WindowSize
      /\ WindowSize \in Nat \ {0} /\ SnModulus \in Nat \ {0} /\ SnModulus >= 2 * WindowSize
      /\ WindowSize < SnModulus
    BY <1>1, WindowsNumbers DEF At
<1>4. rx.vrR = Pos(g.r) /\ rx.vrMs = Pos(g.ms) /\ Pos(g.ms) \notin Rxon(rx)
    BY <1>1 DEF At, ReceiverAt
<1>5. /\ \A p \in g.r..(g.r + SnModulus - 1) : Distance(rx.vrR, Pos(p)) = p - g.r
      /\ \A p \in Int : g.r - SnModulus <= p /\ p < g.r =>
             Distance(rx.vrR, Pos(p)) = p - g.r + SnModulus
      /\ \A sn \in Sns : \E p \in g.r..(g.r + SnModulus - 1) : sn = Pos(p)
    BY ONLY <1>3, <1>4, FromVrR
<1>6. Distance(rx.vrR, rx.vrMs) = g.ms - g.r
    <2>1. g.ms \in g.r..(g.r + SnModulus - 1)
        BY <1>3
    <2> QED BY <1>4, <1>5, <2>1
<1> DEFINE missing == Missing(rx)
           nacks == Nacks(rx, c)
           left == missing \ nacks
<1>7. nacks \subseteq missing
    BY DEF Nacks
<1>8. ASSUME NEW p \in Int, g.a <= p, p < g.ms
      PROVE  Pos(p) \in missing <=> g.r <= p /\ Pos(p) \notin Rxon(rx)
    <2>1. Pos(p) \in Sns
        BY PosIsSn
    <2>2. CASE g.r <= p
        <3>1. p \in g.r..(g.r + SnModulus - 1)
            BY <1>3, <1>8, <2>2
        <3>2. Distance(rx.vrR, Pos(p)) = p - g.r
            BY <1>5, <3>1
        <3>3. p - g.r < g.ms - g.r
            BY <1>3, <1>8
        <3> QED BY <1>6, <2>1, <2>2, <3>2, <3>3 DEF Missing
    <2>3. CASE p < g.r
        <3>1. g.r - SnModulus <= p
            BY <1>3, <1>8
        <3>2. Distance(rx.vrR, Pos(p)) = p - g.r + SnModulus
            BY <1>5, <2>3, <3>1
        <3>3. ~(p - g.r + SnModulus < g.ms - g.r) /\ ~(g.r <= p)
            BY <1>3, <1>8, <2>3
        <3> QED BY <1>6, <3>2, <3>3 DEF Missing
    <2> QED BY <1>3, <2>2, <2>3
<1>9. ASSUME NEW sn \in missing
      PROVE  \E p \in g.r..(g.ms - 1) : sn = Pos(p) /\ Distance(rx.vrR, sn) = p - g.r
    <2>1. sn \in Sns /\ Distance(rx.vrR, sn) < g.ms - g.r
        BY <1>6 DEF Missing
    <2>2. PICK p \in g.r..(g.r + SnModulus - 1) : sn = Pos(p)
        BY <1>5, <2>1
    <2>3. Distance(rx.vrR, sn) = p - g.r
        BY <1>5, <2>2
    <2>4. p \in g.r..(g.ms - 1)
        BY <1>3, <2>1, <2>3
    <2> QED BY <2>2, <2>3, <2>4
<1> HIDE DEF missing, nacks
<1>10. \E k \in g.r..g.ms : /\ AckSn(rx, c) = Pos(k) /\ Pos(k) \notin Rxon(rx)
                            /\ \A p \in g.r..(k - 1) : Pos(p) \in missing => Pos(p) \in nacks
    <2>1. CASE left = {}
        <3>1. AckSn(rx, c) = Pos(g.ms)
            BY <1>4, <2>1 DEF AckSn, missing, nacks
        <3>2. g.ms \in g.r..g.ms
            BY <1>3
        <3> QED BY <1>4, <2>1, <3>1, <3>2
    <2>2. CASE left # {}
        <3> DEFINE T == {Distance(rx.vrR, q) : q \in left}
                   sn == CHOOSE q \in left : \A o \in left : Distance(rx.vrR, q) <= Distance(rx.vrR, o)
        <3>1. T \in SUBSET Nat /\ T # {}
            <4>1. ASSUME NEW q \in left PROVE Distance(rx.vrR, q) \in Nat
                <5>1. PICK p \in g.r..(g.ms - 1) : Distance(rx.vrR, q) = p - g.r
                    BY <1>9
                <5> QED BY <1>3, <5>1
            <4> QED BY <2>2, <4>1
        <3>2. PICK x \in T : \A y \in T : x <= y
            BY ONLY <3>1, NatMin
        <3>3. \E q \in left : \A o \in left : Distance(rx.vrR, q) <= Distance(rx.vrR, o)
            BY <3>2
        <3>4. sn \in left /\ \A o \in left : Distance(rx.vrR, sn) <= Distance(rx.vrR, o)
            <4> HIDE DEF left
            <4> QED BY <3>3
        <3>5. AckSn(rx, c) = sn
            BY <2>2 DEF AckSn, missing, nacks
        <3>9. sn \notin Rxon(rx)
            BY <3>4 DEF missing, Missing
        <3> HIDE DEF sn
        <3>6. PICK k \in g.r..(g.ms - 1) : sn = Pos(k) /\ Distance(rx.vrR, sn) = k - g.r
            BY <1>9, <3>4
        <3>7. k \in g.r..g.ms
            BY <1>3
        <3>8. ASSUME NEW p \in g.r..(k - 1), Pos(p) \in missing PROVE Pos(p) \in nacks
            <4>1. p \in g.r..(g.r + SnModulus - 1) /\ p - g.r < k - g.r /\ k - g.r \in Int /\ p - g.r \in Int
                BY <1>3
            <4>2. Distance(rx.vrR, Pos(p)) = p - g.r
                BY <1>5, <4>1
            <4>3. ~(Distance(rx.vrR, sn) <= Distance(rx.vrR, Pos(p)))
                BY <3>6, <4>1, <4>2
            <4> QED BY <3>4, <3>8, <4>3
        <3> QED BY <3>5, <3>6, <3>7, <3>8, <3>9
    <2> QED BY <2>1, <2>2
<1>11. PICK k \in g.r..g.ms : /\ AckSn(rx, c) = Pos(k) /\ Pos(k) \notin Rxon(rx)
                              /\ \A p \in g.r..(k - 1) : Pos(p) \in missing => Pos(p) \in nacks
    BY <1>10
<1>12. PICK q, m : /\ q = statusPdus /\ m = [ack |-> Pos(k), nacks |-> nacks]
                   /\ q \in Seq([ack : Sns, nacks : SUBSET Sns])
    BY TypeParts DEF IInv
<1>13. SameSender /\ SameReceiver
    BY <1>2 DEF SendStatusPdu, SameSender, SameReceiver, RxType
<1>14. /\ WindowsAt(g)' /\ CutAt(g)' /\ SenderAt(g)' /\ ReceiverAt(g)' /\ KeptAt(g)' /\ FlightAt(g)'
    BY <1>1, <1>2, <1>13, Stays DEF IInv, SendStatusPdu
<1>15. statusPdus' = Append(q, m)
    BY <1>11, <1>12 DEF SendStatusPdu, StatusOrders, StatusesInOrder, nacks
<1>16. /\ m \in [ack : Sns, nacks : SUBSET Sns] /\ m.ack = Pos(k) /\ m.nacks = nacks
    <2>1. k \in Int
        BY <1>3
    <2>2. missing \subseteq Sns
        BY DEF missing, Missing
    <2> QED BY <1>7, <1>12, <2>1, <2>2, PosIsSn
<1>17. ASSUME NEW p \in g.a..(k - 1)
       PROVE  IF Pos(p) \in nacks THEN Pos(p) \in Txed \cup Retx ELSE Received(g, p)
    <2>1. p \in Int /\ g.a <= p /\ p < g.ms /\ p \in g.a..(g.s - 1)
        BY <1>3
    <2>2. Pos(p) \in missing <=> g.r <= p /\ Pos(p) \notin Rxon(rx)
        BY <1>8, <2>1
    <2>3. CASE Pos(p) \in nacks
        <3>1. g.r <= p /\ Pos(p) \notin Rxon(rx)
            BY <1>7, <2>2, <2>3
        <3>2. ~Received(g, p)
            BY <1>3, <2>1, <3>1 DEF Received
        <3> QED BY <1>1, <2>1, <2>3, <3>2 DEF At, KeptAt
    <2>4. CASE Pos(p) \notin nacks
        <3>1. g.r <= p => p \in g.r..(k - 1)
            BY <1>3
        <3>2. ~(g.r <= p) \/ Pos(p) \in Rxon(rx)
            BY <1>11, <2>2, <2>4, <3>1
        <3> QED BY <1>3, <2>1, <2>4, <3>2 DEF Received
    <2> QED BY <2>3, <2>4
<1>18. PICK v : /\ v \in Seq([ack : Sns, nacks : SUBSET Sns]) /\ statusPdus' = v
                /\ Len(q) \in Nat /\ Len(v) = Len(q) + 1 /\ v[Len(q) + 1] = m
                /\ \A i \in 1..Len(q) : v[i] = q[i]
    <2>1. /\ Append(q, m) \in Seq([ack : Sns, nacks : SUBSET Sns]) /\ Len(q) \in Nat
          /\ Len(Append(q, m)) = Len(q) + 1 /\ Append(q, m)[Len(q) + 1] = m
          /\ \A i \in 1..Len(q) : Append(q, m)[i] = q[i]
        BY ONLY <1>12, <1>16, AppendProperties, LenProperties
    <2> QED BY <1>15, <2>1
\* What this STATUS PDU tells of as missing had been told of by the ones before.
<1>19. ASSUME NEW p \in g.a..(g.h - 1), Pos(p) \in nacks \/ Pos(p) = Pos(k)
       PROVE  ~Received(g, p)
    <2>1. PICK l \in g.r..g.ms : Pos(p) = Pos(l) /\ Pos(l) \notin Rxon(rx)
        <3>1. CASE Pos(p) \in nacks
            <4>1. PICK l \in g.r..(g.ms - 1) : Pos(p) = Pos(l)
                BY <1>7, <1>9, <3>1
            <4>2. Pos(p) \notin Rxon(rx) /\ l \in g.r..g.ms
                BY <1>3, <1>7, <3>1 DEF missing, Missing
            <4> QED BY <4>1, <4>2
        <3>2. CASE Pos(p) = Pos(k)
            BY <1>11, <3>2
        <3> QED BY <1>19, <3>1, <3>2
    <2>2. p \in Int /\ l \in Int /\ l - p < SnModulus /\ p - l < SnModulus
        BY <1>3
    <2>3. p = l
        BY ONLY <2>1, <2>2, PosInjective
    <2> QED BY <1>3, <2>1, <2>3 DEF Received
<1>20. Txed' = Txed /\ Retx' = Retx /\ \A p : Received(g, p)' <=> Received(g, p)
    BY <1>13 DEF SameSender, SameReceiver, Txed, Retx, Received, Rxon
<1>21. ASSUME NEW i \in 1..Len(v)
       PROVE  \E l \in g.a..g.h :
                  /\ Truthful(g, v[i], l)'
                  /\ \A j \in 1..Len(v) :
                        i < j => Precedes(g, v[i], l, v[j])
    <2>1. CASE i = Len(q) + 1
        <3>1. Truthful(g, m, k)'
            BY <1>16, <1>17, <1>20 DEF Truthful
        <3>2. k \in g.a..g.h
            <4>1. /\ g.a \in Nat /\ g.h \in Nat /\ g.r \in Nat /\ g.ms \in Nat
                  /\ g.a <= g.r /\ g.ms <= g.h
                BY <1>3
            <4> QED BY ONLY <4>1, k \in g.r..g.ms
        <3>3. \A j \in 1..Len(v) : ~(i < j)
            BY <1>18, <2>1
        <3> QED BY <1>18, <2>1, <3>1, <3>2, <3>3
    <2>2. CASE i \in 1..Len(q)
        <3>1. PICK w : w = q[i] /\ w = v[i]
            BY <1>18, <2>2
        <3>2. PICK l \in g.a..g.h :
                  /\ Truthful(g, w, l)
                  /\ \A j \in 1..Len(q) : i < j => Precedes(g, w, l, q[j])
            BY <1>1, <1>12, <2>2, <3>1 DEF At, StatusAt
        <3>3. Truthful(g, w, l)'
            BY <1>20, <3>2 DEF Truthful
        <3>4. Precedes(g, w, l, m)
            <4>1. ASSUME NEW p \in g.a..(l - 1), Pos(p) \in m.nacks \/ Pos(p) = m.ack
                  PROVE  Pos(p) \in w.nacks
                <5>1. p \in g.a..(g.h - 1)
                    BY <1>3
                <5>2. ~Received(g, p)
                    BY <1>16, <1>19, <4>1, <5>1
                <5> QED BY <3>2, <5>2 DEF Truthful
            <4> QED BY <4>1 DEF Precedes
        <3>5. ASSUME NEW j \in 1..Len(v), i < j
              PROVE  Precedes(g, w, l, v[j])
            <4>1. j \in 1..Len(q) \/ j = Len(q) + 1
                BY <1>18
            <4> QED BY <1>18, <3>2, <3>4, <3>5, <4>1
        <3> QED BY <3>1, <3>2, <3>3, <3>5
    <2> QED BY <1>18, <2>1, <2>2
<1>22. StatusAt(g)'
    BY <1>18, <1>21, StatusAfter
<1>23. TypeOK'
    <2>1. rx' \in RxType
        BY <1>2 DEF SendStatusPdu, RxType
    <2>2. statusPdus' \in Seq([ack : Sns, nacks : SUBSET Sns])
        BY <1>18
    <2> QED BY <2>1, <2>2, TypeParts, TypePartsPrime DEF IInv, SendStatusPdu
<1> QED BY <1>14, <1>22, <1>23 DEF IInv, At, SendStatusPdu

\* Nothing at VR(H) or later has been received.
LEMMA NotYetReceived ==
    ASSUME NEW buffer, NEW r \in Nat, NEW h \in Nat, NEW cut, Holds(buffer, r, h - 1, cut),
           NEW p \in Nat, h <= p, p < r + SnModulus, Pos(p) \in Sns
    PROVE  buffer[Pos(p)] = NoPdu
<1>1. SUFFICES ASSUME buffer[Pos(p)] # NoPdu PROVE FALSE
    OBVIOUS
<1>2. PICK q \in r..(h - 1) : Pos(p) = Pos(q)
    BY <1>1 DEF Holds
<1>3. q \in Int /\ p \in Int /\ q - p < SnModulus /\ p - q < SnModulus /\ p # q
    BY Constants
<1> QED BY ONLY <1>2, <1>3, PosInjective

\* t-Reordering gives up what it waited for, and waits for the next gap.
LEMMA ExpireReorderingTimerKeeps ==
    ASSUME IInv, UNCHANGED ueSends, ExpireReorderingTimer PROVE IInv'
<1>1. PICK g \in Positions : At(g)
    BY DEF IInv
<1>2. rx \in RxType /\ submitted \in Nat /\ submitted' = submitted
    BY TypeParts, Constants DEF IInv, ExpireReorderingTimer
<1>3. /\ g.a \in Nat /\ g.s \in Nat /\ g.r \in Nat /\ g.ms \in Nat /\ g.h \in Nat
      /\ g.a <= g.r /\ g.r <= g.ms /\ g.ms <= g.h /\ g.h <= g.s /\ g.s <= g.a + WindowSize
      /\ WindowSize \in Nat \ {0} /\ SnModulus \in Nat \ {0} /\ SnModulus >= 2 * WindowSize
      /\ WindowSize < SnModulus
    BY <1>1, WindowsNumbers DEF At
<1>4. /\ rx.vrR = Pos(g.r) /\ rx.vrMs = Pos(g.ms) /\ rx.vrH = Pos(g.h) /\ rx.vrX = Pos(g.x)
      /\ Holds(rx.rxon, g.r + 1, g.h - 1, g.cut)
      /\ g.r < g.x /\ g.x <= g.h
    BY <1>1 DEF At, ReceiverAt, ExpireReorderingTimer
<1>5. g.x \in Nat
    BY PositionsType
<1>6. Pos(g.h) \notin Rxon(rx) /\ Pos(g.h) \in Sns
    <2>1. g.r + 1 \in Nat /\ g.h < g.r + 1 + SnModulus /\ g.h <= g.h /\ g.h \in Int
        BY <1>3
    <2>2. Pos(g.h) \in Sns
        BY ONLY <2>1, PosIsSn
    <2>3. rx.rxon[Pos(g.h)] = NoPdu
        BY ONLY <1>3, <1>4, <2>1, <2>2, NotYetReceived
    <2> QED BY <2>2, <2>3 DEF Rxon
<1>7. \E q \in g.x..g.h : FirstMissing(rx, rx.vrX) = Pos(q) /\ Pos(q) \notin Rxon(rx)
    <2>1. g.h - g.x < SnModulus
        BY <1>3, <1>4, <1>5
    <2>2. \E q \in g.x..g.h : FirstMissing(rx, Pos(g.x)) = Pos(q) /\ Pos(q) \notin Rxon(rx)
        BY ONLY <1>3, <1>4, <1>5, <1>6, <2>1, FirstMissingIs
    <2> QED BY <1>4, <2>2
<1>8. PICK q \in g.x..g.h : FirstMissing(rx, rx.vrX) = Pos(q) /\ Pos(q) \notin Rxon(rx)
    BY <1>7
<1>9. q \in Nat /\ g.r < q /\ q <= g.h
    BY <1>3, <1>4, <1>5
<1>10. PICK gap \in BOOLEAN : gap <=> g.h > q
    OBVIOUS
<1>11. Distance(rx.vrR, rx.vrH) > Distance(rx.vrR, FirstMissing(rx, rx.vrX)) <=> gap
    <2>1. g.h \in g.r..(g.r + SnModulus - 1) /\ q \in g.r..(g.r + SnModulus - 1)
        BY <1>3, <1>9
    <2>2. Distance(Pos(g.r), Pos(g.h)) = g.h - g.r /\ Distance(Pos(g.r), Pos(q)) = q - g.r
        BY ONLY <1>3, <2>1, FromVrR
    <2>3. g.h - g.r > q - g.r <=> g.h > q
        BY <1>3, <1>9
    <2> QED BY <1>4, <1>8, <1>10, <2>2, <2>3
<1> DEFINE x == IF gap THEN g.h ELSE g.x
           e == [g EXCEPT !.ms = q, !.x = x]
<1>12. x \in Nat /\ (gap => g.r < x /\ x <= g.h)
    BY <1>3, <1>5, <1>9, <1>10
<1>13. /\ rx' \in RxType /\ rx'.vrR = rx.vrR /\ rx'.vrMs = Pos(q) /\ rx'.vrH = rx.vrH
       /\ rx'.vrX = Pos(x) /\ rx'.rxon = rx.rxon /\ rx'.reassembly = rx.reassembly
       /\ rx'.reorderingTimer = gap
    <2>1. rx' = [rx EXCEPT !.vrMs = Pos(q), !.reorderingTimer = gap,
                           !.vrX = IF gap THEN rx.vrH ELSE @, !.statusPduRequested = TRUE]
        <3> DEFINE ms == FirstMissing(rx, rx.vrX)
                   d == Distance(rx.vrR, rx.vrH) > Distance(rx.vrR, ms)
        <3>1. rx' = [rx EXCEPT !.vrMs = ms, !.reorderingTimer = d,
                               !.vrX = IF d THEN rx.vrH ELSE @, !.statusPduRequested = TRUE]
            BY DEF ExpireReorderingTimer
        <3>2. ms = Pos(q) /\ d = gap
            <4>1. d \in BOOLEAN
                OBVIOUS
            <4> QED BY <1>8, <1>11, <4>1
        <3> HIDE DEF ms, d
        <3> QED BY <3>1, <3>2
    <2>2. Pos(q) \in Sns
        BY <1>9, PosIsSn
    <2> QED BY <1>2, <1>4, <2>1, <2>2 DEF RxType
<1> HIDE DEF x
<1>14. /\ e \in Positions /\ e.a = g.a /\ e.s = g.s /\ e.r = g.r /\ e.ms = q /\ e.h = g.h
       /\ e.x = x /\ e.cut = g.cut /\ e.n = g.n
    BY <1>9, <1>12 DEF Positions
<1> HIDE DEF e
<1>15. WindowsAt(e)'
    <2>1. g.r <= q
        BY <1>3, <1>9
    <2> QED BY <1>3, <1>9, <1>14, <2>1 DEF WindowsAt
<1>16. ReceiverAt(e)'
    <2>1. Rxon(rx)' = Rxon(rx)
        BY <1>13 DEF Rxon
    <2> QED BY <1>1, <1>8, <1>12, <1>13, <1>14, <2>1 DEF At, ReceiverAt, Holds
<1>17. \A p : Received(e, p)' <=> Received(g, p)
    BY <1>13, <1>14 DEF Received, Rxon
<1>18. UNCHANGED <<submitted, tx, dataPdus, statusPdus, switches, losses, fatal>>
    BY DEF ExpireReorderingTimer
<1>19. CutAt(e)' /\ SenderAt(e)' /\ FlightAt(e)'
    BY <1>1, <1>14, <1>18 DEF At, CutAt, SenderAt, Holds, Txed, Retx, FlightAt
<1>20. StatusAt(e)' /\ KeptAt(e)'
    <2>1. Txed' = Txed /\ Retx' = Retx
        BY <1>18 DEF Txed, Retx
    <2>2. StatusAt(g) /\ UNCHANGED statusPdus /\ g.h <= e.h
        BY <1>1, <1>3, <1>14, <1>18 DEF At
    <2>3. StatusAt(e)'
        BY <1>14, <1>17, <2>1, <2>2, StatusStays
    <2> QED BY <1>1, <1>14, <1>17, <2>1, <2>3 DEF At, KeptAt
<1>21. TypeOK'
    BY <1>13, <1>18, TypeParts, TypePartsPrime DEF IInv
<1> QED BY <1>14, <1>15, <1>16, <1>18, <1>19, <1>20, <1>21 DEF IInv, At

\* In the buffer, the PDU of an SN is the PDU of its position.
LEMMA HeldAt ==
    ASSUME NEW buffer, NEW r \in Nat, NEW h \in Nat, h <= r + WindowSize, NEW cut,
           Holds(buffer, r, h - 1, cut), NEW p \in r..(h - 1), buffer[Pos(p)] # NoPdu
    PROVE  buffer[Pos(p)] = Pdu(cut, p)
<1>1. p \in Int /\ Pos(p) \in Sns
    <2>1. p \in Int
        OBVIOUS
    <2> QED BY ONLY <2>1, PosIsSn
<1>2. PICK q \in r..(h - 1) : Pos(p) = Pos(q) /\ buffer[Pos(p)] = Pdu(cut, q)
    BY <1>1 DEF Holds
<1>3. q \in Int /\ p \in Int /\ q - p < SnModulus /\ p - q < SnModulus
    BY Constants
<1>4. p = q
    BY ONLY <1>2, <1>3, PosInjective
<1> QED BY <1>2, <1>4

\* The PDU of the position q of the window has come; VR(H) will be at hh.
MayPlace(v, r, h, q, cut, m, hh) ==
    /\ v \in RxType /\ {r, h, q, hh} \subseteq Nat
    /\ r <= h /\ h <= r + WindowSize /\ r <= q /\ q < r + WindowSize
    /\ v.vrR = Pos(r) /\ v.vrH = Pos(h) /\ Holds(v.rxon, r + 1, h - 1, cut)
    /\ m.sn = Pos(q) /\ m.pdu = Pdu(cut, q) /\ m.pdu \in Pdus /\ m.pdu # NoPdu
    /\ hh = IF q < h THEN h ELSE q + 1

\* What is in the buffer after a PDU of the window has come.
LEMMA PlacedIs ==
    ASSUME NEW v, NEW r, NEW h, NEW q, NEW cut, NEW m, NEW hh, MayPlace(v, r, h, q, cut, m, hh)
    PROVE  /\ Placed(v, m) \in RxType
           /\ Placed(v, m).vrR = v.vrR /\ Placed(v, m).vrX = v.vrX
           /\ Placed(v, m).vrMs = v.vrMs /\ Placed(v, m).reorderingTimer = v.reorderingTimer
           /\ Placed(v, m).reassembly = v.reassembly /\ Placed(v, m).vrH = Pos(hh)
           /\ Rxon(Placed(v, m)) = Rxon(v) \cup {Pos(q)}
           /\ Holds(Placed(v, m).rxon, r, hh - 1, cut)
<1> SUFFICES ASSUME v \in RxType, r \in Nat, h \in Nat, q \in Nat, hh \in Nat,
                    r <= h, h <= r + WindowSize, r <= q, q < r + WindowSize,
                    v.vrR = Pos(r), v.vrH = Pos(h), Holds(v.rxon, r + 1, h - 1, cut),
                    m.sn = Pos(q), m.pdu = Pdu(cut, q), m.pdu \in Pdus, m.pdu # NoPdu,
                    hh = IF q < h THEN h ELSE q + 1
             PROVE  /\ Placed(v, m) \in RxType
                    /\ Placed(v, m).vrR = v.vrR /\ Placed(v, m).vrX = v.vrX
                    /\ Placed(v, m).vrMs = v.vrMs
                    /\ Placed(v, m).reorderingTimer = v.reorderingTimer
                    /\ Placed(v, m).reassembly = v.reassembly /\ Placed(v, m).vrH = Pos(hh)
                    /\ Rxon(Placed(v, m)) = Rxon(v) \cup {Pos(q)}
                    /\ Holds(Placed(v, m).rxon, r, hh - 1, cut)
    BY Zenon DEF MayPlace
<1> DEFINE vrH == IF Distance(v.vrR, Pos(q)) >= Distance(v.vrR, v.vrH) THEN Plus(Pos(q), 1) ELSE v.vrH
           rxon == [v.rxon EXCEPT ![Pos(q)] = IF @ = NoPdu THEN m.pdu ELSE @]
<1>1. /\ WindowSize \in Nat \ {0} /\ SnModulus \in Nat \ {0} /\ WindowSize < SnModulus
    BY Constants
<1>2. vrH = Pos(hh) /\ Pos(hh) \in Sns
    <2>1. q \in r..(r + SnModulus - 1) /\ h \in r..(r + SnModulus - 1)
        BY <1>1
    <2>2. Distance(v.vrR, Pos(q)) = q - r /\ Distance(v.vrR, v.vrH) = h - r
        BY <2>1, FromVrR
    <2>3. q - r >= h - r <=> ~(q < h)
        OBVIOUS
    <2>4. q \in Int /\ 1 \in Int /\ hh \in Int
        OBVIOUS
    <2>5. Plus(Pos(q), 1) = Pos(q + 1) /\ Pos(hh) \in Sns
        BY ONLY <2>4, PlusPos, PosIsSn
    <2> QED BY <2>2, <2>3, <2>5
<1>3. Pos(q) \in Sns
    BY PosIsSn
<1>4. v.rxon \in [Sns -> Pdus]
    BY DEF RxType
<1>5. rxon \in [Sns -> Pdus]
    BY <1>3, <1>4
<1> HIDE DEF vrH, rxon
<1>6. Placed(v, m) = [v EXCEPT !.rxon = rxon, !.vrH = vrH]
    BY <1>3, <1>4 DEF Placed, rxon, vrH, RxType
<1>7. /\ Placed(v, m) \in RxType /\ Placed(v, m).rxon = rxon /\ Placed(v, m).vrH = Pos(hh)
      /\ Placed(v, m).vrR = v.vrR /\ Placed(v, m).vrX = v.vrX
      /\ Placed(v, m).vrMs = v.vrMs /\ Placed(v, m).reorderingTimer = v.reorderingTimer
      /\ Placed(v, m).reassembly = v.reassembly
    BY <1>2, <1>5, <1>6 DEF RxType
<1>8. /\ \A sn \in Sns : sn # Pos(q) => rxon[sn] = v.rxon[sn]
      /\ rxon[Pos(q)] = IF v.rxon[Pos(q)] = NoPdu THEN m.pdu ELSE v.rxon[Pos(q)]
    BY <1>3, <1>4 DEF rxon
<1>9. Rxon(Placed(v, m)) = Rxon(v) \cup {Pos(q)}
    BY <1>3, <1>7, <1>8 DEF Rxon
<1>10. Holds(rxon, r, hh - 1, cut)
    <2>1. SUFFICES ASSUME NEW sn \in Sns, rxon[sn] # NoPdu
                   PROVE  \E p \in r..(hh - 1) : sn = Pos(p) /\ rxon[sn] = Pdu(cut, p)
        BY DEF Holds
    <2>2. CASE v.rxon[sn] # NoPdu
        <3>1. PICK p \in (r + 1)..(h - 1) : sn = Pos(p) /\ v.rxon[sn] = Pdu(cut, p)
            BY <2>2 DEF Holds
        <3>2. p \in r..(hh - 1)
            OBVIOUS
        <3>3. rxon[sn] = v.rxon[sn]
            BY <1>8, <2>2
        <3> QED BY <3>1, <3>2, <3>3
    <2>3. CASE v.rxon[sn] = NoPdu
        <3>1. sn = Pos(q) /\ rxon[sn] = Pdu(cut, q)
            BY <1>8, <2>1, <2>3
        <3>2. q \in r..(hh - 1)
            OBVIOUS
        <3> QED BY <3>1, <3>2
    <2> QED BY <2>2, <2>3
<1> QED BY <1>7, <1>9, <1>10

\* A run within the submitted SDUs is of units.
LEMMA RunOfUnits ==
    ASSUME NEW a \in Nat \ {0}, NEW b \in Int, a <= b + 1, b <= MaxSdus * SduSize
    PROVE  Run(a, b) \in Seq(Units)
<1>1. MaxSdus * SduSize \in Int
    <2>1. MaxSdus \in Int
        BY Constants
    <2> QED BY ONLY <2>1, Multiples
<1>2. b - a + 1 \in Nat /\ \A k \in 1..(b - a + 1) : a + k - 1 \in 1..(MaxSdus * SduSize)
    BY <1>1
<1> DEFINE n == b - a + 1
<1>3. n \in Nat /\ Run(a, b) = [k \in 1..n |-> a + k - 1]
    BY <1>2 DEF Run
<1>4. \A k \in 1..n : a + k - 1 \in Units
    BY <1>2 DEF Units
<1> HIDE DEF n
<1> QED BY <1>3, <1>4

\* What has been reassembled has its type.
LEMMA DeliveredType ==
    ASSUME NEW c \in Nat, c <= MaxSdus * SduSize, NEW e \in Sns
    PROVE  Delivered(c, e) \in [keepS0 : Seq(Units), expected : Sns, sdus : Seq(Seq(Units)),
                                error : BOOLEAN]
<1> DEFINE q == c \div SduSize
           S == SduSize
<1>1. /\ S \in Nat \ {0} /\ q \in Int /\ c = S * q + (c % S) /\ c % S \in 0..(S - 1)
    BY Constants, DivMod
<1>2. q * S = S * q /\ q * S \in Int
    BY <1>1
<1>3. q \in Nat /\ q * S <= c /\ q * S \in Nat
    <2> HIDE DEF q
    <2>1. q * S <= c /\ c < q * S + S
        BY <1>1, <1>2
    <2>2. q < 0 => q * S + S <= 0 * S
        BY <1>1, Multiples
    <2>3. q >= 0 => 0 * S <= q * S
        BY <1>1, Multiples
    <2>4. 0 * S = 0
        BY <1>1
    <2> QED BY <1>1, <1>2, <2>1, <2>2, <2>3, <2>4
<1> HIDE DEF q
<1>4. Run(q * S + 1, c) \in Seq(Units)
    <2>1. q * S + 1 \in Nat \ {0} /\ c \in Int /\ q * S + 1 <= c + 1
        BY <1>3
    <2> QED BY ONLY <2>1, c <= MaxSdus * SduSize, RunOfUnits
<1>5. ASSUME NEW i \in 1..q PROVE Sdu(i) \in Seq(Units)
    <2>1. i \in Int /\ q \in Int /\ i <= q /\ 0 \in Int /\ 0 <= i - 1 /\ i - 1 \in Int
        BY <1>3
    <2>2. /\ i * S <= q * S /\ i * S \in Int /\ (i - 1) * S = i * S - S
          /\ 0 * S <= (i - 1) * S /\ (i - 1) * S \in Int
        BY ONLY <2>1, Multiples DEF S
    <2>3. 0 * S = 0
        BY <1>1
    <2> DEFINE a == (i - 1) * S + 1
               b == i * S
    <2>4. a \in Nat \ {0} /\ b \in Int /\ a <= b + 1 /\ b <= c
        BY <1>1, <1>3, <2>2, <2>3
    <2>5. b <= MaxSdus * SduSize
        <3>1. MaxSdus * SduSize \in Int
            <4>1. MaxSdus \in Int
                BY Constants
            <4> QED BY ONLY <4>1, Multiples
        <3> HIDE DEF b
        <3> QED BY <2>4, <3>1
    <2>6. Sdu(i) = Run(a, b)
        BY ONLY <2>1, SduIsRun DEF S
    <2> HIDE DEF a, b
    <2> QED BY ONLY <2>4, <2>5, <2>6, RunOfUnits
<1>6. [i \in 1..q |-> Sdu(i)] \in Seq(Seq(Units))
    BY <1>3, <1>5
<1> QED BY <1>4, <1>6 DEF Delivered, q

\* The PDU of the position q is in the buffer, the one of ms is not.
MayAdvance(v, r, ms, h, q, cut) ==
    /\ v \in RxType /\ {r, ms, h, q} \subseteq Nat /\ cut \in [Nat -> Nat]
    /\ r <= ms /\ ms <= h /\ h <= r + WindowSize /\ r <= q /\ q < r + WindowSize
    /\ \A j \in r..(h - 1) : cut[j] < cut[j + 1]
    /\ \A j \in r..h : cut[j] <= MaxSdus * SduSize
    /\ v.vrR = Pos(r) /\ v.reassembly = Delivered(cut[r], Pos(r))
    /\ Holds(v.rxon, r, h - 1, cut)
    /\ Pos(q) \in Rxon(v) /\ (Pos(r) \in Rxon(v) => q = r) /\ Pos(ms) \notin Rxon(v)

\* VR(R) is at t, and only what was before it is gone.
AdvancedTo(v, u, r, t, h, cut) ==
    /\ u \in RxType /\ u.vrR = Pos(t)
    /\ u.vrMs = v.vrMs /\ u.vrH = v.vrH /\ u.vrX = v.vrX
    /\ u.reorderingTimer = v.reorderingTimer
    /\ u.reassembly = Delivered(cut[t], Pos(t))
    /\ Holds(u.rxon, t + 1, h - 1, cut)
    /\ \A p \in Int : p < r + SnModulus /\ Pos(p) \in Rxon(v) => p < t \/ Pos(p) \in Rxon(u)
    /\ Rxon(u) \subseteq Rxon(v)

\* The receiver moves on over what has come in sequence, up to the first gap.
LEMMA AdvancedIs ==
    ASSUME NEW v, NEW r, NEW ms, NEW h, NEW q, NEW cut, MayAdvance(v, r, ms, h, q, cut),
           NEW u, u = Advanced(v, Pos(q))
    PROVE  \E t \in r..ms : AdvancedTo(v, u, r, t, h, cut)
<1> SUFFICES ASSUME v \in RxType, r \in Nat, ms \in Nat, h \in Nat, q \in Nat, cut \in [Nat -> Nat],
                    r <= ms, ms <= h, h <= r + WindowSize, r <= q, q < r + WindowSize,
                    \A j \in r..(h - 1) : cut[j] < cut[j + 1],
                    \A j \in r..h : cut[j] <= MaxSdus * SduSize,
                    v.vrR = Pos(r), v.reassembly = Delivered(cut[r], Pos(r)),
                    Holds(v.rxon, r, h - 1, cut), Pos(q) \in Rxon(v),
                    Pos(r) \in Rxon(v) => q = r, Pos(ms) \notin Rxon(v)
             PROVE  \E t \in r..ms : AdvancedTo(v, u, r, t, h, cut)
    BY Zenon DEF MayAdvance
<1>1. /\ WindowSize \in Nat \ {0} /\ SnModulus \in Nat \ {0} /\ WindowSize < SnModulus
    BY Constants
<1>2. CASE q # r
    <2>1. Pos(q) # v.vrR
        <3>1. q \in Int /\ r \in Int /\ q - r < SnModulus /\ r - q < SnModulus
            BY <1>1
        <3>2. Pos(q) = Pos(r) => q = r
            BY ONLY <3>1, PosInjective
        <3> QED BY <1>2, <3>2
    <2>2. u = v
        BY <2>1 DEF Advanced
    <2>3. Holds(v.rxon, r + 1, h - 1, cut)
        <3>1. SUFFICES ASSUME NEW sn \in Sns, v.rxon[sn] # NoPdu
                       PROVE  \E p \in (r + 1)..(h - 1) : sn = Pos(p) /\ v.rxon[sn] = Pdu(cut, p)
            BY DEF Holds
        <3>2. PICK p \in r..(h - 1) : sn = Pos(p) /\ v.rxon[sn] = Pdu(cut, p)
            BY <3>1 DEF Holds
        <3>3. p # r
            BY <1>2, <3>1, <3>2 DEF Rxon
        <3>4. p \in (r + 1)..(h - 1)
            BY <3>3
        <3> QED BY <3>2, <3>4
    <2>4. r \in r..ms
        OBVIOUS
    <2> QED BY <2>2, <2>3, <2>4 DEF AdvancedTo
<1>3. CASE q = r
    <2>1. Pos(r) \in Rxon(v)
        BY <1>3
    <2>2. \E t \in r..ms : /\ FirstMissing(v, Pos(r)) = Pos(t) /\ Pos(t) \notin Rxon(v)
                           /\ \A j \in r..(t - 1) : Pos(j) \in Rxon(v)
        <3>1. ms - r < SnModulus /\ r <= ms /\ Pos(ms) \notin Rxon(v)
            BY <1>1
        <3> QED BY ONLY <3>1, r \in Nat, ms \in Nat, FirstMissingIs
    <2>3. PICK t \in r..ms : /\ FirstMissing(v, Pos(r)) = Pos(t) /\ Pos(t) \notin Rxon(v)
                             /\ \A j \in r..(t - 1) : Pos(j) \in Rxon(v)
        BY <2>2
    <2>4. t \in Nat /\ t - r \in Nat /\ t <= h /\ t \in Int
        OBVIOUS
    <2>5. Distance(Pos(r), Pos(t)) = t - r
        <3>1. t \in r..(r + SnModulus - 1)
            BY <1>1
        <3> QED BY <3>1, FromVrR
    <2> DEFINE reassembly == Reassembled(v, t - r)
               rxon == [s \in Sns |-> IF Distance(v.vrR, s) < t - r THEN NoPdu ELSE v.rxon[s]]
    <2>6. u = [v EXCEPT !.vrR = Pos(t), !.reassembly = reassembly, !.rxon = rxon]
        BY <1>3, <2>3, <2>5 DEF Advanced, RxType
    <2>7. reassembly = Delivered(cut[t], Pos(t))
        <3>1. ASSUME NEW j \in r..(t - 1)
              PROVE  /\ cut[j] \in Nat /\ cut[j + 1] \in Nat /\ cut[j] < cut[j + 1]
                     /\ v.rxon[Pos(j)] = Pdu(cut, j)
            <4>1. j \in Nat /\ j + 1 \in Nat /\ j \in r..(h - 1)
                BY <2>4
            <4>2. v.rxon[Pos(j)] # NoPdu
                BY <2>3 DEF Rxon
            <4>3. v.rxon[Pos(j)] = Pdu(cut, j)
                BY ONLY <4>1, <4>2, HeldAt, r \in Nat, h \in Nat, h <= r + WindowSize,
                        Holds(v.rxon, r, h - 1, cut)
            <4> QED BY <4>1, <4>3
        <3>2. r <= t
            OBVIOUS
        <3> HIDE DEF reassembly
        <3>3. Reassembled(v, t - r) = Delivered(cut[t], Pos(t))
            <4>1. r \in Nat /\ v.vrR = Pos(r) /\ v.reassembly = Delivered(cut[r], Pos(r)) /\ t \in Nat
                BY <2>4
            <4>2. InSequence(v, cut, r, t)
                BY <3>1 DEF InSequence
            <4> DEFINE n == t - r
            <4>3. n = t - r
                OBVIOUS
            <4> HIDE DEF n
            <4>4. Reassembled(v, n) = Delivered(cut[t], Pos(t))
                BY ONLY <3>2, <4>1, <4>2, <4>3, ReassembledInSequence
            <4> QED BY <4>3, <4>4
        <3> QED BY <3>3 DEF reassembly
    <2>8. rxon \in [Sns -> Pdus]
        <3>1. v.rxon \in [Sns -> Pdus] /\ NoPdu \in Pdus
            BY DEF RxType, Pdus
        <3> QED BY <3>1
    <2>9. reassembly \in [keepS0 : Seq(Units), expected : Sns, sdus : Seq(Seq(Units)),
                          error : BOOLEAN]
        <3>1. t \in r..h /\ cut[t] \in Nat
            BY <2>4
        <3>2. cut[t] <= MaxSdus * SduSize /\ Pos(t) \in Sns
            BY <2>4, <3>1, PosIsSn
        <3> HIDE DEF reassembly
        <3> QED BY ONLY <2>7, <3>1, <3>2, DeliveredType
    <2> HIDE DEF reassembly, rxon
    <2>10. /\ u \in RxType /\ u.vrR = Pos(t)
           /\ u.vrMs = v.vrMs /\ u.vrH = v.vrH /\ u.vrX = v.vrX
           /\ u.reorderingTimer = v.reorderingTimer
           /\ u.reassembly = reassembly /\ u.rxon = rxon
        <3>1. Pos(t) \in Sns
            BY <2>4, PosIsSn
        <3> QED BY <2>6, <2>8, <2>9, <3>1 DEF RxType
    <2>11. Holds(rxon, t + 1, h - 1, cut)
        <3>1. SUFFICES ASSUME NEW sn \in Sns, rxon[sn] # NoPdu
                       PROVE  \E p \in (t + 1)..(h - 1) : sn = Pos(p) /\ rxon[sn] = Pdu(cut, p)
            BY DEF Holds
        <3>2. rxon[sn] = v.rxon[sn] /\ ~(Distance(v.vrR, sn) < t - r)
            BY <3>1 DEF rxon
        <3>3. PICK p \in r..(h - 1) : sn = Pos(p) /\ v.rxon[sn] = Pdu(cut, p)
            BY <3>1, <3>2 DEF Holds
        <3>4. p \in r..(r + SnModulus - 1)
            BY <1>1
        <3>5. Distance(v.vrR, sn) = p - r
            BY <3>3, <3>4, FromVrR
        <3>6. p # t
            BY <2>3, <3>1, <3>2, <3>3 DEF Rxon
        <3>7. p \in (t + 1)..(h - 1)
            BY <2>4, <3>2, <3>5, <3>6
        <3> QED BY <3>2, <3>3, <3>7
    <2>12. ASSUME NEW p \in Int, p < r + SnModulus, Pos(p) \in Rxon(v)
           PROVE  p < t \/ Pos(p) \in Rxon(u)
        <3>1. SUFFICES ASSUME t <= p PROVE Pos(p) \in Rxon(u)
            BY <2>4
        <3>2. p \in r..(r + SnModulus - 1)
            BY <1>1, <2>12, <3>1
        <3>3. Distance(v.vrR, Pos(p)) = p - r
            BY <3>2, FromVrR
        <3>4. ~(p - r < t - r)
            BY <2>4, <3>1
        <3>5. Pos(p) \in Sns /\ v.rxon[Pos(p)] # NoPdu
            BY <2>12 DEF Rxon
        <3>6. rxon[Pos(p)] = v.rxon[Pos(p)]
            BY <3>3, <3>4, <3>5 DEF rxon
        <3> QED BY <2>10, <3>5, <3>6 DEF Rxon
    <2>13. Rxon(u) \subseteq Rxon(v)
        BY <2>10 DEF Rxon, rxon
    <2> QED BY <2>7, <2>10, <2>11, <2>12, <2>13 DEF AdvancedTo
<1> QED BY <1>2, <1>3

\* t-Reordering runs for an SN between VR(R) and VR(H).
LEMMA ReorderedIs ==
    ASSUME NEW v \in RxType, NEW t \in Nat, NEW h \in Nat, NEW x \in Nat,
           t <= h, h <= t + WindowSize, v.vrR = Pos(t), v.vrH = Pos(h), v.vrX = Pos(x),
           v.reorderingTimer => t - WindowSize < x /\ x <= h, NEW u, u = Reordered(v)
    PROVE  /\ u \in RxType /\ u.vrR = v.vrR /\ u.vrMs = v.vrMs /\ u.vrH = v.vrH
           /\ u.reassembly = v.reassembly /\ u.rxon = v.rxon
           /\ \E y \in {x, h} : u.vrX = Pos(y) /\ (u.reorderingTimer => t < y /\ y <= h)
<1> DEFINE runs == /\ v.reorderingTimer
                   /\ v.vrX # v.vrR
                   /\ IsInsideReceivingWindow(v, v.vrX) \/ v.vrX = Plus(v.vrR, WindowSize)
<1>1. /\ WindowSize \in Nat \ {0} /\ SnModulus \in Nat \ {0} /\ SnModulus >= 2 * WindowSize
      /\ WindowSize < SnModulus
    BY Constants
<1>2. ASSUME runs PROVE t < x
    <2>1. SUFFICES ASSUME x <= t PROVE FALSE
        OBVIOUS
    <2>2. x # t
        BY <1>2
    <2>3. x < t /\ t - WindowSize < x /\ t - SnModulus <= x /\ x \in Int
        BY <1>1, <1>2, <2>1, <2>2
    <2>4. Distance(v.vrR, v.vrX) = x - t + SnModulus
        BY <2>3, FromVrR
    <2>5. ~(x - t + SnModulus < WindowSize) /\ x - t + SnModulus # WindowSize
        BY <1>1, <2>3
    <2>6. v.vrX = Plus(v.vrR, WindowSize)
        BY <1>2, <2>4, <2>5 DEF IsInsideReceivingWindow
    <2>7. Plus(v.vrR, WindowSize) = Pos(t + WindowSize)
        <3>1. t \in Int /\ WindowSize \in Int
            BY <1>1
        <3> QED BY <3>1, PlusPos
    <2>8. Distance(v.vrR, Pos(t + WindowSize)) = WindowSize
        <3> DEFINE p == t + WindowSize
        <3>1. p \in t..(t + SnModulus - 1) /\ p - t = WindowSize
            BY <1>1
        <3>2. Distance(v.vrR, Pos(p)) = p - t
            <4> HIDE DEF p
            <4> QED BY <3>1, FromVrR
        <3> QED BY <3>1, <3>2
    <2> QED BY <2>4, <2>5, <2>6, <2>7, <2>8
<1>3. runs \in BOOLEAN /\ v.reorderingTimer \in BOOLEAN
    BY DEF RxType
<1>4. u = IF runs \/ v.vrH = v.vrR THEN [v EXCEPT !.reorderingTimer = runs]
          ELSE [v EXCEPT !.reorderingTimer = TRUE, !.vrX = v.vrH]
    BY DEF Reordered
<1>5. runs => x <= h
    OBVIOUS
<1> HIDE DEF runs
<1>6. CASE runs \/ v.vrH = v.vrR
    BY <1>2, <1>3, <1>4, <1>5, <1>6 DEF RxType
<1>7. CASE ~runs /\ v.vrH # v.vrR
    <2>1. t < h
        BY <1>7
    <2>2. /\ u \in RxType /\ u.vrR = v.vrR /\ u.vrMs = v.vrMs /\ u.vrH = v.vrH
          /\ u.reassembly = v.reassembly /\ u.rxon = v.rxon /\ u.vrX = Pos(h)
        BY <1>4, <1>7 DEF RxType
    <2> QED BY <2>1, <2>2
<1> QED BY <1>6, <1>7

\* The units of the PDUs are units of SDUs that were submitted.
LEMMA CutBounds ==
    ASSUME NEW g \in Positions, CutAt(g), SenderAt(g), submitted \in 0..MaxSdus
    PROVE  /\ \A p \in 0..g.s : g.cut[p] \in Nat /\ g.cut[p] <= submitted * SduSize
                                /\ g.cut[p] <= MaxSdus * SduSize
           /\ \A p \in 0..(g.s - 1) : Pdu(g.cut, p) \in Pdus /\ Pdu(g.cut, p) # NoPdu
           /\ submitted * SduSize \in Int
<1>1. /\ g.s \in Nat /\ \A p \in Nat : g.cut[p] \in Nat
    BY PositionsType
<1>2. g.cut[g.s] <= submitted * SduSize
    BY DEF SenderAt
<1>3. submitted * SduSize \in Int /\ MaxSdus * SduSize \in Int
      /\ submitted * SduSize <= MaxSdus * SduSize
    <2>1. submitted \in Int /\ MaxSdus \in Int /\ submitted <= MaxSdus
        BY Constants
    <2> QED BY ONLY <2>1, Multiples
<1>4. ASSUME NEW p \in 0..g.s
      PROVE  /\ g.cut[p] \in Nat /\ g.cut[p] <= submitted * SduSize
             /\ g.cut[p] <= MaxSdus * SduSize
    <2>1. p \in Nat /\ g.s \in 0..g.s /\ (p = g.s \/ p < g.s)
        BY <1>1
    <2>2. p < g.s => g.cut[p] < g.cut[g.s]
        BY <2>1 DEF CutAt
    <2>3. g.cut[p] \in Nat /\ g.cut[g.s] \in Nat
        BY <1>1, <2>1
    <2> DEFINE all == submitted * SduSize
               max == MaxSdus * SduSize
    <2>4. all \in Int /\ max \in Int /\ all <= max /\ g.cut[g.s] <= all
        BY <1>2, <1>3
    <2> HIDE DEF all, max
    <2>5. g.cut[p] <= all /\ g.cut[p] <= max
        BY ONLY <2>1, <2>2, <2>3, <2>4
    <2> QED BY <2>3, <2>5 DEF all, max
<1>5. ASSUME NEW p \in 0..(g.s - 1) PROVE Pdu(g.cut, p) \in Pdus /\ Pdu(g.cut, p) # NoPdu
    <2>1. p \in 0..g.s /\ p + 1 \in 0..g.s /\ p < p + 1
        BY <1>1
    <2>2. g.cut[p] < g.cut[p + 1]
        BY <2>1 DEF CutAt
    <2>3. g.cut[p] \in Nat /\ g.cut[p + 1] \in Nat /\ g.cut[p + 1] <= MaxSdus * SduSize
        BY <1>4, <2>1
    <2>4. g.cut[p] + 1 \in Units /\ g.cut[p + 1] \in Units /\ g.cut[p + 1] # 0
        BY <1>3, <2>2, <2>3 DEF Units
    <2> QED BY <2>4 DEF Pdu, Pdus, NoPdu
<1> QED BY <1>3, <1>4, <1>5

\* A PDU of the window fills a gap; what comes in sequence is delivered.
LEMMA DoReceivePduKeeps ==
    ASSUME IInv, UNCHANGED ueSends, DoReceivePdu PROVE IInv'
<1>1. PICK g \in Positions : At(g)
    BY DEF IInv
<1>2. rx \in RxType /\ submitted \in 0..MaxSdus /\ dataPdus \in Seq(DataType)
    BY TypeParts, Constants DEF IInv
<1>3. /\ g.a \in Nat /\ g.s \in Nat /\ g.r \in Nat /\ g.ms \in Nat /\ g.h \in Nat
      /\ g.a <= g.r /\ g.r <= g.ms /\ g.ms <= g.h /\ g.h <= g.s /\ g.s <= g.a + WindowSize
      /\ WindowSize \in Nat \ {0} /\ SnModulus \in Nat \ {0} /\ SnModulus >= 2 * WindowSize
      /\ WindowSize < SnModulus
    BY <1>1, WindowsNumbers DEF At
<1>4. /\ rx.vrR = Pos(g.r) /\ rx.vrMs = Pos(g.ms) /\ rx.vrH = Pos(g.h) /\ rx.vrX = Pos(g.x)
      /\ rx.reorderingTimer => g.r < g.x /\ g.x <= g.h
      /\ Holds(rx.rxon, g.r + 1, g.h - 1, g.cut)
      /\ rx.reassembly = Delivered(g.cut[g.r], Pos(g.r))
    BY <1>1 DEF At, ReceiverAt
<1>x. g.x \in Nat
    BY PositionsType
<1>5. dataPdus # << >> /\ dataPdus' = Tail(dataPdus)
      /\ UNCHANGED <<submitted, tx, statusPdus, switches, losses, fatal>>
    BY DEF DoReceivePdu
<1> DEFINE m == Head(dataPdus)
           v == IF m.poll THEN StatusRequested(rx) ELSE rx
           q == g.n[1]
           k == Tail(g.n)
<1>6. m = dataPdus[1] /\ m \in DataType /\ dataPdus' \in Seq(DataType)
    BY ONLY <1>2, <1>5, TailOf
<1>7. g.n \in Seq(Nat) /\ g.n # << >> /\ Len(g.n) \in Nat /\ Len(g.n) >= 1 /\ k \in Seq(Nat)
    <2>1. g.n \in Seq(Nat) /\ Len(g.n) = Len(dataPdus)
        BY <1>1, PositionsType DEF At, FlightAt
    <2>2. Len(dataPdus) # 0
        BY <1>2, <1>5, EmptySeq
    <2>3. g.n # << >>
        BY <2>1, <2>2, EmptySeq
    <2>4. Len(g.n) \in Nat /\ Len(g.n) >= 1 /\ Tail(g.n) \in Seq(Nat)
        <3> DEFINE n == g.n
                   S == Nat
        <3>1. n \in Seq(S) /\ n # << >>
            BY <2>1, <2>3
        <3> HIDE DEF n, S
        <3>2. Len(n) \in Nat /\ Len(n) >= 1 /\ Tail(n) \in Seq(S)
            BY ONLY <3>1, TailOf
        <3> QED BY <3>2 DEF n, S
    <2> QED BY <2>1, <2>3, <2>4
<1>8. /\ q \in Nat /\ m.sn = Pos(q) /\ m.pdu = Pdu(g.cut, q) /\ q < g.s /\ g.h <= q + WindowSize
      /\ \A j \in 2..Len(g.n) : g.n[j] \in Nat /\ q < g.n[j] + WindowSize
                                /\ g.h <= g.n[j] + WindowSize
    <2>1. 1 \in 1..Len(g.n)
        BY <1>7
    <2>2. q \in Nat
        BY PositionsType, <2>1
    <2>3. dataPdus[1].sn = Pos(q) /\ dataPdus[1].pdu = Pdu(g.cut, q) /\ q < g.s /\ g.h <= q + WindowSize
        BY <1>1, <2>1 DEF At, FlightAt
    <2>4. ASSUME NEW j \in 2..Len(g.n)
          PROVE  g.n[j] \in Nat /\ q < g.n[j] + WindowSize /\ g.h <= g.n[j] + WindowSize
        <3>1. j \in 1..Len(g.n) /\ 1 < j
            BY <1>7
        <3>2. g.n[j] \in Nat
            BY PositionsType, <3>1
        <3> QED BY <1>1, <2>1, <3>1, <3>2 DEF At, FlightAt
    <2> QED BY <1>6, <2>2, <2>3, <2>4
<1>9. /\ v \in RxType /\ v.vrR = rx.vrR /\ v.vrMs = rx.vrMs /\ v.vrH = rx.vrH /\ v.vrX = rx.vrX
      /\ v.rxon = rx.rxon /\ v.reassembly = rx.reassembly
      /\ v.reorderingTimer = rx.reorderingTimer
    <2> HIDE DEF m
    <2>1. v = rx \/ v = StatusRequested(rx)
        OBVIOUS
    <2> HIDE DEF v
    <2> QED BY <1>2, <2>1 DEF StatusRequested, RxType
<1> DEFINE p == Placed(v, m)
           s == [p EXCEPT !.vrMs = FirstMissing(p, @)]
<1>10. rx' = IF IsInsideReceivingWindow(v, m.sn) THEN Reordered(Advanced(s, m.sn)) ELSE v
    BY DEF DoReceivePdu
<1> HIDE DEF m, v, q, k
<1>11. CASE q < g.r
    <2>1. Distance(v.vrR, m.sn) = q - g.r + SnModulus
        <3>1. q \in Int /\ g.r - SnModulus <= q
            BY <1>3, <1>8
        <3> QED BY <1>3, <1>4, <1>8, <1>9, <1>11, <3>1, FromVrR
    <2>2. ~IsInsideReceivingWindow(v, m.sn)
        <3>1. ~(q - g.r + SnModulus < WindowSize)
            BY <1>3, <1>8
        <3> QED BY <2>1, <3>1 DEF IsInsideReceivingWindow
    <2>3. rx' = v
        BY <1>10, <2>2
    <2>4. SameReceiver /\ SameSender
        BY <1>5, <1>9, <2>3 DEF SameReceiver, SameSender
    <2>5. submitted \in Nat /\ submitted' = submitted
        BY <1>2, <1>5
    <2>6. /\ WindowsAt(g)' /\ CutAt(g)' /\ SenderAt(g)' /\ ReceiverAt(g)' /\ KeptAt(g)' /\ StatusAt(g)'
        BY <1>1, <1>5, <2>4, <2>5, Stays DEF IInv
    <2> DEFINE e == [g EXCEPT !.n = k]
    <2>7. /\ e \in Positions /\ e.a = g.a /\ e.s = g.s /\ e.r = g.r /\ e.ms = g.ms /\ e.h = g.h
          /\ e.x = g.x /\ e.cut = g.cut /\ e.n = Tail(g.n)
        BY <1>7 DEF Positions, k
    <2> HIDE DEF e
    <2>8. FlightAt(e)'
        <3>1. \A j \in 2..Len(g.n) : g.h <= g.n[j] + WindowSize
            BY <1>8
        <3>2. FlightAt(g) /\ g.h \in Nat
            BY <1>1, <1>3 DEF At
        <3> QED BY ONLY <1>2, <1>5, <2>7, <3>1, <3>2, FlightTail, g \in Positions
    <2>9. /\ WindowsAt(e)' /\ CutAt(e)' /\ SenderAt(e)' /\ ReceiverAt(e)' /\ KeptAt(e)'
        BY <2>6, <2>7 DEF WindowsAt, CutAt, SenderAt, ReceiverAt, KeptAt, Received
    <2>11. StatusAt(e)'
        BY <2>6, <2>7, StatusAlike
    <2>10. TypeOK'
        BY <1>5, <1>6, <1>9, <2>3, TypeParts, TypePartsPrime DEF IInv
    <2> QED BY <1>5, <2>7, <2>8, <2>9, <2>10, <2>11 DEF IInv, At
<1>12. CASE g.r <= q
    <2>1. q < g.r + WindowSize /\ q \in g.r..(g.r + SnModulus - 1)
        BY <1>3, <1>8, <1>12
    <2>2. IsInsideReceivingWindow(v, m.sn)
        <3>1. Distance(v.vrR, m.sn) = q - g.r
            BY <1>3, <1>4, <1>8, <1>9, <2>1, FromVrR
        <3>2. q - g.r < WindowSize
            BY <1>3, <1>8, <2>1
        <3> QED BY <3>1, <3>2 DEF IsInsideReceivingWindow
    <2>3. rx' = Reordered(Advanced(s, Pos(q)))
        BY <1>8, <1>10, <2>2
    <2>4. PICK h : h = IF q < g.h THEN g.h ELSE q + 1
        OBVIOUS
    <2>5. /\ h \in Nat /\ g.h <= h /\ q < h /\ h <= g.s /\ h <= g.r + WindowSize
          /\ \A j \in 2..Len(g.n) : h <= g.n[j] + WindowSize
        <3>1. /\ h \in Nat /\ g.h <= h /\ q < h /\ h <= g.s /\ h <= g.r + WindowSize
            BY <1>3, <1>8, <2>4, SMTT(20)
        <3>2. ASSUME NEW j \in 2..Len(g.n) PROVE h <= g.n[j] + WindowSize
            <4>1. g.n[j] \in Nat /\ q < g.n[j] + WindowSize /\ g.h <= g.n[j] + WindowSize
                BY <1>8
            <4> QED BY <1>3, <1>8, <2>4, <4>1
        <3> QED BY <3>1, <3>2
    <2>n. h \in Nat /\ g.h <= h /\ q < h /\ h <= g.s /\ h <= g.r + WindowSize
        BY <2>5
    <2>6. /\ \A i \in 0..g.s : g.cut[i] \in Nat /\ g.cut[i] <= MaxSdus * SduSize
          /\ m.pdu \in Pdus /\ m.pdu # NoPdu
        <3>1. CutAt(g) /\ SenderAt(g)
            BY <1>1 DEF At
        <3>2. q \in 0..(g.s - 1)
            BY <1>3, <1>8
        <3> QED BY <1>2, <1>8, <3>1, <3>2, CutBounds
    <2>7. /\ p \in RxType /\ p.vrR = rx.vrR /\ p.vrX = rx.vrX /\ p.vrMs = rx.vrMs
          /\ p.reorderingTimer = rx.reorderingTimer /\ p.reassembly = rx.reassembly
          /\ p.vrH = Pos(h) /\ Rxon(p) = Rxon(rx) \cup {Pos(q)} /\ Holds(p.rxon, g.r, h - 1, g.cut)
        <3>1. v.vrR = Pos(g.r) /\ v.vrH = Pos(g.h) /\ Holds(v.rxon, g.r + 1, g.h - 1, g.cut)
            BY <1>4, <1>9
        <3>2. Rxon(v) = Rxon(rx)
            BY <1>9 DEF Rxon
        <3>3. g.h <= g.r + WindowSize /\ g.r <= g.h
            BY <1>3
        <3>4. /\ Placed(v, m) \in RxType
              /\ Placed(v, m).vrR = v.vrR /\ Placed(v, m).vrX = v.vrX
              /\ Placed(v, m).vrMs = v.vrMs /\ Placed(v, m).reorderingTimer = v.reorderingTimer
              /\ Placed(v, m).reassembly = v.reassembly /\ Placed(v, m).vrH = Pos(h)
              /\ Rxon(Placed(v, m)) = Rxon(v) \cup {Pos(q)}
              /\ Holds(Placed(v, m).rxon, g.r, h - 1, g.cut)
            <4>1. MayPlace(v, g.r, g.h, q, g.cut, m, h)
                BY <1>3, <1>8, <1>9, <1>12, <2>1, <2>4, <2>n, <2>6, <3>1, <3>3 DEF MayPlace
            <4> QED BY ONLY <4>1, PlacedIs
        <3> QED BY <1>9, <3>2, <3>4
    <2> HIDE DEF p
    <2>8. \E ms \in g.ms..h : FirstMissing(p, Pos(g.ms)) = Pos(ms) /\ Pos(ms) \notin Rxon(p)
        <3>1. g.ms <= h /\ h - g.ms < SnModulus /\ h < g.r + SnModulus /\ h \in Int /\ h <= h
            BY <1>3, <2>5
        <3>2. Pos(h) \in Sns
            BY ONLY <3>1, PosIsSn
        <3>3. p.rxon[Pos(h)] = NoPdu
            <4>1. Holds(p.rxon, g.r, h - 1, g.cut)
                BY ONLY <2>7
            <4>2. g.r \in Nat /\ h \in Nat
                BY ONLY <1>3, <2>5
            <4> QED BY ONLY <3>1, <3>2, <4>1, <4>2, NotYetReceived
        <3>4. Pos(h) \notin Rxon(p)
            BY <3>3 DEF Rxon
        <3> QED BY ONLY <1>3, <2>5, <3>1, <3>4, FirstMissingIs
    <2>9. PICK ms \in g.ms..h : FirstMissing(p, Pos(g.ms)) = Pos(ms) /\ Pos(ms) \notin Rxon(p)
        BY <2>8
    <2>10. ms \in Nat /\ g.r <= ms /\ ms <= h /\ Pos(ms) \in Sns
        <3>1. ms \in Nat /\ g.r <= ms /\ ms <= h /\ ms \in Int
            BY <1>3, <2>5
        <3> QED BY <3>1, PosIsSn
    <2>11. /\ s \in RxType /\ s.vrR = Pos(g.r) /\ s.vrMs = Pos(ms) /\ s.vrH = Pos(h)
           /\ s.vrX = Pos(g.x) /\ s.reorderingTimer = rx.reorderingTimer
           /\ s.reassembly = Delivered(g.cut[g.r], Pos(g.r)) /\ s.rxon = p.rxon
        <3>1. s = [p EXCEPT !.vrMs = Pos(ms)]
            BY <1>4, <2>7, <2>9
        <3> QED BY <1>4, <2>7, <2>10, <3>1 DEF RxType
    <2>12. Rxon(s) = Rxon(rx) \cup {Pos(q)}
        BY <2>7, <2>11 DEF Rxon
    <2> HIDE DEF s
    <2>13. Pos(g.r) \in Rxon(s) => q = g.r
        <3>1. Pos(g.r) \notin Rxon(rx)
            BY <1>1, WaitedFor DEF At
        <3>2. q \in Int /\ g.r \in Int /\ q - g.r < SnModulus /\ g.r - q < SnModulus
            BY <1>3, <1>8, <2>1
        <3>3. Pos(g.r) = Pos(q) => q = g.r
            BY ONLY <3>2, PosInjective
        <3> QED BY <2>12, <3>1, <3>3
    <2>14. \E t \in g.r..ms : AdvancedTo(s, Advanced(s, Pos(q)), g.r, t, h, g.cut)
        <3> DEFINE u == Advanced(s, Pos(q))
        <3>1. g.cut \in [Nat -> Nat]
            BY PositionsType
        <3>2. \A j \in g.r..(h - 1) : g.cut[j] < g.cut[j + 1]
            <4>1. ASSUME NEW j \in g.r..(h - 1) PROVE g.cut[j] < g.cut[j + 1]
                <5>1. j \in 0..g.s /\ j + 1 \in 0..g.s /\ j < j + 1
                    BY <1>3, <2>n
                <5> QED BY <1>1, <5>1 DEF At, CutAt
            <4> QED BY <4>1
        <3>3. \A j \in g.r..h : g.cut[j] <= MaxSdus * SduSize
            <4>1. \A j \in g.r..h : j \in 0..g.s
                BY <1>3, <2>5
            <4> QED BY <2>6, <4>1
        <3>4. Pos(q) \in Rxon(s) /\ Pos(ms) \notin Rxon(s)
            BY <2>7, <2>9, <2>12
        <3>5. u = Advanced(s, Pos(q)) /\ Holds(s.rxon, g.r, h - 1, g.cut)
            BY <2>7, <2>11
        <3> HIDE DEF u
        <3>6. MayAdvance(s, g.r, ms, h, q, g.cut)
            BY <1>3, <1>8, <1>12, <2>1, <2>n, <2>10, <2>11, <2>13, <3>1, <3>2, <3>3, <3>4, <3>5
                DEF MayAdvance
        <3>7. \E t \in g.r..ms : AdvancedTo(s, u, g.r, t, h, g.cut)
            BY ONLY <3>5, <3>6, AdvancedIs
        <3> QED BY <3>7 DEF u
    <2> DEFINE u == Advanced(s, Pos(q))
    <2>15. PICK t \in g.r..ms :
              /\ u \in RxType /\ u.vrR = Pos(t)
              /\ u.vrMs = s.vrMs /\ u.vrH = s.vrH /\ u.vrX = s.vrX
              /\ u.reorderingTimer = s.reorderingTimer
              /\ u.reassembly = Delivered(g.cut[t], Pos(t))
              /\ Holds(u.rxon, t + 1, h - 1, g.cut)
              /\ \A i \in Int : i < g.r + SnModulus /\ Pos(i) \in Rxon(s) => i < t \/ Pos(i) \in Rxon(u)
              /\ Rxon(u) \subseteq Rxon(s)
        BY <2>14 DEF AdvancedTo
    <2> HIDE DEF u
    <2>16. t \in Nat /\ g.r <= t /\ t <= ms /\ t <= h /\ h <= t + WindowSize
        BY <1>3, <2>5, <2>10
    <2>17. /\ rx' \in RxType /\ rx'.vrR = Pos(t) /\ rx'.vrMs = Pos(ms) /\ rx'.vrH = Pos(h)
           /\ rx'.reassembly = Delivered(g.cut[t], Pos(t)) /\ rx'.rxon = u.rxon
           /\ \E y \in {g.x, h} : rx'.vrX = Pos(y) /\ (rx'.reorderingTimer => t < y /\ y <= h)
        <3>1. u.reorderingTimer => t - WindowSize < g.x /\ g.x <= h
            <4>1. u.reorderingTimer => g.r < g.x /\ g.x <= g.h
                BY <1>4, <2>11, <2>15
            <4>2. g.r < g.x /\ g.x <= g.h => t - WindowSize < g.x /\ g.x <= h
                BY <1>3, <1>x, <2>5, <2>16, SMTT(20)
            <4> QED BY <4>1, <4>2
        <3>2. u.vrR = Pos(t) /\ u.vrH = Pos(h) /\ u.vrX = Pos(g.x) /\ u \in RxType
            BY <2>11, <2>15
        <3> DEFINE w == Reordered(u)
        <3>3. w = Reordered(u)
            OBVIOUS
        <3> HIDE DEF w
        <3>4. /\ w \in RxType /\ w.vrR = u.vrR /\ w.vrMs = u.vrMs /\ w.vrH = u.vrH
              /\ w.reassembly = u.reassembly /\ w.rxon = u.rxon
              /\ \E y \in {g.x, h} : w.vrX = Pos(y) /\ (w.reorderingTimer => t < y /\ y <= h)
            BY ONLY <1>x, <2>5, <2>16, <3>1, <3>2, <3>3, ReorderedIs
        <3>5. rx' = w
            BY <2>3, <3>3 DEF u
        <3> QED BY <2>11, <2>15, <3>4, <3>5
    <2>18. PICK y \in {g.x, h} : rx'.vrX = Pos(y) /\ (rx'.reorderingTimer => t < y /\ y <= h)
        BY <2>17
    <2> DEFINE e == [g EXCEPT !.r = t, !.ms = ms, !.h = h, !.x = y, !.n = k]
    <2>19. /\ e \in Positions /\ e.a = g.a /\ e.s = g.s /\ e.r = t /\ e.ms = ms /\ e.h = h
           /\ e.x = y /\ e.cut = g.cut /\ e.n = Tail(g.n)
        <3>1. y \in Nat /\ k \in Seq(Nat)
            BY <1>7, <1>x, <2>5
        <3>2. e \in Positions
            BY <2>5, <2>10, <2>16, <3>1 DEF Positions
        <3>3. /\ e.a = g.a /\ e.s = g.s /\ e.r = t /\ e.ms = ms /\ e.h = h
              /\ e.x = y /\ e.cut = g.cut /\ e.n = k
            BY DEF Positions
        <3> QED BY <3>2, <3>3 DEF k
    <2> HIDE DEF e
    <2>20. WindowsAt(e)'
        <3>1. g.a <= t
            BY <1>3, <2>16
        <3> QED BY <1>3, <2>5, <2>10, <2>16, <2>19, <3>1 DEF WindowsAt
    <2>21. FlightAt(e)'
        <3>1. FlightAt(g)
            BY <1>1 DEF At
        <3> QED BY ONLY <1>2, <1>5, <2>5, <2>19, <3>1, FlightTail, g \in Positions
    <2>22. ReceiverAt(e)'
        <3>1. Holds(rx.rxon, t + 1, h - 1, g.cut)'
            BY <2>15, <2>17 DEF Holds
        <3>2. Pos(ms) \notin Rxon(rx)'
            <4>1. Rxon(rx)' = Rxon(u)
                BY <2>17 DEF Rxon
            <4> QED BY <2>7, <2>9, <2>12, <2>15, <4>1
        <3> QED BY <2>17, <2>18, <2>19, <3>1, <3>2 DEF ReceiverAt
    <2>23. CutAt(e)' /\ SenderAt(e)'
        BY <1>1, <1>5, <2>19 DEF At, CutAt, SenderAt, Holds, Txed, Retx
    <2>24. ASSUME NEW i \in g.a..(g.s - 1), Received(g, i) PROVE Received(e, i)'
        <3>1. i \in Int /\ i < g.r + SnModulus
            BY <1>3
        <3>2. CASE i < g.r
            BY <1>3, <2>16, <2>19, <3>1, <3>2 DEF Received
        <3>3. CASE Pos(i) \in Rxon(rx)
            <4>1. i < t \/ Pos(i) \in Rxon(u)
                BY <2>12, <2>15, <3>1, <3>3
            <4>2. Rxon(rx)' = Rxon(u)
                BY <2>17 DEF Rxon
            <4> QED BY <2>19, <4>1, <4>2 DEF Received
        <3> QED BY <2>24, <3>2, <3>3 DEF Received
    <2>25. StatusAt(e)'
        <3>1. Txed' = Txed /\ Retx' = Retx
            BY <1>5 DEF Txed, Retx
        <3>2. StatusAt(g) /\ UNCHANGED statusPdus /\ e.a = g.a /\ g.h <= e.h
            BY <1>1, <1>5, <2>5, <2>19 DEF At
        <3>3. \A i \in g.a..(g.h - 1) : i \in g.a..(g.s - 1)
            BY <1>3
        <3> QED BY <2>19, <2>24, <3>1, <3>2, <3>3, StatusStays
    <2>26. KeptAt(e)'
        <3>1. Txed' = Txed /\ Retx' = Retx
            BY <1>5 DEF Txed, Retx
        <3> QED BY <1>1, <2>19, <2>24, <3>1 DEF At, KeptAt
    <2>27. TypeOK'
        BY <1>5, <1>6, <2>17, TypeParts, TypePartsPrime DEF IInv
    <2> QED BY <1>5, <2>19, <2>20, <2>21, <2>22, <2>23, <2>25, <2>26, <2>27 DEF IInv, At
<1> QED BY <1>3, <1>8, <1>11, <1>12

(***************************************************************************)
(* The invariant is inductive                                              *)
(***************************************************************************)
\* Both sides begin at the position 0 with nothing sent.
LEMMA InitIInv == Init => IInv
<1> SUFFICES ASSUME Init PROVE IInv
    OBVIOUS
<1> DEFINE g == [a |-> 0, s |-> 0, r |-> 0, ms |-> 0, h |-> 0, x |-> 0,
                 cut |-> [i \in Nat |-> 0], n |-> << >>]
<1>1. g \in Positions
    BY DEF Positions
<1>2. /\ g.a = 0 /\ g.s = 0 /\ g.r = 0 /\ g.ms = 0 /\ g.h = 0 /\ g.x = 0
      /\ g.cut[0] = 0 /\ g.n = << >>
    OBVIOUS
<1> HIDE DEF g
<1>3. Pos(0) = 0 /\ 0 \in Sns /\ 0 \div SduSize = 0 /\ 0 * SduSize = 0
    <2>1. /\ SnModulus \in Nat \ {0} /\ SduSize \in Nat \ {0} /\ 0 \in Int
          /\ 0 \in 0..(SnModulus - 1) /\ 0 \in 0..(SduSize - 1)
        BY Constants
    <2>2. 0 = SnModulus * 0 + 0 /\ 0 = SduSize * 0 + 0 /\ 0 * SduSize = 0
        BY <2>1
    <2>3. 0 % SnModulus = 0 /\ 0 \div SduSize = 0
        BY ONLY <2>1, <2>2, ModUnique
    <2> QED BY <2>1, <2>2, <2>3 DEF Pos, Sns
<1>4. Delivered(0, 0) = [keepS0 |-> << >>, expected |-> 0, sdus |-> << >>, error |-> FALSE]
    <2>1. Run(0 * SduSize + 1, 0) = << >>
        <3>1. 0 * SduSize + 1 = 1 /\ 0 = 1 - 1 /\ 1 \in Int
            BY <1>3
        <3> QED BY ONLY <3>1, RunEmpty
    <2>2. [i \in 1..0 |-> Sdu(i)] = << >>
        OBVIOUS
    <2> QED BY <1>3, <2>1, <2>2 DEF Delivered
<1>5. Txed = {} /\ Retx = {} /\ Rxon(rx) = {}
    BY DEF Init, Txed, Retx, Rxon
<1>6. WindowsAt(g) /\ CutAt(g)
    <2>1. 0 <= 0 + WindowSize
        BY Constants
    <2> QED BY <1>2, <2>1 DEF WindowsAt, CutAt
<1>7. SenderAt(g)
    <2>1. /\ tx.vtA = 0 /\ tx.vtS = 0 /\ tx.taken = 0 /\ submitted * SduSize = 0
          /\ \A sn \in Sns : tx.txed[sn] = NoPdu /\ tx.retx[sn] = NoPdu
        BY <1>3 DEF Init
    <2> QED BY <1>2, <1>3, <1>5, <2>1 DEF SenderAt, Holds
<1>8. ReceiverAt(g)
    <2>1. /\ rx.vrR = 0 /\ rx.vrMs = 0 /\ rx.vrH = 0 /\ rx.vrX = 0 /\ rx.reorderingTimer = FALSE
          /\ rx.reassembly = [keepS0 |-> << >>, expected |-> 0, sdus |-> << >>, error |-> FALSE]
          /\ \A sn \in Sns : rx.rxon[sn] = NoPdu
        BY DEF Init
    <2> QED BY <1>2, <1>3, <1>4, <1>5, <2>1 DEF ReceiverAt, Holds
<1>9. FlightAt(g)
    BY <1>2 DEF FlightAt, Init
<1>10. StatusAt(g) /\ KeptAt(g)
    BY <1>2 DEF StatusAt, KeptAt, Init
<1>11. TypeOK
    <2>1. /\ 0 \in 0..MaxSdus /\ 0 \in 0..MaxSwitches /\ 0 \in 0..MaxLosses
        BY Constants
    <2>2. [sn \in Sns |-> NoPdu] \in [Sns -> Pdus]
        BY DEF Pdus
    <2>3. tx \in TxType
        BY <1>3, <2>2 DEF Init, TxType
    <2>4. rx \in RxType
        BY <1>3, <2>2 DEF Init, RxType
    <2>5. dataPdus \in Seq(DataType) /\ statusPdus \in Seq([ack : Sns, nacks : SUBSET Sns])
        BY DEF Init
    <2> QED BY <2>1, <2>3, <2>4, <2>5, TypeParts DEF Init
<1>12. fatal = "none"
    BY DEF Init
<1> QED BY <1>1, <1>6, <1>7, <1>8, <1>9, <1>10, <1>11, <1>12 DEF IInv, At

\* Every step keeps the invariant.
LEMMA NextIInv == IInv /\ StatusesInOrder /\ [Next]_vars => IInv'
<1> SUFFICES ASSUME IInv, StatusesInOrder, [Next]_vars PROVE IInv'
    OBVIOUS
<1>1. CASE DoTransmitPdcpPdu /\ UNCHANGED ueSends
    BY <1>1, TransmitPdcpPduKeeps
<1>2. CASE ReceiveStatusPdu /\ UNCHANGED ueSends
    BY <1>2, ReceiveStatusPduKeeps
<1>3. CASE (\E n \in 1..MaxOpportunity : DoNotifyTxOpportunity(n)) /\ UNCHANGED ueSends
    BY <1>3, DoNotifyTxOpportunityKeeps
<1>4. CASE ExpirePollRetransmitTimer /\ UNCHANGED ueSends
    BY <1>4, ExpirePollRetransmitTimerKeeps
<1>5. CASE ExpireRbsTimer /\ UNCHANGED ueSends
    BY <1>5, ExpireRbsTimerKeeps
<1>6. CASE DoReceivePdu /\ UNCHANGED ueSends
    BY <1>6, DoReceivePduKeeps
<1>7. CASE (\E c \in 0..WindowSize : SendStatusPdu(c)) /\ UNCHANGED ueSends
    BY <1>7, SendStatusPduKeeps
<1>8. CASE ExpireReorderingTimer /\ UNCHANGED ueSends
    BY <1>8, ExpireReorderingTimerKeeps
<1>9. CASE ExpireStatusProhibitTimer /\ UNCHANGED ueSends
    BY <1>9, ExpireStatusProhibitTimerKeeps
<1>10. CASE Lose /\ UNCHANGED ueSends
    BY <1>10, LoseKeeps
<1>11. CASE SwitchBwp /\ UNCHANGED ueSends
    BY <1>11, SwitchBwpKeeps
<1>12. CASE UNCHANGED vars
    <2>1. TypeOK'
        BY <1>12, TypeParts, TypePartsPrime DEF IInv, vars
    <2>2. PICK g \in Positions : At(g)
        BY DEF IInv
    <2>3. SameSender /\ SameReceiver /\ submitted' = submitted /\ submitted \in Nat
        BY <1>12, TypeParts, Constants DEF IInv, vars, SameSender, SameReceiver
    <2>4. At(g)'
        BY <1>12, <2>2, <2>3, Stays DEF IInv, vars, At
    <2> QED BY <1>12, <2>1, <2>4 DEF IInv, vars
<1> QED BY <1>1, <1>2, <1>3, <1>4, <1>5, <1>6, <1>7, <1>8, <1>9, <1>10, <1>11, <1>12 DEF Next

\* The positions exist in every reachable state: sequence numbers that wrap around
\* are never taken for others, however data PDUs are lost, repeated or overtaken and
\* however many STATUS PDUs are on their way, as long as these keep their order.
THEOREM RlcAmInvariant == Spec /\ StatusesInOrder => []IInv
<1>1. StatusesInOrder /\ [Next]_vars => StatusesInOrder'
    BY DEF StatusesInOrder, Next, vars
<1> QED BY <1>1, InitIInv, NextIInv, PTL DEF Spec

\* Every state has its type; in particular no unit outside the submitted SDUs is ever
\* reassembled (Units), and every SN stays in the modulus.
THEOREM RlcAmTypeCorrect == Spec /\ StatusesInOrder => []TypeOK
<1>1. IInv => TypeOK
    BY DEF IInv
<1> QED BY <1>1, RlcAmInvariant, PTL

\* No assertion of the code on its buffers fails: DoReceivePdu finds a NACKed PDU in
\* one of them and an acknowledged one in one at most, and DoNotifyTxOpportunity a PDU
\* to send when the retransmission buffer is not empty.
THEOREM RlcAmNoAssertion == Spec /\ StatusesInOrder => []NoAssertion
<1>1. IInv => NoAssertion
    BY DEF IInv, NoAssertion
<1> QED BY <1>1, RlcAmInvariant, PTL

\* VR(R) stays between VT(A) and VT(S), and the sender a window from VT(A) at most,
\* although each side moves on what it has heard of the other.
THEOREM RlcAmWindowsAgree == Spec /\ StatusesInOrder => []WindowsAgree
<1>1. IInv => WindowsAgree
    <2> SUFFICES ASSUME IInv PROVE WindowsAgree
        OBVIOUS
    <2>1. PICK g \in Positions : At(g)
        BY DEF IInv
    <2>2. /\ g.a \in Nat /\ g.r \in Nat /\ g.s \in Nat /\ g.h \in Nat /\ g.ms \in Nat
          /\ g.a <= g.r /\ g.r <= g.ms /\ g.ms <= g.h /\ g.h <= g.s
        BY <2>1, WindowsNumbers DEF At
    <2>3. /\ g.s - g.a \in 0..WindowSize /\ Outstanding = g.s - g.a
          /\ \A p \in g.a..g.s : Distance(tx.vtA, Pos(p)) = p - g.a
        BY <2>1, SentAre DEF At
    <2>4. g.r \in g.a..g.s /\ rx.vrR = Pos(g.r)
        BY <2>1, <2>2 DEF At, ReceiverAt
    <2>5. Distance(tx.vtA, rx.vrR) = g.r - g.a /\ g.r - g.a <= g.s - g.a
        BY <2>2, <2>3, <2>4
    <2>6. g.s - g.a <= WindowSize
        BY <2>3
    <2> QED BY <2>3, <2>5, <2>6 DEF WindowsAgree
<1> QED BY <1>1, RlcAmInvariant, PTL

\* The sender frees a PDU only when it has been received, whatever STATUS PDUs were
\* cut short for want of room, lost, or came after the window had moved.
THEOREM RlcAmSenderKeepsUnreceived == Spec /\ StatusesInOrder => []SenderKeepsUnreceived
<1>1. IInv => SenderKeepsUnreceived
    <2> SUFFICES ASSUME IInv, NEW sn \in Sns, sn \notin Rxon(rx),
                        Distance(rx.vrR, sn) < Distance(rx.vrR, tx.vtS)
                 PROVE  sn \in Txed \cup Retx
        BY DEF SenderKeepsUnreceived
    <2>1. PICK g \in Positions : At(g)
        BY DEF IInv
    <2>2. /\ g.a \in Nat /\ g.r \in Nat /\ g.s \in Nat /\ g.a <= g.r /\ g.r <= g.s
          /\ g.s < g.r + SnModulus /\ SnModulus \in Nat
        <3>1. /\ g.a \in Nat /\ g.s \in Nat /\ g.r \in Nat /\ g.ms \in Nat /\ g.h \in Nat
              /\ g.a <= g.r /\ g.r <= g.ms /\ g.ms <= g.h /\ g.h <= g.s /\ g.s <= g.a + WindowSize
              /\ WindowSize \in Nat \ {0} /\ SnModulus \in Nat \ {0} /\ WindowSize < SnModulus
            BY <2>1, WindowsNumbers DEF At
        <3> QED BY ONLY <3>1
    <2>3. rx.vrR = Pos(g.r) /\ tx.vtS = Pos(g.s)
        BY <2>1 DEF At, ReceiverAt, SenderAt
    <2>4. /\ \A p \in g.r..(g.r + SnModulus - 1) : Distance(rx.vrR, Pos(p)) = p - g.r
          /\ \E p \in g.r..(g.r + SnModulus - 1) : sn = Pos(p)
        BY <2>2, <2>3, FromVrR
    <2>5. PICK p \in g.r..(g.r + SnModulus - 1) : sn = Pos(p)
        BY <2>4
    <2>6. g.s \in g.r..(g.r + SnModulus - 1)
        BY <2>2
    <2>7. p - g.r < g.s - g.r
        BY <2>3, <2>4, <2>5, <2>6
    <2>8. p \in g.a..(g.s - 1) /\ ~(p < g.r)
        BY <2>2, <2>7
    <2>9. ~Received(g, p)
        BY <2>5, <2>8 DEF Received
    <2> QED BY <2>1, <2>5, <2>8, <2>9 DEF At, KeptAt
<1> QED BY <1>1, RlcAmInvariant, PTL

\* PDCP gets what PDCP submitted, whole SDUs in order, each once, and reassembly sees
\* neither a loss nor framing that does not fit.
THEOREM RlcAmDeliveredInOrder == Spec /\ StatusesInOrder => []DeliveredInOrder
<1>1. IInv => DeliveredInOrder
    <2> SUFFICES ASSUME IInv PROVE DeliveredInOrder
        OBVIOUS
    <2>1. PICK g \in Positions : At(g)
        BY DEF IInv
    <2>2. submitted \in 0..MaxSdus
        BY TypeParts DEF IInv
    <2> DEFINE c == g.cut[g.r]
               q == c \div SduSize
    <2>3. rx.reassembly = Delivered(c, Pos(g.r))
        BY <2>1 DEF At, ReceiverAt
    <2>4. c \in Nat /\ c <= submitted * SduSize /\ submitted * SduSize \in Int
        <3>1. g.r \in 0..g.s
            <4>1. /\ g.a \in Nat /\ g.r \in Nat /\ g.s \in Nat /\ g.h \in Nat /\ g.ms \in Nat
                  /\ g.a <= g.r /\ g.r <= g.ms /\ g.ms <= g.h /\ g.h <= g.s
                BY <2>1, WindowsNumbers DEF At
            <4> QED BY <4>1
        <3>2. CutAt(g) /\ SenderAt(g)
            BY <2>1 DEF At
        <3> QED BY <2>2, <3>1, <3>2, CutBounds
    <2> HIDE DEF c
    <2>5. q \in Nat /\ q <= submitted
        <3> DEFINE S == SduSize
                   all == submitted * SduSize
        <3>1. /\ S \in Nat \ {0} /\ q \in Int /\ c = S * q + (c % S) /\ c % S \in 0..(S - 1)
            BY <2>4, Constants, DivMod
        <3>2. q * S = S * q /\ q * S \in Int /\ submitted \in Int /\ all \in Int
            BY <2>2, <2>4, <3>1
        <3> HIDE DEF q
        <3>3. q < 0 => q * S + S <= 0 * S
            BY <3>1, Multiples
        <3>4. submitted < q => all + S <= q * S
            BY <3>1, <3>2, Multiples
        <3>5. 0 * S = 0
            BY <3>1
        <3>6. c <= all
            BY <2>4
        <3> HIDE DEF S, all
        <3> QED BY <2>4, <3>1, <3>2, <3>3, <3>4, <3>5, <3>6
    <2> HIDE DEF q
    <2>6. rx.reassembly.error = FALSE /\ rx.reassembly.sdus = [i \in 1..q |-> Sdu(i)]
        BY <2>3 DEF Delivered, q
    <2>7. Len(rx.reassembly.sdus) = q /\ DOMAIN rx.reassembly.sdus = 1..q
        BY <2>5, <2>6
    <2> QED BY <2>5, <2>6, <2>7 DEF DeliveredInOrder
<1> QED BY <1>1, RlcAmInvariant, PTL
=============================================================================
