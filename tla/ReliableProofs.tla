--------------------------- MODULE ReliableProofs ---------------------------
(***************************************************************************)
(* Facts about the packet id arithmetic of reliable.rs, for every size of  *)
(* the id space, of the acknowledgement window and of the in-flight window *)
(* that ReliableAssumption allows.                                         *)
(***************************************************************************)
EXTENDS Reliable, TLAPS

-----------------------------------------------------------------------------
\* The division theorem, as far as it is needed.
LEMMA DivMod ==
    ASSUME NEW M \in Nat, M > 0, NEW a \in Int
    PROVE  /\ a % M \in 0 .. M - 1
           /\ a \div M \in Int
           /\ a = M * (a \div M) + (a % M)
  OBVIOUS

\* Quotient and remainder are unique.
LEMMA DivModUnique ==
    ASSUME NEW M \in Nat, M > 0, NEW q1 \in Int, NEW q2 \in Int,
           NEW r1 \in 0 .. M - 1, NEW r2 \in 0 .. M - 1,
           M * q1 + r1 = M * q2 + r2
    PROVE  q1 = q2 /\ r1 = r2
<1>1. ASSUME q1 >= q2 + 1 PROVE FALSE
  <2>1. M * q1 >= M * (q2 + 1)
    BY <1>1
  <2>2. M * (q2 + 1) = M * q2 + M
    OBVIOUS
  <2> QED
    BY <2>1, <2>2
<1>2. ASSUME q2 >= q1 + 1 PROVE FALSE
  <2>1. M * q2 >= M * (q1 + 1)
    BY <1>2
  <2>2. M * (q1 + 1) = M * q1 + M
    OBVIOUS
  <2> QED
    BY <2>1, <2>2
<1> QED
  BY <1>1, <1>2

\* How a remainder is recognised.
LEMMA ModIs ==
    ASSUME NEW M \in Nat, M > 0, NEW a \in Int, NEW q \in Int,
           NEW r \in 0 .. M - 1, a = M * q + r
    PROVE  a % M = r
  BY DivMod, DivModUnique

\* The size of the id space is positive.
LEMMA IdSpace == MAX_PACKET_ID \in Nat /\ MAX_PACKET_ID > 0
  BY ReliableAssumption

\* Wire ids are packet ids.
LEMMA WireIdType == \A k \in Int : WireId(k) \in PacketId
  BY IdSpace, DivMod DEF WireId, PacketId

\* Counting on from a wire id.
LEMMA WireIdAdd ==
    ASSUME NEW k \in Int, NEW j \in Int
    PROVE  (WireId(k) + j) % MAX_PACKET_ID = WireId(k + j)
<1> DEFINE M == MAX_PACKET_ID
           q == k \div M
           p == (k + j) \div M
           r == (k + j) % M
<1>1. M \in Nat /\ M > 0
  BY IdSpace
<1>2. q \in Int /\ p \in Int /\ r \in 0 .. M - 1 /\ k % M \in Int
  BY <1>1, DivMod
<1>3. k = M * q + (k % M) /\ k + j = M * p + r
  BY <1>1, DivMod
<1>4. (k % M) + j = M * (p - q) + r
  <2>1. M * (p - q) = M * p - M * q
    BY <1>1, <1>2
  <2> HIDE DEF M, q, p, r
  <2> QED
    BY <1>1, <1>2, <1>3, <2>1
<1>5. ((k % M) + j) % M = r
  <2> DEFINE x == (k % M) + j
             d == p - q
  <2>1. x \in Int /\ d \in Int
    BY <1>2
  <2>2. x = M * d + r
    BY <1>4
  <2>3. x % M = r
    <3> HIDE DEF M, r, x, d
    <3> QED
      BY <1>1, <1>2, <2>1, <2>2, ModIs
  <2> QED
    BY <2>3
<1> QED
  BY <1>5 DEF WireId

\* next_packet_id steps from one wire id to the next.
LEMMA NextWireId ==
    ASSUME NEW k \in Int
    PROVE  next_packet_id(WireId(k)) = WireId(k + 1)
  BY WireIdAdd DEF next_packet_id

\* The distance between two wire ids whose numbers are close.
LEMMA WireIdDiff ==
    ASSUME NEW a \in Int, NEW f \in Int,
           a - f < MAX_PACKET_ID, f - a < MAX_PACKET_ID
    PROVE  (WireId(a) - WireId(f) + MAX_PACKET_ID) % MAX_PACKET_ID
             = IF a >= f THEN a - f ELSE MAX_PACKET_ID + a - f
<1> DEFINE M == MAX_PACKET_ID
           q == a \div M
           p == f \div M
           x == (a % M) - (f % M) + M
<1>1. M \in Nat /\ M > 0
  BY IdSpace
<1>2. q \in Int /\ p \in Int /\ a % M \in Int /\ f % M \in Int
  BY <1>1, DivMod
<1>3. a = M * q + (a % M) /\ f = M * p + (f % M)
  BY <1>1, DivMod
<1>4. M * (p - q) = M * p - M * q /\ M * (p - q + 1) = M * p - M * q + M
  BY <1>1, <1>2
<1>5. x = M * (p - q) + (M + a - f) /\ x = M * (p - q + 1) + (a - f)
  <2> HIDE DEF M, q, p
  <2> QED
    BY <1>1, <1>2, <1>3, <1>4
<1>6. x \in Int
  BY <1>1, <1>2
<1>7. CASE a >= f
  <2>1. a - f \in 0 .. M - 1
    BY <1>1, <1>7
  <2>2. x % M = a - f
    <3> HIDE DEF M, q, p, x
    <3> QED
      BY <1>1, <1>2, <1>5, <1>6, <2>1, ModIs
  <2> QED
    BY <1>7, <2>2 DEF WireId
<1>8. CASE ~ (a >= f)
  <2>1. M + a - f \in 0 .. M - 1
    BY <1>1, <1>8
  <2>2. x % M = M + a - f
    <3> DEFINE d == p - q
               r == M + a - f
    <3>1. d \in Int /\ x = M * d + r /\ r \in 0 .. M - 1
      BY <1>2, <1>5, <2>1
    <3>2. x % M = r
      <4> HIDE DEF M, x, d, r
      <4> QED
        BY <1>1, <1>6, <3>1, ModIs
    <3> QED
      BY <3>2
  <2> QED
    BY <1>8, <2>2 DEF WireId
<1> QED
  BY <1>7, <1>8

\* Close numbers with the same wire id are equal.
LEMMA WireIdInjective ==
    ASSUME NEW a \in Int, NEW b \in Int, WireId(a) = WireId(b),
           a - b < MAX_PACKET_ID, b - a < MAX_PACKET_ID
    PROVE  a = b
<1> DEFINE M == MAX_PACKET_ID
<1>1. M \in Nat /\ M > 0 /\ WireId(b) \in Int
  BY IdSpace, WireIdType DEF PacketId
<1>2. (WireId(a) - WireId(b) + M) % M = 0
  <2>1. WireId(a) - WireId(b) + M = M * 1 + 0
    BY <1>1
  <2>2. 0 \in 0 .. M - 1
    BY <1>1
  <2> HIDE DEF M
  <2> QED
    BY <1>1, <2>1, <2>2, ModIs
<1>3. 0 = IF a >= b THEN a - b ELSE M + a - b
  BY <1>2, WireIdDiff
<1> QED
  BY <1>1, <1>3

(***************************************************************************)
(* What is_ack_covering means: for packets close enough to the ack, its    *)
(* answer on wire ids is the order of the packet numbers, wrapped or not.  *)
(***************************************************************************)
THEOREM CoveringIsOrder ==
    ASSUME NEW a \in Int, NEW f \in Int,
           a - f < ACK_WINDOW, f - a <= MAX_PACKET_ID - ACK_WINDOW
    PROVE  is_ack_covering(WireId(a), WireId(f)) <=> a >= f
<1>1. /\ MAX_PACKET_ID \in Nat /\ ACK_WINDOW \in Nat
      /\ 1 <= ACK_WINDOW /\ ACK_WINDOW < MAX_PACKET_ID
  BY ReliableAssumption
<1>2. a - f < MAX_PACKET_ID /\ f - a < MAX_PACKET_ID
  BY <1>1
<1>3. (WireId(a) - WireId(f) + MAX_PACKET_ID) % MAX_PACKET_ID
        = IF a >= f THEN a - f ELSE MAX_PACKET_ID + a - f
  BY <1>2, WireIdDiff
<1>4. WireId(a) = WireId(f) => a = f
  BY <1>2, WireIdInjective
<1> QED
  BY <1>1, <1>3, <1>4 DEF is_ack_covering

(***************************************************************************)
(* What on_ack_id does to a window of consecutive packets base + 1, ...:   *)
(* the ack of packet number a pops those up to a and no other, although    *)
(* the code only compares wire ids.                                        *)
(***************************************************************************)
THEOREM AckPopsUpTo ==
    ASSUME NEW E, NEW window \in Seq(E), NEW base \in Nat, NEW a \in Nat,
           \A i \in 1 .. Len(window) : window[i].packet_id = WireId(base + i),
           Len(window) <= ACK_WINDOW,
           a <= base + Len(window),
           base + Len(window) - a <= MAX_PACKET_ID - ACK_WINDOW
    PROVE  CoveredPrefix(window, WireId(a)) = IF a <= base THEN 0 ELSE a - base
<1> DEFINE n == Len(window)
           k0 == IF a <= base THEN 0 ELSE a - base
           Cov(i) == is_ack_covering(WireId(a), window[i].packet_id)
           P(k) == /\ \A i \in 1 .. k : Cov(i)
                   /\ k < n => ~ Cov(k + 1)
<1>1. /\ MAX_PACKET_ID \in Nat /\ ACK_WINDOW \in Nat
      /\ ACK_WINDOW < MAX_PACKET_ID /\ n \in Nat
  BY ReliableAssumption
<1>2. \A i \in 1 .. n : Cov(i) <=> a >= base + i
  <2> SUFFICES ASSUME NEW i \in 1 .. n PROVE Cov(i) <=> a >= base + i
    OBVIOUS
  <2>1. /\ base + i \in Int
        /\ a - (base + i) < ACK_WINDOW
        /\ (base + i) - a <= MAX_PACKET_ID - ACK_WINDOW
    BY <1>1
  <2>2. is_ack_covering(WireId(a), WireId(base + i)) <=> a >= base + i
    BY <2>1, CoveringIsOrder
  <2> QED
    BY <2>2
<1>3. k0 \in 0 .. n
  BY <1>1
<1>4. P(k0)
  <2> HIDE DEF Cov
  <2> QED
    BY <1>1, <1>2, <1>3
<1>5. ASSUME NEW k \in 0 .. n, P(k) PROVE k = k0
  <2> HIDE DEF Cov
  <2>1. CASE k < k0
    BY <1>1, <1>3, <1>4, <1>5, <2>1
  <2>2. CASE k > k0
    BY <1>1, <1>3, <1>4, <1>5, <2>2
  <2> QED
    BY <1>1, <1>3, <2>1, <2>2
<1>6. CoveredPrefix(window, WireId(a)) = CHOOSE k \in 0 .. n : P(k)
  BY DEF CoveredPrefix
<1> HIDE DEF P, k0, n
<1>7. (CHOOSE k \in 0 .. n : P(k)) = k0
  BY <1>3, <1>4, <1>5
<1> QED
  BY <1>6, <1>7 DEF k0
=============================================================================
