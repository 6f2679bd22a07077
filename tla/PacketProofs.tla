---------------------------- MODULE PacketProofs ----------------------------
(***************************************************************************)
(* Proofs about what the daemon does with packets: about Filter, for any   *)
(* file of any ranges and any width of an octet, and about Capture, for    *)
(* any number of devices, any subnets and any frames.                      *)
(***************************************************************************)
EXTENDS Filter, Capture, FiniteSetTheorems, WellFoundedInduction, TLAPS

(***************************************************************************)
(* Filter: first the arithmetic of ranges.                                 *)
(***************************************************************************)
\* Induction, with a set for the predicate.
LEMMA AllNat ==
  ASSUME NEW S, 0 \in S, \A n \in Nat : n \in S => n + 1 \in S
  PROVE  \A n \in Nat : n \in S
<1> DEFINE R == OpToRel(<, Nat)
           T == {n \in Nat : n \notin S}
<1> SUFFICES ASSUME T # {} PROVE FALSE
  OBVIOUS
<1>1. IsWellFoundedOn(R, Nat)
  BY NatLessThanWellFounded
<1>2. \A p, q \in Nat : q < p => <<q, p>> \in R
  BY DEF OpToRel
<1>3. T \subseteq Nat
  OBVIOUS
<1> HIDE DEF R, T
<1>4. PICK x \in T : \A y \in T : ~(<<y, x>> \in R)
  BY <1>1, <1>3, WFMin
<1>5. x \in Nat /\ x \notin S /\ x # 0
  BY <1>4 DEF T
<1>6. x - 1 \in Nat /\ x - 1 < x /\ (x - 1) + 1 = x
  BY <1>5
<1>7. x - 1 \notin T
  BY <1>2, <1>4, <1>5, <1>6
<1>8. x - 1 \in S
  BY <1>6, <1>7 DEF T
<1> QED BY <1>5, <1>6, <1>8

\* The first n + 1 values of a function that starts with b and goes on by step.
Values(g, n, b, step) ==
  g \in [0 .. n -> Nat] /\ g[0] = b /\ \A k \in 1 .. n : g[k] = step[k][g[k - 1]]

LEMMA ValuesExist ==
  ASSUME NEW b \in Nat, NEW step \in [Nat -> [Nat -> Nat]]
  PROVE  \A n \in Nat : \E g : Values(g, n, b, step)
<1> DEFINE S == {n \in Nat : \E g : Values(g, n, b, step)}
<1>1. 0 \in S
  <2>1. Values([k \in 0 .. 0 |-> b], 0, b, step)
    BY DEF Values
  <2> QED BY <2>1
<1>2. ASSUME NEW n \in Nat, n \in S PROVE n + 1 \in S
  <2>1. PICK g : Values(g, n, b, step)
    BY <1>2
  <2> DEFINE v == step[n + 1][g[n]]
             h == [k \in 0 .. n + 1 |-> IF k = n + 1 THEN v ELSE g[k]]
  <2>0. v \in Nat
    <3>1. g[n] \in Nat /\ n + 1 \in Nat
      BY <2>1 DEF Values
    <3>2. step[n + 1] \in [Nat -> Nat]
      BY <3>1
    <3> QED BY <3>1, <3>2
  <2>2. h \in [0 .. n + 1 -> Nat] /\ h[0] = b
    <3>1. ASSUME NEW k \in 0 .. n + 1 PROVE (IF k = n + 1 THEN v ELSE g[k]) \in Nat
      <4> HIDE DEF v
      <4>1. k = n + 1 \/ k \in 0 .. n
        OBVIOUS
      <4> QED BY <2>0, <2>1, <4>1 DEF Values
    <3> HIDE DEF v
    <3>2. 0 \in 0 .. n + 1 /\ 0 # n + 1 /\ g[0] = b
      BY <2>1 DEF Values
    <3> QED BY <3>1, <3>2
  <2>3. ASSUME NEW k \in 1 .. n + 1 PROVE h[k] = step[k][h[k - 1]]
    <3>1. CASE k = n + 1
      <4>1. h[k] = v /\ k - 1 = n /\ n \in 0 .. n + 1 /\ n # n + 1
        BY <3>1
      <4>2. h[n] = g[n]
        BY <4>1
      <4> QED BY <3>1, <4>1, <4>2
    <3>2. CASE k # n + 1
      <4>1. k \in 1 .. n /\ k \in 0 .. n + 1 /\ k - 1 \in 0 .. n + 1 /\ k - 1 # n + 1
        BY <3>2
      <4>2. h[k] = g[k] /\ h[k - 1] = g[k - 1]
        BY <3>2, <4>1
      <4> QED BY <2>1, <4>1, <4>2 DEF Values
    <3> QED BY <3>1, <3>2
  <2>4. Values(h, n + 1, b, step)
    BY <2>2, <2>3 DEF Values
  <2> QED BY <2>4
<1> HIDE DEF S
<1>3. \A n \in Nat : n \in S
  BY <1>1, <1>2, AllNat
<1> QED BY <1>3 DEF S

\* What a recursive definition on the natural numbers asks for exists.
LEMMA Recursion ==
  ASSUME NEW b \in Nat, NEW step \in [Nat -> [Nat -> Nat]]
  PROVE  \E F \in [Nat -> Nat] : F[0] = b /\ \A n \in Nat \ {0} : F[n] = step[n][F[n - 1]]
<1>0. ASSUME NEW m \in Nat, NEW n \in Nat, NEW g, NEW h,
             Values(g, m, b, step), Values(h, n, b, step), m <= n
      PROVE  g[m] = h[m]
  <2> DEFINE S == {k \in Nat : k <= m => g[k] = h[k]}
  <2>1. 0 \in S
    BY <1>0 DEF Values
  <2>2. ASSUME NEW k \in Nat, k \in S PROVE k + 1 \in S
    <3> SUFFICES ASSUME k + 1 <= m PROVE g[k + 1] = h[k + 1]
      OBVIOUS
    <3>1. k + 1 \in 1 .. m /\ k + 1 \in 1 .. n /\ (k + 1) - 1 = k /\ g[k] = h[k]
      BY <1>0, <2>2
    <3> QED BY <1>0, <3>1 DEF Values
  <2> HIDE DEF S
  <2>3. \A k \in Nat : k \in S
    BY <2>1, <2>2, AllNat
  <2> QED BY <2>3 DEF S
<1> DEFINE G(n) == CHOOSE g : Values(g, n, b, step)
           F == [n \in Nat |-> G(n)[n]]
<1>1. \A n \in Nat : Values(G(n), n, b, step)
  BY ValuesExist
<1> HIDE DEF G
<1>2. F[0] = b
  BY <1>1 DEF Values
<1>3. ASSUME NEW n \in Nat \ {0} PROVE F[n] = step[n][F[n - 1]]
  <2>1. n \in Nat /\ n - 1 \in Nat /\ n - 1 <= n /\ n - 1 \in 0 .. n - 1 /\ n \in 1 .. n
    BY <1>3
  <2>2. G(n - 1)[n - 1] = G(n)[n - 1]
    <3>1. Values(G(n - 1), n - 1, b, step) /\ Values(G(n), n, b, step)
      BY <1>1, <2>1
    <3> QED BY <1>0, <2>1, <3>1
  <2>3. G(n)[n] = step[n][G(n)[n - 1]]
    BY <1>1, <2>1 DEF Values
  <2> QED BY <2>1, <2>2, <2>3
<1>4. F \in [Nat -> Nat]
  <2> SUFFICES ASSUME NEW n \in Nat PROVE G(n)[n] \in Nat
    OBVIOUS
  <2>1. n \in 0 .. n
    OBVIOUS
  <2> QED BY <1>1, <2>1 DEF Values
<1> HIDE DEF F
<1> QED BY <1>2, <1>3, <1>4

LEMMA Pow2Def == Pow2 = [n \in Nat |-> IF n = 0 THEN 1 ELSE 2 * Pow2[n - 1]]
<1> DEFINE step == [n \in Nat |-> [v \in Nat |-> 2 * v]]
<1>1. step \in [Nat -> [Nat -> Nat]] /\ \A n, v \in Nat : step[n][v] = 2 * v
  OBVIOUS
<1> HIDE DEF step
<1>2. PICK F \in [Nat -> Nat] : F[0] = 1 /\ \A n \in Nat \ {0} : F[n] = step[n][F[n - 1]]
  <2>1. 1 \in Nat /\ step \in [Nat -> [Nat -> Nat]]
    BY <1>1
  <2> QED BY <2>1, Recursion, Zenon
<1>3. ASSUME NEW n \in Nat, n # 0 PROVE F[n] = 2 * F[n - 1]
  <2>1. n - 1 \in Nat /\ n \in Nat \ {0}
    BY <1>3
  <2> QED BY <1>1, <1>2, <2>1
<1>4. F = [n \in Nat |-> IF n = 0 THEN 1 ELSE 2 * F[n - 1]]
  BY <1>2, <1>3
<1> QED BY <1>4, Zenon DEF Pow2

LEMMA Pow2Step == Pow2[0] = 1 /\ \A n \in Nat : Pow2[n + 1] = 2 * Pow2[n]
<1> HIDE DEF Pow2
<1>1. Pow2[0] = 1
  BY Pow2Def
<1>2. ASSUME NEW n \in Nat PROVE Pow2[n + 1] = 2 * Pow2[n]
  <2>1. n + 1 \in Nat /\ n + 1 # 0 /\ (n + 1) - 1 = n
    OBVIOUS
  <2>2. Pow2[n + 1] = 2 * Pow2[(n + 1) - 1]
    BY <2>1, Pow2Def
  <2> QED BY <2>1, <2>2
<1> QED BY <1>1, <1>2

LEMMA Pow2Type == \A n \in Nat : Pow2[n] \in Nat \ {0}
<1> DEFINE S == {n \in Nat : Pow2[n] \in Nat \ {0}}
<1> HIDE DEF Pow2
<1>1. 0 \in S /\ \A n \in Nat : n \in S => n + 1 \in S
  BY Pow2Step
<1> HIDE DEF S
<1>2. \A n \in Nat : n \in S
  BY <1>1, AllNat
<1> QED BY <1>2 DEF S

LEMMA Pow2Sum == \A m, n \in Nat : Pow2[m + n] = Pow2[m] * Pow2[n]
<1> HIDE DEF Pow2
<1> SUFFICES ASSUME NEW m \in Nat PROVE \A n \in Nat : Pow2[m + n] = Pow2[m] * Pow2[n]
  OBVIOUS
<1> DEFINE S == {n \in Nat : Pow2[m + n] = Pow2[m] * Pow2[n]}
<1>1. 0 \in S
  BY Pow2Step, Pow2Type
<1>2. ASSUME NEW n \in Nat, n \in S PROVE n + 1 \in S
  <2>1. Pow2[m + n] = Pow2[m] * Pow2[n] /\ m + n \in Nat
    BY <1>2
  <2>2. Pow2[(m + n) + 1] = 2 * Pow2[m + n] /\ Pow2[n + 1] = 2 * Pow2[n]
    BY <2>1, Pow2Step
  <2>3. m + (n + 1) = (m + n) + 1
    OBVIOUS
  <2>4. \A a, b \in Nat : 2 * (a * b) = a * (2 * b)
    OBVIOUS
  <2>5. 2 * (Pow2[m] * Pow2[n]) = Pow2[m] * (2 * Pow2[n])
    BY <2>4, Pow2Type
  <2> QED BY <2>1, <2>2, <2>3, <2>5
<1> HIDE DEF S
<1>3. \A n \in Nat : n \in S
  BY <1>1, <1>2, AllNat
<1> QED BY <1>3 DEF S

-----------------------------------------------------------------------------
LEMMA Quotient ==
  ASSUME NEW b \in Nat \ {0}, NEW q \in Int, NEW r \in 0 .. b - 1
  PROVE  (q * b + r) \div b = q
OBVIOUS

\* The numbers x * k + r and y * k + s are equal only part by part.
Parts(k, x, r, y, s) == x * k + r = y * k + s => x = y /\ r = s

LEMMA SameParts ==
  ASSUME NEW k \in Nat \ {0}, NEW x \in Int, NEW y \in Int,
         NEW r \in 0 .. k - 1, NEW s \in 0 .. k - 1
  PROVE  Parts(k, x, r, y, s)
<1> SUFFICES ASSUME x * k + r = y * k + s PROVE x = y /\ r = s
  BY DEF Parts
<1>1. (x * k + r) \div k = x /\ (y * k + s) \div k = y
  BY Quotient
<1>2. x = y
  BY <1>1
<1> QED BY <1>2

\* A block of b within an octet of d blocks: the quotient of a number is that of
\* its last octet and the octets before it.
LEMMA BlockInOctet ==
  ASSUME NEW b \in Nat \ {0}, NEW d \in Nat \ {0}, NEW k \in Nat \ {0}, k = d * b,
         NEW p \in Nat, NEW x \in 0 .. k - 1
  PROVE  /\ (p * k + x) \div b = p * d + (x \div b)
         /\ x \div b \in 0 .. d - 1
<1>1. PICK q \in Int, r \in 0 .. b - 1 : x = q * b + r
  <2>1. x = (x \div b) * b + (x % b) /\ x \div b \in Int /\ x % b \in 0 .. b - 1
    OBVIOUS
  <2> QED BY <2>1
<1>2. x \div b = q
  BY <1>1, Quotient
<1>3. q >= 0
  <2> SUFFICES ASSUME q <= -1 PROVE FALSE
    OBVIOUS
  <2>1. q * b <= (-1) * b
    OBVIOUS
  <2> QED BY <1>1, <2>1
<1>4. q <= d - 1
  <2> SUFFICES ASSUME q >= d PROVE FALSE
    OBVIOUS
  <2>1. q * b >= d * b
    OBVIOUS
  <2> QED BY <1>1, <2>1
<1>5. p * k + x = (p * d + q) * b + r
  <2>1. p * (d * b) = (p * d) * b
    OBVIOUS
  <2>2. (p * d + q) * b = (p * d) * b + q * b
    OBVIOUS
  <2> QED BY <1>1, <2>1, <2>2
<1>6. p * d + q \in Int
  OBVIOUS
<1>7. ((p * d + q) * b + r) \div b = p * d + q
  BY <1>6, Quotient
<1> QED BY <1>2, <1>3, <1>4, <1>5, <1>7

\* A block of whole octets.
LEMMA BlockOfOctets ==
  ASSUME NEW k \in Nat \ {0}, NEW m \in Nat \ {0}, NEW p \in Nat, NEW x \in 0 .. k - 1
  PROVE  (p * k + x) \div (m * k) = p \div m
<1>1. PICK q \in Int, r \in 0 .. m - 1 : p = q * m + r
  <2>1. p = (p \div m) * m + (p % m) /\ p \div m \in Int /\ p % m \in 0 .. m - 1
    OBVIOUS
  <2> QED BY <2>1
<1>2. p \div m = q
  BY <1>1, Quotient
<1>3. p * k + x = q * (m * k) + (r * k + x)
  <2>1. (q * m + r) * k = (q * m) * k + r * k
    OBVIOUS
  <2>2. (q * m) * k = q * (m * k)
    OBVIOUS
  <2> QED BY <1>1, <2>1, <2>2
<1>4. r * k + x \in 0 .. m * k - 1
  <2>1. r * k <= (m - 1) * k /\ r * k >= 0 /\ r * k \in Int
    OBVIOUS
  <2>2. (m - 1) * k = m * k - k /\ m * k \in Int
    OBVIOUS
  <2> QED BY <2>1, <2>2
<1>5. m * k \in Nat \ {0}
  OBVIOUS
<1>6. (q * (m * k) + (r * k + x)) \div (m * k) = q
  BY <1>4, <1>5, Quotient
<1> QED BY <1>2, <1>3, <1>6

-----------------------------------------------------------------------------
\* The octets before the last one, as a number.
Prefix(a) == (a[0] * Pow2[OctetBits] + a[1]) * Pow2[OctetBits] + a[2]

SamePrefix(a, c) == a[0] = c[0] /\ a[1] = c[1] /\ a[2] = c[2]

LEMMA PrefixNumber ==
  ASSUME NEW a \in Address
  PROVE  /\ Prefix(a) \in Nat /\ a[3] \in 0 .. Pow2[OctetBits] - 1
         /\ Number(a) = Prefix(a) * Pow2[OctetBits] + a[3]
<1> HIDE DEF Pow2
<1>1. /\ Pow2[OctetBits] \in Nat \ {0}
      /\ \A l \in 0 .. 3 : a[l] \in 0 .. Pow2[OctetBits] - 1
  BY FilterAssumption, Pow2Type DEF Address, Octet, Position
<1>2. \A p, k, x \in Nat : p * k + x \in Nat
  OBVIOUS
<1>3. a[0] * Pow2[OctetBits] + a[1] \in Nat
  BY <1>1, <1>2
<1>4. Prefix(a) \in Nat
  BY <1>1, <1>2, <1>3 DEF Prefix
<1> QED BY <1>1, <1>4 DEF Number, Prefix

LEMMA PrefixOctets ==
  ASSUME NEW a \in Address, NEW c \in Address, Prefix(a) = Prefix(c)
  PROVE  SamePrefix(a, c)
<1> HIDE DEF Pow2
<1> DEFINE k == Pow2[OctetBits]
<1>1. k \in Nat \ {0} /\ \A l \in 0 .. 3 : a[l] \in 0 .. k - 1 /\ c[l] \in 0 .. k - 1
  BY FilterAssumption, Pow2Type DEF Address, Octet, Position
<1>2. (a[0] * k + a[1]) * k + a[2] = (c[0] * k + c[1]) * k + c[2]
  BY DEF Prefix
<1> HIDE DEF k
<1>3. /\ a[0] \in Int /\ c[0] \in Int /\ a[0] * k + a[1] \in Int /\ c[0] * k + c[1] \in Int
      /\ a[1] \in 0 .. k - 1 /\ c[1] \in 0 .. k - 1 /\ a[2] \in 0 .. k - 1 /\ c[2] \in 0 .. k - 1
  BY <1>1
<1>4. a[0] * k + a[1] = c[0] * k + c[1] /\ a[2] = c[2]
  <2>1. Parts(k, a[0] * k + a[1], a[2], c[0] * k + c[1], c[2])
    BY <1>1, <1>3, SameParts
  <2> QED BY <1>2, <2>1 DEF Parts
<1>5. a[0] = c[0] /\ a[1] = c[1]
  <2>1. Parts(k, a[0], a[1], c[0], c[1])
    BY <1>1, <1>3, SameParts
  <2> QED BY <1>4, <2>1 DEF Parts
<1> QED BY <1>4, <1>5 DEF SamePrefix

\* A range within an octet: its block b divides the octet.
LEMMA NarrowBlock ==
  ASSUME NEW e \in Line, e.size >= 3 * OctetBits
  PROVE  /\ e.ip \in Address /\ Pow2[Bits - e.size] \in Nat \ {0}
         /\ e.ip[3] % Pow2[Bits - e.size] = 0
         /\ \E d \in Nat \ {0} : Pow2[OctetBits] = d * Pow2[Bits - e.size]
<1> HIDE DEF Pow2
<1>1. /\ e.ip \in Address /\ e.size \in 0 .. Bits /\ OctetBits \in Nat \ {0}
      /\ e.ip[3] % Pow2[Bits - e.size] = 0
  BY FilterAssumption
<1>2. Bits - e.size \in Nat /\ OctetBits - (Bits - e.size) \in Nat
  BY <1>1 DEF Bits
<1>3. (OctetBits - (Bits - e.size)) + (Bits - e.size) = OctetBits
  BY <1>1, <1>2 DEF Bits
<1>4. Pow2[OctetBits] = Pow2[OctetBits - (Bits - e.size)] * Pow2[Bits - e.size]
  BY <1>2, <1>3, Pow2Sum
<1>5. Pow2[OctetBits - (Bits - e.size)] \in Nat \ {0} /\ Pow2[Bits - e.size] \in Nat \ {0}
  BY <1>2, Pow2Type
<1> QED BY <1>1, <1>4, <1>5

LEMMA SameBlock ==
  ASSUME NEW b \in Nat \ {0}, NEW x \in Nat, NEW y \in Nat, y % b = 0
  PROVE  x \div b = y \div b <=> y <= x /\ x <= y + b - 1
<1>1. PICK q \in Nat : y = q * b
  BY SMT
<1>2. y \div b = q
  <2>1. y = q * b + 0 /\ 0 \in 0 .. b - 1
    BY <1>1
  <2> QED BY <2>1, Quotient
<1>3. ASSUME x \div b = q PROVE y <= x /\ x <= y + b - 1
  <2>1. x = (x \div b) * b + (x % b) /\ x % b \in 0 .. b - 1
    OBVIOUS
  <2> QED BY <1>1, <1>3, <2>1
<1>4. ASSUME y <= x, x <= y + b - 1 PROVE x \div b = q
  <2>1. x - y \in 0 .. b - 1 /\ x = q * b + (x - y)
    BY <1>1, <1>4
  <2> QED BY <2>1, Quotient
<1> QED BY <1>2, <1>3, <1>4

LEMMA NarrowIn ==
  ASSUME NEW e \in Line, e.size >= 3 * OctetBits, NEW a \in Address
  PROVE  In(e, a) <=> /\ SamePrefix(a, e.ip)
                      /\ e.ip[3] <= a[3] /\ a[3] <= e.ip[3] + Pow2[Bits - e.size] - 1
<1> HIDE DEF Pow2
<1> DEFINE k == Pow2[OctetBits]
           b == Pow2[Bits - e.size]
<1>1. PICK d \in Nat \ {0} : k = d * b
  BY NarrowBlock
<1>2. b \in Nat \ {0} /\ e.ip \in Address /\ e.ip[3] % b = 0
  BY NarrowBlock
<1>3. k \in Nat \ {0}
  BY FilterAssumption, Pow2Type
<1>4. /\ Prefix(a) \in Nat /\ a[3] \in 0 .. k - 1 /\ Number(a) = Prefix(a) * k + a[3]
      /\ Prefix(e.ip) \in Nat /\ e.ip[3] \in 0 .. k - 1 /\ Number(e.ip) = Prefix(e.ip) * k + e.ip[3]
  BY <1>2, PrefixNumber
<1>5. In(e, a) <=> Number(a) \div b = Number(e.ip) \div b
  BY DEF In
<1>6. SamePrefix(a, e.ip) <=> Prefix(a) = Prefix(e.ip)
  BY <1>2, PrefixOctets DEF SamePrefix, Prefix
<1> HIDE DEF k, b
<1>7. /\ Number(a) \div b = Prefix(a) * d + (a[3] \div b) /\ a[3] \div b \in 0 .. d - 1
      /\ Number(e.ip) \div b = Prefix(e.ip) * d + (e.ip[3] \div b) /\ e.ip[3] \div b \in 0 .. d - 1
  <2>1. \A p \in Nat, x \in 0 .. k - 1 :
          (p * k + x) \div b = p * d + (x \div b) /\ x \div b \in 0 .. d - 1
    BY <1>1, <1>2, <1>3, BlockInOctet, Zenon
  <2> QED BY <1>4, <2>1, Zenon
<1>8. Number(a) \div b = Number(e.ip) \div b
        <=> Prefix(a) = Prefix(e.ip) /\ a[3] \div b = e.ip[3] \div b
  <2>1. ASSUME Number(a) \div b = Number(e.ip) \div b
        PROVE  Prefix(a) = Prefix(e.ip) /\ a[3] \div b = e.ip[3] \div b
    <3>1. Prefix(a) * d + (a[3] \div b) = Prefix(e.ip) * d + (e.ip[3] \div b)
      BY <1>7, <2>1
    <3>2. Prefix(a) \in Int /\ Prefix(e.ip) \in Int
      BY <1>4
    <3>3. Parts(d, Prefix(a), a[3] \div b, Prefix(e.ip), e.ip[3] \div b)
      BY <1>7, <3>2, SameParts
    <3> QED BY <3>1, <3>3 DEF Parts
  <2> QED BY <1>7, <2>1
<1>9. a[3] \div b = e.ip[3] \div b <=> e.ip[3] <= a[3] /\ a[3] <= e.ip[3] + b - 1
  <2>1. a[3] \in Nat /\ e.ip[3] \in Nat
    BY <1>3, <1>4
  <2> QED BY <1>2, <2>1, SameBlock
<1> QED BY <1>5, <1>6, <1>8, <1>9 DEF b

\* A range of an octet or more has every address with its first three octets.
LEMMA WideIn ==
  ASSUME NEW e \in Line, e.size <= 3 * OctetBits, NEW a \in Address, SamePrefix(a, e.ip)
  PROVE  In(e, a)
<1> HIDE DEF Pow2
<1> DEFINE k == Pow2[OctetBits]
           m == Pow2[3 * OctetBits - e.size]
<1>1. e.ip \in Address /\ e.size \in 0 .. Bits /\ OctetBits \in Nat \ {0}
  BY FilterAssumption
<1>2. /\ 3 * OctetBits - e.size \in Nat /\ e.size \in Nat
      /\ Bits - e.size = (3 * OctetBits - e.size) + OctetBits
  BY <1>1 DEF Bits
<1>3. Pow2[Bits - e.size] = m * k
  BY <1>1, <1>2, Pow2Sum
<1>4. k \in Nat \ {0} /\ m \in Nat \ {0}
  BY <1>1, <1>2, Pow2Type
<1>5. /\ Prefix(a) \in Nat /\ a[3] \in 0 .. k - 1 /\ Number(a) = Prefix(a) * k + a[3]
      /\ Prefix(e.ip) \in Nat /\ e.ip[3] \in 0 .. k - 1 /\ Number(e.ip) = Prefix(e.ip) * k + e.ip[3]
  BY <1>1, PrefixNumber
<1>6. Prefix(a) = Prefix(e.ip)
  BY DEF SamePrefix, Prefix
<1>7. In(e, a) <=> Number(a) \div (m * k) = Number(e.ip) \div (m * k)
  BY <1>3 DEF In
<1> HIDE DEF k, m
<1>8. \A p \in Nat, x \in 0 .. k - 1 : (p * k + x) \div (m * k) = p \div m
  BY <1>4, BlockOfOctets, Zenon
<1> QED BY <1>5, <1>6, <1>7, <1>8, Zenon

\* The end of a range within an octet does not overflow.
LEMMA NarrowLeaf ==
  ASSUME NEW e \in Line, e.size >= 3 * OctetBits
  PROVE  Leaf(e).min = e.ip[3] /\ Leaf(e).max = e.ip[3] + Pow2[Bits - e.size] - 1
<1> HIDE DEF Pow2
<1> DEFINE k == Pow2[OctetBits]
           b == Pow2[Bits - e.size]
           h == Pow2[Bits - 1]
           n == e.ip[3] + b - 1
<1>1. OctetBits \in Nat \ {0} /\ e.size # 0
  BY FilterAssumption
<1>2. b \in Nat \ {0} /\ e.ip \in Address
  BY NarrowBlock
<1>3. PICK d \in Nat \ {0} : k = d * b
  BY NarrowBlock
<1>4. k \in Nat \ {0} /\ e.ip[3] \in 0 .. k - 1
  BY <1>1, <1>2, Pow2Type, PrefixNumber
<1>5. h \in Nat /\ h >= 2 * k
  <2>1. Bits - 1 = (OctetBits + 1) + (3 * OctetBits - 2) /\ 3 * OctetBits - 2 \in Nat
    BY <1>1 DEF Bits
  <2>2. h = Pow2[OctetBits + 1] * Pow2[3 * OctetBits - 2]
    <3>1. OctetBits + 1 \in Nat
      BY <1>1
    <3> QED BY <2>1, <3>1, Pow2Sum, Zenon
  <2>3. Pow2[OctetBits + 1] = 2 * k
    BY <1>1, Pow2Step
  <2>4. Pow2[3 * OctetBits - 2] \in Nat \ {0}
    BY <2>1, Pow2Type
  <2>5. \A x \in Nat, y \in Nat \ {0} : x * y \in Nat /\ x * y >= x
    OBVIOUS
  <2>6. 2 * k \in Nat
    BY <1>4
  <2> QED BY <2>2, <2>3, <2>4, <2>5, <2>6
<1>6. Pow2[Bits] = 2 * h
  <2>1. Bits - 1 \in Nat /\ (Bits - 1) + 1 = Bits
    BY <1>1 DEF Bits
  <2> QED BY <2>1, Pow2Step
<1>7. b <= k
  <2>1. \A x, y \in Nat \ {0} : x * y >= y
    OBVIOUS
  <2> QED BY <1>2, <1>3, <2>1
<1>8. Width(e) = b
  BY <1>1 DEF Width
<1>9. Leaf(e).min = e.ip[3] /\ Leaf(e).max = ((n + h) % (2 * h)) - h
  BY <1>6, <1>8 DEF Leaf, Node, Wrapped
<1> HIDE DEF k, b, h
<1>10. n \in Nat /\ n < h
  BY <1>2, <1>4, <1>5, <1>7
<1>11. (n + h) % (2 * h) = n + h
  BY <1>5, <1>10
<1>12. (n + h) - h = n
  BY <1>5, <1>10
<1> QED BY <1>9, <1>11, <1>12 DEF b

-----------------------------------------------------------------------------
\* The levels, and the lines that have been read.
Index == DOMAIN paths

\* Two lines have the same nodes above level l.
Above(i, k, l) == \A m \in 0 .. l - 1 : paths[i][m] = paths[k][m]

\* The nodes of a line hold its octets.
Nodes == \A i \in Index :
  /\ \A l \in 0 .. 2 : /\ heap[paths[i][l]].min = lines[i].ip[l]
                       /\ heap[paths[i][l]].max = lines[i].ip[l]
  /\ heap[paths[i][3]].min = Leaf(lines[i]).min
  /\ heap[paths[i][3]].max = Leaf(lines[i]).max

\* The child of a node is of a line with that node, and no later than any.
Children == \A i \in Index, l \in 0 .. 2 :
  LET c == heap[paths[i][l]].child
  IN c <= paths[i][l + 1] /\ \E k \in Index : c = paths[k][l + 1] /\ Above(k, i, l + 1)

\* The next of a node has the same nodes above it and comes after all that are
\* below that node.
Siblings == \A i \in Index, l \in Position :
  LET x == heap[paths[i][l]].next
  IN x # 0 => /\ \E k \in Index : x = paths[k][l] /\ Above(k, i, l)
              /\ \A m \in l .. 3 : paths[i][m] < x

\* No node is left out between a node and its next.
NoneSkipped == \A i, t \in Index, l \in Position :
  Above(i, t, l) /\ paths[i][l] < paths[t][l] =>
    heap[paths[i][l]].next # 0 /\ heap[paths[i][l]].next <= paths[t][l]

\* Nodes are made from the top down and in the order of the lines, each in one
\* place.
Ordered ==
  /\ \A i \in Index, l \in 0 .. 2 : paths[i][l] < paths[i][l + 1]
  /\ \A i, k \in Index, l \in Position : i <= k => paths[i][l] <= paths[k][l]
  /\ \A i, k \in Index, l \in Position : paths[i][l] = paths[k][l] => Above(i, k, l)
  /\ \A i, k \in Index, l, m \in Position : l # m => paths[i][l] # paths[k][m]

\* of1 .. of4 are the last nodes of their levels.
Ends == /\ Len(paths) = Len(lines)
        /\ lines = <<>> /\ pc = "read" => heap = <<>>
        /\ lines = <<>> /\ pc # "read" => heap = <<Node(0, 0, 0)>>
        /\ pc # "read" => head = 1
        /\ lines # <<>> => /\ head = 1 /\ paths[1][0] = 1 /\ of = paths[Len(paths)]
                           /\ \A l \in Position : heap[of[l]].next = 0

Tree == Nodes /\ Children /\ Siblings /\ NoneSkipped /\ Ordered /\ Ends

LEMMA SmallMin ==
  ASSUME NEW S, S \subseteq 0 .. 3, S # {}
  PROVE  Min(S) \in S /\ \A y \in S : Min(S) <= y
<1>1. \E x \in S : \A y \in S : x <= y
  <2>1. CASE 0 \in S
    BY <2>1
  <2>2. CASE 0 \notin S /\ 1 \in S
    BY <2>2
  <2>3. CASE 0 \notin S /\ 1 \notin S /\ 2 \in S
    BY <2>3
  <2>4. CASE 0 \notin S /\ 1 \notin S /\ 2 \notin S
    <3>1. \A y \in S : y = 3
      BY <2>4
    <3>2. PICK x \in S : TRUE
      OBVIOUS
    <3> QED BY <3>1, <3>2
  <2> QED BY <2>1, <2>2, <2>3, <2>4
<1> QED BY <1>1 DEF Min

LEMMA SmallMax ==
  ASSUME NEW S, S \subseteq -1 .. 3, S # {}
  PROVE  Max(S) \in S /\ \A y \in S : Max(S) >= y
<1>1. \E x \in S : \A y \in S : x >= y
  <2>1. CASE 3 \in S
    BY <2>1
  <2>2. CASE 3 \notin S /\ 2 \in S
    BY <2>2
  <2>3. CASE 3 \notin S /\ 2 \notin S /\ 1 \in S
    BY <2>3
  <2>4. CASE 3 \notin S /\ 2 \notin S /\ 1 \notin S /\ 0 \in S
    BY <2>4
  <2>5. CASE 3 \notin S /\ 2 \notin S /\ 1 \notin S /\ 0 \notin S
    <3>1. \A y \in S : y = -1
      BY <2>5
    <3>2. PICK x \in S : TRUE
      OBVIOUS
    <3> QED BY <3>1, <3>2
  <2> QED BY <2>1, <2>2, <2>3, <2>4, <2>5
<1> QED BY <1>1 DEF Max

LEMMA LeafType ==
  ASSUME NEW e \in Line
  PROVE  /\ e.ip \in Address /\ Leaf(e).min = e.ip[3] /\ Leaf(e).max \in Int
         /\ Leaf(e).child = 0 /\ Leaf(e).next = 0
         /\ Leaf(e) = Node(Leaf(e).min, Leaf(e).max, 0)
<1> HIDE DEF Pow2
<1>1. e.ip \in Address /\ e.size \in 0 .. Bits /\ OctetBits \in Nat \ {0}
  BY FilterAssumption
<1>2. /\ Bits \in Nat /\ Bits - 1 \in Nat
      /\ Bits - (IF e.size = 0 THEN Bits ELSE e.size) \in Nat
  BY <1>1 DEF Bits
<1>3. Width(e) \in Nat /\ Pow2[Bits] \in Nat \ {0} /\ Pow2[Bits - 1] \in Nat
  BY <1>2, Pow2Type DEF Width
<1>4. e.ip[3] \in Int
  BY <1>1, PrefixNumber
<1>5. \A x \in Int : Wrapped(x) \in Int
  BY <1>3 DEF Wrapped
<1>6. Wrapped(e.ip[3] + Width(e) - 1) \in Int
  BY <1>3, <1>4, <1>5
<1> QED BY <1>1, <1>6 DEF Leaf, Node

LEMMA HeapType ==
  ASSUME TypeOK, NEW p \in 1 .. Len(heap)
  PROVE  /\ heap[p].min \in Octet /\ heap[p].max \in Int /\ heap[p].child \in 0 .. Len(heap)
         /\ heap[p].next \in 0 .. Len(heap) /\ heap[p].next \in Nat /\ Len(heap) \in Nat
<1> DEFINE Q == [min : Octet, max : Int, child : 0 .. Len(heap), next : 0 .. Len(heap)]
<1>1. heap \in Seq(Q)
  BY DEF TypeOK
<1>2. heap[p] \in Q /\ Len(heap) \in Nat
  <2> HIDE DEF Q
  <2> QED BY <1>1
<1> QED BY <1>2

\* What a later line does to the heap and to the lines: with s octets shared, n
\* nodes and z lines before it.
Growth(e, s, n, z) ==
  /\ s \in 0 .. 3 /\ n \in Nat /\ z \in Nat \ {0}
  /\ \A l \in 0 .. s - 1 : e.ip[l] = lines[z].ip[l]
  /\ Len(heap') = n + 4 - s
  /\ \A p \in 1 .. n : /\ heap'[p].min = heap[p].min /\ heap'[p].max = heap[p].max
                       /\ heap'[p].child = heap[p].child
                       /\ heap'[p].next = IF p = of[s] THEN n + 1 ELSE heap[p].next
  /\ \A l \in s .. 3 :
       heap'[n + 1 + l - s] = IF l = 3 THEN Leaf(e)
                              ELSE Node(e.ip[l], e.ip[l], n + 2 + l - s)
  /\ heap' \in Seq([min : Octet, max : Int, child : Nat, next : Nat])
  /\ Len(paths') = z + 1 /\ Len(lines') = z + 1
  /\ \A i \in 1 .. z : paths'[i] = paths[i] /\ lines'[i] = lines[i]
  /\ lines'[z + 1] = e /\ paths'[z + 1] = of' /\ lines' # <<>>
  /\ of' = [l \in Position |-> IF l < s THEN of[l] ELSE n + 1 + l - s]
  /\ pc' = pc /\ pc = "read" /\ head' = head

\* What it does to the nodes of the lines.
Longer(s, n, z) ==
  /\ s \in 0 .. 3 /\ n \in Nat /\ z \in Nat \ {0} /\ n = Len(heap) /\ z = Len(paths)
  /\ Index = 1 .. z /\ Index' = 1 .. z + 1
  /\ \A i \in 1 .. z, l \in Position : paths'[i][l] = paths[i][l] /\ paths[i][l] \in 1 .. n
  /\ \A l \in Position : l < s => paths'[z + 1][l] = paths[z][l]
  /\ \A l \in Position : l >= s => paths'[z + 1][l] = n + 1 + l - s
  /\ \A l \in Position : paths[z][l] <= paths'[z + 1][l] /\ paths'[z + 1][l] \in Nat
  /\ \A l \in Position : of[l] = paths[z][l]

LEMMA Grown ==
  ASSUME TypeOK, Tree, NEW e \in Line, NextLine(e),
         NEW s, s = Shared(e), NEW n, n = Len(heap), NEW z, z = Len(paths)
  PROVE  Growth(e, s, n, z) /\ Index = 1 .. z /\ Index' = 1 .. z + 1 /\ of = paths[z]
<1>1. /\ n \in Nat /\ z \in Nat \ {0} /\ Index = 1 .. z /\ Len(lines) = z
      /\ lines \in Seq(Line) /\ paths \in Seq([Position -> 1 .. n])
      /\ of = paths[z] /\ lines # <<>>
  BY DEF TypeOK, Tree, Ends, NextLine, Index
<1>2. s \in 0 .. 3 /\ \A l \in 0 .. s - 1 : e.ip[l] = lines[z].ip[l]
  <2> DEFINE S == {3} \cup {l \in 0 .. 2 : e.ip[l] # lines[Len(lines)].ip[l]}
  <2>1. s = Min(S) /\ S \subseteq 0 .. 3 /\ S # {}
    BY DEF Shared
  <2>2. s \in S /\ \A y \in S : s <= y
    BY <2>1, SmallMin
  <2>3. s \in 0 .. 3
    BY <2>1, <2>2
  <2>4. ASSUME NEW l \in 0 .. s - 1 PROVE e.ip[l] = lines[z].ip[l]
    <3>1. l \in 0 .. 2 /\ ~(s <= l)
      BY <2>3
    <3>2. l \notin S
      BY <2>2, <3>1
    <3> QED BY <1>1, <3>1, <3>2
  <2> QED BY <2>3, <2>4
<1>3. of[s] \in 1 .. n
  BY <1>1, <1>2 DEF Position
<1>4. /\ heap' = Linked(s) \o Chain(e, s)
      /\ of' = [l \in Position |-> IF l < s THEN of[l] ELSE n + 1 + l - s]
      /\ lines' = Append(lines, e) /\ paths' = Append(paths, of')
      /\ pc' = pc /\ pc = "read" /\ head' = head
  BY DEF NextLine
<1> DEFINE R == [min : Octet, max : Int, child : Nat, next : Nat]
<1>5. heap \in [1 .. n -> R] /\ heap \in Seq(R)
  <2> DEFINE Q == [min : Octet, max : Int, child : 0 .. n, next : 0 .. n]
  <2>1. heap \in Seq(Q)
    BY DEF TypeOK
  <2>2. Q \subseteq R
    BY <1>1
  <2> HIDE DEF Q, R
  <2>3. heap = [p \in 1 .. n |-> heap[p]] /\ \A p \in 1 .. n : heap[p] \in Q
    BY <2>1
  <2>4. heap \in [1 .. n -> R]
    BY <2>2, <2>3
  <2> QED BY <1>1, <2>4
<1> HIDE DEF R
<1>6. /\ Linked(s) \in Seq(R) /\ Len(Linked(s)) = n
      /\ \A p \in 1 .. n : /\ Linked(s)[p].min = heap[p].min /\ Linked(s)[p].max = heap[p].max
                           /\ Linked(s)[p].child = heap[p].child
                           /\ Linked(s)[p].next = IF p = of[s] THEN n + 1 ELSE heap[p].next
  <2> DEFINE v == [heap[of[s]] EXCEPT !.next = n + 1]
  <2>1. Linked(s) = [heap EXCEPT ![of[s]] = v]
    BY DEF Linked
  <2>2. /\ v \in R /\ v.min = heap[of[s]].min /\ v.max = heap[of[s]].max
        /\ v.child = heap[of[s]].child /\ v.next = n + 1
    <3>1. heap[of[s]] \in R
      BY <1>3, <1>5
    <3>2. n + 1 \in Nat
      BY <1>1
    <3> QED BY <3>1, <3>2 DEF R
  <2> HIDE DEF v
  <2>3. Linked(s) \in [1 .. n -> R]
    BY <1>3, <1>5, <2>1, <2>2
  <2>4. \A p \in 1 .. n : Linked(s)[p] = IF p = of[s] THEN v ELSE heap[p]
    BY <1>3, <1>5, <2>1
  <2>5. Linked(s) \in Seq(R) /\ Len(Linked(s)) = n
    BY <1>1, <2>3
  <2> QED BY <2>2, <2>4, <2>5
<1>7. /\ Chain(e, s) \in Seq(R) /\ Len(Chain(e, s)) = 4 - s
      /\ \A j \in 1 .. 4 - s : Chain(e, s)[j] = IF s + j = 4 THEN Leaf(e)
                                ELSE Node(e.ip[s + j - 1], e.ip[s + j - 1], n + j + 1)
  <2>1. Leaf(e) \in R
    BY LeafType DEF Node, Address, Position, R
  <2>2. \A l \in Position : e.ip[l] \in Octet
    BY LeafType DEF Address
  <2>3. \A x \in Octet : x \in Int
    BY FilterAssumption, Pow2Type DEF Octet
  <2>4. ASSUME NEW j \in 1 .. 4 - s, s + j # 4
        PROVE  Node(e.ip[s + j - 1], e.ip[s + j - 1], n + j + 1) \in R
    <3>1. s + j - 1 \in Position
      BY <1>2, <2>4 DEF Position
    <3> QED BY <1>1, <2>2, <2>3, <3>1 DEF Node, R
  <2>5. Chain(e, s) = [j \in 1 .. 4 - s |->
                         IF s + j = 4 THEN Leaf(e)
                         ELSE Node(e.ip[s + j - 1], e.ip[s + j - 1], n + j + 1)]
    BY DEF Chain
  <2>6. 4 - s \in Nat
    BY <1>2
  <2> QED BY <2>1, <2>4, <2>5, <2>6
<1>8. /\ Len(heap') = n + 4 - s
      /\ \A p \in 1 .. n : heap'[p] = Linked(s)[p]
      /\ \A j \in 1 .. 4 - s : heap'[n + j] = Chain(e, s)[j]
      /\ heap' \in Seq(R)
  <2>1. /\ heap' = Linked(s) \o Chain(e, s) /\ 4 - s \in Nat /\ n \in Nat
        /\ Linked(s) \in Seq(R) /\ Len(Linked(s)) = n
        /\ Chain(e, s) \in Seq(R) /\ Len(Chain(e, s)) = 4 - s
    BY <1>1, <1>2, <1>4, <1>6, <1>7
  <2>2. \A A, B \in Seq(R) : /\ Len(A \o B) = Len(A) + Len(B) /\ A \o B \in Seq(R)
                             /\ \A p \in 1 .. Len(A) : (A \o B)[p] = A[p]
                             /\ \A j \in 1 .. Len(B) : (A \o B)[Len(A) + j] = B[j]
    OBVIOUS
  <2>3. /\ Len(heap') = n + (4 - s) /\ heap' \in Seq(R)
        /\ \A p \in 1 .. n : heap'[p] = Linked(s)[p]
        /\ \A j \in 1 .. 4 - s : heap'[n + j] = Chain(e, s)[j]
    <3> DEFINE A == Linked(s)
               B == Chain(e, s)
    <3>1. A \in Seq(R) /\ B \in Seq(R) /\ heap' = A \o B /\ Len(A) = n /\ Len(B) = 4 - s
      BY <2>1
    <3> HIDE DEF A, B
    <3>2. /\ Len(A \o B) = Len(A) + Len(B) /\ A \o B \in Seq(R)
          /\ \A p \in 1 .. Len(A) : (A \o B)[p] = A[p]
          /\ \A j \in 1 .. Len(B) : (A \o B)[Len(A) + j] = B[j]
      BY <2>2, <3>1
    <3>3. /\ Len(heap') = n + (4 - s) /\ heap' \in Seq(R)
          /\ \A p \in 1 .. n : heap'[p] = A[p]
          /\ \A j \in 1 .. 4 - s : heap'[n + j] = B[j]
      BY <3>1, <3>2
    <3> QED BY <3>3 DEF A, B
  <2>5. n + (4 - s) = n + 4 - s
    BY <1>2, <2>1
  <2> QED BY <2>3, <2>5
<1>9. ASSUME NEW l \in s .. 3
      PROVE  heap'[n + 1 + l - s] = IF l = 3 THEN Leaf(e) ELSE Node(e.ip[l], e.ip[l], n + 2 + l - s)
  <2>1. /\ l + 1 - s \in 1 .. 4 - s /\ n + (l + 1 - s) = n + 1 + l - s
        /\ s + (l + 1 - s) = l + 1 /\ s + (l + 1 - s) - 1 = l
        /\ n + (l + 1 - s) + 1 = n + 2 + l - s
    <3>1. s \in 0 .. 3 /\ n \in Nat
      BY <1>1, <1>2
    <3>2. l \in Int /\ s <= l /\ l <= 3
      BY <3>1
    <3>3. l + 1 - s \in 1 .. 4 - s
      BY <3>1, <3>2
    <3>4. n + (l + 1 - s) = n + 1 + l - s /\ n + (l + 1 - s) + 1 = n + 2 + l - s
      BY <3>1, <3>2, SMTT(40)
    <3>5. s + (l + 1 - s) = l + 1 /\ s + (l + 1 - s) - 1 = l
      BY <3>1, <3>2
    <3> QED BY <3>3, <3>4, <3>5
  <2>2. (l + 1 = 4) <=> (l = 3)
    BY <1>2
  <2>3. heap'[n + (l + 1 - s)] = Chain(e, s)[l + 1 - s]
    BY <1>8, <2>1
  <2>4. Chain(e, s)[l + 1 - s] = IF s + (l + 1 - s) = 4 THEN Leaf(e)
          ELSE Node(e.ip[s + (l + 1 - s) - 1], e.ip[s + (l + 1 - s) - 1], n + (l + 1 - s) + 1)
    BY <1>7, <2>1
  <2> QED BY <2>1, <2>2, <2>3, <2>4
<1>10. /\ Len(paths') = z + 1 /\ Len(lines') = z + 1 /\ Index' = 1 .. z + 1
       /\ \A i \in 1 .. z : paths'[i] = paths[i] /\ lines'[i] = lines[i]
       /\ lines'[z + 1] = e /\ paths'[z + 1] = of' /\ lines' # <<>>
  <2> DEFINE P == [Position -> 1 .. n]
  <2>1. paths \in Seq(P) /\ Len(paths) = z /\ paths' = Append(paths, of')
    BY <1>1, <1>4
  <2> HIDE DEF P
  <2>2. Len(paths') = z + 1 /\ paths'[z + 1] = of' /\ \A i \in 1 .. z : paths'[i] = paths[i]
    BY <2>1
  <2>3. lines \in Seq(Line) /\ Len(lines) = z /\ lines' = Append(lines, e)
    BY <1>1, <1>4
  <2>4. Len(lines') = z + 1 /\ lines'[z + 1] = e /\ lines' # <<>>
        /\ \A i \in 1 .. z : lines'[i] = lines[i]
    BY <2>3
  <2>5. Index' = 1 .. z + 1
    BY <2>1 DEF Index
  <2> QED BY <2>2, <2>4, <2>5
<1>11. \A p \in 1 .. n : /\ heap'[p].min = heap[p].min /\ heap'[p].max = heap[p].max
                         /\ heap'[p].child = heap[p].child
                         /\ heap'[p].next = IF p = of[s] THEN n + 1 ELSE heap[p].next
  <2> TAKE p \in 1 .. n
  <2>1. heap'[p] = Linked(s)[p]
    BY <1>8
  <2> QED BY <1>6, <2>1
<1>12. heap' \in Seq([min : Octet, max : Int, child : Nat, next : Nat])
  BY <1>8 DEF R
<1> QED BY <1>1, <1>2, <1>4, <1>8, <1>9, <1>10, <1>11, <1>12, Zenon DEF Growth

LEMMA GrownLonger ==
  ASSUME TypeOK, Tree, NEW e \in Line, NextLine(e)
  PROVE  \E s, n, z : Growth(e, s, n, z) /\ Longer(s, n, z)
<1> PICK s, n, z : s = Shared(e) /\ n = Len(heap) /\ z = Len(paths)
  OBVIOUS
<1>0. Growth(e, s, n, z) /\ Index = 1 .. z /\ Index' = 1 .. z + 1 /\ of = paths[z]
  BY Grown
<1>1. /\ s \in 0 .. 3 /\ n \in Nat /\ z \in Nat \ {0} /\ Index = 1 .. z /\ Index' = 1 .. z + 1
      /\ \A i \in 1 .. z : paths'[i] = paths[i]
      /\ paths'[z + 1] = of' /\ of = paths[z]
      /\ of' = [l \in Position |-> IF l < s THEN of[l] ELSE n + 1 + l - s]
  BY <1>0, Zenon DEF Growth
<1>2. paths \in Seq([Position -> 1 .. n])
  BY DEF TypeOK
<1>3. \A i \in 1 .. z : paths[i] \in [Position -> 1 .. n]
  BY <1>2
<1>4. \A i \in 1 .. z, l \in Position : paths[i][l] \in 1 .. n
  BY <1>3
<1>5. z \in 1 .. z
  BY <1>1
<1>6. \A l \in Position : l < s => paths'[z + 1][l] = paths[z][l]
  BY <1>1
<1>7. \A l \in Position : l >= s => paths'[z + 1][l] = n + 1 + l - s
  BY <1>1 DEF Position
<1>8. ASSUME NEW l \in Position PROVE paths[z][l] <= paths'[z + 1][l] /\ paths'[z + 1][l] \in Nat
  <2>1. paths[z][l] \in 1 .. n /\ n \in Nat /\ s \in 0 .. 3 /\ l \in 0 .. 3
    BY <1>1, <1>4, <1>5 DEF Position
  <2>2. CASE l < s
    BY <1>6, <2>1, <2>2
  <2>3. CASE l >= s
    <3>1. paths'[z + 1][l] = n + 1 + l - s
      BY <1>7, <2>3
    <3> QED BY <2>1, <2>3, <3>1
  <2> QED BY <2>1, <2>2, <2>3
<1>9. Longer(s, n, z)
  BY <1>1, <1>4, <1>6, <1>7, <1>8 DEF Longer
<1> QED BY <1>0, <1>9

LEMMA LineNodes ==
  ASSUME TypeOK, Tree, NEW e \in Line, NextLine(e)
  PROVE  Nodes'
<1>0. PICK s, n, z : Growth(e, s, n, z) /\ Longer(s, n, z)
  BY GrownLonger
<1>1. /\ \A p \in 1 .. n : heap'[p].min = heap[p].min /\ heap'[p].max = heap[p].max
      /\ \A l \in s .. 3 : heap'[n + 1 + l - s] = IF l = 3 THEN Leaf(e)
                                                 ELSE Node(e.ip[l], e.ip[l], n + 2 + l - s)
      /\ \A i \in 1 .. z : lines'[i] = lines[i]
      /\ lines'[z + 1] = e
      /\ \A l \in 0 .. s - 1 : e.ip[l] = lines[z].ip[l]
  BY <1>0, Zenon DEF Growth
<1>2. /\ s \in 0 .. 3 /\ n \in Nat /\ z \in Nat \ {0}
      /\ Index = 1 .. z /\ Index' = 1 .. z + 1
      /\ \A i \in 1 .. z, l \in Position : paths'[i][l] = paths[i][l] /\ paths[i][l] \in 1 .. n
      /\ \A l \in Position : l < s => paths'[z + 1][l] = paths[z][l]
      /\ \A l \in Position : l >= s => paths'[z + 1][l] = n + 1 + l - s
  BY <1>0, Zenon DEF Longer
<1>3. Nodes
  BY DEF Tree
<1> SUFFICES ASSUME NEW i \in 1 .. z + 1
             PROVE  /\ \A l \in 0 .. 2 : /\ heap'[paths'[i][l]].min = lines'[i].ip[l]
                                         /\ heap'[paths'[i][l]].max = lines'[i].ip[l]
                    /\ heap'[paths'[i][3]].min = Leaf(lines'[i]).min
                    /\ heap'[paths'[i][3]].max = Leaf(lines'[i]).max
  BY <1>2 DEF Nodes, Leaf, Node, Wrapped, Width
<1>4. CASE i \in 1 .. z
  <2>1. \A l \in Position : /\ paths'[i][l] = paths[i][l]
                            /\ heap'[paths[i][l]].min = heap[paths[i][l]].min
                            /\ heap'[paths[i][l]].max = heap[paths[i][l]].max
    BY <1>1, <1>2, <1>4
  <2>2. lines'[i] = lines[i]
    BY <1>1, <1>4
  <2>3. /\ \A l \in 0 .. 2 : /\ heap[paths[i][l]].min = lines[i].ip[l]
                             /\ heap[paths[i][l]].max = lines[i].ip[l]
        /\ heap[paths[i][3]].min = Leaf(lines[i]).min
        /\ heap[paths[i][3]].max = Leaf(lines[i]).max
    BY <1>2, <1>3, <1>4 DEF Nodes
  <2>4. 3 \in Position /\ \A l \in 0 .. 2 : l \in Position
    BY DEF Position
  <2> QED BY <2>1, <2>2, <2>3, <2>4
<1>5. CASE i = z + 1
  <2>1. lines'[i] = e
    BY <1>1, <1>5
  <2>2. ASSUME NEW l \in 0 .. 2
        PROVE  heap'[paths'[i][l]].min = e.ip[l] /\ heap'[paths'[i][l]].max = e.ip[l]
    <3>1. CASE l < s
      <4>1. l \in Position /\ z \in 1 .. z /\ l \in 0 .. s - 1
        BY <1>2, <3>1 DEF Position
      <4>2. paths'[i][l] = paths[z][l] /\ paths[z][l] \in 1 .. n
        BY <1>2, <1>5, <3>1, <4>1
      <4>3. heap[paths[z][l]].min = lines[z].ip[l] /\ heap[paths[z][l]].max = lines[z].ip[l]
        BY <1>2, <1>3, <4>1 DEF Nodes
      <4> QED BY <1>1, <4>1, <4>2, <4>3
    <3>2. CASE l >= s
      <4>1. l \in Position /\ l \in s .. 3 /\ l # 3
        BY <1>2, <3>2 DEF Position
      <4>2. paths'[i][l] = n + 1 + l - s
        BY <1>2, <1>5, <3>2, <4>1
      <4>3. heap'[n + 1 + l - s] = Node(e.ip[l], e.ip[l], n + 2 + l - s)
        BY <1>1, <4>1, Zenon
      <4> QED BY <4>2, <4>3 DEF Node
    <3> QED BY <1>2, <3>1, <3>2
  <2>3. heap'[paths'[i][3]] = Leaf(e)
    <3>1. 3 \in Position /\ 3 >= s /\ 3 \in s .. 3
      BY <1>2 DEF Position
    <3>2. paths'[i][3] = n + 1 + 3 - s
      BY <1>2, <1>5, <3>1
    <3> QED BY <1>1, <3>1, <3>2
  <2> QED BY <2>1, <2>2, <2>3
<1> QED BY <1>2, <1>4, <1>5

LEMMA LineChildren ==
  ASSUME TypeOK, Tree, NEW e \in Line, NextLine(e)
  PROVE  Children'
<1>0. PICK s, n, z : Growth(e, s, n, z) /\ Longer(s, n, z)
  BY GrownLonger
<1>1. /\ \A p \in 1 .. n : heap'[p].child = heap[p].child
      /\ \A l \in s .. 3 : heap'[n + 1 + l - s] = IF l = 3 THEN Leaf(e)
                                                 ELSE Node(e.ip[l], e.ip[l], n + 2 + l - s)
  BY <1>0, Zenon DEF Growth
<1>2. /\ s \in 0 .. 3 /\ n \in Nat /\ z \in Nat \ {0}
      /\ Index = 1 .. z /\ Index' = 1 .. z + 1
      /\ \A i \in 1 .. z, l \in Position : paths'[i][l] = paths[i][l] /\ paths[i][l] \in 1 .. n
      /\ \A l \in Position : l < s => paths'[z + 1][l] = paths[z][l]
      /\ \A l \in Position : l >= s => paths'[z + 1][l] = n + 1 + l - s
      /\ \A l \in Position : paths[z][l] <= paths'[z + 1][l] /\ paths'[z + 1][l] \in Nat
  BY <1>0, Zenon DEF Longer
<1>3. \A i \in 1 .. z, l \in 0 .. 2 :
        /\ heap[paths[i][l]].child <= paths[i][l + 1]
        /\ \E k \in 1 .. z : /\ heap[paths[i][l]].child = paths[k][l + 1]
                             /\ \A m \in 0 .. (l + 1) - 1 : paths[k][m] = paths[i][m]
  BY <1>2 DEF Tree, Children, Above
<1> SUFFICES ASSUME NEW i \in 1 .. z + 1, NEW l \in 0 .. 2
             PROVE  /\ heap'[paths'[i][l]].child <= paths'[i][l + 1]
                    /\ \E k \in 1 .. z + 1 :
                         /\ heap'[paths'[i][l]].child = paths'[k][l + 1]
                         /\ \A m \in 0 .. (l + 1) - 1 : paths'[k][m] = paths'[i][m]
  BY <1>2 DEF Children, Above
<1>4. l \in Position /\ l + 1 \in Position /\ \A m \in 0 .. (l + 1) - 1 : m \in Position /\ m <= l
  BY DEF Position
<1>5. CASE i \in 1 .. z
  <2>1. heap'[paths'[i][l]].child = heap[paths[i][l]].child /\ paths'[i][l + 1] = paths[i][l + 1]
    BY <1>1, <1>2, <1>4, <1>5
  <2>2. PICK k \in 1 .. z : /\ heap[paths[i][l]].child = paths[k][l + 1]
                            /\ \A m \in 0 .. (l + 1) - 1 : paths[k][m] = paths[i][m]
    BY <1>3, <1>5
  <2>3. k \in 1 .. z + 1 /\ paths'[k][l + 1] = paths[k][l + 1]
    BY <1>2, <1>4
  <2>4. \A m \in 0 .. (l + 1) - 1 : paths'[k][m] = paths'[i][m]
    BY <1>2, <1>4, <1>5, <2>2
  <2> QED BY <1>3, <1>5, <2>1, <2>2, <2>3, <2>4
<1>6. CASE i = z + 1 /\ l < s
  <2>1. z \in 1 .. z
    BY <1>2
  <2>2. heap'[paths'[i][l]].child = heap[paths[z][l]].child
    BY <1>1, <1>2, <1>4, <1>6, <2>1
  <2>3. PICK k \in 1 .. z : /\ heap[paths[z][l]].child = paths[k][l + 1]
                            /\ \A m \in 0 .. (l + 1) - 1 : paths[k][m] = paths[z][m]
    BY <1>3, <2>1
  <2>4. k \in 1 .. z + 1 /\ paths'[k][l + 1] = paths[k][l + 1]
    BY <1>2, <1>4
  <2>5. ASSUME NEW m \in 0 .. (l + 1) - 1 PROVE paths'[k][m] = paths'[i][m]
    <3>1. m \in Position /\ m < s
      BY <1>2, <1>4, <1>6
    <3> QED BY <1>2, <1>6, <2>3, <3>1
  <2>6. heap'[paths'[i][l]].child <= paths'[i][l + 1]
    <3>1. heap[paths[z][l]].child <= paths[z][l + 1] /\ paths[z][l + 1] <= paths'[z + 1][l + 1]
      BY <1>2, <1>3, <1>4, <2>1
    <3>2. paths[k][l + 1] \in Nat /\ paths[z][l + 1] \in Nat /\ paths'[z + 1][l + 1] \in Nat
      BY <1>2, <1>4, <2>1
    <3> QED BY <1>6, <2>2, <2>3, <3>1, <3>2
  <2> QED BY <2>2, <2>3, <2>4, <2>5, <2>6
<1>7. CASE i = z + 1 /\ l >= s
  <2>1. l \in s .. 3 /\ l # 3 /\ l + 1 >= s
    BY <1>2, <1>7
  <2>2. paths'[i][l] = n + 1 + l - s /\ paths'[i][l + 1] = n + 1 + (l + 1) - s
    BY <1>2, <1>4, <1>7, <2>1
  <2>3. heap'[paths'[i][l]].child = n + 2 + l - s
    <3>1. heap'[n + 1 + l - s] = Node(e.ip[l], e.ip[l], n + 2 + l - s)
      BY <1>1, <2>1, Zenon
    <3> QED BY <2>2, <3>1 DEF Node
  <2>4. n + 2 + l - s = n + 1 + (l + 1) - s /\ n + 2 + l - s \in Int /\ z + 1 \in 1 .. z + 1
    BY <1>2
  <2> QED BY <1>7, <2>2, <2>3, <2>4
<1> QED BY <1>2, <1>5, <1>6, <1>7

\* Where the lines meet after a later line.
LEMMA LineOrdered ==
  ASSUME TypeOK, Tree, NEW e \in Line, NextLine(e)
  PROVE  Ordered'
<1>0. PICK s, n, z : Growth(e, s, n, z) /\ Longer(s, n, z)
  BY GrownLonger
<1>1. /\ s \in 0 .. 3 /\ n \in Nat /\ z \in Nat \ {0}
      /\ Index = 1 .. z /\ Index' = 1 .. z + 1
  BY <1>0, Zenon DEF Longer
<1>2. /\ \A i \in 1 .. z, l \in Position : paths'[i][l] = paths[i][l] /\ paths[i][l] \in 1 .. n
      /\ \A l \in Position : l < s => paths'[z + 1][l] = paths[z][l]
      /\ \A l \in Position : l >= s => paths'[z + 1][l] = n + 1 + l - s
      /\ \A l \in Position : paths[z][l] <= paths'[z + 1][l] /\ paths'[z + 1][l] \in Nat
  BY <1>0, Zenon DEF Longer
<1>3. /\ \A i \in 1 .. z, l \in 0 .. 2 : paths[i][l] < paths[i][l + 1]
      /\ \A i, k \in 1 .. z, l \in Position : i <= k => paths[i][l] <= paths[k][l]
      /\ \A i, k \in 1 .. z, l \in Position :
           paths[i][l] = paths[k][l] => \A m \in 0 .. l - 1 : paths[i][m] = paths[k][m]
      /\ \A i, k \in 1 .. z, l, m \in Position : l # m => paths[i][l] # paths[k][m]
  BY <1>1, Zenon DEF Tree, Ordered, Above
<1>4. z \in 1 .. z /\ z + 1 \in 1 .. z + 1 /\ \A i \in 1 .. z + 1 : i \in 1 .. z \/ i = z + 1
  BY <1>1
<1>5. \A l \in Position : paths'[z + 1][l] \in Nat /\ (l >= s => paths'[z + 1][l] > n)
  <2> TAKE l \in Position
  <2>1. l \in 0 .. 3
    BY DEF Position
  <2> QED BY <1>1, <1>2, <2>1
<1>6. ASSUME NEW i \in 1 .. z + 1, NEW l \in 0 .. 2 PROVE paths'[i][l] < paths'[i][l + 1]
  <2>1. l \in Position /\ l + 1 \in Position
    BY DEF Position
  <2>2. CASE i \in 1 .. z
    BY <1>2, <1>3, <2>1, <2>2
  <2>3. CASE i = z + 1 /\ l + 1 < s
    <3>1. paths'[i][l] = paths[z][l] /\ paths'[i][l + 1] = paths[z][l + 1]
      BY <1>1, <1>2, <2>1, <2>3
    <3> QED BY <1>3, <1>4, <3>1
  <2>4. CASE i = z + 1 /\ l < s /\ l + 1 >= s
    <3>1. paths'[i][l] \in 1 .. n /\ paths'[i][l + 1] \in Nat /\ paths'[i][l + 1] > n
      BY <1>1, <1>2, <1>4, <1>5, <2>1, <2>4
    <3> QED BY <1>1, <3>1
  <2>5. CASE i = z + 1 /\ l >= s
    <3>1. paths'[i][l] = n + 1 + l - s /\ paths'[i][l + 1] = n + 1 + (l + 1) - s
      BY <1>1, <1>2, <2>1, <2>5
    <3> QED BY <1>1, <3>1
  <2> QED BY <1>1, <1>4, <2>2, <2>3, <2>4, <2>5
<1>7. ASSUME NEW i \in 1 .. z + 1, NEW k \in 1 .. z + 1, NEW l \in Position, i <= k
      PROVE  paths'[i][l] <= paths'[k][l]
  <2>1. CASE k \in 1 .. z
    <3>1. i \in 1 .. z
      BY <1>1, <1>7, <2>1
    <3>2. paths[i][l] <= paths[k][l]
      BY <1>3, <1>7, <2>1, <3>1
    <3> QED BY <1>2, <2>1, <3>1, <3>2
  <2>2. CASE i \in 1 .. z /\ k = z + 1
    <3>1. i <= z
      BY <1>1, <2>2
    <3>2. paths[i][l] <= paths[z][l] /\ paths[z][l] <= paths'[k][l]
      BY <1>2, <1>3, <1>4, <2>2, <3>1
    <3>3. paths[i][l] \in Nat /\ paths[z][l] \in Nat /\ paths'[k][l] \in Nat
      BY <1>1, <1>2, <1>4, <2>2
    <3>4. paths'[i][l] = paths[i][l]
      BY <1>2, <2>2
    <3> QED BY <3>2, <3>3, <3>4
  <2>3. CASE i = z + 1 /\ k = z + 1
    BY <1>5, <2>3
  <2>4. ~(i = z + 1 /\ k \in 1 .. z)
    BY <1>1, <1>7
  <2> QED BY <1>4, <2>1, <2>2, <2>3, <2>4
<1>8. ASSUME NEW i \in 1 .. z, NEW l \in Position, paths'[i][l] = paths'[z + 1][l]
      PROVE  \A m \in 0 .. l - 1 : paths'[i][m] = paths'[z + 1][m]
  <2>1. l < s
    <3>1. paths'[i][l] \in 1 .. n
      BY <1>2
    <3>2. CASE l >= s
      BY <1>1, <1>5, <1>8, <3>1, <3>2
    <3> QED BY <1>1, <3>2 DEF Position
  <2>2. paths[i][l] = paths[z][l]
    BY <1>2, <1>8, <2>1
  <2> TAKE m \in 0 .. l - 1
  <2>3. m \in Position /\ m < s /\ m \in 0 .. l - 1
    BY <1>1, <2>1 DEF Position
  <2>4. paths[i][m] = paths[z][m]
    BY <1>3, <1>4, <2>2, <2>3
  <2> QED BY <1>2, <2>3, <2>4
<1>9. ASSUME NEW i \in 1 .. z + 1, NEW k \in 1 .. z + 1, NEW l \in Position,
             paths'[i][l] = paths'[k][l]
      PROVE  \A m \in 0 .. l - 1 : paths'[i][m] = paths'[k][m]
  <2>1. CASE i \in 1 .. z /\ k \in 1 .. z
    <3>1. paths[i][l] = paths[k][l]
      BY <1>2, <1>9, <2>1
    <3>2. \A m \in 0 .. l - 1 : paths[i][m] = paths[k][m]
      BY <1>3, <2>1, <3>1
    <3>3. \A m \in 0 .. l - 1 : m \in Position
      BY DEF Position
    <3> QED BY <1>2, <2>1, <3>2, <3>3
  <2>2. CASE i \in 1 .. z /\ k = z + 1
    BY <1>8, <1>9, <2>2
  <2>3. CASE i = z + 1 /\ k \in 1 .. z
    BY <1>8, <1>9, <2>3
  <2>4. CASE i = z + 1 /\ k = z + 1
    BY <2>4
  <2> QED BY <1>4, <2>1, <2>2, <2>3, <2>4
<1>10. ASSUME NEW i \in 1 .. z, NEW l \in Position, NEW m \in Position, l # m
       PROVE  paths'[i][l] # paths'[z + 1][m]
  <2>1. CASE m < s
    BY <1>2, <1>3, <1>4, <1>10, <2>1
  <2>2. CASE m >= s
    <3>1. paths'[i][l] \in 1 .. n /\ paths'[z + 1][m] > n /\ paths'[z + 1][m] \in Nat
      BY <1>2, <1>5, <2>2
    <3> QED BY <1>1, <3>1
  <2> QED BY <1>1, <2>1, <2>2 DEF Position
<1>11. ASSUME NEW i \in 1 .. z + 1, NEW k \in 1 .. z + 1, NEW l \in Position, NEW m \in Position,
              l # m
       PROVE  paths'[i][l] # paths'[k][m]
  <2>1. CASE i \in 1 .. z /\ k \in 1 .. z
    BY <1>2, <1>3, <1>11, <2>1
  <2>2. CASE i \in 1 .. z /\ k = z + 1
    BY <1>10, <1>11, <2>2
  <2>3. CASE i = z + 1 /\ k \in 1 .. z
    BY <1>10, <1>11, <2>3
  <2>4. CASE i = z + 1 /\ k = z + 1
    <3>1. l \in {0, 1, 2, 3} /\ m \in {0, 1, 2, 3}
      BY DEF Position
    <3>2. \A x \in Position : paths'[z + 1][x] \in Nat
      BY <1>5
    <3>3. /\ paths'[z + 1][0] < paths'[z + 1][1]
          /\ paths'[z + 1][1] < paths'[z + 1][2]
          /\ paths'[z + 1][2] < paths'[z + 1][3]
      <4>1. /\ paths'[z + 1][0] < paths'[z + 1][0 + 1]
            /\ paths'[z + 1][1] < paths'[z + 1][1 + 1]
            /\ paths'[z + 1][2] < paths'[z + 1][2 + 1]
        BY <1>4, <1>6
      <4> QED BY <4>1
    <3> QED BY <1>11, <2>4, <3>1, <3>2, <3>3 DEF Position
  <2> QED BY <1>4, <2>1, <2>2, <2>3, <2>4
<1> QED BY <1>1, <1>6, <1>7, <1>9, <1>11, Zenon DEF Ordered, Above

\* The nodes of the newest line have no next.
LEMMA LastNodes ==
  ASSUME TypeOK, Tree, NEW e \in Line, NEW s, NEW n, NEW z, Growth(e, s, n, z), Longer(s, n, z),
         NEW l \in Position
  PROVE  heap'[paths'[z + 1][l]].next = 0
<1>1. /\ s \in 0 .. 3 /\ n \in Nat /\ z \in Nat \ {0} /\ Index = 1 .. z
      /\ \A i \in 1 .. z, m \in Position : paths'[i][m] = paths[i][m] /\ paths[i][m] \in 1 .. n
      /\ \A m \in Position : m < s => paths'[z + 1][m] = paths[z][m]
      /\ \A m \in Position : m >= s => paths'[z + 1][m] = n + 1 + m - s
      /\ \A m \in Position : of[m] = paths[z][m]
      /\ z = Len(paths)
  BY Zenon DEF Longer
<1>2. /\ \A p \in 1 .. n : heap'[p].next = IF p = of[s] THEN n + 1 ELSE heap[p].next
      /\ \A m \in s .. 3 : heap'[n + 1 + m - s] = IF m = 3 THEN Leaf(e)
                                                 ELSE Node(e.ip[m], e.ip[m], n + 2 + m - s)
  BY Zenon DEF Growth
<1>3. z \in 1 .. z /\ s \in Position /\ l \in 0 .. 3
  BY <1>1 DEF Position
<1>4. CASE l < s
  <2>1. paths'[z + 1][l] = of[l] /\ of[l] \in 1 .. n
    BY <1>1, <1>3, <1>4
  <2>2. of[l] # of[s]
    <3>1. \A i, k \in 1 .. z, x, y \in Position : x # y => paths[i][x] # paths[k][y]
      BY <1>1, ZenonT(60) DEF Tree, Ordered
    <3> QED BY <1>1, <1>3, <1>4, <3>1
  <2>3. heap[of[l]].next = 0
    <3>1. lines # <<>>
      BY <1>1 DEF Tree, Ends, TypeOK
    <3> QED BY <3>1 DEF Tree, Ends
  <2> QED BY <1>2, <2>1, <2>2, <2>3
<1>5. CASE l >= s
  <2>1. paths'[z + 1][l] = n + 1 + l - s /\ l \in s .. 3
    BY <1>1, <1>3, <1>5
  <2>2. CASE l = 3
    <3>1. heap'[n + 1 + l - s] = Leaf(e)
      BY <1>2, <2>1, <2>2, Zenon
    <3> QED BY <2>1, <3>1, LeafType
  <2>3. CASE l # 3
    <3>1. heap'[n + 1 + l - s] = Node(e.ip[l], e.ip[l], n + 2 + l - s)
      BY <1>2, <2>1, <2>3, Zenon
    <3> QED BY <2>1, <3>1 DEF Node
  <2> QED BY <2>2, <2>3
<1> QED BY <1>1, <1>3, <1>4, <1>5

LEMMA LineSiblings ==
  ASSUME TypeOK, Tree, NEW e \in Line, NextLine(e)
  PROVE  Siblings'
<1>0. PICK s, n, z : Growth(e, s, n, z) /\ Longer(s, n, z)
  BY GrownLonger
<1>1. /\ s \in 0 .. 3 /\ n \in Nat /\ z \in Nat \ {0} /\ Index = 1 .. z /\ Index' = 1 .. z + 1
      /\ \A i \in 1 .. z, l \in Position : paths'[i][l] = paths[i][l] /\ paths[i][l] \in 1 .. n
      /\ \A l \in Position : l < s => paths'[z + 1][l] = paths[z][l]
      /\ \A l \in Position : l >= s => paths'[z + 1][l] = n + 1 + l - s
      /\ \A l \in Position : of[l] = paths[z][l]
  BY <1>0, Zenon DEF Longer
<1>2. \A p \in 1 .. n : heap'[p].next = IF p = of[s] THEN n + 1 ELSE heap[p].next
  BY <1>0, Zenon DEF Growth
<1>3. z \in 1 .. z /\ z + 1 \in 1 .. z + 1 /\ s \in Position
      /\ \A i \in 1 .. z + 1 : i \in 1 .. z \/ i = z + 1
  BY <1>1 DEF Position
<1>4. \A l \in Position : heap'[paths'[z + 1][l]].next = 0
  BY <1>0, LastNodes
<1>5. \A i \in 1 .. z, l \in Position : heap[paths[i][l]].next # 0 =>
        /\ \E k \in 1 .. z : /\ heap[paths[i][l]].next = paths[k][l]
                             /\ \A m \in 0 .. l - 1 : paths[k][m] = paths[i][m]
        /\ \A m \in l .. 3 : paths[i][m] < heap[paths[i][l]].next
  BY <1>1, ZenonT(60) DEF Tree, Siblings, Above
<1>6. \A l \in Position : (\A m \in l .. 3 : m \in Position) /\ \A m \in 0 .. l - 1 : m \in Position
  BY DEF Position
<1> SUFFICES ASSUME NEW i \in 1 .. z + 1, NEW l \in Position, heap'[paths'[i][l]].next # 0
             PROVE  /\ \E k \in 1 .. z + 1 : /\ heap'[paths'[i][l]].next = paths'[k][l]
                                             /\ \A m \in 0 .. l - 1 : paths'[k][m] = paths'[i][m]
                    /\ \A m \in l .. 3 : paths'[i][m] < heap'[paths'[i][l]].next
  BY <1>1, Zenon DEF Siblings, Above
<1>7. i \in 1 .. z
  BY <1>3, <1>4
<1>8. paths'[i][l] = paths[i][l] /\ paths[i][l] \in 1 .. n
  BY <1>1, <1>7
<1>9. CASE paths[i][l] # of[s]
  <2>1. heap'[paths'[i][l]].next = heap[paths[i][l]].next
    BY <1>2, <1>8, <1>9
  <2>2. PICK k \in 1 .. z : /\ heap[paths[i][l]].next = paths[k][l]
                            /\ \A m \in 0 .. l - 1 : paths[k][m] = paths[i][m]
    BY <1>5, <1>7, <2>1
  <2>3. \A m \in l .. 3 : paths'[i][m] < heap'[paths'[i][l]].next
    BY <1>1, <1>5, <1>6, <1>7, <2>1
  <2>4. paths'[k][l] = paths[k][l] /\ \A m \in 0 .. l - 1 : paths'[k][m] = paths'[i][m]
    BY <1>1, <1>6, <1>7, <2>2
  <2>5. k \in 1 .. z + 1
    BY <1>1
  <2> QED BY <2>1, <2>2, <2>3, <2>4, <2>5
<1>10. CASE paths[i][l] = of[s]
  <2>1. l = s
    <3>1. \A a, b \in 1 .. z, x, y \in Position : x # y => paths[a][x] # paths[b][y]
      BY <1>1, Zenon DEF Tree, Ordered
    <3>2. of[s] = paths[z][s]
      BY <1>1, <1>3
    <3> QED BY <1>3, <1>7, <1>10, <3>1, <3>2, Zenon
  <2>2. heap'[paths'[i][l]].next = n + 1 /\ paths'[z + 1][l] = n + 1
    BY <1>1, <1>2, <1>3, <1>8, <1>10, <2>1
  <2>3. \A m \in 0 .. l - 1 : paths[i][m] = paths[z][m]
    <3>1. \A a, b \in 1 .. z, x \in Position : paths[a][x] = paths[b][x] =>
            \A m \in 0 .. x - 1 : paths[a][m] = paths[b][m]
      BY <1>1, Zenon DEF Tree, Ordered, Above
    <3>2. paths[i][l] = paths[z][l]
      BY <1>1, <1>10, <2>1
    <3> QED BY <1>3, <1>7, <3>1, <3>2
  <2>4. ASSUME NEW m \in 0 .. l - 1 PROVE paths'[z + 1][m] = paths'[i][m]
    <3>1. m \in Position /\ m < s
      BY <1>1, <1>6, <2>1
    <3> QED BY <1>1, <1>7, <2>3, <3>1
  <2>5. ASSUME NEW m \in l .. 3 PROVE paths'[i][m] < n + 1
    <3>1. paths'[i][m] \in 1 .. n
      BY <1>1, <1>6, <1>7
    <3> QED BY <1>1, <3>1
  <2> QED BY <1>3, <2>2, <2>4, <2>5
<1> QED BY <1>9, <1>10

LEMMA LineNoneSkipped ==
  ASSUME TypeOK, Tree, NEW e \in Line, NextLine(e)
  PROVE  NoneSkipped'
<1>0. PICK s, n, z : Growth(e, s, n, z) /\ Longer(s, n, z)
  BY GrownLonger
<1>1. /\ s \in 0 .. 3 /\ n \in Nat /\ z \in Nat \ {0} /\ Index = 1 .. z /\ Index' = 1 .. z + 1
      /\ \A i \in 1 .. z, l \in Position : paths'[i][l] = paths[i][l] /\ paths[i][l] \in 1 .. n
      /\ \A l \in Position : l < s => paths'[z + 1][l] = paths[z][l]
      /\ \A l \in Position : l >= s => paths'[z + 1][l] = n + 1 + l - s
      /\ \A l \in Position : paths[z][l] <= paths'[z + 1][l] /\ paths'[z + 1][l] \in Nat
      /\ \A l \in Position : of[l] = paths[z][l]
  BY <1>0, Zenon DEF Longer
<1>2. \A p \in 1 .. n : heap'[p].next = IF p = of[s] THEN n + 1 ELSE heap[p].next
  BY <1>0, Zenon DEF Growth
<1>3. z \in 1 .. z /\ z + 1 \in 1 .. z + 1 /\ s \in Position
      /\ \A i \in 1 .. z + 1 : i \in 1 .. z \/ i = z + 1
  BY <1>1 DEF Position
<1>4. \A i, t \in 1 .. z, l \in Position :
        (\A m \in 0 .. l - 1 : paths[i][m] = paths[t][m]) /\ paths[i][l] < paths[t][l] =>
          heap[paths[i][l]].next # 0 /\ heap[paths[i][l]].next <= paths[t][l]
  BY <1>1, Zenon DEF Tree, NoneSkipped, Above
<1>5. /\ \A a, b \in 1 .. z, x, y \in Position : x # y => paths[a][x] # paths[b][y]
      /\ \A i, k \in 1 .. z, l \in Position : i <= k => paths[i][l] <= paths[k][l]
  BY <1>1, Zenon DEF Tree, Ordered
<1>6. \A l \in Position : \A m \in 0 .. l - 1 : m \in Position
  BY DEF Position
<1>7. \A i \in 1 .. z, l \in Position : paths[i][l] <= paths[z][l]
  <2> TAKE i \in 1 .. z, l \in Position
  <2>1. i <= z
    BY <1>1
  <2> QED BY <1>3, <1>5, <2>1
<1> SUFFICES ASSUME NEW i \in 1 .. z + 1, NEW t \in 1 .. z + 1, NEW l \in Position,
                    \A m \in 0 .. l - 1 : paths'[i][m] = paths'[t][m],
                    paths'[i][l] < paths'[t][l]
             PROVE  heap'[paths'[i][l]].next # 0 /\ heap'[paths'[i][l]].next <= paths'[t][l]
  BY <1>1, Zenon DEF NoneSkipped, Above
<1>8. i \in 1 .. z
  <2>1. SUFFICES ASSUME i = z + 1 PROVE FALSE
    BY <1>3
  <2>2. CASE t \in 1 .. z
    <3>1. /\ paths'[t][l] = paths[t][l] /\ paths[t][l] <= paths[z][l]
          /\ paths[z][l] <= paths'[i][l]
      BY <1>1, <1>7, <2>1, <2>2
    <3>2. paths[t][l] \in Nat /\ paths[z][l] \in Nat /\ paths'[i][l] \in Nat
      BY <1>1, <1>3, <2>1, <2>2
    <3> QED BY <3>1, <3>2
  <2>3. CASE t = z + 1
    BY <1>1, <2>1, <2>3
  <2> QED BY <1>3, <2>2, <2>3
<1>9. /\ paths'[i][l] = paths[i][l] /\ paths[i][l] \in 1 .. n
      /\ \A m \in 0 .. l - 1 : paths'[i][m] = paths[i][m]
  BY <1>1, <1>6, <1>8
<1>10. CASE t \in 1 .. z
  <2>1. paths'[t][l] = paths[t][l] /\ \A m \in 0 .. l - 1 : paths[i][m] = paths[t][m]
    BY <1>1, <1>6, <1>8, <1>9, <1>10
  <2>2. heap[paths[i][l]].next # 0 /\ heap[paths[i][l]].next <= paths[t][l]
    BY <1>4, <1>8, <1>9, <1>10, <2>1
  <2>3. paths[i][l] # of[s]
    <3>1. SUFFICES ASSUME paths[i][l] = of[s] PROVE FALSE
      OBVIOUS
    <3>2. l = s
      BY <1>1, <1>3, <1>5, <1>8, <3>1
    <3>3. paths[i][l] = paths[z][l] /\ paths[t][l] <= paths[z][l]
      BY <1>1, <1>7, <1>10, <3>1, <3>2
    <3>4. paths[i][l] \in Nat /\ paths[t][l] \in Nat
      BY <1>1, <1>8, <1>10
    <3> QED BY <1>9, <2>1, <3>3, <3>4
  <2> QED BY <1>2, <1>9, <2>1, <2>2, <2>3
<1>11. CASE t = z + 1 /\ l > s
  <2>1. s \in 0 .. l - 1
    BY <1>1, <1>11 DEF Position
  <2>2. paths[i][s] = n + 1 + s - s
    BY <1>1, <1>3, <1>9, <1>11, <2>1
  <2>3. paths[i][s] \in 1 .. n
    BY <1>1, <1>3, <1>8
  <2> QED BY <1>1, <2>2, <2>3
<1>12. CASE t = z + 1 /\ l <= s
  <2>1. \A m \in 0 .. l - 1 : paths[i][m] = paths[z][m]
    <3> TAKE m \in 0 .. l - 1
    <3>1. m \in Position /\ m < s /\ m \in 0 .. l - 1
      BY <1>1, <1>12 DEF Position
    <3> QED BY <1>1, <1>9, <1>12, <3>1
  <2>2. paths[z][l] <= paths'[t][l] /\ paths[z][l] \in Nat /\ paths'[t][l] \in Nat
    BY <1>1, <1>3, <1>12
  <2>3. CASE paths[i][l] < paths[z][l]
    <3>1. heap[paths[i][l]].next # 0 /\ heap[paths[i][l]].next <= paths[z][l]
      BY <1>3, <1>4, <1>8, <2>1, <2>3
    <3>2. paths[i][l] # of[s]
      <4>1. CASE l = s
        BY <1>1, <1>9, <2>2, <2>3, <4>1
      <4>2. CASE l # s
        BY <1>1, <1>3, <1>5, <1>8, <4>2
      <4> QED BY <4>1, <4>2
    <3>3. heap'[paths'[i][l]].next = heap[paths[i][l]].next
      BY <1>2, <1>9, <3>2
    <3>4. heap[paths[i][l]].next \in Nat
      <4>1. n = Len(heap)
        BY <1>0 DEF Longer
      <4> QED BY <1>9, <4>1, HeapType
    <3> QED BY <2>2, <3>1, <3>3, <3>4
  <2>4. CASE paths[i][l] = paths[z][l]
    <3>1. l = s
      <4>1. CASE l < s
        BY <1>1, <1>9, <1>12, <2>2, <2>4, <4>1
      <4> QED BY <1>1, <1>12, <4>1 DEF Position
    <3>2. heap'[paths'[i][l]].next = n + 1 /\ paths'[t][l] = n + 1
      BY <1>1, <1>2, <1>9, <1>12, <2>4, <3>1
    <3> QED BY <1>1, <3>2
  <2>5. paths[i][l] <= paths[z][l] /\ paths[i][l] \in Nat
    BY <1>1, <1>7, <1>8
  <2> QED BY <2>2, <2>3, <2>4, <2>5
<1> QED BY <1>1, <1>3, <1>10, <1>11, <1>12 DEF Position

LEMMA LineEnds ==
  ASSUME TypeOK, Tree, NEW e \in Line, NextLine(e)
  PROVE  Ends'
<1>0. PICK s, n, z : Growth(e, s, n, z) /\ Longer(s, n, z)
  BY GrownLonger
<1>1. /\ s \in 0 .. 3 /\ n \in Nat /\ z \in Nat \ {0} /\ z = Len(paths)
      /\ \A i \in 1 .. z, l \in Position : paths'[i][l] = paths[i][l] /\ paths[i][l] \in 1 .. n
  BY <1>0, Zenon DEF Longer
<1>2. /\ Len(paths') = z + 1 /\ Len(lines') = z + 1 /\ paths'[z + 1] = of' /\ lines' # <<>>
      /\ pc' = pc /\ pc = "read" /\ head' = head
  BY <1>0, Zenon DEF Growth
<1>3. \A l \in Position : heap'[of'[l]].next = 0
  <2>1. \A l \in Position : heap'[paths'[z + 1][l]].next = 0
    BY <1>0, LastNodes
  <2> QED BY <1>2, <2>1
<1>4. lines # <<>>
  BY DEF NextLine
<1>5. head = 1 /\ paths[1][0] = 1
  BY <1>4 DEF Tree, Ends
<1>6. paths'[1][0] = 1
  BY <1>1, <1>5 DEF Position
<1> QED BY <1>2, <1>3, <1>5, <1>6 DEF Ends

LEMMA LineTree ==
  ASSUME TypeOK, Tree, NEW e \in Line, NextLine(e)
  PROVE  Tree'
BY LineNodes, LineChildren, LineSiblings, LineNoneSkipped, LineOrdered, LineEnds DEF Tree

\* A heap of nodes whose references stay within it.
LEMMA HeapInside ==
  ASSUME NEW h, h \in Seq([min : Octet, max : Int, child : Nat, next : Nat]),
         \A p \in 1 .. Len(h) : h[p].child <= Len(h) /\ h[p].next <= Len(h)
  PROVE  h \in Seq([min : Octet, max : Int, child : 0 .. Len(h), next : 0 .. Len(h)])
<1> DEFINE R == [min : Octet, max : Int, child : Nat, next : Nat]
           Q == [min : Octet, max : Int, child : 0 .. Len(h), next : 0 .. Len(h)]
<1>1. h \in Seq(R) /\ Len(h) \in Nat
  <2> HIDE DEF R
  <2>1. h \in Seq(R)
    BY DEF R
  <2> QED BY <2>1
<1>2. ASSUME NEW p \in 1 .. Len(h) PROVE h[p] \in Q
  <2>1. h[p] \in R
    <3> HIDE DEF R
    <3> QED BY <1>1
  <2>2. h[p].child \in 0 .. Len(h) /\ h[p].next \in 0 .. Len(h)
    BY <1>1, <2>1
  <2> QED BY <2>1, <2>2
<1> HIDE DEF R, Q
<1>3. h = [p \in 1 .. Len(h) |-> h[p]]
  BY <1>1
<1>4. h \in Seq(Q)
  BY <1>1, <1>2, <1>3
<1> QED BY <1>4 DEF Q

LEMMA LineType ==
  ASSUME TypeOK, Tree, NEW e \in Line, NextLine(e)
  PROVE  TypeOK'
<1>0. PICK s, n, z : Growth(e, s, n, z) /\ Longer(s, n, z)
  BY GrownLonger
<1>1. /\ s \in 0 .. 3 /\ n \in Nat /\ z \in Nat \ {0} /\ n = Len(heap) /\ z = Len(paths)
      /\ \A i \in 1 .. z, l \in Position : paths'[i][l] = paths[i][l] /\ paths[i][l] \in 1 .. n
      /\ \A l \in Position : l < s => paths'[z + 1][l] = paths[z][l]
      /\ \A l \in Position : l >= s => paths'[z + 1][l] = n + 1 + l - s
  BY <1>0, Zenon DEF Longer
<1>2. /\ Len(heap') = n + 4 - s
      /\ \A p \in 1 .. n : heap'[p].child = heap[p].child
      /\ \A p \in 1 .. n : heap'[p].next = IF p = of[s] THEN n + 1 ELSE heap[p].next
      /\ \A l \in s .. 3 : heap'[n + 1 + l - s] = IF l = 3 THEN Leaf(e)
                                                 ELSE Node(e.ip[l], e.ip[l], n + 2 + l - s)
      /\ heap' \in Seq([min : Octet, max : Int, child : Nat, next : Nat])
      /\ of' = [l \in Position |-> IF l < s THEN of[l] ELSE n + 1 + l - s]
      /\ paths'[z + 1] = of' /\ pc' = pc /\ head' = head
  BY <1>0, Zenon DEF Growth
<1>3. Len(heap') \in Nat /\ n < Len(heap')
  <2>1. Len(heap') = n + 4 - s /\ s \in 0 .. 3 /\ n \in Nat
    BY <1>1, <1>2
  <2> QED BY <2>1
<1>4. ASSUME NEW p \in 1 .. Len(heap')
      PROVE  heap'[p].child <= Len(heap') /\ heap'[p].next <= Len(heap')
  <2>1. CASE p \in 1 .. n
    <3>1. heap[p].child \in 0 .. n /\ heap[p].next \in 0 .. n
      BY <1>1, <2>1, HeapType
    <3>2. heap'[p].child = heap[p].child
          /\ (heap'[p].next = heap[p].next \/ heap'[p].next = n + 1)
      BY <1>2, <2>1
    <3> QED BY <1>1, <1>3, <3>1, <3>2
  <2>2. CASE p > n
    <3> DEFINE l == p - n - 1 + s
    <3>1. l \in s .. 3 /\ n + 1 + l - s = p
      BY <1>1, <1>2, <2>2
    <3> HIDE DEF l
    <3>2. CASE l = 3
      <4>1. heap'[p] = Leaf(e)
        BY <1>2, <3>1, <3>2
      <4> QED BY <1>3, <4>1, LeafType
    <3>3. CASE l # 3
      <4>1. heap'[n + 1 + l - s] = Node(e.ip[l], e.ip[l], n + 2 + l - s)
        BY <1>2, <3>1, <3>3, Zenon
      <4>2. heap'[p].child = n + 2 + l - s /\ heap'[p].next = 0
        BY <3>1, <4>1 DEF Node
      <4>3. n + 2 + l - s <= n + 4 - s
        BY <1>1, <3>1, <3>3
      <4> QED BY <1>2, <1>3, <4>2, <4>3
    <3> QED BY <3>2, <3>3
  <2> QED BY <1>1, <2>1, <2>2
<1>5. heap' \in Seq([min : Octet, max : Int, child : 0 .. Len(heap'), next : 0 .. Len(heap')])
  <2> DEFINE h == heap'
  <2>1. h \in Seq([min : Octet, max : Int, child : Nat, next : Nat])
        /\ \A p \in 1 .. Len(h) : h[p].child <= Len(h) /\ h[p].next <= Len(h)
    BY <1>2, <1>4
  <2> HIDE DEF h
  <2>2. h \in Seq([min : Octet, max : Int, child : 0 .. Len(h), next : 0 .. Len(h)])
    BY <2>1, HeapInside
  <2> QED BY <2>2 DEF h
<1>6. of' \in [Position -> 1 .. Len(heap')]
  <2>1. ASSUME NEW l \in Position
        PROVE  of'[l] \in 1 .. Len(heap')
    <3>1. l \in 0 .. 3 /\ z \in 1 .. z
      BY <1>1 DEF Position
    <3>2. of'[l] = paths'[z + 1][l]
      BY <1>2
    <3>3. CASE l < s
      <4>1. of'[l] \in 1 .. n
        BY <1>1, <3>1, <3>2, <3>3
      <4> QED BY <1>1, <1>3, <4>1
    <3>4. CASE l >= s
      <4>1. of'[l] = n + 1 + l - s
        BY <1>1, <3>2, <3>4
      <4>2. Len(heap') = n + 4 - s /\ s \in 0 .. 3 /\ n \in Nat
        BY <1>1, <1>2
      <4> QED BY <3>1, <3>4, <4>1, <4>2
    <3> QED BY <1>1, <3>1, <3>3, <3>4
  <2> QED BY <1>2, <2>1
<1>7. paths \in Seq([Position -> 1 .. n]) /\ lines \in Seq(Line) /\ ip \in Address
      /\ f \in [Position -> 0 .. n] /\ level \in -1 .. 3 /\ head \in 0 .. n
      /\ pc \in {"read", "ready", "walk", "yes", "no"}
  BY <1>1 DEF TypeOK
<1>8. paths' = Append(paths, of') /\ lines' = Append(lines, e)
      /\ ip' = ip /\ f' = f /\ level' = level
  BY DEF NextLine, matching
<1>9. paths' \in Seq([Position -> 1 .. Len(heap')])
  <2>1. [Position -> 1 .. n] \subseteq [Position -> 1 .. Len(heap')]
    BY <1>1, <1>3
  <2> DEFINE A == [Position -> 1 .. n]
             B == [Position -> 1 .. Len(heap')]
  <2>2. paths \in Seq(A) /\ A \subseteq B /\ of' \in B
    BY <1>6, <1>7, <2>1
  <2> HIDE DEF A, B
  <2>3. paths \in Seq(B)
    BY <2>2
  <2>4. paths' \in Seq(B)
    BY <1>8, <2>2, <2>3
  <2> QED BY <2>4 DEF B
<1>10. lines' \in Seq(Line)
  BY <1>7, <1>8
<1>11. of' \in [Position -> 0 .. Len(heap')] /\ head' \in 0 .. Len(heap')
       /\ f' \in [Position -> 0 .. Len(heap')]
  <2>1. 0 .. n \subseteq 0 .. Len(heap') /\ 1 .. Len(heap') \subseteq 0 .. Len(heap')
    BY <1>1, <1>3
  <2>2. head' \in 0 .. n /\ f' \in [Position -> 0 .. n]
    BY <1>2, <1>7, <1>8
  <2> QED BY <1>6, <2>1, <2>2
<1> QED BY <1>2, <1>5, <1>7, <1>8, <1>9, <1>10, <1>11, Zenon DEF TypeOK

-----------------------------------------------------------------------------
\* The first line.
Started(e) ==
  /\ Len(heap') = 4 /\ heap' \in Seq([min : Octet, max : Int, child : Nat, next : Nat])
  /\ \A l \in 0 .. 2 : heap'[l + 1] = Node(e.ip[l], e.ip[l], l + 2)
  /\ heap'[4] = Leaf(e)
  /\ Index' = {1} /\ Len(paths') = 1 /\ Len(lines') = 1
  /\ lines'[1] = e /\ paths'[1] = of' /\ lines' # <<>>
  /\ of' = [l \in Position |-> l + 1] /\ head' = 1
  /\ paths' \in Seq([Position -> 1 .. 4]) /\ lines' \in Seq(Line)
  /\ pc' = pc /\ ip' = ip /\ f' = f /\ level' = level /\ f = NoNodes

LEMMA Starts ==
  ASSUME TypeOK, Tree, NEW e \in Line, FirstLine(e)
  PROVE  Started(e)
<1>1. heap = <<>> /\ heap' = Chain(e, 0) /\ head' = 1 /\ of' = [l \in Position |-> l + 1]
      /\ lines' = <<e>> /\ paths' = <<of'>> /\ pc' = pc /\ ip' = ip /\ f' = f /\ level' = level
  BY DEF FirstLine, Tree, Ends, matching
<1>2. f = NoNodes
  <2>1. Len(heap) = 0
    BY <1>1
  <2>2. f \in [Position -> 0 .. 0]
    BY <2>1 DEF TypeOK
  <2> QED BY <2>2 DEF NoNodes
<1> DEFINE R == [min : Octet, max : Int, child : Nat, next : Nat]
<1>3. Chain(e, 0) = [j \in 1 .. 4 |-> IF j = 4 THEN Leaf(e)
                                     ELSE Node(e.ip[j - 1], e.ip[j - 1], j + 1)]
  <2>1. Len(heap) = 0
    BY <1>1
  <2>2. Chain(e, 0) = [j \in 1 .. 4 - 0 |-> IF 0 + j = 4 THEN Leaf(e)
                          ELSE Node(e.ip[0 + j - 1], e.ip[0 + j - 1], Len(heap) + j + 1)]
    BY DEF Chain
  <2>3. /\ 1 .. 4 - 0 = 1 .. 4
        /\ \A j \in 1 .. 4 : 0 + j = j /\ 0 + j - 1 = j - 1 /\ Len(heap) + j + 1 = j + 1
    BY <2>1
  <2> QED BY <2>2, <2>3
<1>4. Leaf(e) \in R /\ \A l \in Position : e.ip[l] \in Octet
  BY LeafType DEF Node, Address, Position
<1>5. \A x \in Octet : x \in Int
  BY FilterAssumption, Pow2Type DEF Octet
<1>6. ASSUME NEW j \in 1 .. 3 PROVE Node(e.ip[j - 1], e.ip[j - 1], j + 1) \in R
  <2>1. j - 1 \in Position
    BY DEF Position
  <2> QED BY <1>4, <1>5, <2>1 DEF Node
<1>7. heap' \in Seq(R) /\ Len(heap') = 4
  <2>1. \A j \in 1 .. 4 : j # 4 => j \in 1 .. 3
    OBVIOUS
  <2> DEFINE c(j) == IF j = 4 THEN Leaf(e) ELSE Node(e.ip[j - 1], e.ip[j - 1], j + 1)
  <2> HIDE DEF R
  <2>2. \A j \in 1 .. 4 : c(j) \in R
    BY <1>4, <1>6, <2>1
  <2>3. heap' = [j \in 1 .. 4 |-> c(j)]
    BY <1>1, <1>3
  <2> HIDE DEF c
  <2> QED BY <2>2, <2>3
<1>8. \A l \in 0 .. 2 : heap'[l + 1] = Node(e.ip[l], e.ip[l], l + 2)
  <2> TAKE l \in 0 .. 2
  <2>1. l + 1 \in 1 .. 4 /\ l + 1 # 4 /\ (l + 1) - 1 = l /\ (l + 1) + 1 = l + 2
    OBVIOUS
  <2> QED BY <1>1, <1>3, <2>1
<1>9. heap'[4] = Leaf(e)
  BY <1>1, <1>3
<1>10. of' \in [Position -> 1 .. 4]
  BY <1>1 DEF Position
<1>11. /\ Index' = {1} /\ Len(paths') = 1 /\ Len(lines') = 1
       /\ lines'[1] = e /\ paths'[1] = of' /\ lines' # <<>>
       /\ paths' \in Seq([Position -> 1 .. 4]) /\ lines' \in Seq(Line)
  BY <1>1, <1>10 DEF Index
<1> QED BY <1>1, <1>2, <1>7, <1>8, <1>9, <1>11, Zenon DEF Started

LEMMA FirstTree ==
  ASSUME TypeOK, Tree, NEW e \in Line, FirstLine(e)
  PROVE  Tree'
<1>0. Started(e)
  BY Starts
<1>1. /\ \A l \in 0 .. 2 : heap'[l + 1] = Node(e.ip[l], e.ip[l], l + 2)
      /\ heap'[4] = Leaf(e) /\ Index' = {1} /\ Len(paths') = 1 /\ Len(lines') = 1
      /\ lines'[1] = e /\ paths'[1] = of' /\ lines' # <<>>
      /\ of' = [l \in Position |-> l + 1] /\ head' = 1
  BY <1>0 DEF Started
<1>2. \A l \in Position : paths'[1][l] = l + 1
  BY <1>1
<1>3. \A l \in 0 .. 2 : /\ heap'[paths'[1][l]].min = e.ip[l] /\ heap'[paths'[1][l]].max = e.ip[l]
                        /\ heap'[paths'[1][l]].child = paths'[1][l + 1]
                        /\ heap'[paths'[1][l]].next = 0
  <2> TAKE l \in 0 .. 2
  <2>1. l \in Position /\ l + 1 \in Position /\ l + 1 + 1 = l + 2
    BY DEF Position
  <2>2. heap'[paths'[1][l]] = Node(e.ip[l], e.ip[l], l + 2) /\ paths'[1][l + 1] = l + 2
    BY <1>1, <1>2, <2>1
  <2> QED BY <2>2 DEF Node
<1>4. /\ heap'[paths'[1][3]].min = Leaf(e).min /\ heap'[paths'[1][3]].max = Leaf(e).max
      /\ heap'[paths'[1][3]].next = 0
  <2>1. 3 \in Position /\ 3 + 1 = 4
    BY DEF Position
  <2>2. paths'[1][3] = 4
    BY <1>2, <2>1
  <2> QED BY <1>1, <2>2, LeafType
<1>5. \A l \in Position : heap'[paths'[1][l]].next = 0
  BY <1>3, <1>4 DEF Position
<1>6. Nodes'
  BY <1>1, <1>3, <1>4 DEF Nodes, Leaf, Node, Wrapped, Width
<1>7. Children'
  <2>1. \A l \in 0 .. 2 : paths'[1][l + 1] \in Nat
    BY <1>2 DEF Position
  <2> QED BY <1>1, <1>3, <2>1 DEF Children, Above
<1>8. Siblings'
  BY <1>1, <1>5 DEF Siblings
<1>9. NoneSkipped'
  BY <1>1, <1>2 DEF NoneSkipped, Position
<1>10. Ordered'
  <2>1. \A l \in 0 .. 2 : paths'[1][l] < paths'[1][l + 1]
    BY <1>2 DEF Position
  <2>2. \A l \in Position : paths'[1][l] <= paths'[1][l]
    BY <1>2 DEF Position
  <2>3. \A l, m \in Position : l # m => paths'[1][l] # paths'[1][m]
    BY <1>2 DEF Position
  <2> QED BY <1>1, <2>1, <2>2, <2>3 DEF Ordered, Above
<1>11. Ends'
  <2>1. paths'[1][0] = 1
    BY <1>2 DEF Position
  <2>2. pc' = "read"
    BY <1>0 DEF FirstLine, Started
  <2> QED BY <1>1, <1>5, <2>1, <2>2 DEF Ends
<1> QED BY <1>6, <1>7, <1>8, <1>9, <1>10, <1>11 DEF Tree

LEMMA FirstType ==
  ASSUME TypeOK, Tree, NEW e \in Line, FirstLine(e)
  PROVE  TypeOK'
<1>0. Started(e)
  BY Starts
<1>1. /\ \A l \in 0 .. 2 : heap'[l + 1] = Node(e.ip[l], e.ip[l], l + 2)
      /\ heap'[4] = Leaf(e) /\ of' = [l \in Position |-> l + 1] /\ head' = 1
      /\ Len(heap') = 4 /\ heap' \in Seq([min : Octet, max : Int, child : Nat, next : Nat])
      /\ paths' \in Seq([Position -> 1 .. 4]) /\ lines' \in Seq(Line)
      /\ pc' = pc /\ ip' = ip /\ f' = f /\ level' = level /\ f = NoNodes
  BY <1>0 DEF Started
<1>2. \A l \in 0 .. 2 : heap'[l + 1].child = l + 2 /\ heap'[l + 1].next = 0
  BY <1>1 DEF Node
<1>3. heap'[1].child = 2 /\ heap'[2].child = 3 /\ heap'[3].child = 4
      /\ heap'[1].next = 0 /\ heap'[2].next = 0 /\ heap'[3].next = 0
  <2>1. heap'[0 + 1].child = 0 + 2 /\ heap'[1 + 1].child = 1 + 2 /\ heap'[2 + 1].child = 2 + 2
        /\ heap'[0 + 1].next = 0 /\ heap'[1 + 1].next = 0 /\ heap'[2 + 1].next = 0
    BY <1>2
  <2> QED BY <2>1
<1>4. heap'[4].child = 0 /\ heap'[4].next = 0
  BY <1>1, LeafType
<1>5. \A p \in 1 .. Len(heap') : heap'[p].child <= Len(heap') /\ heap'[p].next <= Len(heap')
  <2> TAKE p \in 1 .. Len(heap')
  <2>1. p \in {1, 2, 3, 4}
    BY <1>1
  <2> QED BY <1>1, <1>3, <1>4, <2>1
<1>6. heap' \in Seq([min : Octet, max : Int, child : 0 .. Len(heap'), next : 0 .. Len(heap')])
  <2> DEFINE h == heap'
  <2>1. h \in Seq([min : Octet, max : Int, child : Nat, next : Nat])
        /\ \A p \in 1 .. Len(h) : h[p].child <= Len(h) /\ h[p].next <= Len(h)
    BY <1>1, <1>5
  <2> HIDE DEF h
  <2>2. h \in Seq([min : Octet, max : Int, child : 0 .. Len(h), next : 0 .. Len(h)])
    BY <2>1, HeapInside
  <2> QED BY <2>2 DEF h
<1>7. of' \in [Position -> 0 .. 4] /\ f' \in [Position -> 0 .. 4] /\ head' \in 0 .. 4
  BY <1>1 DEF Position, NoNodes
<1>8. pc \in {"read", "ready", "walk", "yes", "no"} /\ ip \in Address /\ level \in -1 .. 3
  BY DEF TypeOK
<1>9. of' \in [Position -> 0 .. Len(heap')] /\ f' \in [Position -> 0 .. Len(heap')]
      /\ head' \in 0 .. Len(heap') /\ paths' \in Seq([Position -> 1 .. Len(heap')])
  BY <1>1, <1>7
<1> QED BY <1>1, <1>6, <1>8, <1>9, Zenon DEF TypeOK

-----------------------------------------------------------------------------
\* What has been read stays as it is.
LEMMA TreeStays ==
  ASSUME Tree, UNCHANGED reading, pc' = pc \/ (pc # "read" /\ pc' # "read")
  PROVE  Tree'
<1>1. heap' = heap /\ of' = of /\ head' = head /\ lines' = lines /\ paths' = paths
  BY DEF reading
<1>2. (Nodes /\ Children /\ Siblings /\ NoneSkipped /\ Ordered)'
  BY <1>1 DEF Tree, Nodes, Children, Siblings, NoneSkipped, Ordered, Index, Above, Leaf, Node,
              Wrapped, Width
<1>3. Ends'
  BY <1>1 DEF Tree, Ends, Node
<1> QED BY <1>2, <1>3 DEF Tree

LEMMA ReturnTree ==
  ASSUME TypeOK, Tree, Return
  PROVE  TypeOK' /\ Tree'
<1>1. pc = "read" /\ pc' = "ready" /\ of' = of /\ lines' = lines /\ paths' = paths
      /\ ip' = ip /\ f' = f /\ level' = level
  BY DEF Return, matching
<1>2. CASE lines = <<>>
  <2>1. heap = <<>> /\ heap' = <<Node(0, 0, 0)>> /\ head' = 1 /\ Len(paths) = 0
    BY <1>1, <1>2 DEF Return, Tree, Ends
  <2>2. Index' = {} /\ Index = {} /\ paths = <<>>
    BY <1>1, <2>1 DEF Index, TypeOK
  <2>3. Tree'
    BY <1>1, <1>2, <2>1, <2>2 DEF Tree, Nodes, Children, Siblings, NoneSkipped, Ordered, Ends, Node
  <2>4. Len(heap) = 0 /\ Len(heap') = 1
    BY <2>1
  <2>5. heap' \in Seq([min : Octet, max : Int, child : 0 .. Len(heap'), next : 0 .. Len(heap')])
    <3>1. 0 \in Octet
      BY FilterAssumption, Pow2Type DEF Octet
    <3>2. Node(0, 0, 0) \in [min : Octet, max : Int, child : 0 .. 1, next : 0 .. 1]
      BY <3>1 DEF Node
    <3> DEFINE Q == [min : Octet, max : Int, child : 0 .. 1, next : 0 .. 1]
    <3>3. Node(0, 0, 0) \in Q
      BY <3>2
    <3> HIDE DEF Q
    <3>4. heap' \in Seq(Q)
      BY <2>1, <3>3
    <3> QED BY <2>4, <3>4 DEF Q
  <2>6. of \in [Position -> 0 .. 0] /\ f \in [Position -> 0 .. 0]
    BY <2>4 DEF TypeOK
  <2>7. of' \in [Position -> 0 .. Len(heap')] /\ f' \in [Position -> 0 .. Len(heap')]
        /\ head' \in 0 .. Len(heap')
    BY <1>1, <2>1, <2>4, <2>6
  <2>8. paths' \in Seq([Position -> 1 .. Len(heap')])
    BY <1>1, <2>2
  <2>9. lines' \in Seq(Line) /\ ip' \in Address /\ level' \in -1 .. 3
    BY <1>1 DEF TypeOK
  <2> QED BY <1>1, <2>3, <2>5, <2>7, <2>8, <2>9 DEF TypeOK
<1>3. CASE lines # <<>>
  <2>1. heap' = heap /\ head' = head
    BY <1>3 DEF Return
  <2>2. TypeOK'
    BY <1>1, <2>1 DEF TypeOK
  <2>3. (Nodes /\ Children /\ Siblings /\ NoneSkipped /\ Ordered)'
    BY <1>1, <2>1 DEF Tree, Nodes, Children, Siblings, NoneSkipped, Ordered, Index, Above, Leaf, Node,
                      Wrapped, Width
  <2>4. Ends'
    BY <1>1, <1>3, <2>1 DEF Tree, Ends
  <2> QED BY <2>2, <2>3, <2>4 DEF Tree
<1> QED BY <1>2, <1>3

-----------------------------------------------------------------------------
\* The walk has come to a node of line i through that line's nodes, all of
\* which have the octets looked for, and will come back for what is next to them.
Walked(i) ==
  /\ f[level] = paths[i][level]
  /\ \A l \in 0 .. level - 1 : lines[i].ip[l] = ip[l] /\ f[l] = heap[paths[i][l]].next

Visit == pc = "walk" =>
  /\ level \in Position
  /\ lines = <<>> => level = 0 /\ f[0] = 1
  /\ lines # <<>> => \E i \in Index : Walked(i)

\* Line t has an address within one octet that is looked for.
Target(t) == lines[t].size >= 3 * OctetBits /\ In(lines[t], ip)

\* At some level the walk is at or before the node of line t.
Ahead(t) == \E l \in 0 .. level : \E i \in Index :
  f[l] = paths[i][l] /\ f[l] <= paths[t][l] /\ Above(i, t, l)

Search == pc \in {"walk", "no"} => \A t \in Index : Target(t) => Ahead(t)

Ended == /\ pc = "no" => level = -1
         /\ pc = "yes" => \E i \in Index : In(lines[i], ip)

\* The inductive invariant.
IInv == TypeOK /\ Tree /\ Visit /\ Search /\ Ended

LEMMA LineFacts ==
  ASSUME TypeOK, Tree, NEW i \in Index
  PROVE  /\ i \in DOMAIN lines /\ lines[i] \in Line /\ lines # <<>>
         /\ \A l \in Position : paths[i][l] \in 1 .. Len(heap)
         /\ 1 \in Index /\ 1 <= i
<1>1. paths \in Seq([Position -> 1 .. Len(heap)]) /\ lines \in Seq(Line) /\ Len(paths) = Len(lines)
  BY DEF TypeOK, Tree, Ends
<1> DEFINE P == [Position -> 1 .. Len(heap)]
<1>2. paths[i] \in P
  <2> HIDE DEF P
  <2> QED BY <1>1 DEF Index, P
<1>3. i \in DOMAIN lines /\ lines[i] \in Line /\ lines # <<>> /\ 1 \in Index /\ 1 <= i
  BY <1>1 DEF Index
<1> QED BY <1>2, <1>3

LEMMA TargetNodes ==
  ASSUME TypeOK, Tree, NEW t \in Index, Target(t)
  PROVE  \A l \in Position : heap[paths[t][l]].min <= ip[l] /\ heap[paths[t][l]].max >= ip[l]
<1>1. t \in DOMAIN lines /\ lines[t] \in Line /\ ip \in Address
  BY LineFacts DEF TypeOK
<1>2. lines[t].size >= 3 * OctetBits /\ In(lines[t], ip)
  BY DEF Target
<1>3. /\ SamePrefix(ip, lines[t].ip)
      /\ lines[t].ip[3] <= ip[3] /\ ip[3] <= lines[t].ip[3] + Pow2[Bits - lines[t].size] - 1
  BY <1>1, <1>2, NarrowIn
<1>4. /\ Leaf(lines[t]).min = lines[t].ip[3]
      /\ Leaf(lines[t]).max = lines[t].ip[3] + Pow2[Bits - lines[t].size] - 1
  BY <1>1, <1>2, NarrowLeaf
<1>5. /\ \A l \in 0 .. 2 : /\ heap[paths[t][l]].min = lines[t].ip[l]
                           /\ heap[paths[t][l]].max = lines[t].ip[l]
      /\ heap[paths[t][3]].min = Leaf(lines[t]).min
      /\ heap[paths[t][3]].max = Leaf(lines[t]).max
  BY DEF Tree, Nodes
<1>6. \A l \in 0 .. 2 : lines[t].ip[l] = ip[l]
  BY <1>3 DEF SamePrefix
<1>7. \A l \in Position : ip[l] \in Int
  BY <1>1, FilterAssumption, Pow2Type DEF Address, Octet
<1>8. Leaf(lines[t]).max \in Int
  BY <1>1, LeafType
<1>9. heap[paths[t][3]].min <= ip[3] /\ heap[paths[t][3]].max >= ip[3]
  <2> DEFINE w == lines[t].ip[3] + Pow2[Bits - lines[t].size] - 1
  <2>1. ip[3] <= w /\ w \in Int /\ heap[paths[t][3]].max = w /\ ip[3] \in Int
    BY <1>3, <1>4, <1>5, <1>7, <1>8 DEF Position
  <2> HIDE DEF w
  <2>2. heap[paths[t][3]].max >= ip[3]
    BY <2>1
  <2> QED BY <1>3, <1>4, <1>5, <2>2
<1> TAKE l \in Position
<1>10. l \in 0 .. 2 \/ l = 3
  BY DEF Position
<1>11. CASE l \in 0 .. 2
  BY <1>5, <1>6, <1>7, <1>11
<1> QED BY <1>9, <1>10, <1>11

\* A hit in the last octet is an address of the line.
LEMMA HitIn ==
  ASSUME NEW e \in Line, NEW a \in Address, SamePrefix(a, e.ip),
         Leaf(e).min <= a[3], Leaf(e).max >= a[3]
  PROVE  In(e, a)
<1>1. e.size \in Nat /\ OctetBits \in Nat
  BY FilterAssumption DEF Bits
<1>2. CASE e.size <= 3 * OctetBits
  BY <1>2, WideIn
<1>3. CASE e.size >= 3 * OctetBits
  <2>1. /\ Leaf(e).min = e.ip[3] /\ Leaf(e).max = e.ip[3] + Pow2[Bits - e.size] - 1
    BY <1>3, NarrowLeaf
  <2> DEFINE w == e.ip[3] + Pow2[Bits - e.size] - 1
  <2>2. Leaf(e).max = w /\ w \in Int /\ a[3] \in Int
    BY <2>1, LeafType, PrefixNumber
  <2> HIDE DEF w
  <2>3. a[3] <= w
    BY <2>2
  <2> QED BY <1>3, <2>1, <2>3, NarrowIn DEF w
<1> QED BY <1>1, <1>2, <1>3

LEMMA Backs ==
  ASSUME NEW g, NEW l \in Position
  PROVE  /\ Back(g, l) \in -1 .. l
         /\ Back(g, l) # -1 => Back(g, l) \in Position /\ g[Back(g, l)] # 0
         /\ \A m \in 0 .. l : g[m] # 0 => m <= Back(g, l)
<1> DEFINE S == {-1} \cup {m \in 0 .. l : g[m] # 0}
<1>1. Back(g, l) = Max(S) /\ S \subseteq -1 .. 3 /\ S # {} /\ S \subseteq -1 .. l
  BY DEF Back, Position
<1>2. Max(S) \in S /\ \A y \in S : Max(S) >= y
  BY <1>1, SmallMax
<1>3. Back(g, l) \in S /\ \A y \in S : Back(g, l) >= y
  BY <1>1, <1>2
<1>4. Back(g, l) # -1 => Back(g, l) \in 0 .. l /\ g[Back(g, l)] # 0
  BY <1>3
<1>5. ASSUME NEW m \in 0 .. l, g[m] # 0 PROVE m <= Back(g, l)
  BY <1>1, <1>3, <1>5
<1> QED BY <1>1, <1>3, <1>4, <1>5 DEF Position

\* The node the walk is at.
LEMMA AtNode ==
  ASSUME IInv, pc = "walk"
  PROVE  f[level] \in 1 .. Len(heap) /\ level \in Position
<1>1. CASE lines = <<>>
  <2>1. level = 0 /\ f[0] = 1 /\ heap = <<Node(0, 0, 0)>>
    BY <1>1 DEF IInv, Visit, Tree, Ends
  <2> QED BY <2>1 DEF Position
<1>2. CASE lines # <<>>
  <2>1. PICK i \in Index : Walked(i)
    BY <1>2 DEF IInv, Visit
  <2>2. level \in Position
    BY DEF IInv, Visit
  <2> QED BY <2>1, <2>2, LineFacts DEF IInv, Walked
<1> QED BY <1>1, <1>2

LEMMA WalkType ==
  ASSUME IInv, pc = "walk", Enter \/ Pass
  PROVE  TypeOK' /\ Tree'
<1>1. f[level] \in 1 .. Len(heap) /\ level \in Position
  BY AtNode
<1>2. Current.child \in 0 .. Len(heap) /\ Current.next \in 0 .. Len(heap)
  BY <1>1, HeapType DEF IInv, Current
<1>3. f \in [Position -> 0 .. Len(heap)] /\ ip \in Address
  BY DEF IInv, TypeOK
<1>4. UNCHANGED <<ip, reading>> /\ pc' \in {"no", "walk"}
  BY DEF Enter, Pass, GoOn
<1>5. f' \in [Position -> 0 .. Len(heap)] /\ level' \in -1 .. 3
  <2>1. CASE Enter
    <3>1. level + 1 \in Position
      BY <1>1, <2>1 DEF Enter, Position
    <3>2. f' = Entered /\ level' = Back(Entered, level + 1)
      BY <2>1 DEF Enter, GoOn
    <3>3. Entered \in [Position -> 0 .. Len(heap)]
      BY <1>1, <1>2, <1>3, <3>1 DEF Entered
    <3>4. Back(Entered, level + 1) \in -1 .. level + 1
      BY <3>1, Backs
    <3> QED BY <3>1, <3>2, <3>3, <3>4 DEF Position
  <2>2. CASE Pass
    <3> DEFINE g == [f EXCEPT ![level] = Current.next]
    <3>1. f' = g /\ level' = Back(g, level)
      BY <2>2 DEF Pass, GoOn
    <3>2. g \in [Position -> 0 .. Len(heap)]
      BY <1>1, <1>2, <1>3
    <3> HIDE DEF g
    <3>3. Back(g, level) \in -1 .. level
      BY <1>1, Backs
    <3> QED BY <1>1, <3>1, <3>2, <3>3 DEF Position
  <2> QED BY <2>1, <2>2
<1>6. heap' = heap /\ of' = of /\ head' = head /\ lines' = lines /\ paths' = paths /\ ip' = ip
  BY <1>4 DEF reading
<1>7. TypeOK'
  BY <1>4, <1>5, <1>6 DEF IInv, TypeOK
<1>8. Tree'
  BY <1>4, TreeStays DEF IInv
<1> QED BY <1>7, <1>8

\* On from a line's nodes to the node next to the one at level m.
LEMMA NextNode ==
  ASSUME TypeOK, Tree, NEW i \in Index, NEW m \in Position, heap[paths[i][m]].next # 0,
         \A l \in 0 .. m - 1 : lines[i].ip[l] = ip[l] /\ f[l] = heap[paths[i][l]].next
  PROVE  \E k \in Index :
           /\ heap[paths[i][m]].next = paths[k][m] /\ Above(k, i, m)
           /\ \A l \in 0 .. m - 1 : lines[k].ip[l] = ip[l] /\ f[l] = heap[paths[k][l]].next
<1>1. PICK k \in Index : heap[paths[i][m]].next = paths[k][m] /\ Above(k, i, m)
  BY DEF Tree, Siblings
<1>2. ASSUME NEW l \in 0 .. m - 1 PROVE lines[k].ip[l] = ip[l] /\ f[l] = heap[paths[k][l]].next
  <2>1. paths[k][l] = paths[i][l] /\ l \in 0 .. 2
    BY <1>1 DEF Above, Position
  <2>2. heap[paths[k][l]].min = lines[k].ip[l] /\ heap[paths[i][l]].min = lines[i].ip[l]
    BY <2>1 DEF Tree, Nodes
  <2> QED BY <2>1, <2>2
<1> QED BY <1>1, <1>2

LEMMA PassVisit ==
  ASSUME IInv, Pass
  PROVE  Visit' /\ Ended'
<1>1. level \in Position /\ pc = "walk"
  BY AtNode DEF Pass
<1> DEFINE g == [f EXCEPT ![level] = Current.next]
<1>2. /\ f' = g /\ level' = Back(g, level) /\ pc' = (IF Back(g, level) = -1 THEN "no" ELSE "walk")
      /\ heap' = heap /\ lines' = lines /\ paths' = paths /\ ip' = ip
  BY DEF Pass, GoOn, reading
<1>3. f \in [Position -> 0 .. Len(heap)]
  BY DEF IInv, TypeOK
<1>4. g[level] = Current.next /\ \A l \in Position : l # level => g[l] = f[l]
  BY <1>1, <1>3
<1> HIDE DEF g
<1>5. /\ level' \in -1 .. level
      /\ level' # -1 => level' \in Position /\ g[level'] # 0
      /\ pc' = (IF level' = -1 THEN "no" ELSE "walk")
  BY <1>1, <1>2, Backs
<1>6. Ended'
  BY <1>5 DEF Ended
<1> SUFFICES ASSUME pc' = "walk" PROVE Visit'
  BY <1>6 DEF Visit
<1>7. level' \in Position /\ g[level'] # 0
  BY <1>5
<1>8. CASE lines = <<>>
  <2>1. level = 0 /\ f[0] = 1 /\ heap = <<Node(0, 0, 0)>>
    BY <1>1, <1>8 DEF IInv, Visit, Tree, Ends
  <2>2. g[0] = 0
    BY <1>4, <2>1 DEF Current, Node
  <2> QED BY <1>5, <1>7, <2>1, <2>2
<1>9. CASE lines # <<>>
  <2>1. PICK i \in Index : Walked(i)
    BY <1>1, <1>9 DEF IInv, Visit
  <2>2. g[level'] = heap[paths[i][level']].next
    <3>1. CASE level' = level
      BY <1>4, <2>1, <3>1 DEF Current, Walked
    <3>2. CASE level' # level
      <4>1. level' \in 0 .. level - 1
        BY <1>1, <1>5, <1>7, <3>2 DEF Position
      <4> QED BY <1>4, <1>7, <2>1, <3>2, <4>1 DEF Walked
    <3> QED BY <3>1, <3>2
  <2>3. ASSUME NEW l \in 0 .. level' - 1
        PROVE  lines[i].ip[l] = ip[l] /\ f[l] = heap[paths[i][l]].next /\ g[l] = f[l]
    <3>1. l \in 0 .. level - 1 /\ l \in Position /\ l # level
      <4>1. level' \in 0 .. 3 /\ level' <= level /\ level \in 0 .. 3
        BY <1>1, <1>5, <1>7 DEF Position
      <4>2. \A m, n \in 0 .. 3 : m <= n =>
              \A j \in 0 .. m - 1 : j \in 0 .. n - 1 /\ j \in 0 .. 3 /\ j # n
        OBVIOUS
      <4> QED BY <4>1, <4>2, Zenon DEF Position
    <3> QED BY <1>4, <2>1, <3>1 DEF Walked
  <2>4. PICK k \in Index :
          /\ heap[paths[i][level']].next = paths[k][level'] /\ Above(k, i, level')
          /\ \A l \in 0 .. level' - 1 : lines[k].ip[l] = ip[l] /\ f[l] = heap[paths[k][l]].next
    <3>1. PICK m \in Position : m = level'
      BY <1>7
    <3>2. heap[paths[i][m]].next # 0
          /\ \A l \in 0 .. m - 1 : lines[i].ip[l] = ip[l] /\ f[l] = heap[paths[i][l]].next
      BY <1>7, <2>2, <2>3, <3>1
    <3>3. \E k \in Index :
            /\ heap[paths[i][m]].next = paths[k][m] /\ Above(k, i, m)
            /\ \A l \in 0 .. m - 1 : lines[k].ip[l] = ip[l] /\ f[l] = heap[paths[k][l]].next
      BY <3>2, NextNode DEF IInv
    <3> QED BY <3>1, <3>3
  <2>5. Walked(k)'
    BY <1>2, <2>2, <2>3, <2>4 DEF Walked
  <2>6. k \in Index'
    BY <1>2 DEF Index
  <2> QED BY <1>2, <1>7, <1>9, <2>5, <2>6 DEF Visit
<1> QED BY <1>8, <1>9

LEMMA EnterVisit ==
  ASSUME IInv, Enter
  PROVE  /\ Visit' /\ Ended'
         /\ lines # <<>> => pc' = "walk" /\ level' = level + 1
<1>1. level \in Position /\ pc = "walk" /\ Hit /\ level \in 0 .. 2 /\ level + 1 \in Position
  BY AtNode DEF Enter, Position
<1> DEFINE g == Entered
<1>2. /\ f' = g /\ level' = Back(g, level + 1)
      /\ pc' = (IF Back(g, level + 1) = -1 THEN "no" ELSE "walk")
      /\ heap' = heap /\ lines' = lines /\ paths' = paths /\ ip' = ip
  BY DEF Enter, GoOn, reading
<1>3. f \in [Position -> 0 .. Len(heap)]
  BY DEF IInv, TypeOK
<1>4. /\ g[level] = Current.next /\ g[level + 1] = Current.child
      /\ \A l \in Position : l # level /\ l # level + 1 => g[l] = f[l]
  BY <1>1, <1>3 DEF Entered
<1> HIDE DEF g
<1>5. /\ level' \in -1 .. level + 1
      /\ level' # -1 => level' \in Position /\ g[level'] # 0
      /\ \A m \in 0 .. level + 1 : g[m] # 0 => m <= level'
      /\ pc' = (IF level' = -1 THEN "no" ELSE "walk")
  BY <1>1, <1>2, Backs
<1>6. Ended'
  BY <1>5 DEF Ended
<1>7. CASE lines = <<>>
  <2>1. level = 0 /\ f[0] = 1 /\ heap = <<Node(0, 0, 0)>>
    BY <1>1, <1>7 DEF IInv, Visit, Tree, Ends
  <2>2. g[0] = 0 /\ g[0 + 1] = 0
    BY <1>4, <2>1 DEF Current, Node
  <2>3. level' \in {-1, 0, 1}
    BY <1>5, <2>1
  <2>4. level' = -1
    BY <1>5, <2>2, <2>3
  <2> QED BY <1>5, <1>6, <1>7, <2>4 DEF Visit
<1>8. CASE lines # <<>>
  <2>1. PICK i \in Index : Walked(i)
    BY <1>1, <1>8 DEF IInv, Visit
  <2>2. f[level] = paths[i][level]
        /\ \A l \in 0 .. level - 1 : lines[i].ip[l] = ip[l] /\ f[l] = heap[paths[i][l]].next
    BY <2>1 DEF Walked
  <2>3. lines[i].ip[level] = ip[level]
    <3>1. heap[paths[i][level]].min = lines[i].ip[level]
          /\ heap[paths[i][level]].max = lines[i].ip[level]
      BY <1>1 DEF IInv, Tree, Nodes
    <3>2. heap[paths[i][level]].min <= ip[level] /\ heap[paths[i][level]].max >= ip[level]
      BY <1>1, <2>2 DEF Hit, Current
    <3>3. lines[i].ip[level] \in Int /\ ip[level] \in Int
      <4>1. ip \in Address /\ lines[i].ip \in Address
        BY LineFacts, LeafType DEF IInv, TypeOK
      <4> QED BY <1>1, <4>1, FilterAssumption, Pow2Type DEF Address, Octet
    <3> QED BY <3>1, <3>2, <3>3
  <2>4. PICK k \in Index : Current.child = paths[k][level + 1] /\ Above(k, i, level + 1)
    BY <1>1, <2>2 DEF IInv, Tree, Children, Current
  <2>5. g[level + 1] = paths[k][level + 1] /\ paths[k][level + 1] \in 1 .. Len(heap)
    BY <1>1, <1>4, <2>4, LineFacts DEF IInv
  <2>6. level' = level + 1 /\ pc' = "walk"
    <3>1. g[level + 1] # 0
      BY <2>5
    <3>2. level + 1 <= level'
      BY <1>1, <1>5, <3>1
    <3> QED BY <1>1, <1>5, <3>2
  <2>7. ASSUME NEW l \in 0 .. level PROVE lines[k].ip[l] = ip[l] /\ g[l] = heap[paths[k][l]].next
    <3>1. paths[k][l] = paths[i][l] /\ l \in 0 .. 2 /\ l \in Position /\ l # level + 1
      BY <1>1, <2>4 DEF Above, Position
    <3>2. lines[i].ip[l] = ip[l] /\ g[l] = heap[paths[i][l]].next
      <4>1. CASE l = level
        BY <1>4, <2>2, <2>3, <4>1 DEF Current
      <4>2. CASE l # level
        <5>1. l \in 0 .. level - 1
          BY <1>1, <4>2
        <5> QED BY <1>4, <2>2, <3>1, <4>2, <5>1
      <4> QED BY <4>1, <4>2
    <3>3. heap[paths[k][l]].min = lines[k].ip[l] /\ heap[paths[i][l]].min = lines[i].ip[l]
      BY <3>1 DEF IInv, Tree, Nodes
    <3> QED BY <3>1, <3>2, <3>3
  <2>8. Walked(k)'
    <3>1. \A l \in 0 .. level' - 1 : l \in 0 .. level
      BY <1>1, <2>6
    <3> QED BY <1>2, <2>5, <2>6, <2>7, <3>1 DEF Walked
  <2>9. k \in Index'
    BY <1>2 DEF Index
  <2>10. Visit'
    BY <1>1, <1>2, <1>8, <2>6, <2>8, <2>9 DEF Visit
  <2> QED BY <1>6, <2>6, <2>10
<1> QED BY <1>7, <1>8

\* The walk gets no further than the node of a line it looks for.
LEMMA StepSearch ==
  ASSUME IInv, Enter \/ Pass
  PROVE  Search'
<1>1. level \in Position /\ pc = "walk"
  BY AtNode DEF Enter, Pass
<1>2. heap' = heap /\ lines' = lines /\ paths' = paths /\ ip' = ip
  BY DEF Enter, Pass, GoOn, reading
<1>3. f \in [Position -> 0 .. Len(heap)]
  BY DEF IInv, TypeOK
<1> SUFFICES ASSUME NEW t \in Index, Target(t) PROVE Ahead(t)'
  BY <1>2 DEF Search, Index, Target, In, Number
<1>4. PICK l \in 0 .. level, i \in Index : f[l] = paths[i][l] /\ f[l] <= paths[t][l] /\ Above(i, t, l)
  BY <1>1 DEF IInv, Search, Ahead
<1>5. l \in Position /\ paths[i][l] \in 1 .. Len(heap) /\ paths[t][l] \in 1 .. Len(heap)
      /\ lines # <<>> /\ Len(heap) \in Nat
  <2>1. l \in Position
    BY <1>1 DEF Position
  <2>2. TypeOK /\ Tree
    BY DEF IInv
  <2>3. paths[i][l] \in 1 .. Len(heap) /\ paths[t][l] \in 1 .. Len(heap) /\ lines # <<>>
    BY <2>1, <2>2, LineFacts
  <2>4. Len(heap) \in Nat
    BY <2>2, <2>3, HeapType
  <2> QED BY <2>1, <2>3, <2>4
<1> DEFINE x == heap[paths[i][l]].next
<1>6. ASSUME paths[i][l] < paths[t][l]
      PROVE  x # 0 /\ x <= paths[t][l] /\ \E k \in Index : x = paths[k][l] /\ Above(k, t, l)
  <2>1. x # 0 /\ x <= paths[t][l]
    BY <1>4, <1>5, <1>6 DEF IInv, Tree, NoneSkipped
  <2>2. PICK k \in Index : x = paths[k][l] /\ Above(k, i, l)
    BY <1>5, <2>1 DEF IInv, Tree, Siblings
  <2>3. Above(k, t, l)
    BY <1>4, <2>2 DEF Above
  <2> QED BY <2>1, <2>2, <2>3
\* It is enough to know what is left at some level.
<1>7. ASSUME NEW m \in 0 .. level', NEW k \in Index,
             f'[m] = paths[k][m], f'[m] <= paths[t][m], Above(k, t, m)
      PROVE  Ahead(t)'
  BY <1>2, <1>7 DEF Ahead, Above, Index
<1>8. CASE Enter
  <2>1. level' = level + 1 /\ f' = Entered /\ level \in 0 .. 2 /\ level + 1 \in Position
    BY <1>1, <1>5, <1>8, EnterVisit DEF Enter, GoOn, Position
  <2>2. /\ f'[level] = Current.next /\ f'[level + 1] = Current.child
        /\ \A m \in Position : m # level /\ m # level + 1 => f'[m] = f[m]
    BY <1>1, <1>3, <2>1 DEF Entered
  <2>3. CASE l # level
    <3>1. f'[l] = f[l] /\ l \in 0 .. level'
      BY <1>1, <1>5, <2>1, <2>2, <2>3
    <3> QED BY <1>4, <1>7, <3>1
  <2>4. CASE l = level /\ paths[i][l] < paths[t][l]
    <3>1. f'[l] = x /\ l \in 0 .. level'
      BY <1>4, <2>1, <2>2, <2>4 DEF Current
    <3>2. PICK k \in Index : x = paths[k][l] /\ Above(k, t, l)
      BY <1>6, <2>4
    <3> QED BY <1>6, <1>7, <2>4, <3>1, <3>2
  <2>5. CASE l = level /\ paths[i][l] = paths[t][l]
    <3>1. Current = heap[paths[t][level]]
      BY <1>4, <2>5 DEF Current
    <3>2. /\ Current.child <= paths[t][level + 1]
          /\ \E k \in Index : Current.child = paths[k][level + 1] /\ Above(k, t, level + 1)
      BY <2>1, <3>1 DEF IInv, Tree, Children
    <3>3. level + 1 \in 0 .. level'
      BY <2>1
    <3> QED BY <1>7, <2>2, <3>2, <3>3
  <2> QED BY <1>4, <1>5, <2>3, <2>4, <2>5
<1>9. CASE Pass
  <2> DEFINE g == [f EXCEPT ![level] = Current.next]
  <2>1. f' = g /\ level' = Back(g, level) /\ ~Hit
    BY <1>9 DEF Pass, GoOn
  <2>2. g[level] = Current.next /\ \A m \in Position : m # level => g[m] = f[m]
    BY <1>1, <1>3
  <2> HIDE DEF g
  <2>3. level' \in -1 .. level /\ \A m \in 0 .. level : g[m] # 0 => m <= level'
    BY <1>1, <2>1, Backs
  <2>4. CASE l # level
    <3>1. g[l] = f[l] /\ g[l] # 0
      BY <1>4, <1>5, <2>2, <2>4
    <3>2. l \in 0 .. level'
      BY <1>1, <2>3, <3>1 DEF Position
    <3> QED BY <1>4, <1>7, <2>1, <3>1, <3>2
  <2>5. CASE l = level
    <3>1. paths[i][l] < paths[t][l]
      <4>1. paths[i][l] # paths[t][l]
        <5>1. SUFFICES ASSUME paths[i][l] = paths[t][l] PROVE FALSE
          OBVIOUS
        <5>2. Current = heap[paths[t][level]]
          BY <1>4, <2>5, <5>1 DEF Current
        <5>3. heap[paths[t][level]].min <= ip[level] /\ heap[paths[t][level]].max >= ip[level]
          BY <1>1, TargetNodes DEF IInv
        <5> QED BY <2>1, <5>2, <5>3 DEF Hit
      <4> QED BY <1>4, <1>5, <4>1
    <3>2. g[l] = x
      BY <1>4, <2>2, <2>5 DEF Current
    <3>3. PICK k \in Index : x = paths[k][l] /\ Above(k, t, l)
      BY <1>6, <3>1
    <3>4. l \in 0 .. level'
      BY <1>1, <1>6, <2>3, <3>1, <3>2 DEF Position
    <3> QED BY <1>6, <1>7, <2>1, <3>1, <3>2, <3>3, <3>4
  <2> QED BY <2>4, <2>5
<1> QED BY <1>8, <1>9

LEMMA MatchStep ==
  ASSUME IInv, NEW a \in Probe, match(a)
  PROVE  IInv'
<1>1. /\ pc \in {"ready", "yes", "no"} /\ pc' = "walk" /\ ip' = a /\ level' = 0
      /\ f' = [NoNodes EXCEPT ![0] = head] /\ UNCHANGED reading
      /\ heap' = heap /\ of' = of /\ head' = head /\ lines' = lines /\ paths' = paths
  BY DEF match, reading
<1>2. TypeOK /\ Tree /\ head = 1 /\ head \in 0 .. Len(heap)
  BY <1>1 DEF IInv, Tree, Ends, TypeOK
<1>3. f' \in [Position -> 0 .. Len(heap)] /\ f'[0] = 1
  <2>1. Len(heap) \in Nat
    BY <1>2 DEF TypeOK
  <2> QED BY <1>1, <1>2, <2>1 DEF NoNodes, Position
<1>4. ip' \in Address
  BY <1>1, FilterAssumption
<1>5. TypeOK'
  BY <1>1, <1>2, <1>3, <1>4 DEF TypeOK
<1>6. Tree'
  BY <1>1, <1>2, TreeStays
<1>7. Index' = Index
  BY <1>1 DEF Index
<1>8. lines # <<>> => 1 \in Index /\ paths[1][0] = 1
  BY <1>2 DEF Index, Tree, Ends, TypeOK
<1>9. Visit'
  <2>1. lines # <<>> => Walked(1)'
    BY <1>1, <1>3, <1>8 DEF Walked
  <2> QED BY <1>1, <1>3, <1>7, <1>8, <2>1 DEF Visit, Position
<1>10. ASSUME NEW t \in Index PROVE Ahead(t)'
  <2>1. 1 \in Index /\ 1 <= t /\ lines # <<>> /\ 0 \in Position
    BY <1>2, LineFacts DEF Position
  <2>2. paths[1][0] <= paths[t][0] /\ paths[1][0] = 1
    BY <1>2, <1>8, <2>1 DEF Tree, Ordered
  <2>3. f'[0] = paths'[1][0] /\ f'[0] <= paths'[t][0] /\ 1 \in Index' /\ 0 \in 0 .. level'
    BY <1>1, <1>3, <1>7, <2>1, <2>2
  <2>4. Above(1, t, 0)'
    BY DEF Above
  <2> QED BY <2>3, <2>4 DEF Ahead
<1>11. Search' /\ Ended'
  BY <1>1, <1>7, <1>10 DEF Search, Ended
<1> QED BY <1>5, <1>6, <1>9, <1>11 DEF IInv

LEMMA FoundStep ==
  ASSUME IInv, Found
  PROVE  IInv'
<1>1. /\ pc = "walk" /\ pc' = "yes" /\ Hit /\ level = 3 /\ UNCHANGED reading
      /\ heap' = heap /\ of' = of /\ head' = head /\ lines' = lines /\ paths' = paths
      /\ ip' = ip /\ f' = f /\ level' = level
  BY DEF Found, reading, matching
<1>2. TypeOK /\ Tree
  BY DEF IInv
<1>3. TypeOK' /\ Tree'
  <2>1. TypeOK'
    BY <1>1, <1>2 DEF TypeOK
  <2>2. Tree'
    BY <1>1, <1>2, TreeStays
  <2> QED BY <2>1, <2>2
<1>4. lines # <<>>
  BY <1>1 DEF IInv, Visit
<1>5. PICK i \in Index : Walked(i)
  BY <1>1, <1>4 DEF IInv, Visit
<1>6. lines[i] \in Line /\ ip \in Address
  BY <1>2, LineFacts DEF TypeOK
<1>7. f[3] = paths[i][3] /\ SamePrefix(ip, lines[i].ip)
  <2>1. f[level] = paths[i][level] /\ \A l \in 0 .. level - 1 : lines[i].ip[l] = ip[l]
    BY <1>5 DEF Walked
  <2>2. 0 \in 0 .. level - 1 /\ 1 \in 0 .. level - 1 /\ 2 \in 0 .. level - 1
    BY <1>1
  <2> QED BY <1>1, <2>1, <2>2 DEF SamePrefix
<1>8. Leaf(lines[i]).min <= ip[3] /\ Leaf(lines[i]).max >= ip[3]
  <2>1. heap[paths[i][3]].min = Leaf(lines[i]).min /\ heap[paths[i][3]].max = Leaf(lines[i]).max
    BY <1>2 DEF Tree, Nodes
  <2> QED BY <1>1, <1>7, <2>1 DEF Hit, Current
<1>9. In(lines[i], ip)
  BY <1>6, <1>7, <1>8, HitIn
<1>10. Visit' /\ Search' /\ Ended'
  <2>1. In(lines[i], ip)' /\ Index' = Index
    BY <1>1, <1>9 DEF In, Number, Index
  <2> QED BY <1>1, <1>5, <2>1 DEF Visit, Search, Ended
<1> QED BY <1>3, <1>10 DEF IInv

\* While the file is read there is no walk.
LEMMA ReadStep ==
  ASSUME IInv, (\E e \in Line : FirstLine(e) \/ NextLine(e)) \/ Return
  PROVE  IInv'
<1>1. TypeOK /\ Tree
  BY DEF IInv
<1>2. TypeOK' /\ Tree'
  BY <1>1, LineType, LineTree, FirstType, FirstTree, ReturnTree
<1>3. pc' \in {"read", "ready"}
  BY DEF FirstLine, NextLine, Return
<1> QED BY <1>2, <1>3 DEF IInv, Visit, Search, Ended

LEMMA InitIInv == Init => IInv
<1> SUFFICES ASSUME Init PROVE IInv
  OBVIOUS
<1>1. /\ pc = "read" /\ heap = <<>> /\ of = NoNodes /\ head = 0 /\ lines = <<>> /\ paths = <<>>
      /\ ip = [l \in Position |-> 0] /\ f = NoNodes /\ level = -1
  BY DEF Init
<1>2. 0 \in Octet
  BY FilterAssumption, Pow2Type DEF Octet
<1>3. TypeOK
  <2>1. Len(heap) = 0
    BY <1>1
  <2>2. heap \in Seq([min : Octet, max : Int, child : 0 .. Len(heap), next : 0 .. Len(heap)])
    BY <1>1
  <2>3. of \in [Position -> 0 .. Len(heap)] /\ f \in [Position -> 0 .. Len(heap)]
        /\ head \in 0 .. Len(heap) /\ ip \in Address
    BY <1>1, <1>2, <2>1 DEF NoNodes, Address
  <2>4. lines \in Seq(Line) /\ paths \in Seq([Position -> 1 .. Len(heap)]) /\ level \in -1 .. 3
    BY <1>1
  <2> QED BY <1>1, <2>2, <2>3, <2>4 DEF TypeOK
<1>4. Index = {}
  BY <1>1 DEF Index
<1>5. Tree
  BY <1>1, <1>4 DEF Tree, Nodes, Children, Siblings, NoneSkipped, Ordered, Ends
<1> QED BY <1>1, <1>3, <1>5 DEF IInv, Visit, Search, Ended

LEMMA NextIInv == IInv /\ [Next]_vars => IInv'
<1> SUFFICES ASSUME IInv, [Next]_vars PROVE IInv'
  OBVIOUS
<1>1. CASE (\E e \in Line : FirstLine(e) \/ NextLine(e)) \/ Return
  BY <1>1, ReadStep
<1>2. CASE \E a \in Probe : match(a)
  BY <1>2, MatchStep
<1>3. CASE Enter \/ Pass
  <2>1. pc = "walk"
    BY <1>3 DEF Enter, Pass
  <2>2. TypeOK' /\ Tree'
    BY <1>3, <2>1, WalkType
  <2>3. Visit' /\ Ended'
    BY <1>3, EnterVisit, PassVisit
  <2>4. Search'
    BY <1>3, StepSearch
  <2> QED BY <2>2, <2>3, <2>4 DEF IInv
<1>4. CASE Found
  BY <1>4, FoundStep
<1>5. CASE UNCHANGED vars
  <2>1. /\ pc' = pc /\ heap' = heap /\ of' = of /\ head' = head /\ lines' = lines /\ paths' = paths
        /\ ip' = ip /\ f' = f /\ level' = level /\ UNCHANGED reading
    BY <1>5 DEF vars, reading, matching
  <2>2. TypeOK'
    BY <2>1 DEF IInv, TypeOK
  <2>3. Tree'
    <3>1. Tree /\ pc' = pc
      BY <2>1 DEF IInv
    <3>2. UNCHANGED reading
      BY <1>5 DEF vars
    <3> QED BY <3>1, <3>2, TreeStays
  <2>4. Visit' /\ Search' /\ Ended'
    BY <2>1 DEF IInv, Visit, Search, Ended, Index, Walked, Target, Ahead, Above, In, Number
  <2> QED BY <2>2, <2>3, <2>4 DEF IInv
<1> QED BY <1>1, <1>2, <1>3, <1>4, <1>5 DEF Next

LEMMA Invariance == Spec => []IInv
BY InitIInv, NextIInv, PTL DEF Spec

\* Of any file readIpList makes nodes whose references lead to nodes, and match
\* follows none that is null.
THEOREM FilterTypes == Spec => []TypeOK
<1>1. IInv => TypeOK
  BY DEF IInv
<1> QED BY <1>1, Invariance, PTL

\* match finds no address that is not listed, of any ranges in any order.
THEOREM MatchesAreListed == Spec => []OnlyListed
<1>1. IInv => OnlyListed
  <2> SUFFICES ASSUME IInv, pc = "yes" PROVE \E i \in DOMAIN lines : In(lines[i], ip)
    BY DEF OnlyListed
  <2>1. PICK i \in Index : In(lines[i], ip)
    BY DEF IInv, Ended
  <2>2. i \in DOMAIN lines
    BY LineFacts DEF IInv
  <2> QED BY <2>1, <2>2
<1> QED BY <1>1, Invariance, PTL

\* match finds every address of a listed host or range within an octet, in
\* whatever order the lines come.
THEOREM ListedHostsMatch == Spec => []NarrowMatched
<1>1. IInv => NarrowMatched
  <2> SUFFICES ASSUME IInv, pc = "no", NEW i \in DOMAIN lines,
                      lines[i].size >= 3 * OctetBits, In(lines[i], ip)
               PROVE  FALSE
    BY DEF NarrowMatched
  <2>1. i \in Index
    BY DEF IInv, Tree, Ends, Index, TypeOK
  <2>2. level = -1 /\ Ahead(i)
    BY <2>1 DEF IInv, Search, Ended, Target
  <2> QED BY <2>2 DEF Ahead
<1> QED BY <1>1, Invariance, PTL

LEMMA EnterOnward ==
  ASSUME IInv, Enter, pc' = "walk"
  PROVE  f'[level'] > f[level]
<1>1. level \in Position /\ pc = "walk" /\ level \in 0 .. 2 /\ level + 1 \in Position
  BY AtNode DEF Enter, Position
<1>2. lines # <<>>
  <2>1. SUFFICES ASSUME lines = <<>> PROVE FALSE
    OBVIOUS
  <2>2. level = 0 /\ f[0] = 1 /\ heap = <<Node(0, 0, 0)>>
    BY <1>1, <2>1 DEF IInv, Visit, Tree, Ends
  <2>3. f' = Entered /\ level' = Back(Entered, level + 1) /\ level' # -1
    BY DEF Enter, GoOn
  <2>4. Entered[0] = 0 /\ Entered[1] = 0
    <3>1. f \in [Position -> 0 .. Len(heap)]
      BY DEF IInv, TypeOK
    <3> QED BY <2>2, <3>1 DEF Entered, Current, Node, Position
  <2>5. level' \in -1 .. 1 /\ Entered[level'] # 0
    BY <1>1, <2>2, <2>3, Backs
  <2>6. level' = 0 \/ level' = 1
    BY <2>3, <2>5
  <2> QED BY <2>4, <2>5, <2>6
<1>3. level' = level + 1 /\ f' = Entered
  BY <1>2, EnterVisit DEF Enter, GoOn
<1>4. PICK i \in Index : Walked(i)
  BY <1>1, <1>2 DEF IInv, Visit
<1>5. f[level] = paths[i][level]
  BY <1>4 DEF Walked
<1>6. PICK k \in Index : Current.child = paths[k][level + 1] /\ Above(k, i, level + 1)
  BY <1>1, <1>5 DEF IInv, Tree, Children, Current
<1>7. paths[k][level] < paths[k][level + 1]
  BY <1>1 DEF IInv, Tree, Ordered
<1>8. paths[k][level] = paths[i][level]
  BY <1>1, <1>6 DEF Above
<1>9. f'[level'] = Current.child
  <2>1. f \in [Position -> 0 .. Len(heap)]
    BY DEF IInv, TypeOK
  <2> QED BY <1>1, <1>3, <2>1 DEF Entered
<1> QED BY <1>5, <1>6, <1>7, <1>8, <1>9

LEMMA PassOnward ==
  ASSUME IInv, Pass, pc' = "walk"
  PROVE  f'[level'] > f[level]
<1>1. level \in Position /\ pc = "walk"
  BY AtNode DEF Pass
<1> DEFINE g == [f EXCEPT ![level] = Current.next]
<1>2. f' = g /\ level' = Back(g, level) /\ level' # -1
  BY DEF Pass, GoOn
<1>3. g[level] = Current.next /\ \A m \in Position : m # level => g[m] = f[m]
  BY <1>1 DEF IInv, TypeOK
<1> HIDE DEF g
<1>4. level' \in -1 .. level /\ level' \in Position /\ g[level'] # 0
  BY <1>1, <1>2, Backs
<1>5. lines # <<>>
  <2>1. SUFFICES ASSUME lines = <<>> PROVE FALSE
    OBVIOUS
  <2>2. level = 0 /\ f[0] = 1 /\ heap = <<Node(0, 0, 0)>>
    BY <1>1, <2>1 DEF IInv, Visit, Tree, Ends
  <2>3. g[0] = 0
    BY <1>3, <2>2 DEF Current, Node
  <2>4. level' = 0
    BY <1>4, <2>2 DEF Position
  <2> QED BY <1>4, <2>3, <2>4
<1>6. PICK i \in Index : Walked(i)
  BY <1>1, <1>5 DEF IInv, Visit
<1>7. f[level] = paths[i][level] /\ \A l \in 0 .. level - 1 : f[l] = heap[paths[i][l]].next
  BY <1>6 DEF Walked
<1>8. g[level'] = heap[paths[i][level']].next /\ level \in level' .. 3
  <2>1. level' \in 0 .. 3 /\ level \in 0 .. 3 /\ level' <= level
    BY <1>1, <1>4 DEF Position
  <2>2. level \in level' .. 3
    BY <2>1
  <2>3. CASE level' = level
    BY <1>3, <1>7, <2>2, <2>3 DEF Current
  <2>4. CASE level' # level
    <3>1. level' \in 0 .. level - 1
      BY <2>1, <2>4
    <3> QED BY <1>3, <1>4, <1>7, <2>2, <2>4, <3>1
  <2> QED BY <2>3, <2>4
<1>9. PICK m \in Position : m = level'
  BY <1>4
<1>10. \A j \in m .. 3 : paths[i][j] < heap[paths[i][m]].next
  BY <1>4, <1>8, <1>9 DEF IInv, Tree, Siblings
<1> QED BY <1>2, <1>7, <1>8, <1>9, <1>10

\* Every step of match goes on to a node that was made later, so that it ends.
THEOREM WalkEnds == Spec => Onward
<1>1. IInv /\ [Next]_vars => [pc = "walk" /\ pc' = "walk" => f'[level'] > f[level]]_vars
  <2> SUFFICES ASSUME IInv, Next, pc = "walk", pc' = "walk" PROVE f'[level'] > f[level]
    OBVIOUS
  <2>1. Enter \/ Pass
    BY DEF Next, FirstLine, NextLine, Return, match, Found
  <2> QED BY <2>1, EnterOnward, PassOnward
<1> QED BY <1>1, Invariance, PTL DEF Spec, Onward

(***************************************************************************)
(* Capture.                                                                *)
(***************************************************************************)
Bad == {"warned", "refused"}

\* Nothing is open before listDevices has answered.
Fresh == runPc = "start" => runI = 0 /\ runJ = 0 /\ count = 0

\* The error text is that of some device before this one.
ErrorKept == runPc \in {"open", "getchar"} =>
               /\ runJ <= runI
               /\ errbuf <=> \E e \in 0 .. runI - 1 : outcome[e] \in Bad

\* The loop polls slots that were set, each with a device of its own.
Polling == runPc = "poll" =>
             /\ runJ < count
             /\ \A k, l \in 0 .. count - 1 : k < l => handles[k] < handles[l]

CaptureInv == CaptureTypeOK /\ Fresh /\ HandlesExact /\ ErrorKept /\ Polling

-----------------------------------------------------------------------------
\* Cardinality is the same for the instance.
LEMMA SameCardinality ==
  ASSUME NEW S
  PROVE  Cardinality(S) = Cardinality(S)
BY DEF Cardinality, Cardinality

LEMMA UsableFinite ==
  ASSUME CaptureTypeOK
  PROVE  IsFiniteSet(Usable) /\ Cardinality(Usable) \in Nat
<1>1. runI \in Int
  BY CaptureAssumption DEF CaptureTypeOK
<1>2. IsFiniteSet(0 .. runI - 1)
  BY <1>1, FS_Interval
<1>3. Usable \subseteq 0 .. runI - 1
  BY DEF Usable
<1> QED BY <1>2, <1>3, FS_Subset, FS_CardinalityType

\* What one turn of the opening loop adds to the usable devices.
LEMMA UsableGrows ==
  ASSUME CaptureInv, NEW o \in Outcome, OpenDevice(o)
  PROVE  /\ ~Refused(o) /\ o = "ok" => Usable' = Usable \cup {runI}
         /\ ~(~Refused(o) /\ o = "ok") => Usable' = Usable
         /\ runI \notin Usable
<1>1. /\ runI \in Nat /\ devices \in Nat /\ runI < devices /\ runI \in Device
      /\ runI' = runI + 1 /\ outcome' = [outcome EXCEPT ![runI] = o]
      /\ outcome \in [Device -> Outcome] /\ 0 .. runI \subseteq Device
  BY CaptureAssumption DEF CaptureInv, CaptureTypeOK, OpenDevice, opening, Device
<1>2. outcome'[runI] = o /\ \A d \in 0 .. runI - 1 : outcome'[d] = outcome[d]
  BY <1>1
<1>3. errbuf <=> \E e \in 0 .. runI - 1 : outcome[e] \in Bad
  BY DEF CaptureInv, ErrorKept, OpenDevice
<1>4. Refused(o) <=> \E e \in 0 .. runI : outcome'[e] \in Bad
  BY <1>1, <1>2, <1>3 DEF Refused, Bad
<1>5. \A d \in 0 .. runI - 1 : d \in Usable' <=> d \in Usable
  BY <1>1, <1>2 DEF Usable
<1>6. runI \in Usable' <=> (~Refused(o) /\ o = "ok")
  BY <1>1, <1>2, <1>4 DEF Usable, Bad
<1>7. Usable \subseteq 0 .. runI - 1 /\ Usable' \subseteq (0 .. runI - 1) \cup {runI}
  BY <1>1 DEF Usable
<1>8. runI \notin Usable
  BY <1>1, <1>7
<1> HIDE DEF Usable
<1> QED BY <1>5, <1>6, <1>7, <1>8

LEMMA OpenStep ==
  ASSUME CaptureInv, NEW o \in Outcome, OpenDevice(o)
  PROVE  CaptureInv'
<1>1. /\ runI \in Nat /\ devices \in Nat /\ runJ \in Nat /\ runI < devices /\ runJ <= runI
      /\ runI \in Device /\ runJ \in Device /\ count = runJ + devices - runI
      /\ handles \in [Device -> Device] /\ devices <= MaxDevices
  <2>1. /\ runI \in 0 .. devices /\ devices \in 0 .. MaxDevices /\ runJ \in 0 .. devices
        /\ handles \in [Device -> Device] /\ MaxDevices \in Nat
    BY CaptureAssumption DEF CaptureInv, CaptureTypeOK
  <2>2. runI < devices /\ runJ <= runI /\ count = runJ + devices - runI
    BY DEF CaptureInv, OpenDevice, ErrorKept, HandlesExact
  <2> QED BY <2>1, <2>2 DEF Device
<1>2. /\ handles' = [handles EXCEPT ![runJ] = runI] /\ outcome' = [outcome EXCEPT ![runI] = o]
      /\ errbuf' = Refused(o) /\ runI' = runI + 1 /\ runJ' = Slot(o)
      /\ count' = IF ~Refused(o) /\ o = "ok" THEN count ELSE count - 1
      /\ runPc' \in {"open", "getchar", "stopped"} /\ devices' = devices
  BY DEF OpenDevice
<1>3. Slot(o) = IF ~Refused(o) /\ o = "ok" THEN runJ + 1 ELSE runJ
  BY DEF Slot
<1>4. runJ' \in 0 .. devices' /\ runJ' <= runI' /\ count' = runJ' + devices' - runI' /\ count' \in 0 .. devices'
  BY <1>1, <1>2, <1>3
<1>5. CaptureTypeOK'
  <2>1. errbuf' \in BOOLEAN
    BY <1>2, Zenon DEF CaptureInv, CaptureTypeOK, Refused
  <2>2. handles' \in [Device -> Device] /\ outcome' \in [Device -> Outcome] /\ runI' \in 0 .. devices'
    BY <1>1, <1>2 DEF CaptureInv, CaptureTypeOK
  <2> QED BY <1>1, <1>2, <1>4, <2>1, <2>2 DEF CaptureInv, CaptureTypeOK, OpenDevice
<1>6. runJ' = Cardinality(Usable')
  <2>1. runJ = Cardinality(Usable)
    <3>1. runJ = Cardinality(Usable)
      BY DEF CaptureInv, HandlesExact, OpenDevice
    <3> QED BY <3>1, SameCardinality
  <2>2. Cardinality(Usable \cup {runI}) = Cardinality(Usable) + 1
    BY UsableFinite, UsableGrows, FS_AddElement DEF CaptureInv
  <2> QED BY <1>1, <1>2, <1>3, <2>1, <2>2, UsableGrows
<1>7. /\ \A k \in 0 .. runJ - 1 : handles'[k] = handles[k] /\ handles[k] < runI
      /\ handles'[runJ] = runI
  <2>1. \A k \in 0 .. runJ - 1 : handles[k] \in Usable
    BY DEF CaptureInv, HandlesExact, OpenDevice
  <2>2. \A d \in Usable : d < runI
    BY <1>1 DEF Usable
  <2>3. \A k \in 0 .. runJ - 1 : k \in Device /\ k # runJ
    BY <1>1, CaptureAssumption DEF Device
  <2> QED BY <1>1, <1>2, <2>1, <2>2, <2>3
<1>8. {handles'[k] : k \in 0 .. runJ' - 1} = Usable'
  <2>1. {handles[k] : k \in 0 .. runJ - 1} = Usable
    BY DEF CaptureInv, HandlesExact, OpenDevice
  <2>2. {handles'[k] : k \in 0 .. runJ - 1} = Usable
    BY <1>7, <2>1
  <2>3. CASE ~Refused(o) /\ o = "ok"
    <3>1. 0 .. runJ' - 1 = (0 .. runJ - 1) \cup {runJ}
      BY <1>1, <1>2, <1>3, <2>3
    <3> QED BY <1>7, <2>2, <2>3, <3>1, UsableGrows
  <2>4. CASE ~(~Refused(o) /\ o = "ok")
    BY <1>2, <1>3, <2>2, <2>4, UsableGrows
  <2> QED BY <2>3, <2>4
<1>9. \A k, l \in 0 .. runJ' - 1 : k < l => handles'[k] < handles'[l]
  <2>1. \A k, l \in 0 .. runJ - 1 : k < l => handles[k] < handles[l]
    BY DEF CaptureInv, HandlesExact, OpenDevice
  <2>2. \A k \in 0 .. runJ' - 1 : k \in 0 .. runJ - 1 \/ k = runJ
    BY <1>1, <1>2, <1>3
  <2> QED BY <1>1, <1>7, <2>1, <2>2
<1>10. ErrorKept'
  <2>1. errbuf <=> \E e \in 0 .. runI - 1 : outcome[e] \in Bad
    BY DEF CaptureInv, ErrorKept, OpenDevice
  <2>2. outcome'[runI] = o /\ \A d \in 0 .. runI - 1 : outcome'[d] = outcome[d]
    BY <1>1, <1>2 DEF CaptureInv, CaptureTypeOK, Device
  <2>3. Refused(o) <=> \E e \in 0 .. runI' - 1 : outcome'[e] \in Bad
    BY <1>1, <1>2, <2>1, <2>2 DEF Refused, Bad
  <2> QED BY <1>2, <1>4, <2>3 DEF ErrorKept
<1>11. runJ' = Cardinality(Usable')
  BY <1>6, SameCardinality
<1>12. HandlesExact'
  BY <1>4, <1>8, <1>9, <1>11 DEF HandlesExact
<1> QED BY <1>2, <1>5, <1>10, <1>12 DEF CaptureInv, Fresh, Polling

-----------------------------------------------------------------------------
LEMMA CaptureStarts == CaptureInit => CaptureInv
<1> SUFFICES ASSUME CaptureInit PROVE CaptureInv
  OBVIOUS
<1>1. /\ handles \in [Device -> Device] /\ outcome \in [Device -> Outcome]
      /\ waiting \in [Device -> Frame \cup {NoFrame}]
  BY CaptureAssumption DEF CaptureInit, Device, Outcome
<1>2. call \in [way : {"none", "up", "down"}, host : IpAddress]
  BY DEF CaptureInit, NoCall, IpAddress
<1>3. /\ devices \in 0 .. MaxDevices /\ runI \in 0 .. devices /\ runJ \in 0 .. devices /\ count \in 0 .. devices
      /\ packets \in 0 .. Burst - 1
  BY CaptureAssumption DEF CaptureInit
<1>4. CaptureTypeOK
  BY <1>1, <1>2, <1>3 DEF CaptureInit, CaptureTypeOK
<1> QED BY <1>4 DEF CaptureInit, CaptureInv, Fresh, HandlesExact, ErrorKept, Polling

LEMMA ListStep == CaptureInv /\ ListDevices => CaptureInv'
<1> SUFFICES ASSUME CaptureInv, ListDevices PROVE CaptureInv'
  OBVIOUS
<1>1. CaptureTypeOK'
  BY CaptureAssumption DEF CaptureInv, CaptureTypeOK, Fresh, ListDevices, opening
<1> QED BY <1>1 DEF CaptureInv, Fresh, HandlesExact, ErrorKept, Polling, ListDevices

\* The opening loop starts with no device and all slots to come.
LEMMA RunStep == CaptureInv /\ Run => CaptureInv'
<1> SUFFICES ASSUME CaptureInv, Run PROVE CaptureInv'
  OBVIOUS
<1>1. CaptureTypeOK'
  <2>1. waiting' \in [Device -> Frame \cup {NoFrame}]
    BY DEF CaptureInv, CaptureTypeOK, Run
  <2>2. runI' \in 0 .. devices /\ runJ' \in 0 .. devices /\ count' \in 0 .. devices
    BY CaptureAssumption DEF CaptureInv, CaptureTypeOK, Run, opening
  <2>4. runPc' \in {"asleep", "open"} /\ errbuf' \in BOOLEAN
    BY DEF CaptureInv, CaptureTypeOK, Run, opening
  <2>3. UNCHANGED <<net, devices, packets, handler, call, handles, outcome>>
    BY DEF Run, opening
  <2> QED BY <2>1, <2>2, <2>3, <2>4 DEF CaptureInv, CaptureTypeOK
<1>2. CASE net = NoNet
  BY <1>1, <1>2 DEF CaptureInv, Fresh, HandlesExact, ErrorKept, Polling, Run
<1>3. CASE net # NoNet
  <2>1. runPc' = "open" /\ runI' = 0 /\ runJ' = 0 /\ count' = devices' /\ errbuf' = FALSE /\ devices' \in Nat
    BY <1>3, CaptureAssumption DEF Run, CaptureInv, CaptureTypeOK
  <2>2. Usable' = {}
    BY <2>1 DEF Usable
  <2>3. Cardinality(Usable') = 0
    BY <2>2, FS_EmptySet
  <2>4. 0 .. runJ' - 1 = {} /\ 0 .. runI' - 1 = {}
    BY <2>1
  <2>5. HandlesExact'
    <3>1. count' = runJ' + devices' - runI'
      <4>1. runJ' = 0 /\ runI' = 0 /\ devices' \in Int /\ count' = devices'
        BY <2>1
      <4>2. \A x \in Int : x = 0 + x - 0
        OBVIOUS
      <4>3. devices' = 0 + devices' - 0
        BY <4>1, <4>2
      <4> QED BY <4>1, <4>3, Zenon
    <3>4. runJ' = Cardinality(Usable')
      BY <2>1, <2>3, Zenon
    <3>2. {handles'[k] : k \in 0 .. runJ' - 1} = Usable'
      BY <2>2, <2>4
    <3>3. \A k, l \in 0 .. runJ' - 1 : k < l => handles'[k] < handles'[l]
      BY <2>4
    <3>5. runJ' = Cardinality(Usable')
      BY <3>4, SameCardinality
    <3> QED BY <3>1, <3>2, <3>3, <3>5 DEF HandlesExact
  <2>6. ErrorKept'
    <3>1. ~\E e \in 0 .. runI' - 1 : outcome'[e] \in Bad
      BY <2>4
    <3>2. ~errbuf' /\ runJ' <= runI'
      BY <2>1
    <3> QED BY <3>1, <3>2, Zenon DEF ErrorKept
  <2> QED BY <1>1, <2>1, <2>5, <2>6 DEF CaptureInv, Fresh, Polling
<1> QED BY <1>2, <1>3

LEMMA WaitStep == CaptureInv /\ (WakeUp \/ GetChar) => CaptureInv'
<1> SUFFICES ASSUME CaptureInv, WakeUp \/ GetChar PROVE CaptureInv'
  OBVIOUS
<1>1. UNCHANGED <<net, devices, runJ, runI, count, handles, errbuf, outcome, packets, handler, waiting, call>>
  BY DEF WakeUp, GetChar, opening
<1>2. CaptureTypeOK'
  BY <1>1 DEF CaptureInv, CaptureTypeOK, WakeUp, GetChar
<1>3. Usable' = Usable
  BY <1>1 DEF Usable
<1>4. CASE WakeUp
  BY <1>2, <1>4 DEF CaptureInv, WakeUp, Fresh, HandlesExact, ErrorKept, Polling
<1>5. CASE GetChar
  BY <1>1, <1>2, <1>3, <1>5 DEF CaptureInv, GetChar, Fresh, HandlesExact, ErrorKept, Polling
<1> QED BY <1>4, <1>5

LEMMA StartStep == CaptureInv /\ StartPolling => CaptureInv'
<1> SUFFICES ASSUME CaptureInv, StartPolling PROVE CaptureInv'
  OBVIOUS
<1>1. CaptureTypeOK'
  BY CaptureAssumption DEF CaptureInv, CaptureTypeOK, StartPolling, Outcome
<1>2. /\ count = runJ /\ runI = devices /\ runJ \in Nat
      /\ \A k, l \in 0 .. runJ - 1 : k < l => handles[k] < handles[l]
  BY CaptureAssumption DEF CaptureInv, CaptureTypeOK, HandlesExact, StartPolling
<1> QED BY <1>1, <1>2 DEF CaptureInv, Fresh, HandlesExact, ErrorKept, Polling, StartPolling

\* What got_packet tells the callback of a frame.
LEMMA CallType ==
  ASSUME NEW p \in Frame
  PROVE  got_packet(p) \in [way : {"none", "up", "down"}, host : IpAddress]
<1>1. p.src \in IpAddress /\ p.dst \in IpAddress /\ NoCall \in [way : {"none", "up", "down"}, host : IpAddress]
  BY CaptureAssumption DEF NoCall, IpAddress
<1> QED BY <1>1 DEF got_packet

LEMMA PollStep ==
  ASSUME CaptureInv, Poll \/ Fail \/ NoHandles \/ \E d \in Device, p \in Frame : Arrive(d, p)
  PROVE  CaptureInv'
<1>1. CASE runPc = "poll"
  <2>1. /\ runJ \in Nat /\ count \in Nat \ {0} /\ runJ < count /\ devices \in Nat /\ count <= devices
        /\ devices <= MaxDevices /\ runJ \in Device /\ CurrentDevice \in Device
        /\ packets \in Nat /\ packets < Burst /\ Burst \in Nat \ {0}
    BY <1>1, CaptureAssumption DEF CaptureInv, CaptureTypeOK, Polling, CurrentDevice, Device
  <2>2. (runJ + 1) % count \in 0 .. count - 1
    BY <2>1
  <2>3. UNCHANGED <<net, devices, runI, count, handles, errbuf, outcome>>
    BY DEF Poll, Take, Timeout, Fail, NoHandles, Finish, Arrive, opening
  <2>4. runPc' \in {"poll", "asleep", "stopped"}
    BY <1>1 DEF Poll, Take, Timeout, Fail, NoHandles, Finish, Arrive
  <2>5. runJ' \in 0 .. count - 1 /\ packets' \in 0 .. Burst - 1
    BY <1>1, <2>1, <2>2 DEF Poll, Take, Timeout, NextTurn, Taken, Fail, NoHandles, Finish, Arrive
  <2>6. waiting' \in [Device -> Frame \cup {NoFrame}]
    BY <2>1 DEF CaptureInv, CaptureTypeOK, Poll, Take, Timeout, Fail, NoHandles, Finish, Arrive
  <2>7. call' \in [way : {"none", "up", "down"}, host : IpAddress]
    <3>1. CASE Take
      <4>1. waiting[CurrentDevice] \in Frame
        BY <2>1, <3>1 DEF Take, CaptureInv, CaptureTypeOK
      <4>2. NoCall \in [way : {"none", "up", "down"}, host : IpAddress]
        BY DEF NoCall, IpAddress
      <4> QED BY <3>1, <4>1, <4>2, CallType DEF Take
    <3>2. CASE ~Take
      BY <3>2 DEF CaptureInv, CaptureTypeOK, Poll, Timeout, Fail, NoHandles, Finish, Arrive
    <3> QED BY <3>1, <3>2
  <2>8. handler' \in {"null", "live", "dangling"}
    BY DEF CaptureInv, CaptureTypeOK, Poll, Take, Timeout, Fail, NoHandles, Finish, Arrive
  <2>9. CaptureTypeOK'
    BY <2>1, <2>3, <2>4, <2>5, <2>6, <2>7, <2>8 DEF CaptureInv, CaptureTypeOK
  <2>10. Polling'
    BY <1>1, <2>1, <2>3, <2>5 DEF CaptureInv, Polling
  <2> QED BY <2>4, <2>9, <2>10 DEF CaptureInv, Fresh, HandlesExact, ErrorKept
<1>2. CASE runPc = "noHandles"
  <2>1. runPc' \in {"asleep", "stopped", "spin"} /\ handler' \in {"null", "live", "dangling"}
        /\ UNCHANGED <<net, devices, runJ, runI, count, handles, errbuf, outcome, packets, waiting, call>>
    BY <1>2 DEF CaptureInv, CaptureTypeOK, Poll, Take, Timeout, Fail, NoHandles, Finish, Arrive, opening
  <2>2. CaptureTypeOK'
    BY <2>1 DEF CaptureInv, CaptureTypeOK
  <2> QED BY <2>1, <2>2 DEF CaptureInv, Fresh, HandlesExact, ErrorKept, Polling
<1> QED BY <1>1, <1>2 DEF Poll, Take, Timeout, Fail, NoHandles, Arrive

-----------------------------------------------------------------------------
\* The strengthened invariant holds from the first step on.
LEMMA CaptureInvariance == CaptureSpec => []CaptureInv
<1>1. CaptureInv /\ [CaptureNext]_(captureVars) => CaptureInv'
  <2> SUFFICES ASSUME CaptureInv, [CaptureNext]_(captureVars) PROVE CaptureInv'
    OBVIOUS
  <2>1. CASE UNCHANGED captureVars
    <3>1. Usable' = Usable
      BY <2>1 DEF captureVars, opening, Usable
    <3> QED BY <2>1, <3>1
            DEF captureVars, opening, CaptureInv, CaptureTypeOK, Fresh, HandlesExact, ErrorKept, Polling
  <2> QED BY <2>1, ListStep, RunStep, WaitStep, OpenStep, StartStep, PollStep DEF CaptureNext
<1> QED BY CaptureStarts, <1>1, PTL DEF CaptureSpec

\* The variables of run stay within their arrays: no slot outside handles is
\* written or polled, and the remainder by count is never one by zero.
THEOREM CaptureTypes == CaptureSpec => [](CaptureTypeOK /\ (runPc = "poll" => runJ < count))
<1>1. CaptureInv => CaptureTypeOK /\ (runPc = "poll" => runJ < count)
  BY DEF CaptureInv, Polling
<1> QED BY CaptureInvariance, <1>1, PTL

\* However the devices turn out to open, the slots run fills are the usable
\* devices in order, and count is as many as are still possible.
THEOREM SlotsAreUsable == CaptureSpec => []HandlesExact
<1>1. CaptureInv => HandlesExact
  BY DEF CaptureInv
<1> QED BY CaptureInvariance, <1>1, PTL

\* The polling loop has a device of its own in each of its slots.
THEOREM EachDeviceOnce ==
  CaptureSpec => [](runPc = "poll" => \A k, l \in 0 .. count - 1 : handles[k] = handles[l] => k = l)
<1>1. CaptureInv => (runPc = "poll" => \A k, l \in 0 .. count - 1 : handles[k] = handles[l] => k = l)
  <2> SUFFICES ASSUME CaptureInv, runPc = "poll", NEW k \in 0 .. count - 1, NEW l \in 0 .. count - 1,
                      handles[k] = handles[l]
               PROVE  k = l
    OBVIOUS
  <2>1. count \in Nat /\ count <= MaxDevices /\ handles \in [Device -> Device]
    BY CaptureAssumption DEF CaptureInv, CaptureTypeOK
  <2>2. k \in Int /\ l \in Int /\ handles[k] \in Int
    BY <2>1, CaptureAssumption DEF Device
  <2>3. ~(k < l) /\ ~(l < k)
    BY <2>2 DEF CaptureInv, Polling
  <2> QED BY <2>2, <2>3
<1> QED BY CaptureInvariance, <1>1, PTL

-----------------------------------------------------------------------------
\* Addresses as sets of bits and as numbers.
LEMMA LowDef ==
  ASSUME NEW a
  PROVE  /\ Low(a) \in [Nat -> Nat] /\ Low(a)[0] = 0
         /\ \A b \in Nat : Low(a)[b + 1] = Low(a)[b] + (IF b \in a THEN Pow2[b] ELSE 0)
<1> HIDE DEF Pow2
<1> DEFINE w == [b \in Nat |-> IF b - 1 \in a THEN Pow2[b - 1] ELSE 0]
           step == [b \in Nat |-> [v \in Nat |-> v + (IF b > 0 THEN w[b] ELSE 0)]]
<1>1. ASSUME NEW b \in Nat \ {0} PROVE w[b] \in Nat
  <2>1. b - 1 \in Nat
    OBVIOUS
  <2> QED BY <2>1, Pow2Type
<1> HIDE DEF w
<1>2. step \in [Nat -> [Nat -> Nat]] /\ \A b \in Nat \ {0}, v \in Nat : step[b][v] = v + w[b]
  BY <1>1
<1> HIDE DEF step
<1>3. PICK F \in [Nat -> Nat] : F[0] = 0 /\ \A b \in Nat \ {0} : F[b] = step[b][F[b - 1]]
  <2>1. 0 \in Nat /\ step \in [Nat -> [Nat -> Nat]]
    BY <1>2
  <2> QED BY <2>1, Recursion, Zenon
<1>4. ASSUME NEW b \in Nat, b # 0 PROVE F[b] = F[b - 1] + (IF b - 1 \in a THEN Pow2[b - 1] ELSE 0)
  <2>1. b - 1 \in Nat /\ b \in Nat \ {0}
    BY <1>4
  <2>2. F[b] = F[b - 1] + w[b]
    BY <1>2, <1>3, <2>1
  <2> QED BY <2>2 DEF w
<1>5. F = [b \in Nat |-> IF b = 0 THEN 0 ELSE F[b - 1] + (IF b - 1 \in a THEN Pow2[b - 1] ELSE 0)]
  BY <1>3, <1>4
<1>6. Low(a) = [b \in Nat |-> IF b = 0 THEN 0
                               ELSE Low(a)[b - 1] + (IF b - 1 \in a THEN Pow2[b - 1] ELSE 0)]
  BY <1>5, Zenon DEF Low
<1> HIDE DEF Low
<1>7. Low(a)[0] = 0
  BY <1>6
<1>8. ASSUME NEW b \in Nat
      PROVE  Low(a)[b + 1] = Low(a)[b] + (IF b \in a THEN Pow2[b] ELSE 0)
  <2>1. b + 1 \in Nat /\ b + 1 # 0 /\ (b + 1) - 1 = b
    OBVIOUS
  <2>2. Low(a)[b + 1] = Low(a)[(b + 1) - 1]
                            + (IF (b + 1) - 1 \in a THEN Pow2[(b + 1) - 1] ELSE 0)
    BY <1>6, <2>1
  <2> QED BY <2>1, <2>2
<1>9. \A b \in Nat : Low(a)[b] \in Nat
  <2> DEFINE S == {b \in Nat : Low(a)[b] \in Nat}
  <2>1. 0 \in S /\ \A b \in Nat : b \in S => b + 1 \in S
    BY <1>7, <1>8, Pow2Type
  <2> HIDE DEF S
  <2>2. \A b \in Nat : b \in S
    BY <2>1, AllNat
  <2> QED BY <2>2 DEF S
<1>10. Low(a) = [b \in Nat |-> Low(a)[b]]
  BY <1>6
<1> QED BY <1>7, <1>8, <1>9, <1>10

LEMMA LowBelow == ASSUME NEW a PROVE \A n \in Nat : Low(a)[n] \in 0 .. Pow2[n] - 1
<1> HIDE DEF Pow2
<1> DEFINE S == {n \in Nat : Low(a)[n] \in 0 .. Pow2[n] - 1}
<1>1. 0 \in S
  BY LowDef, Pow2Step
<1>2. ASSUME NEW n \in Nat, n \in S PROVE n + 1 \in S
  <2> DEFINE x == Low(a)[n]
             p == Pow2[n]
  <2>1. x \in 0 .. p - 1 /\ p \in Nat \ {0}
    BY <1>2, Pow2Type
  <2>2. Low(a)[n + 1] = x + (IF n \in a THEN p ELSE 0) /\ Pow2[n + 1] = 2 * p
    BY LowDef, Pow2Step
  <2> HIDE DEF x, p
  <2>3. Low(a)[n + 1] \in 0 .. Pow2[n + 1] - 1
    BY <2>1, <2>2
  <2> QED BY <2>3
<1> HIDE DEF S
<1>3. \A n \in Nat : n \in S
  BY <1>1, <1>2, AllNat
<1> QED BY <1>3 DEF S

\* Two addresses have the same lowest n bits if these make the same number.
LEMMA SameLow ==
  ASSUME NEW a, NEW b
  PROVE  \A n \in Nat : Low(a)[n] = Low(b)[n] <=> \A k \in 0 .. n - 1 : k \in a <=> k \in b
<1> HIDE DEF Pow2
<1> DEFINE Same(n) == \A k \in 0 .. n - 1 : k \in a <=> k \in b
           S == {n \in Nat : Low(a)[n] = Low(b)[n] <=> Same(n)}
<1>1. 0 \in S
  BY LowDef
<1>2. ASSUME NEW n \in Nat, n \in S PROVE n + 1 \in S
  <2>1. Same(n + 1) <=> Same(n) /\ (n \in a <=> n \in b)
    <3>1. 0 .. (n + 1) - 1 = (0 .. n - 1) \cup {n}
      OBVIOUS
    <3> QED BY <3>1
  <2> HIDE DEF Same
  <2> DEFINE x == Low(a)[n]
             y == Low(b)[n]
             p == Pow2[n]
  <2>2. x \in 0 .. p - 1 /\ y \in 0 .. p - 1 /\ p \in Nat
    BY LowBelow, Pow2Type
  <2>3. /\ Low(a)[n + 1] = x + (IF n \in a THEN p ELSE 0)
        /\ Low(b)[n + 1] = y + (IF n \in b THEN p ELSE 0)
    BY LowDef
  <2>4. x = y <=> Same(n)
    BY <1>2
  <2> HIDE DEF x, y, p
  <2>5. Low(a)[n + 1] = Low(b)[n + 1] <=> x = y /\ (n \in a <=> n \in b)
    BY <2>2, <2>3
  <2> QED BY <2>1, <2>4, <2>5
<1> HIDE DEF S
<1>3. \A n \in Nat : n \in S
  BY <1>1, <1>2, AllNat
<1> QED BY <1>3 DEF S

\* The bits from k on, as if they were the lowest.
Shifted(a, k) == {b \in Nat : k + b \in a}

LEMMA LowSplit ==
  ASSUME NEW a, NEW k \in Nat
  PROVE  \A n \in Nat : Low(a)[k + n] = Low(Shifted(a, k))[n] * Pow2[k] + Low(a)[k]
<1> HIDE DEF Pow2
<1> DEFINE h == Shifted(a, k)
           S == {n \in Nat : Low(a)[k + n] = Low(h)[n] * Pow2[k] + Low(a)[k]}
<1>1. 0 \in S
  BY LowDef, Pow2Type
<1>2. ASSUME NEW n \in Nat, n \in S PROVE n + 1 \in S
  <2>1. k + n \in a <=> n \in h
    BY DEF Shifted
  <2> HIDE DEF h
  <2> DEFINE x == Low(h)[n]
             p == Pow2[k]
             q == Pow2[n]
             z == Low(a)[k]
  <2>2. x \in Nat /\ p \in Nat /\ q \in Nat /\ z \in Nat /\ Pow2[k + n] = p * q
    <3>1. Low(h) \in [Nat -> Nat] /\ Low(a) \in [Nat -> Nat]
      BY LowDef
    <3>2. p \in Nat /\ q \in Nat /\ Pow2[k + n] = p * q
      BY Pow2Type, Pow2Sum
    <3> QED BY <3>1, <3>2
  <2>3. /\ Low(a)[(k + n) + 1] = (x * p + z) + (IF k + n \in a THEN p * q ELSE 0)
        /\ Low(h)[n + 1] = x + (IF n \in h THEN q ELSE 0)
    <3>1. k + n \in Nat
      OBVIOUS
    <3> QED BY <1>2, <2>2, <3>1, LowDef
  <2> HIDE DEF x, p, q, z
  <2>4. (x + q) * p + z = (x * p + z) + p * q /\ (x + 0) * p + z = (x * p + z) + 0
    BY <2>2
  <2>5. Low(a)[(k + n) + 1] = Low(h)[n + 1] * p + z
    BY <2>1, <2>3, <2>4
  <2>6. (k + n) + 1 = k + (n + 1) /\ n + 1 \in Nat
    OBVIOUS
  <2> QED BY <2>5, <2>6 DEF p, z
<1> HIDE DEF S
<1>3. \A n \in Nat : n \in S
  BY <1>1, <1>2, AllNat
<1> QED BY <1>3 DEF S

\* Addresses that differ under a mask of all but the k lowest bits lie in
\* different blocks of the size of the subnet, and the other way round.
LEMMA MaskIsBlock ==
  ASSUME NEW a \in IpAddress, NEW b \in IpAddress, NEW k \in 0 .. AddressBits
  PROVE  SymDiff(a, b) \cap (k .. AddressBits - 1) = {}
           <=> NumberOf(a) \div Pow2[k] = NumberOf(b) \div Pow2[k]
<1> HIDE DEF Pow2
<1> DEFINE n == AddressBits - k
           d == Shifted(a, k)
           e == Shifted(b, k)
<1>1. AddressBits \in Nat /\ k \in Nat /\ n \in Nat /\ k + n = AddressBits
  BY CaptureAssumption
<1> HIDE DEF n
<1>2. /\ NumberOf(a) = Low(d)[n] * Pow2[k] + Low(a)[k]
      /\ NumberOf(b) = Low(e)[n] * Pow2[k] + Low(b)[k]
  BY <1>1, LowSplit DEF NumberOf
<1>3. NumberOf(a) \div Pow2[k] = Low(d)[n] /\ NumberOf(b) \div Pow2[k] = Low(e)[n]
  <2>1. Pow2[k] \in Nat \ {0}
    BY <1>1, Pow2Type
  <2>2. Low(a)[k] \in 0 .. Pow2[k] - 1 /\ Low(b)[k] \in 0 .. Pow2[k] - 1
    BY <1>1, LowBelow
  <2>3. Low(d) \in [Nat -> Nat] /\ Low(e) \in [Nat -> Nat]
    BY LowDef
  <2>4. Low(d)[n] \in Int /\ Low(e)[n] \in Int
    BY <1>1, <2>3
  <2> QED BY <1>2, <2>1, <2>2, <2>4, Quotient
<1>4. Low(d)[n] = Low(e)[n] <=> \A i \in 0 .. n - 1 : i \in d <=> i \in e
  <2> HIDE DEF d, e
  <2> QED BY <1>1, SameLow
<1>5. (\A i \in 0 .. n - 1 : i \in d <=> i \in e) <=> \A j \in k .. AddressBits - 1 : j \in a <=> j \in b
  <2>1. ASSUME \A i \in 0 .. n - 1 : i \in d <=> i \in e, NEW j \in k .. AddressBits - 1
        PROVE  j \in a <=> j \in b
    <3>1. j - k \in 0 .. n - 1 /\ j - k \in Nat /\ k + (j - k) = j
      BY <1>1
    <3> QED BY <2>1, <3>1 DEF Shifted
  <2>2. ASSUME \A j \in k .. AddressBits - 1 : j \in a <=> j \in b, NEW i \in 0 .. n - 1
        PROVE  i \in d <=> i \in e
    <3>1. k + i \in k .. AddressBits - 1 /\ i \in Nat
      BY <1>1
    <3> QED BY <2>2, <3>1 DEF Shifted
  <2> QED BY <2>1, <2>2
<1>6. SymDiff(a, b) \cap (k .. AddressBits - 1) = {}
        <=> \A j \in k .. AddressBits - 1 : j \in a <=> j \in b
  BY DEF SymDiff
<1> QED BY <1>3, <1>4, <1>5, <1>6

\* got_packet, which compares bits, tells the callback what the numbers say.
LEMMA RightPacket ==
  ASSUME net \in Net, NEW p \in Frame, NEW k \in 0 .. AddressBits,
         net.mask = k .. AddressBits - 1
  PROVE  got_packet(p) = Due(p, k)
<1>1. p.src \in IpAddress /\ p.dst \in IpAddress /\ net.local \in IpAddress /\ p.headerOk \in BOOLEAN
  BY CaptureAssumption
<1>2. ASSUME NEW a \in IpAddress PROVE Remote(a) <=> ~Within(a, k)
  BY <1>1, <1>2, MaskIsBlock DEF Remote, Within
<1>3. (Remote(p.src) <=> ~Within(p.src, k)) /\ (Remote(p.dst) <=> ~Within(p.dst, k))
  BY <1>1, <1>2
<1> QED BY <1>1, <1>3 DEF got_packet, Due

\* Every frame that is read leads to the right call, for addresses of any number
\* of bits and any mask of leading bits: what got_packet finds by comparing bits
\* is whether the hosts are in the subnet as a range of numbers.
THEOREM CallsAreRight == CaptureSpec => RightCall
<1> DEFINE A == \A d \in Device, k \in 0 .. AddressBits :
                  net # NoNet /\ net.mask = k .. AddressBits - 1 => Told(d, k)
<1>1. CaptureInv /\ [CaptureNext]_(captureVars) => [A]_(captureVars)
  <2> SUFFICES ASSUME CaptureInv, CaptureNext, NEW d \in Device, NEW k \in 0 .. AddressBits,
                      net # NoNet, net.mask = k .. AddressBits - 1,
                      handler = "live", runPc' = "poll", waiting[d] # NoFrame, waiting'[d] = NoFrame
               PROVE  call' = Due(waiting[d], k)
    BY DEF Told
  <2>1. Take
    BY CaptureAssumption
       DEF CaptureNext, ListDevices, Run, WakeUp, OpenDevice, GetChar, StartPolling,
           Poll, Timeout, Fail, Finish, NoHandles, Arrive, CaptureInv, CaptureTypeOK
  <2>2. net \in Net /\ waiting[d] \in Frame /\ waiting \in [Device -> Frame \cup {NoFrame}]
    BY DEF CaptureInv, CaptureTypeOK
  <2>3. waiting[d] = waiting[CurrentDevice]
    BY <2>1, <2>2 DEF Take
  <2>4. call' = got_packet(waiting[d])
    BY <2>1, <2>3 DEF Take
  <2> QED BY <2>2, <2>4, RightPacket
<1> QED BY <1>1, CaptureInvariance, PTL DEF CaptureSpec, RightCall
=============================================================================
