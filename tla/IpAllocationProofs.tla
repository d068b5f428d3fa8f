------------------------- MODULE IpAllocationProofs -------------------------
(***************************************************************************)
(* The allocation of an address, for addresses and bytes of every width:   *)
(* TLC goes through the prefixes of two small address families, these      *)
(* theorems are about the 32 and 128 bits of the code too.                 *)
(***************************************************************************)
EXTENDS IpAllocation, WellFoundedInduction, TLAPS

-----------------------------------------------------------------------------
(* Induction, over a set and not over a predicate                           *)

\* A set that has 0, and n + 1 with every n of Nat it has, has all of Nat.
LEMMA SetInduction ==
  ASSUME NEW S, 0 \in S, \A n \in Nat : n \in S => n + 1 \in S
  PROVE  Nat \subseteq S
<1> DEFINE T == {n \in Nat : n \notin S}
           R == OpToRel(<, Nat)
<1> SUFFICES ASSUME T # {} PROVE FALSE
    OBVIOUS
<1>1. PICK x \in T : \A y \in T : ~ (<<y, x>> \in R)
    BY NatLessThanWellFounded, WFMin
<1>2. x # 0 /\ x \in Nat
    OBVIOUS
<1>3. x - 1 \in Nat /\ x - 1 < x
    BY <1>2
<1>4. <<x - 1, x>> \in R
    BY <1>3, <1>2 DEF OpToRel
<1>5. x - 1 \in S
    BY <1>1, <1>3, <1>4
<1>6. (x - 1) + 1 \in S
    BY <1>3, <1>5
<1> QED
    BY <1>6, <1>2

\* A set of natural numbers that is not empty has a least one.
LEMMA LeastOf ==
  ASSUME NEW S, S \subseteq Nat, S # {}
  PROVE  /\ Min(S) \in S
         /\ \A y \in S : Min(S) <= y
<1> DEFINE R == OpToRel(<, Nat)
<1>1. PICK x \in S : \A y \in S : ~ (<<y, x>> \in R)
    BY NatLessThanWellFounded, WFMin
<1>2. \A y \in S : x <= y
  <2> TAKE y \in S
  <2>1. ~ (y < x)
      BY <1>1 DEF OpToRel
  <2> QED
      BY <2>1
<1> QED
    BY <1>1, <1>2 DEF Min

-----------------------------------------------------------------------------
(* Powers of two: what the recursive definition defines                     *)

\* The powers of two up to n, as a function of their exponents.
Powers(f, n) == f = [k \in 0..n |-> IF k = 0 THEN 1 ELSE 2 * f[k - 1]]

\* There is such a function for every n: the one for n, and one entry more.
LEMMA PowersExist == \A n \in Nat : \E f : Powers(f, n)
<1> DEFINE S == {n \in Nat : \E f : Powers(f, n)}
<1>1. 0 \in S
  <2>1. Powers([k \in 0..0 |-> 1], 0)
      BY DEF Powers
  <2> QED
      BY <2>1
<1>2. ASSUME NEW n \in Nat, n \in S PROVE n + 1 \in S
  <2>1. PICK f : Powers(f, n)
      BY <1>2
  <2> DEFINE g == [k \in 0..(n + 1) |-> IF k = n + 1 THEN 2 * f[n] ELSE f[k]]
  <2>2. \A k \in 0..n : f[k] = IF k = 0 THEN 1 ELSE 2 * f[k - 1]
      BY <2>1 DEF Powers
  <2>3. \A k \in 0..(n + 1) : g[k] = IF k = 0 THEN 1 ELSE 2 * g[k - 1]
    <3> TAKE k \in 0..(n + 1)
    <3>1. CASE k = n + 1
        BY <3>1
    <3>2. CASE k # n + 1
        BY <3>2, <2>2
    <3> QED
        BY <3>1, <3>2
  <2>4. g = [k \in 0..(n + 1) |-> IF k = 0 THEN 1 ELSE 2 * g[k - 1]]
      BY <2>3
  <2> HIDE DEF g
  <2>5. Powers(g, n + 1)
      BY <2>4 DEF Powers
  <2> QED
      BY <2>5
<1> HIDE DEF S
<1>3. Nat \subseteq S
    BY <1>1, <1>2, SetInduction
<1> QED
    BY <1>3 DEF S

\* Two of them agree.
LEMMA PowersAgree ==
  ASSUME NEW m \in Nat, NEW n \in Nat, NEW f, NEW g, Powers(f, m), Powers(g, n)
  PROVE  \A k \in Nat : k <= m /\ k <= n => f[k] = g[k]
<1> DEFINE S == {k \in Nat : k <= m /\ k <= n => f[k] = g[k]}
<1>1. /\ \A k \in 0..m : f[k] = IF k = 0 THEN 1 ELSE 2 * f[k - 1]
      /\ \A k \in 0..n : g[k] = IF k = 0 THEN 1 ELSE 2 * g[k - 1]
    BY DEF Powers
<1>2. 0 \in S
    BY <1>1
<1>3. ASSUME NEW k \in Nat, k \in S PROVE k + 1 \in S
    BY <1>1, <1>3
<1> HIDE DEF S
<1>4. Nat \subseteq S
    BY <1>2, <1>3, SetInduction
<1> QED
    BY <1>4 DEF S

\* The function of all the exponents is a solution of the recursive equation, so that
\* Pow2 is one.
LEMMA Pow2Def == Pow2 = [n \in Nat |-> IF n = 0 THEN 1 ELSE 2 * Pow2[n - 1]]
<1> DEFINE F(n) == CHOOSE f : Powers(f, n)
           G == [n \in Nat |-> F(n)[n]]
<1>1. \A n \in Nat : Powers(F(n), n)
    BY PowersExist
<1> HIDE DEF F
<1>2. \A n \in Nat : G[n] = IF n = 0 THEN 1 ELSE 2 * G[n - 1]
  <2> TAKE n \in Nat
  <2>1. F(n)[n] = IF n = 0 THEN 1 ELSE 2 * F(n)[n - 1]
    <3>1. Powers(F(n), n) /\ n \in 0..n
        BY <1>1
    <3> QED
        BY <3>1 DEF Powers
  <2>2. CASE n = 0
      BY <2>1, <2>2
  <2>3. CASE n # 0
    <3>1. n - 1 \in Nat /\ n - 1 <= n
        BY <2>3
    <3>2. F(n)[n - 1] = F(n - 1)[n - 1]
        BY <1>1, <3>1, PowersAgree
    <3> QED
        BY <2>1, <2>3, <3>1, <3>2
  <2> QED
      BY <2>2, <2>3
<1>3. G = [n \in Nat |-> IF n = 0 THEN 1 ELSE 2 * G[n - 1]]
    BY <1>2
<1> HIDE DEF G
<1>4. \E g : g = [n \in Nat |-> IF n = 0 THEN 1 ELSE 2 * g[n - 1]]
    BY <1>3
<1> QED
    BY <1>4 DEF Pow2

\* What the proofs use of it.
LEMMA Pow2Step ==
  /\ Pow2[0] = 1
  /\ \A n \in Nat : Pow2[n + 1] = 2 * Pow2[n]
<1>1. \A n \in Nat : Pow2[n] = IF n = 0 THEN 1 ELSE 2 * Pow2[n - 1]
    BY Pow2Def
<1>2. Pow2[0] = 1
    BY <1>1
<1>3. ASSUME NEW n \in Nat PROVE Pow2[n + 1] = 2 * Pow2[n]
  <2>1. n + 1 \in Nat /\ n + 1 # 0 /\ (n + 1) - 1 = n
      OBVIOUS
  <2> QED
      BY <1>1, <2>1
<1> QED
    BY <1>2, <1>3

\* A power of two is a positive number.
LEMMA Pow2Type == \A n \in Nat : Pow2[n] \in Nat /\ Pow2[n] > 0
<1> DEFINE S == {n \in Nat : Pow2[n] \in Nat /\ Pow2[n] > 0}
<1>1. 0 \in S
    BY Pow2Step
<1>2. ASSUME NEW n \in Nat, n \in S PROVE n + 1 \in S
    BY <1>2, Pow2Step
<1> HIDE DEF S
<1>3. Nat \subseteq S
    BY <1>1, <1>2, SetInduction
<1> QED
    BY <1>3 DEF S

\* Exponents are added.
LEMMA Pow2Sum == \A m, n \in Nat : Pow2[m + n] = Pow2[m] * Pow2[n]
<1> TAKE m \in Nat
<1> DEFINE S == {n \in Nat : Pow2[m + n] = Pow2[m] * Pow2[n]}
<1>1. 0 \in S
    BY Pow2Step, Pow2Type
<1>2. ASSUME NEW n \in Nat, n \in S PROVE n + 1 \in S
  <2>1. Pow2[m + n] = Pow2[m] * Pow2[n]
      BY <1>2
  <2>2. m + n \in Nat /\ (m + n) + 1 = m + (n + 1)
      OBVIOUS
  <2>3. Pow2[m + (n + 1)] = 2 * Pow2[m + n] /\ Pow2[n + 1] = 2 * Pow2[n]
      BY <2>2, Pow2Step
  <2>4. Pow2[m] \in Nat /\ Pow2[n] \in Nat
      BY Pow2Type
  <2>5. \A a, b \in Nat : 2 * (a * b) = a * (2 * b)
      OBVIOUS
  <2>6. Pow2[m + (n + 1)] = Pow2[m] * Pow2[n + 1]
      BY <2>1, <2>3, <2>4, <2>5
  <2> QED
      BY <2>6
<1> HIDE DEF S
<1>3. Nat \subseteq S
    BY <1>1, <1>2, SetInduction
<1> QED
    BY <1>3 DEF S

\* A larger exponent: at least twice as much.
LEMMA Pow2Less ==
  ASSUME NEW m \in Nat, NEW n \in Nat, m < n
  PROVE  2 * Pow2[m] <= Pow2[n] /\ Pow2[m] < Pow2[n]
<1> DEFINE k == n - m - 1
<1>1. k \in Nat /\ n = m + (k + 1) /\ k + 1 \in Nat
    OBVIOUS
<1>2. Pow2[n] = Pow2[m] * Pow2[k + 1] /\ Pow2[k + 1] = 2 * Pow2[k]
    BY <1>1, Pow2Sum, Pow2Step
<1>3. Pow2[m] \in Nat /\ Pow2[m] > 0 /\ Pow2[k] \in Nat /\ Pow2[k] > 0
    BY <1>1, Pow2Type
<1>4. \A a, b \in Nat : a > 0 /\ b > 0 => 2 * a <= a * (2 * b) /\ a < a * (2 * b)
    OBVIOUS
<1> QED
    BY <1>2, <1>3, <1>4

-----------------------------------------------------------------------------
(* Prefixes and their subnets                                               *)

\* A prefix of one of the two families.
LEMMA PrefixType ==
  ASSUME NEW p \in Prefixes
  PROVE  /\ p.bits \in {Bits4, Bits6} /\ p.bits \in Nat /\ p.bits > 0
         /\ p.ones \in 0..p.bits /\ HostBits(p) \in Nat /\ HostBits(p) + p.ones = p.bits
         /\ p.ip \in Nat /\ p.ip < Pow2[p.bits]
<1>1. PICK b \in {Bits4, Bits6} : p \in [bits : {b}, ip : 0..(Pow2[b] - 1), ones : 0..b]
    BY DEF Prefixes
<1>2. b \in Nat /\ b > 0
    BY WidthAssumption
<1>3. Pow2[b] \in Nat
    BY <1>2, Pow2Type
<1>4. p.bits = b /\ p.ip \in 0..(Pow2[b] - 1) /\ p.ones \in 0..b
    BY <1>1
<1> QED
    BY <1>2, <1>3, <1>4 DEF HostBits

\* Where a number is among the multiples of s.
LEMMA Multiple ==
  ASSUME NEW a \in Nat, NEW s \in Nat, s > 0
  PROVE  /\ a - (a % s) = s * (a \div s) /\ a \div s \in Nat
         /\ a % s \in Nat /\ a % s < s /\ a % s <= a
OBVIOUS

\* The subnet of a prefix: it has the address of the prefix, and lies in the address
\* space of its family, because its size divides that of the space.
LEMMA Subnet ==
  ASSUME NEW p \in Prefixes
  PROVE  /\ Size(p) \in Nat /\ Size(p) > 0
         /\ Network(p) \in Nat /\ Network(p) <= p.ip /\ p.ip < Network(p) + Size(p)
         /\ Network(p) + Size(p) <= Pow2[p.bits]
<1> DEFINE q == p.ip \div Size(p)
<1>1. /\ p.ones \in Nat /\ HostBits(p) \in Nat /\ HostBits(p) + p.ones = p.bits
      /\ p.ip \in Nat /\ p.ip < Pow2[p.bits]
    BY PrefixType
<1>2. Size(p) \in Nat /\ Size(p) > 0 /\ Pow2[p.ones] \in Nat
    BY <1>1, Pow2Type DEF Size
<1>3. /\ Network(p) = Size(p) * q /\ q \in Nat
      /\ p.ip % Size(p) \in Nat /\ p.ip % Size(p) < Size(p) /\ p.ip % Size(p) <= p.ip
    BY <1>1, <1>2, Multiple DEF Network
<1>4. Network(p) \in Nat /\ Network(p) <= p.ip /\ p.ip < Network(p) + Size(p)
    BY <1>1, <1>2, <1>3 DEF Network
<1>5. Pow2[p.bits] = Size(p) * Pow2[p.ones]
    BY <1>1, Pow2Sum DEF Size
<1>6. \A a, b, s \in Nat : s * a < s * b => s * a + s <= s * b
  <2> TAKE a, b, s \in Nat
  <2>1. a >= b => s * a >= s * b
      OBVIOUS
  <2>2. a < b => s * (a + 1) <= s * b
      OBVIOUS
  <2> QED
      BY <2>1, <2>2
<1>7. Size(p) * q < Size(p) * Pow2[p.ones]
    BY <1>1, <1>2, <1>3, <1>4, <1>5
<1>8. Size(p) * q + Size(p) <= Size(p) * Pow2[p.ones]
    BY <1>2, <1>3, <1>6, <1>7
<1> QED
    BY <1>2, <1>3, <1>4, <1>5, <1>8

\* An address of the family has all its bytes unless the first one is zero.
LEMMA AllBytes ==
  ASSUME NEW p \in Prefixes, NEW v \in Nat, v < Pow2[p.bits]
  PROVE  ByteLen(v) = p.bits \div ByteBits <=> v >= Pow2[p.bits - ByteBits]
<1> DEFINE n == p.bits \div ByteBits
           K == {k \in 0..(Bits6 \div ByteBits + 1) : v < Pow2[ByteBits * k]}
<1>1. /\ ByteBits \in Nat /\ ByteBits > 0 /\ Bits6 \in Nat /\ Bits6 > 0
      /\ p.bits \in Nat /\ p.bits > 0 /\ p.bits <= Bits6 /\ p.bits % ByteBits = 0
    BY PrefixType, WidthAssumption
<1>2. ByteBits * n = p.bits /\ n \in Nat /\ n > 0
    BY <1>1
<1>3. n <= Bits6 \div ByteBits /\ Bits6 \div ByteBits \in Nat
    BY <1>1
<1>4. ByteBits * (n - 1) = p.bits - ByteBits /\ n - 1 \in Nat
    BY <1>1, <1>2
<1>5. n \in K
    BY <1>2, <1>3
<1>6. \A k \in K : k \in Nat /\ v < Pow2[ByteBits * k]
    BY <1>1, <1>3
<1>7. n - 1 \in K <=> v < Pow2[p.bits - ByteBits]
    BY <1>2, <1>3, <1>4
<1>8. \A k \in K : k < n - 1 => v < Pow2[p.bits - ByteBits]
  <2> SUFFICES ASSUME NEW k \in K, k < n - 1 PROVE v < Pow2[p.bits - ByteBits]
      OBVIOUS
  <2>1. k \in Nat /\ v < Pow2[ByteBits * k]
      BY <1>6
  <2>2. ByteBits * k < ByteBits * (n - 1)
      BY <1>1, <1>2, <2>1
  <2>3. ByteBits * k \in Nat /\ p.bits - ByteBits \in Nat
      BY <1>1, <1>4, <2>1, <2>2
  <2>4. Pow2[ByteBits * k] < Pow2[p.bits - ByteBits]
      BY <1>4, <2>2, <2>3, Pow2Less
  <2>5. Pow2[ByteBits * k] \in Nat /\ Pow2[p.bits - ByteBits] \in Nat
      BY <2>3, Pow2Type
  <2> QED
      BY <2>1, <2>4, <2>5
<1>9. K \subseteq Nat /\ K # {}
    BY <1>5, <1>6
<1>10. ByteLen(v) = Min(K)
    BY DEF ByteLen
<1>11. p.bits - ByteBits \in Nat
    BY <1>1, <1>2, <1>4
<1>12. Pow2[p.bits - ByteBits] \in Nat
    BY <1>11, Pow2Type
<1> HIDE DEF K, n
<1>13. Min(K) \in K /\ \A k \in K : Min(K) <= k
    BY <1>9, LeastOf
<1>14. CASE v < Pow2[p.bits - ByteBits]
  <2>1. n - 1 \in K
      BY <1>7, <1>14
  <2>2. Min(K) <= n - 1
      BY <1>13, <2>1
  <2>3. Min(K) # n
      BY <1>2, <1>6, <1>13, <2>2
  <2> QED
      BY <1>10, <1>12, <1>14, <2>3 DEF n
<1>15. CASE ~(v < Pow2[p.bits - ByteBits])
  <2>1. Min(K) \in Nat /\ Min(K) <= n /\ Min(K) # n - 1 /\ ~(Min(K) < n - 1)
      BY <1>5, <1>6, <1>7, <1>8, <1>13, <1>15
  <2>2. Min(K) = n
      BY <1>2, <2>1
  <2> QED
      BY <1>10, <1>12, <1>15, <2>2 DEF n
<1> QED
    BY <1>14, <1>15

-----------------------------------------------------------------------------
(* The allocation                                                           *)

\* The address at an index of a subnet, if the subnet has it and it has all its bytes.
LEMMA Indexed ==
  ASSUME NEW p \in Prefixes, NEW i \in Nat
  PROVE  GetIndexedIP(p, i) =
           IF i < Size(p) /\ Network(p) + i >= Pow2[p.bits - ByteBits]
           THEN Network(p) + i ELSE Error
<1>1. /\ Size(p) \in Nat /\ Network(p) \in Nat
      /\ Network(p) + Size(p) <= Pow2[p.bits] /\ Pow2[p.bits] \in Nat
    BY Subnet, PrefixType, Pow2Type
<1>2. CASE i < Size(p)
  <2>1. Network(p) + i \in Nat /\ Network(p) + i < Pow2[p.bits]
      BY <1>1, <1>2
  <2>2. Contains(p, Network(p) + i) <=> Network(p) + i >= Pow2[p.bits - ByteBits]
    <3>1. Contains(p, Network(p) + i) <=> ByteLen(Network(p) + i) = p.bits \div ByteBits
        BY <1>1, <1>2 DEF Contains
    <3>2. ByteLen(Network(p) + i) = p.bits \div ByteBits
            <=> Network(p) + i >= Pow2[p.bits - ByteBits]
        BY <2>1, AllBytes
    <3> QED
        BY <3>1, <3>2
  <2> QED
      BY <1>2, <2>2 DEF GetIndexedIP
<1>3. CASE ~(i < Size(p))
  <2>1. ~Contains(p, Network(p) + i)
      BY <1>1, <1>3 DEF Contains
  <2> QED
      BY <1>3, <2>1 DEF GetIndexedIP
<1> QED
    BY <1>2, <1>3

\* The range of a subnet is the subnet, or the part of it below the cap.
LEMMA RangeOf ==
  ASSUME NEW p \in Prefixes
  PROVE  /\ RangeSize(p) \in Nat /\ RangeSize(p) <= Size(p)
         /\ RangeSize(p) = 0 <=> HostBits(p) >= p.bits - 1
         /\ RangeSize(p) = 1 => Size(p) = 1
         /\ RangeSize(p) > 0 =>
              RangeSize(p) =
                Min(IF p.bits = Bits6 THEN {Size(p), Pow2[CapBits]} ELSE {Size(p)})
<1>1. /\ HostBits(p) \in Nat /\ p.bits \in Nat /\ CapBits \in Nat /\ CapBits > 0
    BY PrefixType, WidthAssumption
<1>2. /\ Size(p) \in Nat /\ Size(p) > 0 /\ Pow2[CapBits] \in Nat /\ Pow2[CapBits] > 0
    BY <1>1, Subnet, Pow2Type
<1>3. Pow2[CapBits] > 1
    BY <1>1, <1>2, Pow2Less, Pow2Step
<1>4. HostBits(p) >= CapBits => Pow2[CapBits] <= Size(p)
    BY <1>1, <1>2, Pow2Less DEF Size
<1>5. HostBits(p) < CapBits => Size(p) <= Pow2[CapBits]
    BY <1>1, <1>2, Pow2Less DEF Size
<1>6. CASE HostBits(p) >= p.bits - 1
    BY <1>1, <1>2, <1>6 DEF RangeSize
<1>7. CASE ~(HostBits(p) >= p.bits - 1) /\ p.bits = Bits6 /\ HostBits(p) >= CapBits
  <2>1. RangeSize(p) = Pow2[CapBits]
      BY <1>7 DEF RangeSize
  <2>2. Min({Size(p), Pow2[CapBits]}) = Pow2[CapBits]
      BY <1>2, <1>4, <1>7 DEF Min
  <2> QED
      BY <1>2, <1>3, <1>4, <1>7, <2>1, <2>2
<1>8. CASE ~(HostBits(p) >= p.bits - 1) /\ ~(p.bits = Bits6 /\ HostBits(p) >= CapBits)
  <2>1. RangeSize(p) = Size(p)
      BY <1>8 DEF RangeSize
  <2>2. CASE p.bits = Bits6
    <3>1. Size(p) <= Pow2[CapBits]
        BY <1>1, <1>5, <1>8, <2>2
    <3>2. Min({Size(p), Pow2[CapBits]}) = Size(p)
        BY <1>2, <3>1 DEF Min
    <3> QED
        BY <1>2, <1>8, <2>1, <2>2, <3>2
  <2>3. CASE p.bits # Bits6
    <3>1. Min({Size(p)}) = Size(p)
        BY <1>2 DEF Min
    <3> QED
        BY <1>2, <1>8, <2>1, <2>3, <3>1
  <2> QED
      BY <2>2, <2>3
<1> QED
    BY <1>6, <1>7, <1>8

\* The index of the gateway in its subnet.
Index(p, s) == IF s = "last" THEN RangeSize(p) - 1 ELSE 1

\* What a prefix is turned into: itself, an address of its subnet, or an error.
LEMMA Info ==
  ASSUME NEW p \in Prefixes, NEW s
  PROVE  /\ ~NamesSubnet(p) => IPInfo(p, s) = p.ip
         /\ NamesSubnet(p) /\ s = "last" /\ RangeSize(p) = 0 => IPInfo(p, s) = Error
         /\ NamesSubnet(p) /\ ~(s = "last" /\ RangeSize(p) = 0) =>
              /\ Index(p, s) \in Nat
              /\ IPInfo(p, s) =
                   IF Index(p, s) < Size(p) /\ Network(p) + Index(p, s) >= Pow2[p.bits - ByteBits]
                   THEN Network(p) + Index(p, s) ELSE Error
<1>1. RangeSize(p) \in Nat
    BY RangeOf
<1>2. ASSUME NamesSubnet(p), ~(s = "last" /\ RangeSize(p) = 0)
      PROVE  Index(p, s) \in Nat /\ IPInfo(p, s) = GetIndexedIP(p, Index(p, s))
    BY <1>1, <1>2 DEF Index, IPInfo, GetLastIP, GetFirstIP
<1>3. ~NamesSubnet(p) => IPInfo(p, s) = p.ip
    BY DEF IPInfo
<1>4. NamesSubnet(p) /\ s = "last" /\ RangeSize(p) = 0 => IPInfo(p, s) = Error
    BY DEF IPInfo, GetLastIP
<1> QED
    BY <1>2, <1>3, <1>4, Indexed

\* An address, or Error: never taken for an allocation that has not been made.
LEMMA InfoType ==
  ASSUME NEW p \in Prefixes, NEW s
  PROVE  IPInfo(p, s) \in Nat \cup {Error} /\ IPInfo(p, s) # Pending
<1>1. p.ip \in Nat /\ Network(p) \in Nat
    BY PrefixType, Subnet
<1>2. IPInfo(p, s) \in Nat \cup {Error}
    BY <1>1, Info
<1> QED
    BY <1>2 DEF Error, Pending

\* The states of the allocation.
AllocationInv ==
  /\ prefix \in Prefixes /\ strategy \in {"first", "last"}
  /\ gateway = Pending \/ gateway = IPInfo(prefix, strategy)

\* The invariant the theorems follow from.
LEMMA AllocationInvariant == Spec => []AllocationInv
<1>1. Init => AllocationInv
    BY DEF Init, AllocationInv
<1>2. AllocationInv /\ [Allocate]_vars => AllocationInv'
    BY DEF AllocationInv, Allocate, vars
<1> QED
    BY <1>1, <1>2, PTL DEF Spec

\* What is allocated, and what is an error.
LEMMA AllocatedInfo ==
  ASSUME AllocationInv
  PROVE  /\ Allocated => gateway = IPInfo(prefix, strategy) /\ IPInfo(prefix, strategy) # Error
         /\ gateway = Error <=> gateway # Pending /\ IPInfo(prefix, strategy) = Error
<1>1. IPInfo(prefix, strategy) # Pending /\ Error # Pending
    BY InfoType DEF AllocationInv, Error, Pending
<1> QED
    BY <1>1 DEF AllocationInv, Allocated

\* An interface gets an address of the subnet its prefix names, and its network address
\* only where the prefix says so or there is no other.
THEOREM GatewayCorrect == Spec => []GatewayInSubnet
<1>1. ASSUME AllocationInv PROVE GatewayInSubnet
  <2> SUFFICES ASSUME Allocated
               PROVE  /\ gateway \in Network(prefix)..(Network(prefix) + Size(prefix) - 1)
                      /\ gateway = Network(prefix) => ~NamesSubnet(prefix) \/ Size(prefix) = 1
      BY DEF GatewayInSubnet
  <2>1. prefix \in Prefixes
      BY <1>1 DEF AllocationInv
  <2>2. gateway = IPInfo(prefix, strategy) /\ IPInfo(prefix, strategy) # Error
      BY <1>1, AllocatedInfo
  <2>3. /\ Size(prefix) \in Nat /\ Size(prefix) > 0 /\ Network(prefix) \in Nat
        /\ Network(prefix) <= prefix.ip /\ prefix.ip < Network(prefix) + Size(prefix)
        /\ prefix.ip \in Nat
      BY <2>1, Subnet, PrefixType
  <2>4. CASE ~NamesSubnet(prefix)
      BY <2>1, <2>2, <2>3, <2>4, Info
  <2>5. CASE NamesSubnet(prefix)
    <3>1. /\ Index(prefix, strategy) \in Nat /\ Index(prefix, strategy) < Size(prefix)
          /\ gateway = Network(prefix) + Index(prefix, strategy)
        BY <2>1, <2>2, <2>5, Info
    <3>2. Index(prefix, strategy) = 0 => Size(prefix) = 1
      <4>1. RangeSize(prefix) \in Nat /\ (RangeSize(prefix) = 1 => Size(prefix) = 1)
          BY <2>1, RangeOf
      <4> QED
          BY <4>1 DEF Index
    <3> QED
        BY <2>3, <3>1, <3>2
  <2> QED
      BY <2>4, <2>5
<1> QED
    BY <1>1, AllocationInvariant, PTL

\* The prefixes that have no gateway are the ones listed, and no others.
THEOREM FailsCorrect == Spec => []FailsOnlyFor
<1>1. ASSUME AllocationInv PROVE FailsOnlyFor
  <2> DEFINE listed ==
        \/ strategy = "first" /\ Size(prefix) = 1
        \/ strategy = "last" /\ HostBits(prefix) >= prefix.bits - 1
        \/ LET offset == IF strategy = "first" THEN 1 ELSE RangeSize(prefix) - 1
           IN  Network(prefix) + offset < Pow2[prefix.bits - ByteBits]
  <2>1. prefix \in Prefixes /\ strategy \in {"first", "last"}
      BY <1>1 DEF AllocationInv
  <2>2. gateway = Error <=> gateway # Pending /\ IPInfo(prefix, strategy) = Error
      BY <1>1, AllocatedInfo
  <2>3. /\ Size(prefix) \in Nat /\ Size(prefix) > 0 /\ Network(prefix) \in Nat
        /\ prefix.ip \in Nat
        /\ RangeSize(prefix) \in Nat /\ RangeSize(prefix) <= Size(prefix)
        /\ RangeSize(prefix) = 0 <=> HostBits(prefix) >= prefix.bits - 1
      BY <2>1, Subnet, PrefixType, RangeOf
  <2>4. Pow2[prefix.bits - ByteBits] \in Nat
    <3>1. /\ prefix.bits \in Nat /\ prefix.bits > 0 /\ prefix.bits % ByteBits = 0
          /\ ByteBits \in Nat /\ ByteBits > 0
        BY <2>1, PrefixType, WidthAssumption
    <3>2. prefix.bits - ByteBits \in Nat
        BY <3>1
    <3> QED
        BY <3>2, Pow2Type
  <2>5. ~NamesSubnet(prefix) => IPInfo(prefix, strategy) # Error
      BY <2>1, <2>3, Info DEF Error
  <2>6. ASSUME NamesSubnet(prefix) PROVE IPInfo(prefix, strategy) = Error <=> listed
    <3>1. CASE strategy = "last" /\ RangeSize(prefix) = 0
        BY <2>1, <2>3, <2>6, <3>1, Info
    <3>2. CASE ~(strategy = "last" /\ RangeSize(prefix) = 0)
      <4>1. /\ Index(prefix, strategy) \in Nat
            /\ IPInfo(prefix, strategy) =
                 IF Index(prefix, strategy) < Size(prefix)
                    /\ Network(prefix) + Index(prefix, strategy) >= Pow2[prefix.bits - ByteBits]
                 THEN Network(prefix) + Index(prefix, strategy) ELSE Error
          BY <2>1, <2>6, <3>2, Info
      <4>2. IPInfo(prefix, strategy) = Error <=>
              \/ Index(prefix, strategy) >= Size(prefix)
              \/ Network(prefix) + Index(prefix, strategy) < Pow2[prefix.bits - ByteBits]
          BY <2>3, <2>4, <4>1 DEF Error
      <4>3. Index(prefix, strategy) >= Size(prefix) <=> strategy = "first" /\ Size(prefix) = 1
          BY <2>1, <2>3, <3>2 DEF Index
      <4> QED
          BY <2>1, <2>3, <3>2, <4>2, <4>3 DEF Index
    <3> QED
        BY <3>1, <3>2
  <2> QED
      BY <2>2, <2>5, <2>6 DEF FailsOnlyFor
<1> QED
    BY <1>1, AllocationInvariant, PTL

\* "last" is the last address of every IPv4 subnet, and of an IPv6 subnet up to the cap.
THEOREM LastCorrect == Spec => []LastOfRange
<1>1. ASSUME AllocationInv PROVE LastOfRange
  <2> SUFFICES ASSUME Allocated, NamesSubnet(prefix), strategy = "last"
               PROVE  gateway = Network(prefix)
                        + Min(IF prefix.bits = Bits6 THEN {Size(prefix), Pow2[CapBits]}
                                                     ELSE {Size(prefix)}) - 1
      BY DEF LastOfRange
  <2>1. prefix \in Prefixes
      BY <1>1 DEF AllocationInv
  <2>2. gateway = IPInfo(prefix, strategy) /\ IPInfo(prefix, strategy) # Error
      BY <1>1, AllocatedInfo
  <2>3. RangeSize(prefix) # 0 /\ gateway = Network(prefix) + (RangeSize(prefix) - 1)
      BY <2>1, <2>2, Info DEF Index
  <2>4. RangeSize(prefix) \in Nat /\ Network(prefix) \in Nat
      BY <2>1, RangeOf, Subnet
  <2>5. RangeSize(prefix) > 0
      BY <2>3, <2>4
  <2>6. RangeSize(prefix) =
          Min(IF prefix.bits = Bits6 THEN {Size(prefix), Pow2[CapBits]} ELSE {Size(prefix)})
      BY ONLY <2>1, <2>5, RangeOf
  <2> QED
      BY <2>3, <2>4, <2>6
<1> QED
    BY <1>1, AllocationInvariant, PTL

\* "GetLastIP returns subnet's last IP" is true of every IPv4 subnet, and of the IPv6
\* subnets of up to 2^16 addresses.
THEOREM LastOfSmallSubnet ==
  Spec => [](prefix.bits = Bits4 \/ Size(prefix) <= Pow2[CapBits] => LastOfSubnet)
<1>1. ASSUME AllocationInv, LastOfRange, prefix.bits = Bits4 \/ Size(prefix) <= Pow2[CapBits]
      PROVE  LastOfSubnet
  <2> SUFFICES ASSUME Allocated, NamesSubnet(prefix), strategy = "last"
               PROVE  gateway = Network(prefix) + Size(prefix) - 1
      BY DEF LastOfSubnet
  <2> DEFINE range == IF prefix.bits = Bits6 THEN {Size(prefix), Pow2[CapBits]} ELSE {Size(prefix)}
  <2>1. gateway = Network(prefix) + Min(range) - 1
      BY <1>1 DEF LastOfRange
  <2>2. Size(prefix) \in Nat /\ Pow2[CapBits] \in Nat
      BY <1>1, Subnet, Pow2Type, WidthAssumption DEF AllocationInv
  <2>3. range \subseteq Nat /\ Size(prefix) \in range /\ \A k \in range : Size(prefix) <= k
      BY <1>1, <2>2, WidthAssumption
  <2> HIDE DEF range
  <2>4. Min(range) \in range /\ \A y \in range : Min(range) <= y
      BY <2>3, LeastOf
  <2>5. Min(range) <= Size(prefix) /\ Size(prefix) <= Min(range) /\ Min(range) \in Nat
      BY <2>3, <2>4
  <2>6. Min(range) = Size(prefix)
      BY ONLY <2>2, <2>5
  <2> QED
      BY <2>1, <2>6
<1> QED
    BY <1>1, AllocationInvariant, LastCorrect, PTL

\* The controller and the schema allocate the same address for a prefix exactly where it
\* is not an IPv6 subnet of 31 or 127 bits.
THEOREM SchemaAgreesCorrect == Spec => []SchemaAgrees
<1>1. ASSUME AllocationInv PROVE SchemaAgrees
  <2> DEFINE mistaken == /\ prefix.bits = Bits6 /\ prefix.ip = Network(prefix)
                         /\ prefix.ones \in {Bits4 - 1, Bits6 - 1}
  <2>1. prefix \in Prefixes /\ prefix.bits \in {Bits4, Bits6}
      BY <1>1, PrefixType DEF AllocationInv
  <2>2. Bits4 \in Nat /\ Bits6 \in Nat /\ Bits4 < Bits6
      BY WidthAssumption
  <2>3. ASSUME ~mistaken
        PROVE  AddressInfo(prefix, strategy) = IPInfo(prefix, strategy)
    <3>1. NamesSubnet(prefix) <=>
            ~(prefix.ip # Network(prefix) \/ prefix.ones = Bits4 - 1)
        BY <2>1, <2>3 DEF NamesSubnet
    <3> QED
        BY <3>1 DEF AddressInfo, IPInfo
  <2>4. ASSUME mistaken
        PROVE  AddressInfo(prefix, strategy) # IPInfo(prefix, strategy)
    <3>1. /\ Size(prefix) \in Nat /\ Size(prefix) > 1
          /\ Network(prefix) \in Nat /\ Network(prefix) # Error
      <4>1. HostBits(prefix) \in Nat /\ HostBits(prefix) > 0
        <5>1. HostBits(prefix) \in Nat
            BY <2>1, PrefixType
        <5>2. HostBits(prefix) = Bits6 - prefix.ones /\ prefix.ones < Bits6
            BY <2>2, <2>4 DEF HostBits
        <5>3. prefix.ones \in Int
            BY <2>2, <2>4
        <5> QED
            BY <2>2, <5>1, <5>2, <5>3
      <4>2. /\ Size(prefix) \in Nat /\ Size(prefix) > 0
            /\ Network(prefix) \in Nat /\ Network(prefix) # Error
          BY <2>1, Subnet DEF Error
      <4>3. Pow2[0] = 1 /\ Pow2[0] < Pow2[HostBits(prefix)]
          BY <4>1, Pow2Less, Pow2Step
      <4> QED
          BY <4>2, <4>3 DEF Size
    <3>2. /\ RangeSize(prefix) \in Nat
          /\ RangeSize(prefix) > 0 => RangeSize(prefix) - 1 \in Nat /\ RangeSize(prefix) - 1 # 0
      <4>1. RangeSize(prefix) \in Nat /\ (RangeSize(prefix) = 1 => Size(prefix) = 1)
          BY <2>1, RangeOf
      <4> QED
          BY <3>1, <4>1
    <3>3. \A i \in Nat : i # 0 => GetIndexedIP(prefix, i) # Network(prefix)
        BY <2>1, <3>1, Indexed
    <3>4. GetFirstIP(prefix) # Network(prefix)
        BY <3>3 DEF GetFirstIP
    <3>5. GetLastIP(prefix) # Network(prefix)
        BY <3>1, <3>2, <3>3 DEF GetLastIP
    <3>6. CASE prefix.ones = Bits4 - 1
      <4>1. AddressInfo(prefix, strategy) = Network(prefix)
          BY <2>4, <3>6 DEF AddressInfo
      <4>2. NamesSubnet(prefix)
          BY <2>2, <2>4, <3>6 DEF NamesSubnet
      <4> QED
          BY <3>4, <3>5, <4>1, <4>2 DEF IPInfo
    <3>7. CASE prefix.ones = Bits6 - 1
      <4>1. IPInfo(prefix, strategy) = Network(prefix)
          BY <2>4, <3>7 DEF IPInfo, NamesSubnet
      <4>2. prefix.ip = Network(prefix) /\ prefix.ones # Bits4 - 1
          BY <2>2, <2>4, <3>7
      <4> QED
          BY <3>4, <3>5, <4>1, <4>2 DEF AddressInfo
    <3> QED
        BY <2>4, <3>6, <3>7
  <2> QED
      BY <2>3, <2>4 DEF SchemaAgrees
<1> QED
    BY <1>1, AllocationInvariant, PTL
=============================================================================
