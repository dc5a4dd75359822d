---------------------------- MODULE IpIndexProofs ---------------------------
(***************************************************************************)
(* Proofs about IpIndex.  TableInv is about the size of the table: what    *)
(* getIPIdx returns is inside it, for every configuration and every file,  *)
(* while the list is sound.  SearchInv is about what the search has        *)
(* excluded: it misses no address when the networks have one length and no *)
(* difference of two overflows RcvNetListCmp.  SeenInv is about the        *)
(* address seen last: with masks of whole octets, no other address has its *)
(* entry.                                                                  *)
(***************************************************************************)
EXTENDS IpIndex, TLAPS, WellFoundedInduction

OneMask == \A c \in Configs : \A i, j \in DOMAIN c :
             MaskLen(c[i].prefix) = MaskLen(c[j].prefix)

NoWrap == \A c \in Configs : \A i, j \in DOMAIN c :
            LET d == c[i].net - c[j].net IN 2 * d < Space /\ -Space <= 2 * d

OctetMasks == \A c \in Configs : \A i \in DOMAIN c :
                MaskLen(c[i].prefix) % OctetBits = 0

Ascending(list, n) ==
    \A i, j \in 0 .. n - 1 : i < j => list[i].net <= list[j].net

OneLength(list, n) == \A i, j \in 0 .. n - 1 : list[i].len = list[j].len

\* The mask and the number of addresses of a network as LoadConfig sets them.
Stated(s) == s.len = MaskLen(s.maskBits) /\ s.ipCount = (2 ^ (W - s.len)) % Space

\* A nonempty set of naturals has a least element.
LEMMA LeastNatural ==
    ASSUME NEW T, T \subseteq Nat, T # {}
    PROVE  \E x \in T : \A y \in T : x <= y
<1>1. PICK x \in T : \A y \in T : ~ (<<y, x>> \in OpToRel(<, Nat))
  BY NatLessThanWellFounded, WFMin, Zenon
<1>2. \A y \in T : ~ (y < x)
  BY <1>1 DEF OpToRel
<1> QED
  BY <1>2, SMT

-----------------------------------------------------------------------------
(* Division, powers of two, masks *)

\* Quotient and remainder of naturals, as the provers need them.
LEMMA DivMod ==
    ASSUME NEW a \in Nat, NEW m \in Nat \ {0}
    PROVE  /\ a \div m \in Nat
           /\ a % m \in 0 .. m - 1
           /\ a = m * (a \div m) + (a % m)
  OBVIOUS

\* A remainder is not above what was divided.
LEMMA ModLeq ==
    ASSUME NEW a \in Nat, NEW m \in Nat \ {0}
    PROVE  a % m \in Nat /\ a % m <= a
  OBVIOUS

\* What is below the modulus stays.
LEMMA ModSmall ==
    ASSUME NEW a \in Nat, NEW m \in Nat \ {0}, a < m
    PROVE  a % m = a
  OBVIOUS

\* A product of naturals grows with its factor.
LEMMA MulLeq ==
    ASSUME NEW m \in Nat, NEW x \in Nat, NEW y \in Nat, x <= y
    PROVE  m * x <= m * y /\ m * x \in Nat /\ m * y \in Nat
  OBVIOUS

\* A number below m * x is less than x times m.
LEMMA DivBelow ==
    ASSUME NEW a \in Nat, NEW m \in Nat \ {0}, NEW x \in Nat, a < m * x
    PROVE  a \div m \in Nat /\ a \div m < x
<1> DEFINE q == a \div m
           r == a % m
<1>1. q \in Nat /\ r \in Nat /\ a = m * q + r
  BY DivMod
<1> HIDE DEF q, r
<1>2. x <= q => m * x <= m * q
  BY <1>1, MulLeq
<1>3. m * q \in Nat /\ m * x \in Nat
  BY <1>1, MulLeq
<1>4. q < x
  BY <1>1, <1>2, <1>3
<1> QED
  BY <1>1, <1>4 DEF q

\* The powers that the masks are made of.
LEMMA Powers ==
    /\ W \in Nat \ {0} /\ OctetBits \in 1 .. W /\ Space \in Nat \ {0}
    /\ \A k \in 0 .. W : 2 ^ k \in Nat \ {0}
    /\ \A k \in 0 .. W : Space = 2 ^ k * 2 ^ (W - k)
    /\ \A k \in 1 .. W : 2 ^ (W - k) < Space
<1>1. W \in Nat \ {0} /\ OctetBits \in 1 .. W
  BY IpIndexAssumption DEF W
<1>2. \A k \in 0 .. W : 2 ^ k \in Nat \ {0}
  BY IpIndexAssumption
<1>3. ASSUME NEW k \in 0 .. W
      PROVE  Space = 2 ^ k * 2 ^ (W - k)
  <2>1. W - k \in 0 .. W - k /\ k + (W - k) = W
    BY <1>1
  <2>2. 2 ^ (k + (W - k)) = 2 ^ k * 2 ^ (W - k)
    BY <2>1, IpIndexAssumption
  <2> QED
    BY <2>1, <2>2 DEF Space
<1>4. W \in 0 .. W /\ W - 1 \in 0 .. W /\ 1 \in 0 .. W
  BY <1>1
<1>5. ASSUME NEW k \in 1 .. W
      PROVE  2 ^ (W - k) < Space
  <2>1. k - 1 \in 0 .. W /\ W - k \in 0 .. W /\ k \in 0 .. W /\ k - 1 \in 0 .. W - 1
        /\ 1 + (k - 1) = k
    BY <1>1
  <2>2. 2 ^ k = 2 * 2 ^ (k - 1)
    <3>1. 2 ^ (1 + (k - 1)) = 2 ^ 1 * 2 ^ (k - 1)
      BY <1>4, <2>1, IpIndexAssumption, Zenon
    <3>2. 2 ^ 1 = 2
      BY IpIndexAssumption
    <3> QED
      BY <2>1, <3>1, <3>2
  <2> DEFINE x == 2 ^ (k - 1)
             y == 2 ^ (W - k)
             z == 2 ^ k
  <2>3. x \in Nat \ {0} /\ y \in Nat \ {0} /\ z = 2 * x /\ Space = z * y
    BY <1>2, <1>3, <2>1, <2>2
  <2> HIDE DEF x, y, z
  <2>4. 2 <= z /\ z \in Nat
    BY <2>3
  <2>5. y * 2 <= y * z
    BY <2>3, <2>4, MulLeq
  <2>6. y < Space
    BY <2>3, <2>4, <2>5
  <2> QED
    BY <2>6 DEF y
<1> QED
  BY <1>1, <1>2, <1>3, <1>4, <1>5 DEF Space

\* The mask of getIPIdx takes bits away: a network is not above its addresses.
LEMMA MaskedBelow ==
    ASSUME NEW a \in Addr, NEW n \in 0 .. W
    PROVE  Masked(a, n) \in 0 .. a
<1> DEFINE d     == n \div OctetBits
           r     == n % OctetBits
           high == 2 ^ (OctetBits * d)
           low   == 2 ^ (OctetBits - r)
           oct   == 2 ^ OctetBits
           p     == a \div high
           u     == a % high
           o     == p % oct
           v     == o % low
<1>1. a \in Nat /\ n \in Nat /\ OctetBits \in Nat \ {0}
  BY Powers DEF Addr
<1>2. d \in Nat /\ r \in 0 .. OctetBits - 1 /\ n = OctetBits * d + r
  BY <1>1, DivMod
<1> HIDE DEF d, r
<1>3. OctetBits * d \in Nat
  BY <1>1, <1>2
<1>4. OctetBits * d \in 0 .. W /\ OctetBits - r \in 0 .. W /\ OctetBits \in 0 .. W
  BY <1>1, <1>2, <1>3, Powers
<1>5. high \in Nat \ {0} /\ low \in Nat \ {0} /\ oct \in Nat \ {0}
  BY <1>4, Powers
<1>6. Masked(a, n) = u + high * (o - v)
  BY DEF Masked, d, r
<1> HIDE DEF high, low, oct
<1>7. p \in Nat /\ u \in Nat /\ a = high * p + u
  BY <1>1, <1>5, DivMod, ModLeq, Zenon
<1> HIDE DEF p, u
<1>8. o \in Nat /\ o <= p
  BY <1>5, <1>7, ModLeq, Zenon
<1> HIDE DEF o
<1>9. v \in Nat /\ v <= o
  BY <1>5, <1>8, ModLeq, Zenon
<1> HIDE DEF v
<1>10. o - v \in Nat /\ o - v <= p
  BY <1>7, <1>8, <1>9
<1> DEFINE k == o - v
<1> HIDE DEF k
<1>11. high * k <= high * p /\ high * k \in Nat /\ high * p \in Nat
  BY <1>5, <1>7, <1>10, MulLeq DEF k
<1>12. Masked(a, n) = u + high * k
  BY <1>6 DEF k
<1> QED
  BY <1>1, <1>7, <1>11, <1>12

\* The network of an address, net & mask, is an address.
LEMMA MaskedType ==
    ASSUME NEW a \in Addr, NEW s \in Subnet
    PROVE  Masked(a, s.len) \in 0 .. a /\ Masked(a, s.len) \in Int /\ s.net \in Int
<1>1. s.len \in 0 .. W /\ s.net \in Addr
  BY DEF Subnet
<1>2. \A x \in Addr : x \in Nat
  BY Powers DEF Addr
<1>3. Masked(a, s.len) \in 0 .. a
  BY <1>1, MaskedBelow
<1> QED
  BY <1>1, <1>2, <1>3

\* ipCount is a uint.
LEMMA CountType ==
    ASSUME NEW s \in Subnet
    PROVE  s.ipCount \in Nat
<1>1. s.ipCount \in Addr
  BY DEF Subnet
<1> QED
  BY <1>1, Powers DEF Addr

\* A mask is as long as a word, or its network's prefix is below the width.
LEMMA MaskLenType ==
    ASSUME NEW p \in 0 .. 255
    PROVE  /\ MaskLen(p) \in 0 .. W /\ p % W \in 0 .. W - 1
           /\ MaskLen(p) # 0 => /\ p < W \/ ShiftWraps \/ p % W = 0
                                /\ MaskLen(p) = IF p % W = 0 THEN W ELSE p % W
<1>1. W \in Nat \ {0} /\ p \in Nat
  BY Powers
<1>2. p % W \in 0 .. W - 1
  BY <1>1
<1>3. p = W => p % W = 0
  BY <1>1
<1> QED
  BY <1>1, <1>2, <1>3 DEF MaskLen

\* Of whole octets, the mask leaves the first octets, which are the low bits.
LEMMA MaskedOctets ==
    ASSUME NEW a \in Addr, NEW n \in 0 .. W, n % OctetBits = 0
    PROVE  /\ 2 ^ n \in Nat \ {0} /\ a \in Nat
           /\ Masked(a, n) = a % 2 ^ n
           /\ (a - Masked(a, n)) \div (2 ^ n) = a \div (2 ^ n)
<1> DEFINE d     == n \div OctetBits
           high == 2 ^ (OctetBits * d)
           oct   == 2 ^ OctetBits
           o     == (a \div high) % oct
           v     == o % oct
           m     == 2 ^ n
           q     == a \div m
           u     == a % m
<1>1. a \in Nat /\ n \in Nat /\ OctetBits \in Nat \ {0} /\ n \in 0 .. W
      /\ OctetBits \in 0 .. W
  BY Powers DEF Addr
<1>2. d \in Nat /\ n = OctetBits * d + 0
  BY <1>1, DivMod
<1>3. OctetBits * d = n
  <2> HIDE DEF d
  <2>1. OctetBits * d \in Nat
    BY <1>1, <1>2
  <2> QED
    BY <1>2, <2>1
<1>4. oct \in Nat \ {0} /\ high \in Nat \ {0} /\ m \in Nat \ {0} /\ high = m
  BY <1>1, <1>3, Powers
<1>5. OctetBits - 0 = OctetBits
  BY <1>1
<1>6. Masked(a, n) = (a % high) + high * (o - v)
  BY <1>5 DEF Masked
<1> HIDE DEF m, high, oct
<1>7. q \in Nat /\ u \in Nat /\ a = m * q + u
  BY <1>1, <1>4, DivMod, ModLeq, Zenon
<1>8. o \in 0 .. oct - 1
  <2> DEFINE p == a \div high
  <2>1. p \in Nat
    BY <1>1, <1>4, DivMod, Zenon
  <2> HIDE DEF p
  <2>2. p % oct \in 0 .. oct - 1
    BY <1>4, <2>1, DivMod, Zenon
  <2> QED
    BY <2>2 DEF p
<1> HIDE DEF o
<1>9. v = o
  BY <1>4, <1>8
<1>10. o - v = 0
  BY <1>8, <1>9
<1>11. high * (o - v) = 0
  BY <1>4, <1>10
<1>12. Masked(a, n) = u
  BY <1>4, <1>6, <1>7, <1>11
<1> HIDE DEF q, u
<1>13. m * q \in Nat /\ a - u = m * q + 0 /\ a - u \in Nat
  BY <1>4, <1>7, MulLeq
<1>14. (a - u) \div m = q
  <2> DEFINE b == a - u
  <2>1. b \in Nat /\ b = m * q
    BY <1>13
  <2> HIDE DEF b
  <2>2. b \div m = q
    BY <1>4, <1>7, <2>1
  <2> QED
    BY <2>2 DEF b
<1> QED
  BY <1>1, <1>4, <1>12, <1>14 DEF m, q, u

\* What getIPIdx adds is an index: for a network that LoadConfig stated, below
\* the number of its addresses.
LEMMA HostIndexBelow ==
    ASSUME NEW a \in Addr, NEW s \in Subnet
    PROVE  /\ HostIndex(a, s) \in Nat
           /\ Stated(s) /\ s.len > 0 =>
                /\ HostIndex(a, s) < s.ipCount
                /\ HostIndex(a, s) = (a - Masked(a, s.len)) \div (2 ^ s.len)
<1> DEFINE b == a - Masked(a, s.len)
           p == s.maskBits
<1>1. a \in Nat /\ a < Space /\ W \in Nat \ {0}
  BY Powers DEF Addr
<1>2. b \in Nat /\ b <= a
  BY <1>1, MaskedType
<1>3. p \in 0 .. 255 /\ p \in Nat /\ p % W \in 0 .. W - 1 /\ s.len \in 0 .. W
  <2>1. p \in 0 .. 255 /\ s.len \in 0 .. W
    BY DEF Subnet
  <2> HIDE DEF p
  <2>2. p % W \in 0 .. W - 1
    BY <2>1, MaskLenType
  <2> QED
    BY <2>1, <2>2
<1>4. 2 ^ (p % W) \in Nat \ {0}
  <2>1. p % W \in 0 .. W
    BY <1>1, <1>3
  <2> QED
    BY <2>1, Powers
<1> HIDE DEF b, p
<1>5. HostIndex(a, s) = IF p < W \/ ShiftWraps THEN b \div (2 ^ (p % W)) ELSE 0
  BY DEF HostIndex, Shifted, b, p
<1>6. b \div (2 ^ (p % W)) \in Nat
  BY <1>2, <1>4, DivMod, Zenon
<1>7. ASSUME Stated(s), s.len > 0
      PROVE  /\ HostIndex(a, s) < s.ipCount
             /\ HostIndex(a, s) = b \div (2 ^ s.len)
  <2>1. s.len \in 1 .. W /\ s.len \in 0 .. W /\ W - s.len \in 0 .. W
    BY <1>1, <1>3, <1>7
  <2>2. /\ 2 ^ s.len \in Nat \ {0} /\ 2 ^ (W - s.len) \in Nat \ {0}
        /\ Space = 2 ^ s.len * 2 ^ (W - s.len) /\ 2 ^ (W - s.len) < Space
    BY <2>1, Powers
  <2>3. s.ipCount = 2 ^ (W - s.len)
    <3>1. s.ipCount = (2 ^ (W - s.len)) % Space
      BY <1>7 DEF Stated
    <3> DEFINE y == 2 ^ (W - s.len)
    <3>2. y \in Nat /\ y < Space /\ s.ipCount = y % Space
      BY <2>2, <3>1
    <3> HIDE DEF y
    <3>3. s.ipCount = y
      BY <3>2, Powers, ModSmall, Zenon
    <3> QED
      BY <3>3 DEF y
  <2>4. b \div (2 ^ s.len) \in Nat /\ b \div (2 ^ s.len) < 2 ^ (W - s.len)
    <3>1. b < 2 ^ s.len * 2 ^ (W - s.len)
      BY <1>1, <1>2, <2>2
    <3> QED
      BY <1>2, <2>2, <3>1, DivBelow
  <2>5. /\ p < W \/ ShiftWraps \/ p % W = 0
        /\ s.len = IF p % W = 0 THEN W ELSE p % W
    <3>1. s.len = MaskLen(p) /\ MaskLen(p) # 0
      BY <1>3, <1>7 DEF Stated, p
    <3> QED
      BY <1>3, <3>1, MaskLenType
  <2>6. CASE p % W = 0
    <3>1. s.len = W /\ b = 0
      <4>1. W % OctetBits = 0
        <5>1. OctetBits \in Nat \ {0} /\ Octets \in Nat /\ W = OctetBits * Octets
          BY IpIndexAssumption DEF W
        <5> QED
          BY <5>1
      <4>2. Masked(a, W) = a % 2 ^ W
        BY <1>1, <2>1, <4>1, MaskedOctets, W \in 0 .. W
      <4>3. a % 2 ^ W = a
        BY <1>1, Powers, ModSmall, Zenon DEF Space
      <4> QED
        BY <1>1, <2>5, <2>6, <4>2, <4>3 DEF b
    <3>2. \A m \in Nat \ {0} : 0 \div m = 0
      OBVIOUS
    <3> QED
      BY <1>4, <1>5, <2>2, <2>3, <3>1, <3>2
  <2>7. CASE p % W # 0
    BY <1>5, <2>3, <2>4, <2>5, <2>7
  <2> QED
    BY <2>6, <2>7
<1> QED
  BY <1>5, <1>6, <1>7 DEF b

-----------------------------------------------------------------------------
(* Lists *)

\* LoadConfig fills the fields of every network.
LEMMA LoadedStated ==
    ASSUME NEW n \in Nat, NEW c \in [0 .. n - 1 -> Network]
    PROVE  /\ Loaded(c) \in [0 .. n - 1 -> Subnet]
           /\ \A k \in 0 .. n - 1 : /\ Stated(Loaded(c)[k])
                                    /\ Loaded(c)[k].net = c[k].net
                                    /\ Loaded(c)[k].len = MaskLen(c[k].prefix)
<1> DEFINE len(k) == MaskLen(c[k].prefix)
           s(k) == [net |-> c[k].net, len |-> len(k), maskBits |-> c[k].prefix,
                    ipCount |-> (2 ^ (W - len(k))) % Space]
<1>1. ASSUME NEW k \in 0 .. n - 1
      PROVE  s(k) \in Subnet /\ Stated(s(k))
  <2>1. c[k] \in Network
    OBVIOUS
  <2>2. c[k].net \in Addr /\ c[k].prefix \in 0 .. 255
    BY <2>1 DEF Network
  <2>3. len(k) \in 0 .. W
    BY <2>2, MaskLenType
  <2> HIDE DEF len
  <2>4. W - len(k) \in 0 .. W
    BY <2>3, Powers
  <2>5. 2 ^ (W - len(k)) \in Nat
    BY <2>4, Powers
  <2>6. (2 ^ (W - len(k))) % Space \in Addr
    BY <2>5, Powers, DivMod DEF Addr
  <2>7. s(k) \in Subnet
    BY <2>2, <2>3, <2>6 DEF Subnet
  <2>8. Stated(s(k))
    BY DEF Stated, len
  <2> QED
    BY <2>7, <2>8
<1>2. Loaded(c) = [k \in 0 .. n - 1 |-> s(k)]
  BY DEF Loaded
<1>3. \A k \in 0 .. n - 1 : Loaded(c)[k] = s(k)
  BY <1>2
<1>4. \A k \in 0 .. n - 1 : s(k).net = c[k].net /\ s(k).len = MaskLen(c[k].prefix)
  OBVIOUS
<1> HIDE DEF s
<1> QED
  BY <1>1, <1>2, <1>3, <1>4

\* The first networks of the array are overwritten, the others stay.
LEMMA OverType ==
    ASSUME rcvNetList \in Array, NEW n \in 0 .. MaxSubnet,
           NEW list \in [0 .. n - 1 -> Subnet]
    PROVE  Over(list, n) \in Array /\ \A k \in 0 .. n - 1 : Over(list, n)[k] = list[k]
<1>1. MaxSubnet \in Nat
  BY IpIndexAssumption
<1>2. \A k \in 0 .. n - 1 : k \in 0 .. MaxSubnet - 1
  BY <1>1
<1>3. ASSUME NEW k \in 0 .. MaxSubnet - 1
      PROVE  (IF k < n THEN list[k] ELSE rcvNetList[k]) \in Subnet
  <2>1. k < n => k \in 0 .. n - 1
    BY <1>1
  <2> QED
    BY <2>1 DEF Array
<1> QED
  BY <1>1, <1>2, <1>3 DEF Over, Array

\* The first networks of the array, as a list.
LEMMA PrefixType ==
    ASSUME NEW x \in Array, NEW n \in 0 .. MaxSubnet
    PROVE  [k \in 0 .. n - 1 |-> x[k]] \in [0 .. n - 1 -> Subnet]
<1>1. \A k \in 0 .. n - 1 : k \in 0 .. MaxSubnet - 1
  BY IpIndexAssumption
<1> QED
  BY <1>1 DEF Array

\* A list whose neighbours are in order is in order.
LEMMA NeighboursAscend ==
    ASSUME NEW n \in Nat, NEW list \in [0 .. n - 1 -> Subnet],
           \A i \in 0 .. n - 2 : list[i].net <= list[i + 1].net
    PROVE  Ascending(list, n)
<1> SUFFICES ASSUME NEW i \in 0 .. n - 1, NEW j \in 0 .. n - 1, i < j,
                    ~(list[i].net <= list[j].net)
             PROVE  FALSE
  BY DEF Ascending
<1>1. \A k \in 0 .. n - 1 : list[k].net \in Nat
  BY Powers DEF Subnet, Addr
<1> DEFINE T == {k \in i + 1 .. n - 1 : ~(list[i].net <= list[k].net)}
<1>2. T \subseteq Nat /\ j \in T
  OBVIOUS
<1>3. PICK m \in T : \A k \in T : m <= k
  BY <1>2, LeastNatural
<1>4. m \in i + 1 .. n - 1 /\ ~(list[i].net <= list[m].net) /\ m - 1 \notin T
  BY <1>3
<1>5. list[i].net <= list[m - 1].net
  BY <1>1, <1>4
<1>6. m - 1 \in 0 .. n - 2 /\ m - 1 + 1 = m
  BY <1>4
<1>7. list[m - 1].net <= list[m].net
  BY <1>6
<1> QED
  BY <1>1, <1>4, <1>5, <1>6, <1>7

-----------------------------------------------------------------------------
(* The entries before a network *)

\* f is the table of the sums of the first networks of a list.
Sums(list, k, f) ==
    f = [j \in 0 .. k |-> IF j = 0 THEN 0 ELSE f[j - 1] + list[j - 1].ipCount]

\* The sums are defined for every list.
LEMMA SumsExist ==
    ASSUME NEW list, NEW k \in Nat
    PROVE  \E f : Sums(list, k, f)
<1> DEFINE T == {m \in Nat : ~ \E f : Sums(list, m, f)}
<1> SUFFICES ASSUME T # {} PROVE FALSE
  OBVIOUS
<1>1. PICK m \in T : \A x \in T : m <= x
  BY LeastNatural, T \subseteq Nat
<1>2. m \in Nat /\ ~ \E f : Sums(list, m, f)
  BY <1>1
<1>3. m # 0
  <2> DEFINE f == [j \in 0 .. 0 |-> 0]
  <2>1. Sums(list, 0, f)
    BY DEF Sums
  <2> QED
    BY <1>2, <2>1
<1>4. m - 1 \in Nat /\ m - 1 \notin T
  BY <1>1, <1>2, <1>3
<1>5. PICK g : Sums(list, m - 1, g)
  BY <1>4
<1> DEFINE f == [j \in 0 .. m |-> IF j = 0 THEN 0 ELSE g[j - 1] + list[j - 1].ipCount]
<1>6. \A j \in 0 .. m - 1 : f[j] = g[j]
  BY <1>2, <1>5 DEF Sums
<1>7. \A j \in 0 .. m : j # 0 => f[j - 1] = g[j - 1]
  <2> HIDE DEF f
  <2>1. \A j \in 0 .. m : j # 0 => j - 1 \in 0 .. m - 1
    BY <1>2
  <2> QED
    BY <1>6, <2>1
<1>8. Sums(list, m, f)
  BY <1>2, <1>7 DEF Sums
<1> QED
  BY <1>2, <1>8

\* Base adds up the networks one by one.
LEMMA BaseSums ==
    ASSUME NEW list, NEW k \in Nat
    PROVE  \E f : Sums(list, k, f) /\ Base(list, k) = f[k]
<1> DEFINE f == CHOOSE f : Sums(list, k, f)
<1>1. Sums(list, k, f)
  BY SumsExist, Zenon
<1>2. Base(list, k) = f[k]
  BY DEF Base, Sums
<1> QED
  BY <1>1, <1>2

\* Two tables of sums of one list agree where both are defined.
LEMMA SumsAgree ==
    ASSUME NEW list, NEW k \in Nat, NEW m \in Nat, k <= m,
           NEW f, Sums(list, k, f), NEW g, Sums(list, m, g)
    PROVE  f[k] = g[k]
<1> DEFINE T == {j \in 0 .. k : f[j] # g[j]}
<1> SUFFICES ASSUME T # {} PROVE FALSE
  BY k \in 0 .. k
<1>1. PICK j \in T : \A x \in T : j <= x
  BY LeastNatural, T \subseteq Nat
<1>2. j \in 0 .. k /\ j \in 0 .. m /\ f[j] # g[j]
  BY <1>1
<1>3. f[j] = (IF j = 0 THEN 0 ELSE f[j - 1] + list[j - 1].ipCount)
      /\ g[j] = (IF j = 0 THEN 0 ELSE g[j - 1] + list[j - 1].ipCount)
  BY <1>2 DEF Sums
<1>4. j # 0 => f[j - 1] = g[j - 1]
  BY <1>1, <1>2
<1> QED
  BY <1>2, <1>3, <1>4

\* The equation of Base.
LEMMA BaseStep ==
    ASSUME NEW list, NEW k \in Nat
    PROVE  Base(list, 0) = 0 /\ Base(list, k + 1) = Base(list, k) + list[k].ipCount
<1>1. PICK f : Sums(list, k, f) /\ Base(list, k) = f[k]
  BY BaseSums
<1>2. PICK g : Sums(list, k + 1, g) /\ Base(list, k + 1) = g[k + 1]
  BY BaseSums
<1>3. PICK h : Sums(list, 0, h) /\ Base(list, 0) = h[0]
  BY BaseSums
<1>4. f[k] = g[k]
  BY <1>1, <1>2, SumsAgree
<1>5. g[k + 1] = g[k + 1 - 1] + list[k + 1 - 1].ipCount
  BY <1>2 DEF Sums
<1>6. h[0] = 0
  BY <1>3 DEF Sums
<1>7. k + 1 - 1 = k
  OBVIOUS
<1> QED
  BY <1>1, <1>2, <1>3, <1>4, <1>5, <1>6, <1>7

\* Every network has at least one entry, so the sums are naturals that grow.
LEMMA BaseGrows ==
    ASSUME NEW n \in Nat, NEW list \in [0 .. n - 1 -> Subnet], NEW k \in 0 .. n
    PROVE  /\ Base(list, k) \in Nat
           /\ \A j \in 0 .. k : Base(list, j) \in Nat /\ Base(list, j) <= Base(list, k)
<1> DEFINE Grows(m) == /\ Base(list, m) \in Nat
                       /\ \A j \in 0 .. m : /\ Base(list, j) \in Nat
                                            /\ Base(list, j) <= Base(list, m)
           T == {m \in 0 .. n : ~Grows(m)}
<1> SUFFICES ASSUME T # {} PROVE FALSE
  OBVIOUS
<1>1. PICK m \in T : \A x \in T : m <= x
  BY LeastNatural, T \subseteq Nat
<1>2. m \in 0 .. n /\ ~Grows(m)
  BY <1>1
<1>3. Grows(0)
  <2>1. Base(list, 0) = 0
    BY BaseStep, 0 \in Nat
  <2> QED
    BY <2>1
<1>4. m - 1 \in 0 .. n - 1 /\ m - 1 \in 0 .. n /\ Grows(m - 1)
  <2>1. m # 0
    BY <1>2, <1>3
  <2>2. m - 1 \in 0 .. n - 1 /\ m - 1 \in 0 .. n /\ ~(m <= m - 1)
    BY <1>2, <2>1
  <2> QED
    BY <1>1, <2>2
<1>5. list[m - 1] \in Subnet /\ list[m - 1].ipCount \in Nat
  <2>1. list[m - 1] \in Subnet
    BY <1>4
  <2> QED
    BY <2>1, CountType
<1>6. m - 1 \in Nat /\ m - 1 + 1 = m
  BY <1>4
<1>7. Base(list, m) = Base(list, m - 1) + list[m - 1].ipCount
  BY <1>6, BaseStep
<1>8. Base(list, m) \in Nat /\ Base(list, m - 1) <= Base(list, m)
      /\ Base(list, m - 1) \in Nat
  BY <1>4, <1>5, <1>7
<1>9. ASSUME NEW j \in 0 .. m
      PROVE  Base(list, j) \in Nat /\ Base(list, j) <= Base(list, m)
  <2>1. j = m \/ j \in 0 .. m - 1
    BY <1>6
  <2>2. CASE j = m
    BY <1>8, <2>2
  <2>3. CASE j \in 0 .. m - 1
    BY <1>4, <1>8, <2>3
  <2> QED
    BY <2>1, <2>2, <2>3
<1> QED
  BY <1>2, <1>8, <1>9

\* Base depends on the networks before the position only.
LEMMA BaseSame ==
    ASSUME NEW x, NEW y, NEW k \in Nat, \A i \in 0 .. k - 1 : x[i] = y[i]
    PROVE  Base(x, k) = Base(y, k)
<1>1. PICK f : Sums(x, k, f) /\ Base(x, k) = f[k]
  BY BaseSums
<1>2. PICK g : Sums(y, k, g) /\ Base(y, k) = g[k]
  BY BaseSums
<1>3. \A j \in 0 .. k : j # 0 => x[j - 1] = y[j - 1]
  OBVIOUS
<1>4. Sums(y, k, f)
  <2>1. \A j \in 0 .. k : (IF j = 0 THEN 0 ELSE f[j - 1] + x[j - 1].ipCount)
                         = (IF j = 0 THEN 0 ELSE f[j - 1] + y[j - 1].ipCount)
    BY <1>3
  <2> QED
    BY <1>1, <2>1 DEF Sums
<1>5. f[k] = g[k]
  BY <1>2, <1>4, SumsAgree
<1> QED
  BY <1>1, <1>2, <1>5

\* A list in which one network is replaced.
LEMMA BaseReplace ==
    ASSUME NEW n \in Nat, NEW x \in [0 .. n - 1 -> Subnet],
           NEW y \in [0 .. n - 1 -> Subnet], NEW t \in 0 .. n - 1,
           \A i \in 0 .. n - 1 : i # t => x[i] = y[i]
    PROVE  Base(x, n) + y[t].ipCount = Base(y, n) + x[t].ipCount
<1> DEFINE T == {m \in t + 1 .. n : Base(x, m) + y[t].ipCount # Base(y, m) + x[t].ipCount}
<1> SUFFICES ASSUME T # {} PROVE FALSE
  BY n \in t + 1 .. n
<1>1. PICK m \in T : \A k \in T : m <= k
  BY LeastNatural, T \subseteq Nat
<1>2. m \in t + 1 .. n /\ m - 1 \in 0 .. n - 1 /\ m - 1 \in 0 .. n /\ m - 1 \in Nat
      /\ m - 1 + 1 = m /\ m - 1 \notin T
  BY <1>1
<1>3. Base(x, m) + y[t].ipCount # Base(y, m) + x[t].ipCount
  BY <1>1
<1>4. /\ Base(x, m) = Base(x, m - 1) + x[m - 1].ipCount
      /\ Base(y, m) = Base(y, m - 1) + y[m - 1].ipCount
  BY <1>2, BaseStep
<1>5. Base(x, m - 1) \in Nat /\ Base(y, m - 1) \in Nat
  BY <1>2, BaseGrows
<1>6. \A i \in 0 .. n - 1 : x[i].ipCount \in Nat /\ y[i].ipCount \in Nat
  BY CountType
<1>7. CASE m - 1 = t
  <2>1. \A i \in 0 .. m - 1 - 1 : x[i] = y[i]
    BY <1>2, <1>7
  <2>2. Base(x, m - 1) = Base(y, m - 1)
    BY <1>2, <2>1, BaseSame
  <2> QED
    BY <1>3, <1>4, <1>5, <1>6, <1>7, <2>2
<1>8. CASE m - 1 # t
  <2>1. m - 1 \in t + 1 .. n
    BY <1>2, <1>8
  <2>2. Base(x, m - 1) + y[t].ipCount = Base(y, m - 1) + x[t].ipCount
    BY <1>2, <2>1
  <2>3. x[m - 1] = y[m - 1]
    BY <1>2, <1>8
  <2> DEFINE a == Base(x, m - 1)
             b == Base(y, m - 1)
             c == x[m - 1].ipCount
             d == x[t].ipCount
             e == y[t].ipCount
  <2>4. a \in Nat /\ b \in Nat /\ c \in Nat /\ d \in Nat /\ e \in Nat
    BY <1>2, <1>5, <1>6
  <2>5. a + e = b + d /\ Base(x, m) = a + c /\ Base(y, m) = b + c
    BY <1>4, <2>2, <2>3
  <2> HIDE DEF a, b, c, d, e
  <2>6. (a + c) + e = (b + c) + d
    BY <2>4, <2>5
  <2> QED
    BY <1>3, <2>5, <2>6 DEF d, e
<1> QED
  BY <1>7, <1>8

\* The networks of a list at the positions of q.
Picked(list, q, n) == [i \in 0 .. n - 1 |-> list[q[i]]]

Injective(q, n) == \A i, j \in 0 .. n - 1 : q[i] = q[j] => i = j

\* Networks picked from a list, each at most once, have no more addresses than
\* the list: the order in which qsort leaves them does not matter.
LEMMA BaseOfPicked ==
    ASSUME NEW N \in Nat, NEW list \in [0 .. N - 1 -> Subnet], NEW n \in Nat,
           NEW q \in [0 .. n - 1 -> 0 .. N - 1], Injective(q, n)
    PROVE  Base(Picked(list, q, n), n) <= Base(list, N)
<1> DEFINE P(m) == \A k \in Nat : \A p \in [0 .. k - 1 -> 0 .. m - 1] :
                     Injective(p, k) => Base(Picked(list, p, k), k) <= Base(list, m)
           T == {m \in 0 .. N : ~P(m)}
<1> SUFFICES ASSUME T # {} PROVE FALSE
  BY N \in 0 .. N
<1>1. PICK m \in T : \A x \in T : m <= x
  BY LeastNatural, T \subseteq Nat
<1>k. PICK k \in Nat : \E p \in [0 .. k - 1 -> 0 .. m - 1] :
        Injective(p, k) /\ ~(Base(Picked(list, p, k), k) <= Base(list, m))
  BY <1>1
<1>p. PICK p \in [0 .. k - 1 -> 0 .. m - 1] :
         Injective(p, k) /\ ~(Base(Picked(list, p, k), k) <= Base(list, m))
  BY <1>k
<1> HIDE DEF P
<1>3. m \in 0 .. N /\ (m # 0 => m - 1 \in 0 .. N /\ P(m - 1))
  <2>1. m \in 0 .. N
    BY <1>1
  <2>2. m # 0 => m - 1 \in 0 .. N /\ m - 1 \notin T
    BY <1>1, <2>1
  <2> QED
    BY <2>1, <2>2
<1> HIDE DEF T
<1> DEFINE x == Picked(list, p, k)
<1>4. x \in [0 .. k - 1 -> Subnet]
  BY <1>p, <1>3 DEF Picked
<1>5. k # 0
  <2> SUFFICES ASSUME k = 0 PROVE FALSE
    OBVIOUS
  <2>1. Base(x, 0) = 0
    BY BaseStep, 0 \in Nat
  <2>2. Base(list, m) \in Nat
    BY <1>3, BaseGrows
  <2> QED
    BY <1>p, <2>1, <2>2
<1>6. k - 1 \in 0 .. k - 1 /\ k - 1 \in Nat /\ p[k - 1] \in 0 .. m - 1
  BY <1>p, <1>5
<1>7. m # 0 /\ m - 1 \in 0 .. N - 1 /\ m - 1 \in Nat /\ P(m - 1)
  BY <1>3, <1>6
<1>8. Base(list, m) = Base(list, m - 1) + list[m - 1].ipCount
  <2>1. m - 1 + 1 = m
    BY <1>3
  <2> QED
    BY <1>7, <2>1, BaseStep
<1>9. Base(list, m - 1) \in Nat /\ list[m - 1].ipCount \in Nat
  BY <1>7, <1>3, BaseGrows, CountType
<1>10. CASE \A i \in 0 .. k - 1 : p[i] # m - 1
  <2>1. p \in [0 .. k - 1 -> 0 .. m - 1 - 1]
    <3>1. \A i \in 0 .. k - 1 : p[i] \in 0 .. m - 1 - 1
      BY <1>p, <1>3, <1>10
    <3> QED
      BY <3>1
  <2>2. Base(x, k) <= Base(list, m - 1)
    BY <1>p, <1>7, <2>1 DEF P
  <2>3. Base(x, k) \in Nat
    BY <1>4, <1>p, BaseGrows, k \in 0 .. k
  <2> QED
    BY <1>p, <1>8, <1>9, <2>2, <2>3
<1>11. CASE \E i \in 0 .. k - 1 : p[i] = m - 1
  <2>1. PICK t \in 0 .. k - 1 : p[t] = m - 1
    BY <1>11
  <2> DEFINE r == [i \in 0 .. k - 1 - 1 |-> IF i = t THEN p[k - 1] ELSE p[i]]
             y == Picked(list, r, k - 1)
  <2>2. \A i \in 0 .. k - 1 : i # t => p[i] \in 0 .. m - 1 - 1
    <3> TAKE i \in 0 .. k - 1
    <3> HAVE i # t
    <3>1. p[i] # m - 1
      BY <1>p, <2>1, Zenon DEF Injective
    <3>2. p[i] \in 0 .. m - 1
      BY <1>p, Zenon
    <3> QED
      BY <1>3, <3>1, <3>2
  <2>3. r \in [0 .. k - 1 - 1 -> 0 .. m - 1 - 1]
    <3>1. \A i \in 0 .. k - 1 - 1 : r[i] \in 0 .. m - 1 - 1
      <4> TAKE i \in 0 .. k - 1 - 1
      <4>1. i \in 0 .. k - 1 /\ i # k - 1
        BY <1>6
      <4>2. i = t => k - 1 # t
        BY <4>1
      <4> QED
        BY <1>6, <2>2, <4>1, <4>2
    <3> QED
      BY <3>1
  <2>4. Injective(r, k - 1)
    <3> SUFFICES ASSUME NEW i \in 0 .. k - 1 - 1, NEW j \in 0 .. k - 1 - 1, r[i] = r[j]
                 PROVE  i = j
      BY DEF Injective
    <3>1. i \in 0 .. k - 1 /\ i # k - 1 /\ j \in 0 .. k - 1 /\ j # k - 1
      BY <1>6
    <3> QED
      BY <1>p, <1>6, <3>1 DEF Injective
  <2>5. Base(y, k - 1) <= Base(list, m - 1)
    BY <1>6, <1>7, <2>3, <2>4 DEF P
  <2>6. Base(x, k) = Base(y, k - 1) + list[m - 1].ipCount
    <3>1. y \in [0 .. k - 1 - 1 -> Subnet]
      BY <1>3, <2>3 DEF Picked
    <3> DEFINE z == [i \in 0 .. k - 1 |-> IF i = k - 1 THEN list[m - 1] ELSE y[i]]
    <3>2. z \in [0 .. k - 1 -> Subnet]
      <4>1. list[m - 1] \in Subnet
        BY <1>7
      <4>2. \A i \in 0 .. k - 1 : i # k - 1 => i \in 0 .. k - 1 - 1
        BY <1>6
      <4> QED
        BY <3>1, <4>1, <4>2
    <3>3. x[t] = list[m - 1]
      BY <2>1 DEF Picked
    <3>4. \A i \in 0 .. k - 1 : i # k - 1 /\ i # t => x[i] = z[i]
      <4> TAKE i \in 0 .. k - 1
      <4>1. i # k - 1 => i \in 0 .. k - 1 - 1
        BY <1>6
      <4> QED
        BY <4>1 DEF Picked
    <3>5. k - 1 # t => x[k - 1] = z[t]
      <4>1. k - 1 # t => t \in 0 .. k - 1 - 1
        BY <1>6
      <4> QED
        BY <1>6, <4>1 DEF Picked
    <3>6. z[k - 1] = list[m - 1]
      BY <1>6
    <3>7. Base(z, k) = Base(y, k - 1) + list[m - 1].ipCount
      <4>1. \A i \in 0 .. k - 1 - 1 : z[i] = y[i]
        BY <1>6
      <4>2. Base(z, k - 1) = Base(y, k - 1)
        BY <1>6, <4>1, BaseSame
      <4>3. k - 1 + 1 = k
        BY <1>p
      <4> QED
        BY <1>6, <3>6, <4>2, <4>3, BaseStep
    <3> HIDE DEF x, y, z, r
    <3>8. CASE k - 1 = t
      <4>1. \A i \in 0 .. k - 1 : x[i] = z[i]
        BY <3>3, <3>4, <3>6, <3>8
      <4> QED
        BY <1>p, <3>7, <4>1, BaseSame
    <3>9. CASE k - 1 # t
      <4> DEFINE w == [x EXCEPT ![t] = x[k - 1]]
      <4>1. w \in [0 .. k - 1 -> Subnet]
        BY <1>4, <1>6
      <4>2. Base(x, k) + w[t].ipCount = Base(w, k) + x[t].ipCount
        <5>1. \A i \in 0 .. k - 1 : i # t => x[i] = w[i]
          BY <1>4
        <5> HIDE DEF w
        <5> QED
          BY <1>p, <1>4, <4>1, <5>1, BaseReplace
      <4>3. Base(w, k) + z[k - 1].ipCount = Base(z, k) + w[k - 1].ipCount
        <5>1. \A i \in 0 .. k - 1 : i # k - 1 => w[i] = z[i]
          BY <1>4, <3>4, <3>5, <3>9
        <5> HIDE DEF w
        <5> QED
          BY <1>p, <1>6, <3>2, <4>1, <5>1, BaseReplace
      <4>4. w[t] = x[k - 1] /\ w[k - 1] = x[k - 1]
        BY <1>4, <1>6, <3>9
      <4>5. /\ Base(x, k) \in Nat /\ Base(w, k) \in Nat /\ Base(z, k) \in Nat
            /\ x[k - 1].ipCount \in Nat
        <5> HIDE DEF w
        <5>1. k \in 0 .. k
          BY <1>p
        <5> QED
          <6>1. x[k - 1] \in Subnet
            BY <1>4, <1>6
          <6>2. x[k - 1].ipCount \in Nat
            BY <6>1, CountType
          <6>3. Base(x, k) \in Nat
            BY <1>p, <1>4, <5>1, BaseGrows
          <6>4. Base(w, k) \in Nat
            BY <1>p, <4>1, <5>1, BaseGrows
          <6>5. Base(z, k) \in Nat
            BY <1>p, <3>2, <5>1, BaseGrows
          <6> QED
            BY <6>2, <6>3, <6>4, <6>5
      <4> HIDE DEF w
      <4>6. Base(x, k) = Base(z, k)
        <5> DEFINE p1 == x[k - 1].ipCount
                   p2 == list[m - 1].ipCount
        <5>1. p1 \in Nat /\ p2 \in Nat
          BY <1>9, <4>5
        <5>2. /\ Base(x, k) + p1 = Base(w, k) + p2
              /\ Base(w, k) + p2 = Base(z, k) + p1
          BY <3>3, <3>6, <4>2, <4>3, <4>4
        <5> HIDE DEF p1, p2
        <5> QED
          BY <4>5, <5>1, <5>2
      <4> QED
        BY <3>7, <4>6
    <3> QED
      BY <3>8, <3>9
  <2>7. Base(y, k - 1) \in Nat
    <3>1. y \in [0 .. k - 1 - 1 -> Subnet] /\ k - 1 \in 0 .. k - 1
      BY <1>3, <1>6, <2>3 DEF Picked
    <3> QED
      BY <1>6, <3>1, BaseGrows
  <2> QED
    BY <1>p, <1>8, <1>9, <2>5, <2>6, <2>7
<1> QED
  BY <1>10, <1>11

\* qsort leaves a list of the same networks, with as many addresses.
LEMMA QsortKeeps ==
    ASSUME NEW n \in Nat, NEW c, \A k \in 0 .. n - 1 : c[k] \in Subnet,
           NEW list \in QsortOf(c, n)
    PROVE  /\ list \in [0 .. n - 1 -> Subnet]
           /\ \A k \in 0 .. n - 1 : \E l \in 0 .. n - 1 : list[k] = c[l]
           /\ Base(list, n) \in Nat /\ Base(list, n) = Base(c, n)
<1> DEFINE d == [k \in 0 .. n - 1 |-> c[k]]
<1>1. PICK q \in [0 .. n - 1 -> 0 .. n - 1] :
        /\ Injective(q, n) /\ list = Picked(c, q, n)
        /\ \A j \in 0 .. n - 1 : \E i \in 0 .. n - 1 : q[i] = j
  BY Zenon DEF QsortOf, Injective, Picked
<1>2. d \in [0 .. n - 1 -> Subnet] /\ \A k \in 0 .. n - 1 : d[k] = c[k]
  OBVIOUS
<1> HIDE DEF d
<1>3. list \in [0 .. n - 1 -> Subnet] /\ list = Picked(d, q, n)
      /\ \A k \in 0 .. n - 1 : \E l \in 0 .. n - 1 : list[k] = c[l]
  BY <1>1, <1>2 DEF Picked
<1>4. Base(list, n) \in Nat /\ Base(d, n) \in Nat
  BY <1>2, <1>3, BaseGrows, n \in 0 .. n
<1>5. Base(list, n) <= Base(d, n)
  BY <1>1, <1>2, <1>3, BaseOfPicked
<1>6. Base(d, n) <= Base(list, n)
  <2> DEFINE r == [j \in 0 .. n - 1 |-> CHOOSE i \in 0 .. n - 1 : q[i] = j]
  <2>1. \A j \in 0 .. n - 1 : r[j] \in 0 .. n - 1 /\ q[r[j]] = j
    BY <1>1, Zenon
  <2>2. r \in [0 .. n - 1 -> 0 .. n - 1]
    BY <2>1
  <2> HIDE DEF r
  <2>3. Injective(r, n)
    BY <2>1 DEF Injective
  <2>4. \A j \in 0 .. n - 1 : Picked(list, r, n)[j] = d[j]
    BY <1>3, <2>1 DEF Picked
  <2>5. Base(Picked(list, r, n), n) = Base(d, n)
    BY <2>4, BaseSame
  <2>6. Base(Picked(list, r, n), n) <= Base(list, n)
    BY <1>3, <2>2, <2>3, BaseOfPicked
  <2> QED
    BY <2>5, <2>6
<1>7. Base(d, n) = Base(c, n)
  BY <1>2, BaseSame
<1> QED
  BY <1>3, <1>4, <1>5, <1>6, <1>7

\* A whole file brings a list that LoadConfig stated and qsort left.
LEMMA SavedStated ==
    ASSUME NEW n \in 1 .. MaxSubnet, NEW list \in Saved[n]
    PROVE  /\ list \in [0 .. n - 1 -> Subnet]
           /\ \A k \in 0 .. n - 1 : Stated(list[k])
           /\ \E c \in Configs : c \in [0 .. n - 1 -> Network] /\ list \in QsortOf(Loaded(c), n)
<1>1. PICK c \in Configs : DOMAIN c = 0 .. n - 1 /\ list \in QsortOf(Loaded(c), n)
  BY Zenon DEF Saved
<1>2. PICK m \in 1 .. MaxSubnet : c \in [0 .. m - 1 -> Network]
  BY IpIndexAssumption, Zenon
<1>3. c \in [0 .. n - 1 -> Network] /\ n \in Nat
  BY <1>1, <1>2, IpIndexAssumption
<1>4. Loaded(c) \in [0 .. n - 1 -> Subnet] /\ \A k \in 0 .. n - 1 : Stated(Loaded(c)[k])
  BY <1>3, LoadedStated
<1>5. /\ list \in [0 .. n - 1 -> Subnet]
      /\ \A k \in 0 .. n - 1 : \E l \in 0 .. n - 1 : list[k] = Loaded(c)[l]
  BY <1>1, <1>3, <1>4, QsortKeeps
<1> QED
  BY <1>1, <1>3, <1>4, <1>5

-----------------------------------------------------------------------------
(* Types, and the entries of the table *)

\* The list has no more addresses than the table has entries, unless their
\* number is too large for a word or the list did not come whole.
TableInv ==
    /\ TypeOK
    /\ whole => \A k \in 0 .. nSubnet - 1 : Stated(rcvNetList[k])
    /\ whole /\ Base(rcvNetList, nSubnet) < Space =>
         Base(rcvNetList, nSubnet) <= sumIpCount
    /\ pc = "search" => rightPos < nSubnet

\* Whatever the list: an entry is a number.
LEMMA EntryType ==
    ASSUME NEW n \in Nat, NEW list \in [0 .. n - 1 -> Subnet], NEW k \in 0 .. n - 1,
           NEW a \in Addr
    PROVE  Entry(list, k, a) \in Int
<1>1. HostIndex(a, list[k]) \in Nat
  BY HostIndexBelow
<1>2. Base(list, k) \in Nat
  BY BaseGrows, k \in 0 .. n
<1> DEFINE x == Base(list, k) + HostIndex(a, list[k])
<1>3. x \in Nat
  BY <1>1, <1>2
<1> HIDE DEF x
<1>4. x % Space \in Int /\ Space \in Int
  BY <1>3, Powers, DivMod
<1> QED
  BY <1>4 DEF Entry, AsInt, x

\* A list of networks that LoadConfig stated, of so few addresses that idx fits
\* an int.
Small(list, n) ==
    /\ \A k \in 0 .. n - 1 : Stated(list[k]) /\ list[k].len > 0
    /\ 2 * Base(list, n) <= Space

\* The entries of a network lie between its base and the next one's.
LEMMA EntryRange ==
    ASSUME NEW n \in Nat, NEW list \in [0 .. n - 1 -> Subnet], Small(list, n),
           NEW k \in 0 .. n - 1, NEW a \in Addr
    PROVE  /\ Entry(list, k, a) = Base(list, k) + HostIndex(a, list[k])
           /\ Entry(list, k, a) \in Nat /\ Base(list, k) <= Entry(list, k, a)
           /\ \A l \in k + 1 .. n : Entry(list, k, a) < Base(list, l)
<1> DEFINE h == HostIndex(a, list[k])
           x == Base(list, k) + h
<1>1. h \in Nat /\ list[k].ipCount \in Nat /\ h < list[k].ipCount
  BY HostIndexBelow, CountType DEF Small
<1> HIDE DEF h
<1>2. Base(list, k + 1) = Base(list, k) + list[k].ipCount
  BY BaseStep, k \in Nat
<1>3. k \in 0 .. n /\ k + 1 \in 0 .. n /\ n \in 0 .. n
  OBVIOUS
<1>4. Base(list, k) \in Nat /\ Base(list, k + 1) \in Nat
  BY <1>3, BaseGrows
<1>5. x \in Nat /\ Base(list, k) <= x /\ x < Base(list, k + 1)
  BY <1>1, <1>2, <1>4
<1>6. ASSUME NEW l \in k + 1 .. n
      PROVE  x < Base(list, l) /\ Base(list, l) \in Nat
  <2>1. l \in 0 .. n /\ k + 1 \in 0 .. l
    BY <1>3
  <2>2. Base(list, l) \in Nat /\ Base(list, k + 1) <= Base(list, l)
    BY <2>1, BaseGrows
  <2> HIDE DEF x
  <2> QED
    BY <1>4, <1>5, <2>2
<1>7. x < Base(list, n) /\ Base(list, n) \in Nat
  BY <1>6, n \in k + 1 .. n
<1>8. Entry(list, k, a) = AsInt(x % Space)
  BY DEF Entry, h
<1> HIDE DEF x
<1>9. 2 * x < Space /\ x < Space /\ Space \in Nat \ {0}
  <2>1. 2 * Base(list, n) <= Space
    BY DEF Small
  <2> QED
    BY <1>5, <1>7, <2>1, Powers
<1>10. x % Space = x
  BY <1>5, <1>9, ModSmall, Zenon
<1>11. Entry(list, k, a) = x
  BY <1>5, <1>8, <1>9, <1>10 DEF AsInt
<1> QED
  BY <1>5, <1>6, <1>11 DEF x, h

\* The invariant holds before the configuration is read.
LEMMA TableInit == Init => TableInv
<1> SUFFICES ASSUME Init PROVE TableInv
  OBVIOUS
<1>1. 0 \in Addr /\ 0 \in 0 .. W
  BY Powers DEF Addr
<1>2. Base(rcvNetList, 0) = 0
  BY BaseStep, 0 \in Nat
<1>3. Zeroes \in Array
  BY <1>1 DEF Zeroes, Zero, Array, Subnet
<1>4. MaxSubnet \in Nat /\ MaxImports \in Nat
  BY IpIndexAssumption
<1> QED
  BY <1>1, <1>2, <1>3, <1>4 DEF Init, TableInv, TypeOK, RET_NOT_IN_MYNET

\* The number of addresses as a word, when it is one.
LEMMA WordOf ==
    ASSUME NEW b \in Nat
    PROVE  b % Space \in Addr /\ (b < Space => b % Space = b)
  BY Powers, DivMod, ModSmall DEF Addr

\* The table is not made smaller.
LEMMA LargerType ==
    ASSUME sumIpCount \in Addr, NEW v \in Addr
    PROVE  Larger(v) \in Addr /\ v <= Larger(v) /\ sumIpCount <= Larger(v)
  BY Powers DEF Larger, Addr

\* Every step keeps the types, and the table large enough for the list.
LEMMA TableNext == TableInv /\ [Next]_vars => TableInv'
<1> SUFFICES ASSUME TableInv, [Next]_vars PROVE TableInv'
  OBVIOUS
<1>0. /\ TypeOK /\ MaxSubnet \in Nat /\ MaxImports \in Nat /\ rcvNetList \in Array
      /\ nSubnet \in 0 .. MaxSubnet /\ nSubnet \in Nat /\ sumIpCount \in Addr
      /\ \A x \in Addr : x \in Nat
  BY IpIndexAssumption, Powers DEF TableInv, TypeOK, Addr
<1>i. 0 \in Addr /\ 0 \in 0 .. MaxSubnet /\ -1 \in -1 .. MaxSubnet - 1
  BY <1>0, Powers DEF Addr
<1>t. ASSUME ToImport, UNCHANGED <<pc, ip, leftPos, rightPos, ret>>, whole' \in BOOLEAN,
             nSubnet' \in 0 .. MaxSubnet, rcvNetList' \in Array, sumIpCount' \in Addr
      PROVE  TypeOK'
  <2>1. imports' \in 0 .. MaxImports /\ seen' \in {<<>>} \cup (Addr \X Int)
    BY <1>0, <1>t DEF ToImport, TypeOK
  <2>2. /\ pc' \in {"load", "sort", "idle", "search"} /\ ip' \in Addr /\ ret' \in Int
        /\ leftPos' \in 0 .. MaxSubnet /\ rightPos' \in -1 .. MaxSubnet - 1
    BY <1>0, <1>t DEF TypeOK
  <2> QED
    BY <1>t, <2>1, <2>2 DEF TypeOK
<1>1. CASE LoadConfig
  <2>1. PICK c \in Configs, n \in 1 .. MaxSubnet :
          /\ c \in [0 .. n - 1 -> Network]
          /\ rcvNetList' = Over(Loaded(c), n)
          /\ nSubnet' = n
          /\ sumIpCount' = Base(Loaded(c), n) % Space
    BY <1>1, Zenon DEF LoadConfig
  <2>2. n \in Nat /\ n \in 0 .. MaxSubnet /\ n \in 0 .. n
    BY <1>0
  <2>3. Loaded(c) \in [0 .. n - 1 -> Subnet] /\ \A k \in 0 .. n - 1 : Stated(Loaded(c)[k])
    BY <2>1, <2>2, LoadedStated
  <2>4. rcvNetList' \in Array /\ \A k \in 0 .. n - 1 : rcvNetList'[k] = Loaded(c)[k]
    BY <1>0, <2>1, <2>2, <2>3, OverType
  <2>5. Base(Loaded(c), n) \in Nat /\ Base(rcvNetList', n) = Base(Loaded(c), n)
    BY <2>2, <2>3, <2>4, BaseGrows, BaseSame
  <2>6. sumIpCount' \in Addr
        /\ (Base(rcvNetList', n) < Space => Base(rcvNetList', n) = sumIpCount')
    BY <2>1, <2>5, WordOf
  <2>7. Base(rcvNetList', n) < Space => Base(rcvNetList', n) <= sumIpCount'
    BY <1>0, <2>6
  <2>8. TypeOK'
    BY <1>0, <1>1, <2>1, <2>2, <2>4, <2>6 DEF LoadConfig, TypeOK
  <2> QED
    BY <1>1, <2>1, <2>3, <2>4, <2>7, <2>8 DEF LoadConfig, TableInv
<1>2. CASE Sort
  <2>1. PICK list \in QsortOf(rcvNetList, nSubnet) : rcvNetList' = Over(list, nSubnet)
    BY <1>2 DEF Sort
  <2>2. \A k \in 0 .. nSubnet - 1 : rcvNetList[k] \in Subnet
    BY <1>0 DEF Array
  <2>3. /\ list \in [0 .. nSubnet - 1 -> Subnet]
        /\ \A k \in 0 .. nSubnet - 1 : \E l \in 0 .. nSubnet - 1 : list[k] = rcvNetList[l]
        /\ Base(list, nSubnet) = Base(rcvNetList, nSubnet)
    BY <1>0, <2>1, <2>2, QsortKeeps
  <2>4. rcvNetList' \in Array /\ \A k \in 0 .. nSubnet - 1 : rcvNetList'[k] = list[k]
    BY <1>0, <2>1, <2>3, OverType
  <2>5. Base(rcvNetList', nSubnet) = Base(rcvNetList, nSubnet)
    BY <1>0, <2>3, <2>4, BaseSame
  <2>6. TypeOK'
    BY <1>0, <1>2, <2>4 DEF Sort, TypeOK
  <2> QED
    BY <1>2, <2>3, <2>4, <2>5, <2>6 DEF Sort, TableInv
<1>3. CASE Import
  <2>n. PICK n \in 1 .. MaxSubnet : \E list \in Saved[n] :
          /\ nSubnet' = n
          /\ sumIpCount' = Larger(Base(list, n) % Space)
          /\ rcvNetList' = Over(list, n)
    BY <1>3 DEF Import
  <2>1. PICK list \in Saved[n] :
          /\ nSubnet' = n
          /\ sumIpCount' = Larger(Base(list, n) % Space)
          /\ rcvNetList' = Over(list, n)
    BY <2>n
  <2>2. n \in Nat /\ n \in 0 .. MaxSubnet /\ n \in 0 .. n
    BY <1>0
  <2>3. list \in [0 .. n - 1 -> Subnet] /\ \A k \in 0 .. n - 1 : Stated(list[k])
    BY SavedStated
  <2>4. rcvNetList' \in Array /\ \A k \in 0 .. n - 1 : rcvNetList'[k] = list[k]
    BY <1>0, <2>1, <2>2, <2>3, OverType
  <2>5. Base(list, n) \in Nat /\ Base(rcvNetList', n) = Base(list, n)
    BY <2>2, <2>3, <2>4, BaseGrows, BaseSame
  <2>6. /\ Base(list, n) % Space \in Addr
        /\ Base(list, n) < Space => Base(list, n) % Space = Base(list, n)
    BY <2>5, WordOf
  <2>7. sumIpCount' \in Addr /\ Base(list, n) % Space <= sumIpCount'
    BY <1>0, <2>1, <2>6, LargerType
  <2>8. Base(rcvNetList', n) < Space => Base(rcvNetList', n) <= sumIpCount'
    BY <2>5, <2>6, <2>7
  <2>9. TypeOK'
    BY <1>t, <1>3, <2>1, <2>2, <2>4, <2>7 DEF Import
  <2> QED
    BY <1>3, <2>1, <2>3, <2>4, <2>8, <2>9 DEF Import, ToImport, TableInv
<1>4. CASE ImportCutHeader
  <2>1. PICK v \in Garbage : sumIpCount' = Larger(v)
    BY <1>4 DEF ImportCutHeader
  <2>2. Garbage \subseteq Addr
    BY IpIndexAssumption
  <2>3. sumIpCount' \in Addr
    BY <1>0, <2>1, <2>2, LargerType
  <2>4. nSubnet' \in 0 .. MaxSubnet
    BY <1>0, <1>4, <2>2 DEF ImportCutHeader
  <2> QED
    <3>1. TypeOK'
      <4>1. rcvNetList' \in Array
        BY <1>0, <1>4 DEF ImportCutHeader
      <4> QED
        BY <1>t, <1>4, <2>3, <2>4, <4>1 DEF ImportCutHeader
    <3> QED
      BY <1>4, <3>1 DEF ImportCutHeader, ToImport, TableInv
<1>5. CASE ImportCutList
  <2>n. PICK n \in 1 .. MaxSubnet : \E list \in Saved[n] :
          /\ nSubnet' = n
          /\ sumIpCount' = Larger(Base(list, n) % Space)
          /\ \E i \in 0 .. n - 1, f \in 0 .. 3 :
               rcvNetList' = [Over(list, i) EXCEPT ![i] = Mixed(list[i], @, f)]
    BY <1>5 DEF ImportCutList
  <2>1. PICK list \in Saved[n] :
          /\ nSubnet' = n
          /\ sumIpCount' = Larger(Base(list, n) % Space)
          /\ \E i \in 0 .. n - 1, f \in 0 .. 3 :
               rcvNetList' = [Over(list, i) EXCEPT ![i] = Mixed(list[i], @, f)]
    BY <2>n
  <2>2. PICK i \in 0 .. n - 1, f \in 0 .. 3 :
               rcvNetList' = [Over(list, i) EXCEPT ![i] = Mixed(list[i], @, f)]
    BY <2>1
  <2>3. n \in Nat /\ n \in 0 .. MaxSubnet /\ n \in 0 .. n
        /\ i \in 0 .. MaxSubnet /\ i \in 0 .. MaxSubnet - 1
    BY <1>0
  <2>4. list \in [0 .. n - 1 -> Subnet]
    BY SavedStated
  <2> DEFINE x == [k \in 0 .. i - 1 |-> list[k]]
  <2>5. x \in [0 .. i - 1 -> Subnet]
    BY <2>3, <2>4
  <2>6. Over(list, i) \in Array
    <3>1. \A k \in 0 .. MaxSubnet - 1 : k < i => x[k] = list[k]
      BY <1>0, <2>3
    <3>2. Over(x, i) = Over(list, i)
      <4> HIDE DEF x
      <4> QED
        BY <3>1 DEF Over
    <3> QED
      BY <1>0, <2>3, <2>5, <3>2, OverType
  <2>7. Mixed(list[i], Over(list, i)[i], f) \in Subnet
    <3>1. list[i] \in Subnet /\ Over(list, i)[i] \in Subnet
      BY <2>3, <2>4, <2>6 DEF Array
    <3> QED
      BY <3>1 DEF Mixed, Subnet
  <2>8. rcvNetList' \in Array
    BY <2>2, <2>6, <2>7 DEF Array
  <2>9. sumIpCount' \in Addr
    <3>1. Base(list, n) \in Nat
      BY <2>3, <2>4, BaseGrows
    <3> QED
      BY <1>0, <2>1, <3>1, WordOf, LargerType
  <2> QED
    <3>1. TypeOK'
      BY <1>t, <1>5, <2>1, <2>3, <2>8, <2>9 DEF ImportCutList
    <3> QED
      BY <1>5, <3>1 DEF ImportCutList, ToImport, TableInv
<1>6. CASE ImportDiep
  <2>1. Zeroes \in Array /\ Base(Zeroes, 0) = 0 /\ 0 \in 0 .. W
    <3>1. 0 \in 0 .. W
      BY Powers
    <3> QED
      BY <1>i, <3>1, BaseStep, 0 \in Nat DEF Zeroes, Zero, Array, Subnet
  <2>2. TypeOK'
    BY <1>0, <1>i, <1>6, <2>1 DEF ImportDiep, TypeOK, RET_NOT_IN_MYNET
  <2> QED
    BY <1>6, <2>1, <2>2 DEF ImportDiep, TableInv
<1>7. CASE Lookup
  <2>1. rightPos' \in -1 .. MaxSubnet - 1 /\ rightPos' < nSubnet /\ ip' \in Addr
    BY <1>0, <1>7, IpIndexAssumption DEF Lookup
  <2> QED
    BY <1>0, <1>i, <1>7, <2>1 DEF Lookup, TableInv, TypeOK, RET_NOT_IN_MYNET
<1>8. ASSUME Searching
      PROVE  /\ midPos \in 0 .. nSubnet - 1 /\ midPos + 1 \in 0 .. MaxSubnet
             /\ midPos - 1 \in -1 .. MaxSubnet - 1 /\ midPos - 1 < nSubnet
  <2>1. /\ leftPos \in Nat /\ rightPos \in Int /\ leftPos <= rightPos /\ rightPos < nSubnet
    BY <1>0, <1>8 DEF Searching, TableInv, TypeOK
  <2> QED
    BY <1>0, <2>1 DEF midPos
<1>9. CASE GoRight
  BY <1>8, <1>9 DEF GoRight, TableInv, TypeOK, Searching
<1>10. CASE GoLeft
  BY <1>8, <1>10 DEF GoLeft, TableInv, TypeOK, Searching
<1>11. CASE Hit
  <2>1. ret' = Entry(rcvNetList, midPos, ip)
        /\ seen' \in (IF whole THEN {seen, <<ip, ret'>>} ELSE {seen}) /\ Searching
    BY <1>11 DEF Hit, Return
  <2>2. ret' \in Int
    <3> DEFINE x == [k \in 0 .. nSubnet - 1 |-> rcvNetList[k]]
    <3>1. x \in [0 .. nSubnet - 1 -> Subnet]
      BY <1>0, PrefixType
    <3>2. midPos \in 0 .. nSubnet - 1
      BY <1>8, <2>1
    <3>3. x[midPos] = rcvNetList[midPos] /\ \A k \in 0 .. midPos - 1 : x[k] = rcvNetList[k]
      BY <1>0, <3>2
    <3>4. Base(x, midPos) = Base(rcvNetList, midPos)
      <4>1. midPos \in Nat
        BY <3>2
      <4> HIDE DEF x
      <4> QED
        BY <3>3, <4>1, BaseSame
    <3>5. Entry(x, midPos, ip) \in Int
      BY <1>0, <3>1, <3>2, EntryType DEF TypeOK
    <3> QED
      BY <2>1, <3>3, <3>4, <3>5 DEF Entry
  <2>3. seen' \in {<<>>} \cup (Addr \X Int)
    BY <1>0, <2>1, <2>2 DEF TypeOK
  <2> QED
    BY <1>0, <1>i, <1>11, <2>2, <2>3 DEF Hit, Return, TableInv, TypeOK
<1>12. CASE Miss
  <2>1. ret' \in Int
    BY <1>12 DEF Miss, Return, RET_IN_MYNET, RET_NOT_IN_MYNET
  <2> QED
    BY <1>0, <1>i, <1>12, <2>1 DEF Miss, Return, TableInv, TypeOK
<1>13. CASE UNCHANGED vars
  BY <1>13 DEF vars, TableInv, TypeOK
<1> QED
  BY <1>1, <1>2, <1>3, <1>4, <1>5, <1>6, <1>7, <1>9, <1>10, <1>11, <1>12, <1>13 DEF Next

\* The types of the lists, positions and indices, for every configuration and
\* every file, cut ones included: the positions of the binary search stay in
\* the list and next to it.
THEOREM TypeCorrect == Spec => []TypeOK
<1>1. TableInv => TypeOK
  BY DEF TableInv
<1> QED
  BY <1>1, TableInit, TableNext, PTL DEF Spec

\* A sound list, as a list of its own.
LEMMA SoundSmall ==
    ASSUME TableInv, Sound
    PROVE  /\ nSubnet \in Nat
           /\ \E x \in [0 .. nSubnet - 1 -> Subnet] :
                /\ Small(x, nSubnet) /\ Base(x, nSubnet) <= sumIpCount
                /\ \A k \in 0 .. nSubnet - 1 :
                     /\ x[k] = rcvNetList[k]
                     /\ \A a : Entry(x, k, a) = Entry(rcvNetList, k, a)
<1> DEFINE x == [k \in 0 .. nSubnet - 1 |-> rcvNetList[k]]
<1>0. nSubnet \in Nat /\ nSubnet \in 0 .. MaxSubnet /\ sumIpCount \in Nat
      /\ rcvNetList \in Array /\ Space \in Nat \ {0}
  BY IpIndexAssumption, Powers DEF TableInv, TypeOK, Addr
<1>1. x \in [0 .. nSubnet - 1 -> Subnet]
  BY <1>0, PrefixType
<1>2. \A k \in 0 .. nSubnet - 1 : x[k] = rcvNetList[k]
  OBVIOUS
<1> HIDE DEF x
<1>3. Base(x, nSubnet) = Base(rcvNetList, nSubnet)
  BY <1>0, <1>2, BaseSame
<1>4. Small(x, nSubnet)
  BY <1>2, <1>3 DEF Small, Sound, TableInv
<1>5. Base(x, nSubnet) \in Nat
  BY <1>0, <1>1, BaseGrows, nSubnet \in 0 .. nSubnet
<1>6. Base(x, nSubnet) < Space
  BY <1>0, <1>4, <1>5 DEF Small
<1>7. Base(x, nSubnet) <= sumIpCount
  BY <1>3, <1>6 DEF TableInv, Sound
<1>8. ASSUME NEW k \in 0 .. nSubnet - 1, NEW a
      PROVE  Entry(x, k, a) = Entry(rcvNetList, k, a)
  <2>1. \A i \in 0 .. k - 1 : x[i] = rcvNetList[i]
    BY <1>0, <1>2
  <2>2. Base(x, k) = Base(rcvNetList, k)
    BY <1>0, <2>1, BaseSame
  <2> QED
    BY <1>2, <2>2 DEF Entry
<1> QED
  BY <1>0, <1>1, <1>2, <1>4, <1>7, <1>8

\* For every configuration, of networks of any lengths, and after every import,
\* of a whole file or of one that ends anywhere: what getIPIdx returns for an
\* address it finds in a sound list is an entry inside the table.  Sound leaves
\* out the lists of short reads, masks of zeroes, and networks of more than half
\* of all addresses, where the sum in LoadConfig or the int that is returned
\* may wrap.
THEOREM EntryAlwaysInTable == Spec => EntryInTable
<1>1. TableInv => (Hit /\ Sound => ret' \in 0 .. sumIpCount - 1)
  <2> SUFFICES ASSUME TableInv, Hit, Sound PROVE ret' \in 0 .. sumIpCount - 1
    OBVIOUS
  <2>1. PICK x \in [0 .. nSubnet - 1 -> Subnet] :
           /\ Small(x, nSubnet) /\ Base(x, nSubnet) <= sumIpCount
           /\ \A k \in 0 .. nSubnet - 1 : \A a : Entry(x, k, a) = Entry(rcvNetList, k, a)
    BY SoundSmall
  <2>2. nSubnet \in Nat /\ sumIpCount \in Nat /\ ip \in Addr
    BY IpIndexAssumption, Powers DEF TableInv, TypeOK, Addr
  <2>3. midPos \in 0 .. nSubnet - 1
    BY <2>2 DEF Hit, Searching, midPos, TableInv, TypeOK
  <2>4. ret' = Entry(x, midPos, ip)
    BY <2>1, <2>3 DEF Hit, Return
  <2>5. Entry(x, midPos, ip) \in Nat /\ Entry(x, midPos, ip) < Base(x, nSubnet)
    BY <2>1, <2>2, <2>3, EntryRange, nSubnet \in midPos + 1 .. nSubnet
  <2>6. Base(x, nSubnet) \in Nat
    BY <2>2, BaseGrows, nSubnet \in 0 .. nSubnet
  <2> QED
    BY <2>1, <2>2, <2>4, <2>5, <2>6
<1> QED
  BY <1>1, TableInit, TableNext, PTL DEF Spec, EntryInTable

\* Every step of getIPIdx ends the search or leaves it fewer networks: the safety
\* part of LookupEnds, for every configuration and file, also where
\* a short read left the list unsorted.
THEOREM SearchNarrows ==
    Spec => [][Search => \/ pc' = "idle"
                         \/ /\ leftPos <= leftPos' /\ rightPos' <= rightPos
                            /\ rightPos' - leftPos' < rightPos - leftPos]_vars
<1>1. TableInv => (Search => \/ pc' = "idle"
                             \/ /\ leftPos <= leftPos' /\ rightPos' <= rightPos
                                /\ rightPos' - leftPos' < rightPos - leftPos)
  <2> SUFFICES ASSUME TableInv, Search, pc' # "idle"
               PROVE  /\ leftPos <= leftPos' /\ rightPos' <= rightPos
                      /\ rightPos' - leftPos' < rightPos - leftPos
    OBVIOUS
  <2>1. leftPos \in Nat /\ rightPos \in Int
    BY IpIndexAssumption DEF TableInv, TypeOK
  <2>2. CASE GoRight
    BY <2>1, <2>2 DEF GoRight, Searching, midPos
  <2>3. CASE GoLeft
    BY <2>1, <2>3 DEF GoLeft, Searching, midPos
  <2> QED
    BY <2>2, <2>3 DEF Search, Hit, Miss, Return
<1> QED
  BY <1>1, TableInit, TableNext, PTL DEF Spec

-----------------------------------------------------------------------------
(* No address is missed *)

\* qsort leaves the list of a configuration ascending by network.
LEMMA QsortAscends ==
    ASSUME OneMask, NoWrap, NEW n \in Nat, NEW c \in Configs,
           c \in [0 .. n - 1 -> Network],
           NEW x, \A k \in 0 .. n - 1 : x[k] = Loaded(c)[k],
           NEW list \in QsortOf(x, n)
    PROVE  Ascending(list, n) /\ OneLength(list, n)
<1>1. PICK q \in [0 .. n - 1 -> 0 .. n - 1] :
        /\ list = [i \in 0 .. n - 1 |-> x[q[i]]]
        /\ \A i \in 0 .. n - 2 : RcvNetListCmp(x[q[i]], x[q[i + 1]]) <= 0
  BY Zenon DEF QsortOf
<1>2. \A k \in 0 .. n - 1 : /\ x[k] \in Subnet /\ x[k].net = c[k].net
                            /\ x[k].len = MaskLen(c[k].prefix)
  <2>1. /\ Loaded(c) \in [0 .. n - 1 -> Subnet]
        /\ \A k \in 0 .. n - 1 : /\ Loaded(c)[k].net = c[k].net
                                 /\ Loaded(c)[k].len = MaskLen(c[k].prefix)
    BY LoadedStated
  <2> QED
    BY <2>1
<1>3. list \in [0 .. n - 1 -> Subnet]
  BY <1>1, <1>2
<1>4. OneLength(list, n)
  <2>1. ASSUME NEW i \in 0 .. n - 1, NEW j \in 0 .. n - 1
        PROVE  list[i].len = list[j].len
    <3>1. list[i] = x[q[i]] /\ list[j] = x[q[j]]
      BY <1>1
    <3>2. q[i] \in DOMAIN c /\ q[j] \in DOMAIN c
          /\ q[i] \in 0 .. n - 1 /\ q[j] \in 0 .. n - 1
      OBVIOUS
    <3>3. MaskLen(c[q[i]].prefix) = MaskLen(c[q[j]].prefix)
      BY <3>2, Zenon DEF OneMask
    <3> QED
      BY <1>2, <3>1, <3>2, <3>3
  <2> QED
    BY <2>1 DEF OneLength
<1>5. ASSUME NEW i \in 0 .. n - 2
      PROVE  list[i].net <= list[i + 1].net
  <2>1. i \in 0 .. n - 1 /\ i + 1 \in 0 .. n - 1
    OBVIOUS
  <2>2. list[i] = x[q[i]] /\ list[i + 1] = x[q[i + 1]]
    BY <1>1, <2>1
  <2> DEFINE u == list[i].net
             v == list[i + 1].net
             d == u - v
  <2>3. u \in Int /\ v \in Int /\ Space \in Nat
    BY <1>3, <2>1, Powers DEF Subnet, Addr
  <2>4. 2 * d < Space /\ -Space <= 2 * d
    <3>1. q[i] \in DOMAIN c /\ q[i + 1] \in DOMAIN c
          /\ q[i] \in 0 .. n - 1 /\ q[i + 1] \in 0 .. n - 1
      BY <2>1
    <3>2. u = c[q[i]].net /\ v = c[q[i + 1]].net
      BY <1>2, <2>2, <3>1
    <3> HIDE DEF u, v
    <3> QED
      BY <3>1, <3>2 DEF NoWrap
  <2>5. RcvNetListCmp(list[i], list[i + 1]) <= 0
    BY <1>1, <2>2
  <2>6. RcvNetListCmp(list[i], list[i + 1]) =
          IF 2 * d >= Space THEN d - Space ELSE IF 2 * d < -Space THEN d + Space ELSE d
    BY Zenon DEF RcvNetListCmp
  <2>7. u <= v
    <3> HIDE DEF u, v
    <3> QED
      BY <2>3, <2>4, <2>5, <2>6
  <2> QED
    BY <2>7
<1>6. Ascending(list, n)
  BY <1>3, <1>5, NeighboursAscend
<1> QED
  BY <1>4, <1>6

\* The order of a list is that of its networks.
LEMMA SameOrder ==
    ASSUME NEW n \in Nat, NEW x, NEW y, \A k \in 0 .. n - 1 : x[k] = y[k],
           Ascending(x, n), OneLength(x, n)
    PROVE  Ascending(y, n) /\ OneLength(y, n)
  BY DEF Ascending, OneLength

\* What the search has excluded: the networks left of leftPos are too small,
\* those right of rightPos too large.
SearchInv ==
    /\ TableInv
    /\ pc = "sort" => \E c \in Configs :
                         /\ c \in [0 .. nSubnet - 1 -> Network]
                         /\ \A k \in 0 .. nSubnet - 1 : rcvNetList[k] = Loaded(c)[k]
    /\ whole /\ pc \in {"idle", "search"} =>
         Ascending(rcvNetList, nSubnet) /\ OneLength(rcvNetList, nSubnet)
    /\ whole /\ pc = "search" =>
         \A k \in 0 .. nSubnet - 1 :
            LET m == Masked(ip, rcvNetList[k].len)
            IN  /\ k < leftPos => rcvNetList[k].net < m
                /\ k > rightPos => rcvNetList[k].net > m

\* The search invariant holds before the configuration is read.
LEMMA SearchInit == Init => SearchInv
  BY TableInit DEF Init, SearchInv

\* One probe of the binary search excludes only networks on its far side.
LEMMA Probe ==
    ASSUME SearchInv, Searching
    PROVE  /\ midPos \in 0 .. nSubnet - 1
           /\ leftPos <= midPos /\ midPos <= rightPos
           /\ whole => \A k \in 0 .. nSubnet - 1 :
                LET m == Masked(ip, rcvNetList[k].len)
                IN  /\ m = ipAddrNet
                    /\ k <= midPos /\ ipAddrNet > rcvNetList[midPos].net =>
                         rcvNetList[k].net < m
                    /\ k >= midPos /\ ipAddrNet < rcvNetList[midPos].net =>
                         rcvNetList[k].net > m
<1>1. /\ leftPos \in Nat /\ rightPos \in Int /\ rightPos < nSubnet
      /\ leftPos <= rightPos /\ nSubnet \in 0 .. MaxSubnet /\ nSubnet \in Nat
      /\ MaxSubnet \in Nat /\ rcvNetList \in Array /\ ip \in Addr
  BY IpIndexAssumption DEF SearchInv, TableInv, TypeOK, Searching
<1>2. midPos \in 0 .. nSubnet - 1 /\ leftPos <= midPos /\ midPos <= rightPos
  BY <1>1 DEF midPos
<1>3. ASSUME whole
      PROVE  Ascending(rcvNetList, nSubnet) /\ OneLength(rcvNetList, nSubnet)
  BY <1>3 DEF SearchInv, Searching
<1>4. ASSUME whole, NEW k \in 0 .. nSubnet - 1
      PROVE  /\ Masked(ip, rcvNetList[k].len) = ipAddrNet
             /\ rcvNetList[k].net \in Int /\ ipAddrNet \in Int
             /\ k <= midPos => rcvNetList[k].net <= rcvNetList[midPos].net
             /\ k >= midPos => rcvNetList[k].net >= rcvNetList[midPos].net
  <2>1. Masked(ip, rcvNetList[k].len) = ipAddrNet
    BY <1>2, <1>3, <1>4 DEF OneLength, ipAddrNet
  <2>2. rcvNetList[k].net \in Int /\ ipAddrNet \in Int
    <3>1. rcvNetList[k] \in Subnet
      BY <1>1 DEF Array
    <3> QED
      BY <1>1, <2>1, <3>1, MaskedType
  <2>3. k = midPos \/ k < midPos \/ k > midPos
    BY <1>2
  <2> QED
    BY <1>2, <1>3, <1>4, <2>1, <2>2, <2>3 DEF Ascending
<1>5. whole => rcvNetList[midPos].net \in Int
  BY <1>2, <1>4
<1> QED
  BY <1>2, <1>4, <1>5

\* LoadConfig, qsort, ImportRecord and every step of getIPIdx keep the search
\* invariant.
LEMMA SearchNext ==
    ASSUME OneMask, NoWrap
    PROVE  SearchInv /\ [Next]_vars => SearchInv'
<1> SUFFICES ASSUME SearchInv, [Next]_vars PROVE SearchInv'
  OBVIOUS
<1>0. /\ TableInv' /\ MaxSubnet \in Nat /\ rcvNetList \in Array
      /\ nSubnet \in 0 .. MaxSubnet /\ nSubnet \in Nat
  BY TableNext, IpIndexAssumption DEF SearchInv, TableInv, TypeOK
<1>1. CASE LoadConfig
  <2>1. PICK c \in Configs, n \in 1 .. MaxSubnet :
          /\ c \in [0 .. n - 1 -> Network]
          /\ rcvNetList' = Over(Loaded(c), n)
          /\ nSubnet' = n
    BY <1>1, Zenon DEF LoadConfig
  <2>2. n \in Nat /\ n \in 0 .. MaxSubnet
    BY <1>0
  <2>3. \A k \in 0 .. n - 1 : rcvNetList'[k] = Loaded(c)[k]
    <3>1. Loaded(c) \in [0 .. n - 1 -> Subnet]
      BY <2>1, <2>2, LoadedStated
    <3> QED
      BY <1>0, <2>1, <2>2, <3>1, OverType
  <2> QED
    BY <1>0, <1>1, <2>1, <2>3 DEF LoadConfig, SearchInv
<1>2. CASE Sort
  <2>1. PICK list \in QsortOf(rcvNetList, nSubnet) : rcvNetList' = Over(list, nSubnet)
    BY <1>2 DEF Sort
  <2>2. Ascending(list, nSubnet) /\ OneLength(list, nSubnet)
    <3>1. PICK c \in Configs :
            /\ c \in [0 .. nSubnet - 1 -> Network]
            /\ \A k \in 0 .. nSubnet - 1 : rcvNetList[k] = Loaded(c)[k]
      BY <1>2 DEF Sort, SearchInv
    <3> QED
      BY <1>0, <2>1, <3>1, QsortAscends
  <2>3. \A k \in 0 .. nSubnet - 1 : list[k] = rcvNetList'[k]
    <3>1. \A k \in 0 .. nSubnet - 1 : rcvNetList[k] \in Subnet
      BY <1>0 DEF Array
    <3>2. list \in [0 .. nSubnet - 1 -> Subnet]
      BY <1>0, <2>1, <3>1, QsortKeeps
    <3> QED
      BY <1>0, <2>1, <3>2, OverType
  <2>4. Ascending(rcvNetList', nSubnet) /\ OneLength(rcvNetList', nSubnet)
    BY <1>0, <2>2, <2>3, SameOrder
  <2> QED
    BY <1>0, <1>2, <2>4 DEF Sort, SearchInv
<1>3. CASE Import
  <2>n. PICK n \in 1 .. MaxSubnet : \E list \in Saved[n] :
          nSubnet' = n /\ rcvNetList' = Over(list, n)
    BY <1>3 DEF Import
  <2>1. PICK list \in Saved[n] : nSubnet' = n /\ rcvNetList' = Over(list, n)
    BY <2>n
  <2>2. n \in Nat /\ n \in 0 .. MaxSubnet
    BY <1>0
  <2>3. /\ list \in [0 .. n - 1 -> Subnet]
        /\ \E c \in Configs : c \in [0 .. n - 1 -> Network] /\ list \in QsortOf(Loaded(c), n)
    BY SavedStated
  <2>4. Ascending(list, n) /\ OneLength(list, n)
    BY <2>2, <2>3, QsortAscends
  <2>5. \A k \in 0 .. n - 1 : list[k] = rcvNetList'[k]
    BY <1>0, <2>1, <2>2, <2>3, OverType
  <2>6. Ascending(rcvNetList', n) /\ OneLength(rcvNetList', n)
    BY <2>2, <2>4, <2>5, SameOrder
  <2> QED
    BY <1>0, <1>3, <2>1, <2>6 DEF Import, ToImport, SearchInv
<1>4. CASE ImportCutHeader \/ ImportCutList
  BY <1>0, <1>4 DEF ImportCutHeader, ImportCutList, ToImport, SearchInv
<1>5. CASE ImportDiep
  BY <1>0, <1>5 DEF ImportDiep, SearchInv
<1>6. CASE Lookup
  <2>1. leftPos' = 0 /\ rightPos' = nSubnet - 1 /\ nSubnet' = nSubnet
    BY <1>6 DEF Lookup
  <2>2. \A k \in 0 .. nSubnet - 1 : ~(k < leftPos') /\ ~(k > rightPos')
    BY <1>0, <2>1
  <2> QED
    BY <1>0, <1>6, <2>2 DEF Lookup, SearchInv
<1>7. CASE GoRight
  <2>1. leftPos' = midPos + 1 /\ Searching
        /\ ipAddrNet > rcvNetList[midPos].net
    BY <1>7 DEF GoRight
  <2>2. \A k \in 0 .. nSubnet - 1 : k < leftPos' => k <= midPos
    BY <1>0, <2>1, Probe
  <2> QED
    BY <1>0, <1>7, <2>1, <2>2, Probe DEF GoRight, SearchInv, Searching
<1>8. CASE GoLeft
  <2>1. rightPos' = midPos - 1 /\ Searching
        /\ ipAddrNet < rcvNetList[midPos].net
    BY <1>8 DEF GoLeft
  <2>2. \A k \in 0 .. nSubnet - 1 : k > rightPos' => k >= midPos
    BY <1>0, <2>1, Probe
  <2> QED
    BY <1>0, <1>8, <2>1, <2>2, Probe DEF GoLeft, SearchInv, Searching
<1>9. CASE Hit
  BY <1>0, <1>9 DEF Hit, Return, Searching, SearchInv
<1>10. CASE Miss
  BY <1>0, <1>10 DEF Miss, Return, SearchInv
<1>11. CASE UNCHANGED vars
  BY <1>0, <1>11 DEF vars, SearchInv
<1> QED
  BY <1>1, <1>2, <1>3, <1>4, <1>5, <1>6, <1>7, <1>8, <1>9, <1>10, <1>11 DEF Next

\* When getIPIdx gives up, none of the stated networks contains the address.
LEMMA MissIsRight == SearchInv => NoFalseMiss
<1> SUFFICES ASSUME SearchInv, whole, pc = "search", leftPos > rightPos,
                    NEW k \in 0 .. nSubnet - 1, Contains(rcvNetList[k], ip)
             PROVE  FALSE
  BY DEF NoFalseMiss, isOurNet
<1>1. Masked(ip, rcvNetList[k].len) = rcvNetList[k].net
  BY DEF Contains
<1>2. leftPos \in Nat /\ rightPos \in Int /\ rcvNetList[k] \in Subnet
  BY IpIndexAssumption DEF SearchInv, TableInv, TypeOK, Array
<1>3. rcvNetList[k].net \in Int
  BY <1>2, MaskedType DEF SearchInv, TableInv, TypeOK
<1>4. k < leftPos \/ k > rightPos
  BY <1>2
<1> QED
  BY <1>1, <1>3, <1>4 DEF SearchInv

\* For any number of networks of one length whose differences do not overflow:
\* in the list that qsort leaves, the configuration's or a whole file's, the
\* binary search of getIPIdx finds every address of a stated network.
THEOREM SearchFindsAll ==
    ASSUME OneMask, NoWrap
    PROVE  Spec => []NoFalseMiss
  BY SearchInit, SearchNext, MissIsRight, PTL DEF Spec

-----------------------------------------------------------------------------
(* One entry for each address *)

\* Two addresses have two entries.
LEMMA EntriesApart ==
    ASSUME NEW n \in Nat, NEW list \in [0 .. n - 1 -> Subnet], Small(list, n),
           \A k \in 0 .. n - 1 : list[k].len % OctetBits = 0
    PROVE  \A k, l \in 0 .. n - 1 : \A a, b \in Addr :
             /\ Contains(list[k], a) /\ Contains(list[l], b)
             /\ Entry(list, k, a) = Entry(list, l, b)
             => a = b
<1> SUFFICES ASSUME NEW k \in 0 .. n - 1, NEW a \in Addr, Contains(list[k], a),
                    NEW l \in 0 .. n - 1, NEW b \in Addr, Contains(list[l], b),
                    Entry(list, k, a) = Entry(list, l, b)
             PROVE  a = b
  OBVIOUS
<1>1. k = l
  <2>1. ASSUME k < l PROVE FALSE
    <3>1. Entry(list, k, a) < Base(list, l) /\ Base(list, l) <= Entry(list, l, b)
          /\ Entry(list, k, a) \in Nat /\ Entry(list, l, b) \in Nat
      BY <2>1, EntryRange, l \in k + 1 .. n
    <3>2. Base(list, l) \in Nat
      BY BaseGrows, l \in 0 .. n
    <3> QED
      BY <3>1, <3>2
  <2>2. ASSUME l < k PROVE FALSE
    <3>1. Entry(list, l, b) < Base(list, k) /\ Base(list, k) <= Entry(list, k, a)
          /\ Entry(list, k, a) \in Nat /\ Entry(list, l, b) \in Nat
      BY <2>2, EntryRange, k \in l + 1 .. n
    <3>2. Base(list, k) \in Nat
      BY BaseGrows, k \in 0 .. n
    <3> QED
      BY <3>1, <3>2
  <2> QED
    BY <2>1, <2>2
<1> DEFINE s == list[k]
           w == s.len
           m == 2 ^ w
<1>2. s \in Subnet /\ Stated(s) /\ w > 0 /\ w \in 0 .. W /\ w % OctetBits = 0
  BY DEF Small, Subnet
<1>3. /\ m \in Nat \ {0} /\ a \in Nat /\ b \in Nat
      /\ Masked(a, w) = a % m /\ (a - Masked(a, w)) \div m = a \div m
      /\ Masked(b, w) = b % m /\ (b - Masked(b, w)) \div m = b \div m
  <2> HIDE DEF w
  <2> QED
    BY <1>2, MaskedOctets
<1>4. a % m = b % m
  BY <1>1, <1>3 DEF Contains
<1>5. a \div m = b \div m
  <2>1. Base(list, k) \in Nat
    BY BaseGrows, k \in 0 .. n
  <2>2. /\ HostIndex(a, s) \in Nat /\ HostIndex(a, s) = (a - Masked(a, w)) \div m
        /\ HostIndex(b, s) \in Nat /\ HostIndex(b, s) = (b - Masked(b, w)) \div m
    <3> HIDE DEF s
    <3> QED
      BY <1>2, HostIndexBelow
  <2>3. /\ Entry(list, k, a) = Base(list, k) + HostIndex(a, s)
        /\ Entry(list, k, b) = Base(list, k) + HostIndex(b, s)
    BY EntryRange
  <2>4. HostIndex(a, s) = HostIndex(b, s)
    BY <1>1, <2>1, <2>2, <2>3
  <2> QED
    BY <1>3, <2>2, <2>4
<1> HIDE DEF m
<1>6. a = m * (a \div m) + (a % m) /\ b = m * (b \div m) + (b % m)
  BY <1>3, DivMod, Zenon
<1> QED
  BY <1>4, <1>5, <1>6

\* The address seen lies in a network of the list, and its entry is counted
\* from there.
SeenInv ==
    /\ TableInv
    /\ whole => \A k \in 0 .. nSubnet - 1 : rcvNetList[k].len % OctetBits = 0
    /\ pc \in {"load", "sort"} => seen = <<>>
    /\ seen # <<>> => \E k \in 0 .. nSubnet - 1 :
                         /\ Contains(rcvNetList[k], seen[1])
                         /\ seen[2] = Entry(rcvNetList, k, seen[1])

\* LoadConfig states the masks of a configuration, which are whole octets.
LEMMA LoadedOctets ==
    ASSUME OctetMasks, NEW n \in Nat, NEW c \in Configs, c \in [0 .. n - 1 -> Network]
    PROVE  \A k \in 0 .. n - 1 : Loaded(c)[k].len % OctetBits = 0
<1> TAKE k \in 0 .. n - 1
<1>1. Loaded(c)[k].len = MaskLen(c[k].prefix) /\ k \in DOMAIN c
  BY LoadedStated
<1> QED
  BY <1>1 DEF OctetMasks

\* Loading, sorting, importing and looking up keep what is known of the
\* address seen.
LEMMA SeenNext ==
    ASSUME OctetMasks
    PROVE  SeenInv /\ [Next]_vars => SeenInv'
<1> SUFFICES ASSUME SeenInv, [Next]_vars PROVE SeenInv'
  OBVIOUS
<1>0. /\ TableInv' /\ MaxSubnet \in Nat /\ rcvNetList \in Array
      /\ nSubnet \in 0 .. MaxSubnet /\ nSubnet \in Nat
  BY TableNext, IpIndexAssumption DEF SeenInv, TableInv, TypeOK
<1>1. CASE LoadConfig
  <2>1. PICK c \in Configs, n \in 1 .. MaxSubnet :
          /\ c \in [0 .. n - 1 -> Network]
          /\ rcvNetList' = Over(Loaded(c), n)
          /\ nSubnet' = n
    BY <1>1, Zenon DEF LoadConfig
  <2>2. n \in Nat /\ n \in 0 .. MaxSubnet
    BY <1>0
  <2>3. \A k \in 0 .. n - 1 : rcvNetList'[k] = Loaded(c)[k]
    <3>1. Loaded(c) \in [0 .. n - 1 -> Subnet]
      BY <2>1, <2>2, LoadedStated
    <3> QED
      BY <1>0, <2>1, <2>2, <3>1, OverType
  <2>4. \A k \in 0 .. n - 1 : rcvNetList'[k].len % OctetBits = 0
    BY <2>1, <2>2, <2>3, LoadedOctets
  <2>5. seen' = <<>>
    BY <1>1 DEF LoadConfig, SeenInv
  <2> QED
    BY <1>0, <1>1, <2>1, <2>4, <2>5 DEF LoadConfig, SeenInv
<1>2. CASE Sort
  <2>1. PICK list \in QsortOf(rcvNetList, nSubnet) : rcvNetList' = Over(list, nSubnet)
    BY <1>2 DEF Sort
  <2>2. \A k \in 0 .. nSubnet - 1 : rcvNetList[k] \in Subnet
    BY <1>0 DEF Array
  <2>3. /\ list \in [0 .. nSubnet - 1 -> Subnet]
        /\ \A k \in 0 .. nSubnet - 1 : \E l \in 0 .. nSubnet - 1 : list[k] = rcvNetList[l]
    BY <1>0, <2>1, <2>2, QsortKeeps
  <2>4. \A k \in 0 .. nSubnet - 1 : rcvNetList'[k] = list[k]
    BY <1>0, <2>1, <2>3, OverType
  <2>5. seen' = <<>>
    BY <1>2 DEF Sort, SeenInv
  <2>6. whole => \A k \in 0 .. nSubnet - 1 : rcvNetList'[k].len % OctetBits = 0
    <3>1. whole => \A l \in 0 .. nSubnet - 1 : rcvNetList[l].len % OctetBits = 0
      BY DEF SeenInv
    <3>2. ASSUME whole, NEW k \in 0 .. nSubnet - 1
          PROVE  rcvNetList'[k].len % OctetBits = 0
      <4>1. PICK l \in 0 .. nSubnet - 1 : list[k] = rcvNetList[l]
        BY <2>3
      <4>2. rcvNetList'[k] = rcvNetList[l]
        BY <2>4, <4>1
      <4> QED
        BY <3>1, <3>2, <4>2
    <3> QED
      BY <3>2
  <2> QED
    BY <1>0, <1>2, <2>5, <2>6 DEF Sort, SeenInv
<1>3. CASE Import
  <2>n. PICK n \in 1 .. MaxSubnet : \E list \in Saved[n] :
          nSubnet' = n /\ rcvNetList' = Over(list, n)
    BY <1>3 DEF Import
  <2>1. PICK list \in Saved[n] : nSubnet' = n /\ rcvNetList' = Over(list, n)
    BY <2>n
  <2>2. n \in Nat /\ n \in 0 .. MaxSubnet
    BY <1>0
  <2>3. list \in [0 .. n - 1 -> Subnet]
    BY SavedStated
  <2>4. PICK c \in Configs : c \in [0 .. n - 1 -> Network] /\ list \in QsortOf(Loaded(c), n)
    BY SavedStated
  <2>5. \A k \in 0 .. n - 1 : \E l \in 0 .. n - 1 : list[k] = Loaded(c)[l]
    <3>1. Loaded(c) \in [0 .. n - 1 -> Subnet]
      BY <2>2, <2>4, LoadedStated
    <3>2. \A l \in 0 .. n - 1 : Loaded(c)[l] \in Subnet
      BY <3>1
    <3> QED
      BY <2>2, <2>4, <3>2, QsortKeeps
  <2>6. \A k \in 0 .. n - 1 : list[k].len % OctetBits = 0
    <3>1. \A l \in 0 .. n - 1 : Loaded(c)[l].len % OctetBits = 0
      BY <2>2, <2>4, LoadedOctets
    <3> QED
      BY <2>5, <3>1, Zenon
  <2>7. \A k \in 0 .. n - 1 : rcvNetList'[k] = list[k]
    BY <1>0, <2>1, <2>2, <2>3, OverType
  <2> QED
    BY <1>0, <1>3, <2>1, <2>6, <2>7 DEF Import, ToImport, SeenInv
<1>4. CASE ImportCutHeader \/ ImportCutList
  BY <1>0, <1>4 DEF ImportCutHeader, ImportCutList, ToImport, SeenInv
<1>5. CASE ImportDiep
  BY <1>0, <1>5 DEF ImportDiep, SeenInv
<1>6. CASE Lookup
  BY <1>0, <1>6 DEF Lookup, SeenInv
<1>7. CASE GoRight
  BY <1>0, <1>7 DEF GoRight, Searching, SeenInv
<1>8. CASE GoLeft
  BY <1>0, <1>8 DEF GoLeft, Searching, SeenInv
<1>9. CASE Hit
  <2>1. /\ ret' = Entry(rcvNetList, midPos, ip)
        /\ seen' = seen \/ seen' = <<ip, ret'>>
        /\ ipAddrNet = rcvNetList[midPos].net /\ Searching
    BY <1>9 DEF Hit, Return
  <2>2. midPos \in 0 .. nSubnet - 1
    <3>1. /\ leftPos \in Nat /\ rightPos \in Int /\ leftPos <= rightPos
          /\ rightPos < nSubnet /\ nSubnet \in Nat
      BY <1>0, <2>1 DEF Searching, SeenInv, TableInv, TypeOK
    <3> QED
      BY <3>1 DEF midPos
  <2>3. Contains(rcvNetList[midPos], ip)
    BY <2>1 DEF Contains, ipAddrNet
  <2>4. seen' = <<ip, ret'>> => seen'[1] = ip /\ seen'[2] = Entry(rcvNetList, midPos, ip)
    BY <2>1
  <2> QED
    BY <1>0, <1>9, <2>1, <2>2, <2>3, <2>4 DEF Hit, Return, SeenInv
<1>10. CASE Miss
  BY <1>0, <1>10 DEF Miss, Return, SeenInv
<1>11. CASE UNCHANGED vars
  BY <1>0, <1>11 DEF vars, SeenInv
<1> QED
  BY <1>1, <1>2, <1>3, <1>4, <1>5, <1>6, <1>7, <1>8, <1>9, <1>10, <1>11 DEF Next

\* For any sound lists of networks of whole octets, of one length or of
\* several, overlapping or stated twice: two addresses never share an entry.
THEOREM AddressesApart ==
    ASSUME OctetMasks
    PROVE  Spec => OneEntryPerAddress
<1>1. Init => SeenInv
  BY TableInit DEF Init, SeenInv
<1>2. SeenInv /\ [Next]_vars
        => [Hit /\ Sound /\ seen # <<>> /\ seen[1] # ip => ret' # seen[2]]_vars
  <2> SUFFICES ASSUME SeenInv, Hit, Sound, seen # <<>>, seen[1] # ip, ret' = seen[2]
               PROVE  FALSE
    OBVIOUS
  <2>1. PICK x \in [0 .. nSubnet - 1 -> Subnet] :
           /\ Small(x, nSubnet) /\ nSubnet \in Nat
           /\ \A k \in 0 .. nSubnet - 1 :
                x[k] = rcvNetList[k] /\ \A a : Entry(x, k, a) = Entry(rcvNetList, k, a)
    BY SoundSmall DEF SeenInv
  <2>2. PICK k \in 0 .. nSubnet - 1 : /\ Contains(rcvNetList[k], seen[1])
                                      /\ seen[2] = Entry(rcvNetList, k, seen[1])
    BY DEF SeenInv
  <2>3. seen[1] \in Addr /\ ip \in Addr
    BY DEF SeenInv, TableInv, TypeOK
  <2>4. ret' = Entry(rcvNetList, midPos, ip) /\ Searching
        /\ Contains(rcvNetList[midPos], ip)
    BY DEF Hit, Return, Contains, ipAddrNet
  <2>5. midPos \in 0 .. nSubnet - 1
    <3>1. /\ leftPos \in Nat /\ rightPos \in Int /\ leftPos <= rightPos
          /\ rightPos < nSubnet /\ nSubnet \in Nat
      BY <2>1, <2>4 DEF Searching, SeenInv, TableInv, TypeOK
    <3> QED
      BY <3>1 DEF midPos
  <2>6. \A l \in 0 .. nSubnet - 1 : x[l].len % OctetBits = 0
    BY <2>1 DEF SeenInv, Sound
  <2>7. /\ Contains(x[k], seen[1]) /\ Contains(x[midPos], ip)
        /\ Entry(x, k, seen[1]) = Entry(x, midPos, ip)
    BY <2>1, <2>2, <2>4, <2>5
  <2>8. \A i, j \in 0 .. nSubnet - 1 : \A a, b \in Addr :
          /\ Contains(x[i], a) /\ Contains(x[j], b)
          /\ Entry(x, i, a) = Entry(x, j, b)
          => a = b
    BY <2>1, <2>6, EntriesApart, Zenon
  <2> QED
    BY <2>3, <2>5, <2>7, <2>8, Zenon
<1>3. SeenInv /\ [Next]_vars => SeenInv'
  BY SeenNext
<1> QED
  BY <1>1, <1>2, <1>3, PTL DEF Spec, OneEntryPerAddress
=============================================================================
