----------------------------- MODULE InetProofs -----------------------------
(***************************************************************************)
(* The texts of addresses (network/inet_ntop.c, network/inet_pton.c,        *)
(* network/inet_aton.c), for any words, groups and numbers: the bytes of    *)
(* inet_aton, the loop of inet_pton6 over the groups and what a text means, *)
(* the runs of zero words that inet_ntop6 looks for, and that what it       *)
(* writes is read back.  The lemmas about loops and sequences are those of  *)
(* PathsProofs.                                                             *)
(***************************************************************************)
EXTENDS Inet, PathsProofs

-----------------------------------------------------------------------------
(* Division by a number and by its multiples.                               *)
LEMMA DivMod ==
    ASSUME NEW v \in Nat, NEW m \in Nat \ {0}
    PROVE  /\ v \div m \in Nat /\ v % m \in Nat /\ v % m < m
           /\ v = ((v \div m) * m) + (v % m)
BY SMTT(30)

LEMMA DivUnique ==
    ASSUME NEW q \in Nat, NEW m \in Nat \ {0}, NEW r \in Nat, r < m
    PROVE  (q * m + r) \div m = q /\ (q * m + r) % m = r
BY SMTT(30)

LEMMA DivTwice ==
    ASSUME NEW v \in Nat, NEW m \in Nat \ {0}, NEW c \in Nat \ {0}
    PROVE  /\ (v % (m * c)) \div m = (v \div m) % c
           /\ (v % (m * c)) % m = v % m
           /\ v \div (m * c) = (v \div m) \div c
<1>1. PICK q \in Nat, r \in Nat : q = v \div m /\ r = v % m /\ v = q * m + r /\ r < m
  BY DivMod
<1>2. PICK s \in Nat, u \in Nat : s = q \div c /\ u = q % c /\ q = s * c + u /\ u < c
  BY DivMod
<1>3. PICK n \in Nat \ {0} : n = m * c
  <2>1. m * c \in Nat /\ m * c # 0
    BY SMTT(30)
  <2> QED
    BY <2>1
<1>4. PICK w \in Nat : w = u * m + r
  OBVIOUS
<1>5. w < n
  <2>1. PICK k \in Nat : c = u + 1 + k
    <3>1. c - u - 1 \in Nat /\ c = u + 1 + (c - u - 1)
      BY <1>2
    <3> QED
      BY <3>1
  <2>2. n = u * m + m + k * m /\ k * m \in Nat
    BY <2>1, <1>3
  <2> QED
    BY <2>2, <1>1, <1>4
<1>6. v = s * n + w
  <2>1. q * m = (s * c) * m + u * m
    BY <1>2
  <2>2. (s * c) * m = s * (m * c)
    OBVIOUS
  <2>3. s * n \in Nat /\ q * m = s * n + u * m /\ u * m \in Nat /\ q * m \in Nat
    BY <2>1, <2>2, <1>3
  <2> QED
    BY <2>3, <1>1, <1>4
<1>7. v \div n = s /\ v % n = w
  BY <1>5, <1>6, DivUnique
<1>8. w \div m = u /\ w % m = r
  BY <1>1, <1>4, DivUnique
<1> QED
  BY <1>1, <1>2, <1>3, <1>7, <1>8

LEMMA DivBound ==
    ASSUME NEW v \in Nat, NEW m \in Nat \ {0}, NEW c \in Nat
    PROVE  v \div m < c <=> v < m * c
<1>1. PICK q \in Nat, r \in Nat : q = v \div m /\ v = q * m + r /\ r < m
  BY DivMod
<1>2. CASE q < c
  <2>1. PICK k \in Nat : c = q + 1 + k
    <3>1. c - q - 1 \in Nat /\ c = q + 1 + (c - q - 1)
      BY <1>2
    <3> QED
      BY <3>1
  <2>2. m * c = q * m + m + k * m /\ k * m \in Nat
    BY <2>1
  <2> QED
    BY <2>2, <1>1, <1>2
<1>3. CASE q >= c
  <2>1. PICK k \in Nat : q = c + k
    <3>1. q - c \in Nat /\ q = c + (q - c)
      BY <1>3
    <3> QED
      BY <3>1
  <2>2. q * m = m * c + k * m /\ k * m \in Nat
    BY <2>1
  <2> QED
    BY <2>2, <1>1, <1>3
<1> QED
  BY <1>2, <1>3

LEMMA Powers ==
    /\ ByteBase \in Nat \ {0} /\ Power(0) = 1 /\ Power(1) = ByteBase
    /\ Power(2) \in Nat \ {0} /\ Power(3) \in Nat \ {0} /\ Power(4) \in Nat \ {0}
    /\ Power(2) = Power(1) * ByteBase /\ Power(3) = Power(2) * ByteBase
    /\ Power(4) = Power(3) * ByteBase
<1>0. ByteBase \in Nat \ {0}
  BY AtonAssumption
<1>1. Power(0) = 1 /\ Power(1) = ByteBase
  BY DEF Power
<1>2. Power(2) = ByteBase * ByteBase /\ Power(3) = ByteBase * ByteBase * ByteBase
      /\ Power(4) = ByteBase * ByteBase * ByteBase * ByteBase
  BY DEF Power
<1>3. \A m, c \in Nat \ {0} : m * c \in Nat \ {0}
  BY SMTT(30)
<1> QED
  BY <1>0, <1>1, <1>2, <1>3

(* The bytes of a number, and what is left of it above them.                *)
Rest(v, k) == v \div Power(k)
Byte(v, k) == Rest(v, k) % ByteBase

LEMMA Bytes ==
    ASSUME NEW v \in Nat
    PROVE  /\ \A k \in 0..3 : Rest(v, k) \in Nat /\ (Rest(v, k) < ByteBase <=> v < Power(k + 1))
           /\ \A k \in 0..3 : v % Power(k) \in Nat
           /\ (v % Power(3)) \div Power(2) = Byte(v, 2)
           /\ (v % Power(3)) % Power(2) = v % Power(2)
           /\ (v % Power(2)) \div ByteBase = Byte(v, 1)
           /\ (v % Power(2)) % ByteBase = Byte(v, 0) /\ v % ByteBase = Byte(v, 0)
           /\ v \div ByteBase = Rest(v, 1)
           /\ Rest(v, 0) = v
           /\ \A k \in 0..3 : Byte(v, k) \in 0 .. ByteBase - 1
           /\ \A k \in 0..3 : Rest(v, k) < ByteBase => Byte(v, k) = Rest(v, k)
<1>1. ASSUME NEW k \in 0..3 PROVE Power(k) \in Nat \ {0} /\ Power(k + 1) = Power(k) * ByteBase
  <2>1. CASE k = 0
    BY <2>1, Powers
  <2>2. CASE k = 1
    BY <2>2, Powers
  <2>3. CASE k = 2
    BY <2>3, Powers
  <2>4. CASE k = 3
    BY <2>4, Powers
  <2> QED
    BY <2>1, <2>2, <2>3, <2>4
<1>2. ASSUME NEW k \in 0..3
      PROVE  /\ v \div Power(k) \in Nat /\ (v \div Power(k) < ByteBase <=> v < Power(k + 1))
             /\ v % Power(k) \in Nat
  <2>1. PICK m \in Nat \ {0} : m = Power(k) /\ Power(k + 1) = m * ByteBase
    BY <1>1
  <2>2. PICK c \in Nat : c = ByteBase
    BY Powers
  <2>3. v \div m \in Nat /\ v % m \in Nat
    BY DivMod
  <2>4. v \div m < c <=> v < m * c
    BY DivBound
  <2> QED
    BY <2>1, <2>2, <2>3, <2>4
<1>25. PICK c \in Nat \ {0} : c = ByteBase
  BY Powers
<1>3. PICK m2 \in Nat \ {0} : m2 = Power(2) /\ Power(3) = m2 * c
  BY <1>25, Powers
<1>4. PICK m1 \in Nat \ {0} : m1 = ByteBase /\ Power(2) = m1 * c
  BY <1>25, Powers
<1>5. (v % Power(3)) \div Power(2) = (v \div Power(2)) % ByteBase
      /\ (v % Power(3)) % Power(2) = v % Power(2)
  <2>1. (v % (m2 * c)) \div m2 = (v \div m2) % c /\ (v % (m2 * c)) % m2 = v % m2
    BY DivTwice
  <2> QED
    BY <2>1, <1>25, <1>3, Zenon
<1>6. (v % Power(2)) \div ByteBase = (v \div ByteBase) % ByteBase
      /\ (v % Power(2)) % ByteBase = v % ByteBase
  <2>1. (v % (m1 * c)) \div m1 = (v \div m1) % c /\ (v % (m1 * c)) % m1 = v % m1
    BY DivTwice
  <2> QED
    BY <2>1, <1>25, <1>4, Zenon
<1>7. v \div Power(0) = v /\ Power(1) = ByteBase
  BY Powers
<1>8. ASSUME NEW k \in 0..3
      PROVE  Byte(v, k) \in 0 .. ByteBase - 1 /\ (Rest(v, k) < ByteBase => Byte(v, k) = Rest(v, k))
  <2>1. PICK w \in Nat : w = Rest(v, k)
    BY <1>2 DEF Rest
  <2>2. PICK b \in Nat \ {0} : b = ByteBase
    BY Powers
  <2>3. w % b \in 0 .. b - 1
    BY DivMod
  <2>4. w < b => w % b = w
    OBVIOUS
  <2> QED
    BY <2>1, <2>2, <2>3, <2>4 DEF Byte
<1>9. \A k \in 0..3 : Rest(v, k) \in Nat /\ (Rest(v, k) < ByteBase <=> v < Power(k + 1))
  BY <1>2 DEF Rest
<1>10. /\ (v % Power(3)) \div Power(2) = Byte(v, 2)
       /\ (v % Power(2)) \div ByteBase = Byte(v, 1)
       /\ (v % Power(2)) % ByteBase = Byte(v, 0) /\ v % ByteBase = Byte(v, 0)
       /\ v \div ByteBase = Rest(v, 1) /\ Rest(v, 0) = v
  BY <1>5, <1>6, <1>7, Zenon DEF Byte, Rest
<1> QED
  BY <1>2, <1>5, <1>8, <1>9, <1>10

(* What inet_aton makes of its last part: the bytes of the number, the      *)
(* first of them as large as what is left.                                  *)
SpreadOf(a, n, z) ==
    /\ z \in [1 .. 4 -> Nat]
    /\ \A k \in 1 .. 4 : z[k] = IF k < n THEN a[k]
                                ELSE IF k = n THEN Rest(a[n], 4 - n) ELSE Byte(a[n], 4 - k)

CarriedOf(a, k, m, z) ==
    /\ z \in [1 .. 4 -> Nat] /\ z[k] = a[k] \div m /\ z[k + 1] = a[k] % m
    /\ \A j \in 1 .. 4 : j # k /\ j # k + 1 => z[j] = a[j]

LEMMA Carries ==
    ASSUME NEW a \in [1 .. 4 -> Nat], NEW k \in 1 .. 3, NEW m \in Nat \ {0},
           NEW z, z = Carried(a, k, m)
    PROVE  CarriedOf(a, k, m, z)
<1>1. PICK v \in Nat : v = a[k]
  OBVIOUS
<1>2. PICK q \in Nat, r \in Nat : q = a[k] \div m /\ r = a[k] % m
  BY <1>1, DivMod
<1>3. z = [a EXCEPT ![k + 1] = r, ![k] = q]
  BY <1>2, Zenon DEF Carried
<1>4. z \in [1 .. 4 -> Nat] /\ z[k] = q /\ z[k + 1] = r
      /\ \A j \in 1 .. 4 : j # k /\ j # k + 1 => z[j] = a[j]
  BY <1>3
<1> QED
  BY <1>2, <1>4 DEF CarriedOf

LEMMA Spreads ==
    ASSUME NEW a \in [1 .. 4 -> Nat], NEW n \in 1 .. 4,
           NEW z, z = Spread(a, n - 1)
    PROVE  SpreadOf(a, n, z)
<1>0. PICK v \in Nat : v = a[n]
  OBVIOUS
<1>p. PICK m1 \in Nat \ {0}, m2 \in Nat \ {0}, m3 \in Nat \ {0} :
        m1 = ByteBase /\ m2 = Power(2) /\ m3 = Power(3)
  BY Powers
<1>02. /\ Rest(v, 0) = v /\ v \div m1 = Rest(v, 1) /\ v \div m2 = Rest(v, 2) /\ v \div m3 = Rest(v, 3)
       /\ v % m1 = Byte(v, 0) 
       /\ (v % m2) % m1 = Byte(v, 0) /\ (v % m2) \div m1 = Byte(v, 1)
       /\ (v % m3) % m2 = v % m2 /\ (v % m3) \div m2 = Byte(v, 2)
  <2>1. Rest(v, 2) = v \div Power(2) /\ Rest(v, 3) = v \div Power(3)
    BY Zenon DEF Rest
  <2> QED
    BY <1>p, <2>1, Bytes, Zenon
<1>1. CASE n = 4
  <2>1. z = a
    BY <1>1 DEF Spread
  <2> QED
    BY <1>0, <1>02, <1>1, <2>1 DEF SpreadOf
<1>2. CASE n = 3
  <2>1. z = Carried(a, 3, m1)
    BY <1>2, <1>p DEF Spread
  <2>2. /\ z \in [1 .. 4 -> Nat] /\ z[3] = v \div m1 /\ z[3 + 1] = v % m1
        /\ \A j \in 1 .. 4 : j # 3 /\ j # 3 + 1 => z[j] = a[j]
    <3>1. a \in [1 .. 4 -> Nat] /\ 3 \in 1 .. 3
      BY <1>2
    <3>2. CarriedOf(a, 3, m1, z)
      BY <3>1, <2>1, Carries, Zenon
    <3> QED
      BY <3>2, <1>0, <1>2, Zenon DEF CarriedOf
  <2>3. z[3] = Rest(v, 1) /\ z[4] = Byte(v, 0) /\ z[1] = a[1] /\ z[2] = a[2]
    BY <1>02, <2>2
  <2> QED
    BY <1>0, <1>2, <2>2, <2>3 DEF SpreadOf
<1>3. CASE n = 2
  <2>1. PICK b : b = Carried(a, 2, m2)
    OBVIOUS
  <2>2. /\ b \in [1 .. 4 -> Nat] /\ b[2] = v \div m2 /\ b[2 + 1] = v % m2
        /\ \A j \in 1 .. 4 : j # 2 /\ j # 2 + 1 => b[j] = a[j]
    <3>1. a \in [1 .. 4 -> Nat] /\ 2 \in 1 .. 3
      BY <1>3
    <3>2. CarriedOf(a, 2, m2, b)
      BY <3>1, <2>1, Carries, Zenon
    <3> QED
      BY <3>2, <1>0, <1>3, Zenon DEF CarriedOf
  <2>3. z = Carried(b, 3, m1)
    BY <1>3, <1>p, <2>1 DEF Spread
  <2>4. /\ z \in [1 .. 4 -> Nat] /\ z[3] = b[3] \div m1 /\ z[3 + 1] = b[3] % m1
        /\ \A j \in 1 .. 4 : j # 3 /\ j # 3 + 1 => z[j] = b[j]
    <3>1. b \in [1 .. 4 -> Nat] /\ 3 \in 1 .. 3
      BY <2>2
    <3>2. CarriedOf(b, 3, m1, z)
      BY <3>1, <2>3, Carries, Zenon
    <3> QED
      BY <3>2, Zenon DEF CarriedOf
  <2>5. b[3] = v % m2 /\ b[1] = a[1]
    BY <2>2
  <2>6. z[3] = Byte(v, 1) /\ z[4] = Byte(v, 0) /\ z[1] = a[1] /\ z[2] = Rest(v, 2)
    BY <1>02, <2>2, <2>4, <2>5
  <2> QED
    BY <1>0, <1>3, <2>4, <2>6 DEF SpreadOf
<1>4. CASE n = 1
  <2>1. PICK c : c = Carried(a, 1, m3)
    OBVIOUS
  <2>2. /\ c \in [1 .. 4 -> Nat] /\ c[1] = v \div m3 /\ c[1 + 1] = v % m3
    <3>1. a \in [1 .. 4 -> Nat] /\ 1 \in 1 .. 3
      BY <1>4
    <3>2. CarriedOf(a, 1, m3, c)
      BY <3>1, <2>1, Carries, Zenon
    <3> QED
      BY <3>2, <1>0, <1>4, Zenon DEF CarriedOf
  <2>3. PICK b : b = Carried(c, 2, m2)
    OBVIOUS
  <2>4. /\ b \in [1 .. 4 -> Nat] /\ b[2] = c[2] \div m2 /\ b[2 + 1] = c[2] % m2
        /\ \A j \in 1 .. 4 : j # 2 /\ j # 2 + 1 => b[j] = c[j]
    <3>1. c \in [1 .. 4 -> Nat] /\ 2 \in 1 .. 3
      BY <2>2
    <3>2. CarriedOf(c, 2, m2, b)
      BY <3>1, <2>3, Carries, Zenon
    <3> QED
      BY <3>2, Zenon DEF CarriedOf
  <2>5. z = Carried(b, 3, m1)
    BY <1>4, <1>p, <2>1, <2>3 DEF Spread
  <2>6. /\ z \in [1 .. 4 -> Nat] /\ z[3] = b[3] \div m1 /\ z[3 + 1] = b[3] % m1
        /\ \A j \in 1 .. 4 : j # 3 /\ j # 3 + 1 => z[j] = b[j]
    <3>1. b \in [1 .. 4 -> Nat] /\ 3 \in 1 .. 3
      BY <2>4
    <3>2. CarriedOf(b, 3, m1, z)
      BY <3>1, <2>5, Carries, Zenon
    <3> QED
      BY <3>2, Zenon DEF CarriedOf
  <2>7. c[2] = v % m3
    BY <2>2
  <2>8. b[3] = v % m2 /\ b[2] = Byte(v, 2) /\ b[1] = Rest(v, 3)
    BY <1>02, <2>2, <2>4, <2>7
  <2>9. z[3] = Byte(v, 1) /\ z[4] = Byte(v, 0) /\ z[1] = Rest(v, 3) /\ z[2] = Byte(v, 2)
    BY <1>02, <2>6, <2>8
  <2> QED
    BY <1>0, <1>4, <2>6, <2>9 DEF SpreadOf
<1> QED
  BY <1>1, <1>2, <1>3, <1>4

(* The numbers inet_aton has read, before it spreads the last of them.      *)
Numbers(parts) == [k \in 1 .. 4 |-> IF k <= Len(parts) THEN Strtoul(parts[k]) ELSE 0]

LEMMA AtonOf ==
    ASSUME NEW parts, NEW z, z = Spread(Numbers(parts), Len(parts) - 1)
    PROVE  inet_aton(parts) = IF \/ Len(parts) > 4
                                 \/ \E k \in 1 .. Len(parts) : parts[k] = -1
                                 \/ \E k \in 1 .. 4 : z[k] >= ByteBase
                              THEN NULL ELSE z
BY Zenon DEF inet_aton, Numbers

(* The numbers are within the bytes that are theirs.                        *)
PartsFit(parts, n) ==
    /\ n <= 4
    /\ \A k \in 1 .. n : parts[k] \in 0 .. ByteBase - 1 \/ k = n
    /\ parts[n] \in 0 .. Power(5 - n) - 1

PartByte(parts, n, k) == IF k < n THEN parts[k] ELSE Byte(parts[n], 4 - k)

LEMMA AtonParts ==
    ASSUME NEW n \in 1 .. 4, NEW parts \in [1 .. n -> Nat \cup {-1}], Len(parts) = n,
           \A k \in 1 .. n : parts[k] < Power(4)
    PROVE  inet_aton(parts) = IF PartsFit(parts, n) THEN [k \in 1 .. 4 |-> PartByte(parts, n, k)]
                              ELSE NULL
<1>p. ByteBase \in Nat \ {0} /\ \A k \in 1 .. 4 : Power(k) \in Nat
  <2>1. ASSUME NEW k \in 1 .. 4 PROVE Power(k) \in Nat
    <3>1. k = 1 \/ k = 2 \/ k = 3 \/ k = 4
      OBVIOUS
    <3> QED
      BY <3>1, Powers
  <2> QED
    BY <2>1, Powers
<1>0. PICK z : z = Spread(Numbers(parts), n - 1)
  OBVIOUS
<1>00. inet_aton(parts) = IF \/ n > 4
                             \/ \E k \in 1 .. n : parts[k] = -1
                             \/ \E k \in 1 .. 4 : z[k] >= ByteBase
                          THEN NULL ELSE z
  BY <1>0, AtonOf
<1>1. CASE \E k \in 1 .. n : parts[k] = -1
  <2>1. ~PartsFit(parts, n)
    BY <1>1, <1>p DEF PartsFit
  <2> QED
    BY <1>1, <1>00, <2>1
<1>2. CASE \A k \in 1 .. n : parts[k] # -1
  <2>1. PICK w : w = Numbers(parts)
    OBVIOUS
  <2>2. \A k \in 1 .. n : parts[k] \in Nat /\ Strtoul(parts[k]) = parts[k]
    BY <1>2 DEF Strtoul
  <2>3. w \in [1 .. 4 -> Nat] /\ \A k \in 1 .. n : w[k] = parts[k]
    BY <2>1, <2>2 DEF Numbers
  <2>4. SpreadOf(w, n, z)
    BY <1>0, <2>1, <2>3, Spreads
  <2>5. PICK v \in Nat : v = parts[n] /\ v = w[n]
    BY <2>2, <2>3
  <2>6. z \in [1 .. 4 -> Nat]
        /\ \A k \in 1 .. 4 : z[k] = IF k < n THEN parts[k]
                                    ELSE IF k = n THEN Rest(v, 4 - n) ELSE Byte(v, 4 - k)
    <3>1. z \in [1 .. 4 -> Nat]
          /\ \A k \in 1 .. 4 : z[k] = IF k < n THEN w[k]
                                      ELSE IF k = n THEN Rest(v, 4 - n) ELSE Byte(v, 4 - k)
      BY <2>4, <2>5, Zenon DEF SpreadOf
    <3> QED
      BY <3>1, <2>3
  <2>70. \A k \in 0 .. 3 : Byte(v, k) \in 0 .. ByteBase - 1
    BY Bytes, Zenon
  <2>7. \A k \in 1 .. 4 : Byte(v, 4 - k) \in 0 .. ByteBase - 1
    <3>1. ASSUME NEW k \in 1 .. 4 PROVE 4 - k \in 0 .. 3
      OBVIOUS
    <3> QED
      BY <3>1, <2>70
  <2>8. 4 - n \in 0 .. 3 /\ (4 - n) + 1 = 5 - n
    OBVIOUS
  <2>9. /\ Rest(v, 4 - n) \in Nat /\ (Rest(v, 4 - n) < ByteBase <=> v < Power(5 - n))
        /\ (Rest(v, 4 - n) < ByteBase => Byte(v, 4 - n) = Rest(v, 4 - n))
    BY <2>8, Bytes
  <2>10. PartsFit(parts, n) <=> /\ \A k \in 1 .. n - 1 : parts[k] < ByteBase
                                /\ v < Power(5 - n)
    <3>1. 5 - n \in 1 .. 4
      OBVIOUS
    <3>2. PICK m \in Nat : m = Power(5 - n)
      BY <3>1, <1>p
    <3>3. parts[n] \in 0 .. m - 1 <=> v < m
      BY <2>5, <3>2
    <3>4. (\A k \in 1 .. n : parts[k] \in 0 .. ByteBase - 1 \/ k = n)
          <=> (\A k \in 1 .. n - 1 : parts[k] < ByteBase)
      <4>1. ASSUME NEW k \in 1 .. n PROVE parts[k] \in 0 .. ByteBase - 1 <=> parts[k] < ByteBase
        BY <1>p, <2>2
      <4>2. \A k \in 1 .. n : k \in 1 .. n - 1 <=> k # n
        OBVIOUS
      <4>3. \A k \in 1 .. n - 1 : k \in 1 .. n
        OBVIOUS
      <4> QED
        BY <4>1, <4>2, <4>3, Zenon
    <3> QED
      BY <3>2, <3>3, <3>4 DEF PartsFit
  <2>11. (\A k \in 1 .. 4 : z[k] < ByteBase) <=> PartsFit(parts, n)
    <3>1. ASSUME PartsFit(parts, n), NEW k \in 1 .. 4 PROVE z[k] < ByteBase
      <4>1. CASE k < n
        BY <3>1, <4>1, <2>6, <2>10
      <4>2. CASE k = n
        BY <3>1, <4>2, <2>6, <2>9, <2>10
      <4>3. CASE k > n
        <5>1. z[k] = Byte(v, 4 - k)
          BY <4>3, <2>6
        <5> QED
          BY <5>1, <1>p, <2>7
      <4> QED
        BY <4>1, <4>2, <4>3
    <3>2. ASSUME \A k \in 1 .. 4 : z[k] < ByteBase PROVE PartsFit(parts, n)
      <4>1. \A k \in 1 .. n - 1 : parts[k] < ByteBase
        BY <3>2, <2>6
      <4>2. Rest(v, 4 - n) < ByteBase
        BY <3>2, <2>6
      <4> QED
        BY <4>1, <4>2, <2>9, <2>10
    <3> QED
      BY <3>1, <3>2
  <2>12. CASE PartsFit(parts, n)
    <3>1. inet_aton(parts) = z
      <4>1. ~\E k \in 1 .. 4 : z[k] >= ByteBase
        BY <1>p, <2>6, <2>11, <2>12
      <4>2. ~(n > 4) /\ ~\E k \in 1 .. n : parts[k] = -1
        BY <1>2
      <4> QED
        BY <1>00, <4>1, <4>2, Zenon
    <3>2. ASSUME NEW k \in 1 .. 4 PROVE z[k] = PartByte(parts, n, k)
      BY <2>5, <2>6, <2>9, <2>10, <2>12 DEF PartByte
    <3>3. z = [k \in 1 .. 4 |-> PartByte(parts, n, k)]
      BY <2>6, <3>2
    <3> QED
      BY <3>1, <3>3, <2>12
  <2>13. CASE ~PartsFit(parts, n)
    <3>1. \E k \in 1 .. 4 : z[k] >= ByteBase
      BY <1>p, <2>6, <2>11, <2>13
    <3> QED
      BY <3>1, <1>00, <2>13
  <2> QED
    BY <2>12, <2>13
<1> QED
  BY <1>1, <1>2

LEMMA AtonFive ==
    ASSUME NEW parts, Len(parts) = 5
    PROVE  inet_aton(parts) = NULL
BY DEF inet_aton

LEMMA PartSeqsAre ==
    ASSUME NEW parts \in PartSeqs
    PROVE  \/ \E n \in 1 .. 4 : parts \in [1 .. n -> Nat \cup {-1}] /\ Len(parts) = n
           \/ Len(parts) = 5
<1>1. CASE parts = [k \in 1 .. 5 |-> 1]
  BY <1>1
<1>2. CASE \E n \in 1 .. 4 : parts \in [1 .. n -> PartValues \cup {-1}]
  <2>1. PICK n \in 1 .. 4 : parts \in [1 .. n -> PartValues \cup {-1}]
    BY <1>2
  <2>2. parts \in [1 .. n -> Nat \cup {-1}]
    <3>0. PartValues \subseteq Nat
      BY AtonAssumption, Zenon
    <3>1. PartValues \cup {-1} \subseteq Nat \cup {-1}
      BY <3>0, Zenon
    <3> QED
      BY <2>1, <3>1
  <2>3. Len(parts) = n
    BY <2>1
  <2> QED
    BY <2>2, <2>3
<1>3. \/ parts = [k \in 1 .. 5 |-> 1]
      \/ \E n \in 1 .. 4 : parts \in [1 .. n -> PartValues \cup {-1}]
  <2>1. CASE parts \in UNION {[1 .. n -> PartValues \cup {-1}] : n \in 1 .. 4}
    <3>1. PICK F \in {[1 .. n -> PartValues \cup {-1}] : n \in 1 .. 4} : parts \in F
      BY <2>1, Zenon
    <3>2. PICK n \in 1 .. 4 : F = [1 .. n -> PartValues \cup {-1}]
      BY <3>1, Zenon
    <3> QED
      BY <3>1, <3>2, Zenon
  <2>2. CASE parts \in {[k \in 1 .. 5 |-> 1]}
    BY <2>2, Zenon
  <2>3. parts \in (UNION {[1 .. n -> PartValues \cup {-1}] : n \in 1 .. 4})
                  \cup {[k \in 1 .. 5 |-> 1]}
    BY Zenon DEF PartSeqs
  <2> QED
    BY <2>1, <2>2, <2>3, Zenon
<1> QED
  BY <1>1, <1>2, <1>3

(* What AtonExact says of an answer.                                        *)
AtonGood(parts, answer) ==
    (\A k \in 1 .. Len(parts) : parts[k] < Power(4)) =>
        answer = IF PartsFit(parts, Len(parts))
                 THEN [k \in 1 .. 4 |-> PartByte(parts, Len(parts), k)] ELSE NULL

LEMMA AtonIsGood ==
    ASSUME NEW parts \in PartSeqs
    PROVE  AtonGood(parts, inet_aton(parts))
<1>1. ASSUME NEW n \in 1 .. 4, parts \in [1 .. n -> Nat \cup {-1}], Len(parts) = n,
             \A k \in 1 .. Len(parts) : parts[k] < Power(4)
      PROVE  inet_aton(parts) = IF PartsFit(parts, Len(parts))
                                THEN [k \in 1 .. 4 |-> PartByte(parts, Len(parts), k)] ELSE NULL
  <2>1. \A k \in 1 .. n : parts[k] < Power(4)
    BY <1>1
  <2>2. inet_aton(parts) = IF PartsFit(parts, n) THEN [k \in 1 .. 4 |-> PartByte(parts, n, k)]
                           ELSE NULL
    BY <1>1, <2>1, AtonParts, Zenon
  <2> QED
    BY <1>1, <2>2, Zenon
<1>2. CASE Len(parts) = 5
  <2>1. ~PartsFit(parts, Len(parts))
    BY <1>2 DEF PartsFit
  <2>2. inet_aton(parts) = NULL
    BY <1>2, AtonFive
  <2> QED
    BY <2>1, <2>2 DEF AtonGood
<1>3. CASE \E n \in 1 .. 4 : parts \in [1 .. n -> Nat \cup {-1}] /\ Len(parts) = n
  BY <1>1, <1>3, Zenon DEF AtonGood
<1> QED
  BY <1>2, <1>3, PartSeqsAre

(* The state behind AtonExact: an answer of inet_aton is that of its        *)
(* argument.                                                                *)
AtonInv == InetAnswered("aton") => AtonGood(inet.of, inet.answer)

LEMMA AtonInvGood == AtonInv => AtonExact
<1> SUFFICES ASSUME AtonInv, InetAnswered("aton"),
                    \A k \in 1 .. Len(inet.of) : inet.of[k] < Power(4)
             PROVE  AtonExact
  BY DEF AtonExact
<1>1. PICK parts, n, answer : parts = inet.of /\ n = Len(parts) /\ answer = inet.answer
  OBVIOUS
<1>2. answer = IF PartsFit(parts, n) THEN [k \in 1 .. 4 |-> PartByte(parts, n, k)] ELSE NULL
  BY <1>1, Zenon DEF AtonInv, AtonGood
<1>3. \A k : PartByte(parts, n, k) = IF k < n THEN parts[k]
                                     ELSE (parts[n] \div Power(4 - k)) % ByteBase
  BY Zenon DEF PartByte, Byte, Rest
<1>4. CASE PartsFit(parts, n)
  <2>1. answer = [k \in 1 .. 4 |-> IF k < n THEN parts[k]
                                   ELSE (parts[n] \div Power(4 - k)) % ByteBase]
    BY <1>2, <1>3, <1>4, Zenon
  <2> QED
    BY <1>1, <1>4, <2>1, Zenon DEF AtonExact, PartsFit
<1>5. CASE ~PartsFit(parts, n)
  BY <1>1, <1>2, <1>5, Zenon DEF AtonExact, PartsFit
<1> QED
  BY <1>4, <1>5

-----------------------------------------------------------------------------
(* A loop whose body keeps a set.                                           *)

Loop(f, n, s0, G) == f = [i \in 0 .. n |-> IF i = 0 THEN s0 ELSE G[i][f[i - 1]]]

LEMMA LoopExists ==
    ASSUME NEW n \in Nat, NEW S, NEW s0 \in S, NEW G \in [1 .. n -> [S -> S]]
    PROVE  \E f : Loop(f, n, s0, G)
<1>1. PICK g \in [0 .. n -> S] : Iteration(g, n, s0, G)
  BY Iterates
<1>2. g[0] = s0 /\ \A i \in 1 .. n : g[i] = G[i][g[i - 1]]
  BY <1>1 DEF Iteration
<1>3. ASSUME NEW i \in 0 .. n, i # 0 PROVE g[i] = G[i][g[i - 1]]
  BY <1>2, <1>3
<1>4. g = [i \in 0 .. n |-> IF i = 0 THEN s0 ELSE G[i][g[i - 1]]]
  BY <1>1, <1>2, <1>3
<1> QED
  BY <1>4 DEF Loop

LEMMA LoopKeeps ==
    ASSUME NEW n \in Nat, NEW S, NEW s0 \in S, NEW G \in [1 .. n -> [S -> S]],
           NEW f, Loop(f, n, s0, G)
    PROVE  f \in [0 .. n -> S] /\ f[0] = s0 /\ \A i \in 1 .. n : f[i] = G[i][f[i - 1]]
<1>1. f = [i \in 0 .. n |-> IF i = 0 THEN s0 ELSE G[i][f[i - 1]]]
  BY DEF Loop
<1>2. f[0] = s0 /\ \A i \in 1 .. n : f[i] = G[i][f[i - 1]]
  BY <1>1
<1>3. PICK A : A = {i \in 0 .. n : f[i] \in S}
  OBVIOUS
<1>4. 0 \in A
  BY <1>2, <1>3
<1>5. ASSUME NEW i \in 0 .. n, i < n, i \in A PROVE i + 1 \in A
  <2>1. i + 1 \in 0 .. n /\ i + 1 \in 1 .. n /\ (i + 1) - 1 = i
    BY <1>5
  <2>2. f[i + 1] = G[i + 1][f[i]] /\ f[i] \in S /\ G[i + 1] \in [S -> S]
    BY <1>2, <1>3, <1>5, <2>1
  <2>3. f[i + 1] \in S
    BY <2>2
  <2> QED
    BY <1>3, <2>1, <2>3
<1>6. \A i \in 0 .. n : i \in A
  BY <1>4, <1>5, Turns
<1>7. f \in [0 .. n -> S]
  BY <1>1, <1>3, <1>6
<1> QED
  BY <1>2, <1>7

-----------------------------------------------------------------------------
(* The words of a text.                                                     *)

Words == Seq(Nat)

FlatTurns(f, s) ==
    /\ f \in [0 .. Len(s) -> Words] /\ f[0] = <<>>
    /\ \A i \in 1 .. Len(s) : f[i] = f[i - 1] \o s[i]

LEMMA Flats ==
    ASSUME NEW s \in Seq(Words)
    PROVE  \E f : FlatTurns(f, s) /\ Flat(s) = f[Len(s)]
<1>0. PICK n \in Nat : n = Len(s)
  BY SeqFacts
<1>1. \A i \in 1 .. n : s[i] \in Words
  BY <1>0, SeqFacts
<1>2. PICK G : G = [i \in 1 .. n |-> [w \in Words |-> w \o s[i]]]
  OBVIOUS
<1>3. ASSUME NEW i \in 1 .. n, NEW w \in Words PROVE w \o s[i] \in Words
  BY <1>1, ConcatFacts DEF Words
<1>4. G \in [1 .. n -> [Words -> Words]]
  BY <1>2, <1>3
<1>5. PICK none \in Words : none = <<>>
  BY EmptySeq DEF Words
<1>6. ASSUME NEW f, Loop(f, n, none, G) PROVE FlatTurns(f, s)
  <2>1. f \in [0 .. n -> Words] /\ f[0] = none /\ \A i \in 1 .. n : f[i] = G[i][f[i - 1]]
    BY <1>4, <1>6, LoopKeeps
  <2>2. ASSUME NEW i \in 1 .. n PROVE f[i] = f[i - 1] \o s[i]
    <3>1. f[i - 1] \in Words
      BY <2>1
    <3>2. G[i] = [w \in Words |-> w \o s[i]]
      BY <1>2
    <3> QED
      BY <2>1, <3>1, <3>2
  <2> QED
    BY <1>0, <1>5, <2>1, <2>2 DEF FlatTurns
<1>7. ASSUME NEW f
      PROVE  Loop(f, n, none, G) <=>
                f = [k \in 0 .. Len(s) |-> IF k = 0 THEN <<>> ELSE f[k - 1] \o s[k]]
  <2>1. ASSUME Loop(f, n, none, G)
        PROVE  f = [k \in 0 .. Len(s) |-> IF k = 0 THEN <<>> ELSE f[k - 1] \o s[k]]
    <3>1. FlatTurns(f, s)
      BY <1>6, <2>1
    <3>2. f \in [0 .. n -> Words] /\ f[0] = <<>>
      BY <1>0, <3>1 DEF FlatTurns
    <3>3. ASSUME NEW k \in 0 .. n, k # 0 PROVE f[k] = f[k - 1] \o s[k]
      BY <1>0, <3>1, <3>3 DEF FlatTurns
    <3> QED
      BY <1>0, <3>2, <3>3
  <2>2. ASSUME f = [k \in 0 .. Len(s) |-> IF k = 0 THEN <<>> ELSE f[k - 1] \o s[k]]
        PROVE  Loop(f, n, none, G)
    <3>0. PICK h : h = f
      OBVIOUS
    <3>1. f = [k \in 0 .. n |-> IF k = 0 THEN <<>> ELSE f[k - 1] \o s[k]]
      BY <1>0, <2>2
    <3>2. f[0] = none /\ \A k \in 1 .. n : f[k] = f[k - 1] \o s[k]
      BY <1>5, <3>1
    <3>3. PICK A : A = {i \in 0 .. n : f[i] \in Words}
      OBVIOUS
    <3>4. 0 \in A
      BY <3>2, <3>3
    <3>5. ASSUME NEW i \in 0 .. n, i < n, i \in A PROVE i + 1 \in A
      <4>1. i + 1 \in 0 .. n /\ i + 1 \in 1 .. n /\ (i + 1) - 1 = i
        BY <3>5
      <4>2. f[i + 1] = f[i] \o s[i + 1] /\ f[i] \in Words
        BY <3>2, <3>3, <3>5, <4>1
      <4>3. f[i + 1] \in Words
        BY <1>3, <4>1, <4>2
      <4> QED
        BY <3>3, <4>1, <4>3
    <3>6. \A i \in 0 .. n : i \in A
      BY <3>4, <3>5, Turns
    <3>7. ASSUME NEW k \in 0 .. n, k # 0 PROVE f[k] = G[k][f[k - 1]]
      <4>1. k \in 1 .. n /\ k - 1 \in 0 .. n
        BY <3>7
      <4>2. f[k - 1] \in Words
        BY <3>3, <3>6, <4>1
      <4>3. G[k] = [w \in Words |-> w \o s[k]]
        BY <1>2, <4>1
      <4> QED
        BY <3>2, <4>1, <4>2, <4>3
    <3>8. f = [k \in 0 .. n |-> IF k = 0 THEN none ELSE G[k][f[k - 1]]]
      BY <3>1, <3>2, <3>7
    <3> QED
      BY <3>8 DEF Loop
  <2> QED
    BY <2>1, <2>2
<1>8. PICK g : Loop(g, n, none, G)
  BY <1>4, LoopExists
<1>9. g = [k \in 0 .. Len(s) |-> IF k = 0 THEN <<>> ELSE g[k - 1] \o s[k]]
  BY <1>7, <1>8, Zenon
<1>10. PICK f : /\ f = [k \in 0 .. Len(s) |-> IF k = 0 THEN <<>> ELSE f[k - 1] \o s[k]]
                /\ Flat(s) = f[Len(s)]
  BY <1>9, Zenon DEF Flat
<1>11. FlatTurns(f, s)
  BY <1>6, <1>7, <1>10, Zenon
<1> QED
  BY <1>10, <1>11

LEMMA FlatWords ==
    ASSUME NEW s \in Seq(Words)
    PROVE  Flat(s) \in Words /\ Len(Flat(s)) \in Nat
<1>1. PICK f : FlatTurns(f, s) /\ Flat(s) = f[Len(s)]
  BY Flats
<1>2. Len(s) \in 0 .. Len(s)
  BY SeqFacts
<1>3. Flat(s) \in Words
  BY <1>1, <1>2 DEF FlatTurns
<1> QED
  BY <1>3, SeqFacts DEF Words

LEMMA FlatEmpty == Flat(<<>>) = <<>>
<1>1. PICK s \in Seq(Words) : s = <<>> /\ Len(s) = 0
  BY EmptySeq
<1>2. PICK f : FlatTurns(f, s) /\ Flat(s) = f[Len(s)]
  BY Flats
<1> QED
  BY <1>1, <1>2 DEF FlatTurns

LEMMA FlatAppend ==
    ASSUME NEW s \in Seq(Words), NEW g \in Words
    PROVE  Flat(Append(s, g)) = Flat(s) \o g
<1>0. PICK n \in Nat : n = Len(s)
  BY SeqFacts
<1>1. PICK t \in Seq(Words) : /\ t = Append(s, g) /\ Len(t) = n + 1 /\ t[n + 1] = g
                              /\ \A i \in 1 .. n : t[i] = s[i]
  <2>1. PICK t : t = Append(s, g)
    OBVIOUS
  <2>2. /\ t \in Seq(Words) /\ Len(t) = Len(s) + 1 /\ t[Len(s) + 1] = g
        /\ \A i \in 1 .. Len(s) : t[i] = s[i]
    BY <2>1, AppendFacts, Zenon
  <2> QED
    BY <1>0, <2>1, <2>2, Zenon
<1>2. PICK f : FlatTurns(f, s) /\ Flat(s) = f[n]
  BY <1>0, Flats
<1>3. PICK h : FlatTurns(h, t) /\ Flat(t) = h[n + 1]
  BY <1>1, Flats
<1>4. f[0] = <<>> /\ \A i \in 1 .. n : f[i] = f[i - 1] \o s[i]
  BY <1>0, <1>2 DEF FlatTurns
<1>5. h[0] = <<>> /\ \A i \in 1 .. n + 1 : h[i] = h[i - 1] \o t[i]
  BY <1>1, <1>3 DEF FlatTurns
<1>6. PICK A : A = {i \in 0 .. n : f[i] = h[i]}
  OBVIOUS
<1>7. 0 \in A
  BY <1>4, <1>5, <1>6
<1>8. ASSUME NEW i \in 0 .. n, i < n, i \in A PROVE i + 1 \in A
  <2>1. i + 1 \in 0 .. n /\ i + 1 \in 1 .. n /\ i + 1 \in 1 .. n + 1 /\ (i + 1) - 1 = i
    BY <1>8
  <2>2. f[i + 1] = f[i] \o s[i + 1]
    BY <1>4, <2>1
  <2>3. h[i + 1] = h[i] \o t[i + 1]
    BY <1>5, <2>1
  <2>4. t[i + 1] = s[i + 1]
    BY <1>1, <2>1
  <2>5. f[i] = h[i]
    BY <1>6, <1>8
  <2>6. f[i + 1] = h[i + 1]
    BY <2>2, <2>3, <2>4, <2>5, Zenon
  <2> QED
    BY <1>6, <2>1, <2>6
<1>9. \A i \in 0 .. n : i \in A
  BY <1>7, <1>8, Turns
<1>10. f[n] = h[n]
  BY <1>6, <1>9
<1>11. h[n + 1] = h[n] \o t[n + 1]
  <2>1. n + 1 \in 1 .. n + 1 /\ (n + 1) - 1 = n
    OBVIOUS
  <2> QED
    BY <1>5, <2>1
<1> QED
  BY <1>1, <1>2, <1>3, <1>10, <1>11, Zenon

(* The first k groups.                                                      *)
FirstOf(s, k) == SubSeq(s, 1, k)

LEMMA FirstFacts ==
    ASSUME NEW S, NEW s \in Seq(S)
    PROVE  /\ FirstOf(s, 0) = <<>> /\ FirstOf(s, Len(s)) = s
           /\ \A k \in 0 .. Len(s) : /\ FirstOf(s, k) \in Seq(S) /\ Len(FirstOf(s, k)) = k
                                     /\ \A i \in 1 .. k : FirstOf(s, k)[i] = s[i]
           /\ \A k \in 0 .. Len(s) :
                 k < Len(s) => FirstOf(s, k + 1) = Append(FirstOf(s, k), s[k + 1])
<1>0. PICK n \in Nat : n = Len(s) /\ \A i \in 1 .. n : s[i] \in S
  BY SeqFacts
<1>1. FirstOf(s, 0) = <<>>
  BY SubSeqEmpty DEF FirstOf
<1>2. FirstOf(s, Len(s)) = s
  BY SubSeqFull DEF FirstOf
<1>3. ASSUME NEW k \in 0 .. n
      PROVE  FirstOf(s, k) \in Seq(S) /\ Len(FirstOf(s, k)) = k /\ \A i \in 1 .. k : FirstOf(s, k)[i] = s[i]
  <2>1. k \in Int /\ \A i \in 1 .. k : s[i] \in S
    BY <1>0
  <2>2. /\ FirstOf(s, k) \in Seq(S) /\ Len(FirstOf(s, k)) = IF 1 <= k THEN k - 1 + 1 ELSE 0
        /\ \A i \in 1 .. k - 1 + 1 : FirstOf(s, k)[i] = s[1 + i - 1]
    BY <2>1, SubSeqProperties DEF FirstOf
  <2>3. ASSUME NEW i \in 1 .. k PROVE FirstOf(s, k)[i] = s[i]
    <3>1. i \in 1 .. k - 1 + 1 /\ 1 + i - 1 = i
      OBVIOUS
    <3> QED
      BY <2>2, <3>1
  <2>4. Len(FirstOf(s, k)) = k
    BY <2>2
  <2> QED
    BY <2>2, <2>3, <2>4
<1>4. ASSUME NEW k \in 0 .. n, k < n PROVE FirstOf(s, k + 1) = Append(FirstOf(s, k), s[k + 1])
  <2>1. k + 1 \in 0 .. n /\ k + 1 \in 1 .. n
    BY <1>4
  <2>2. PICK u \in Seq(S) : u = FirstOf(s, k + 1) /\ Len(u) = k + 1 /\ \A i \in 1 .. k + 1 : u[i] = s[i]
    BY <1>3, <2>1
  <2>3. PICK v \in Seq(S) : v = FirstOf(s, k) /\ Len(v) = k /\ \A i \in 1 .. k : v[i] = s[i]
    BY <1>3
  <2>4. s[k + 1] \in S
    BY <1>0, <2>1
  <2>5. PICK w \in Seq(S) : /\ w = Append(v, s[k + 1]) /\ Len(w) = k + 1 /\ w[k + 1] = s[k + 1]
                            /\ \A i \in 1 .. k : w[i] = v[i]
    <3>1. PICK x \in S : x = s[k + 1]
      BY <2>4
    <3>2. /\ Append(v, x) \in Seq(S) /\ Len(Append(v, x)) = Len(v) + 1
          /\ Append(v, x)[Len(v) + 1] = x /\ \A i \in 1 .. Len(v) : Append(v, x)[i] = v[i]
      OBVIOUS
    <3>3. Len(v) = k
      BY <2>3
    <3> QED
      BY <3>1, <3>2, <3>3, Zenon
  <2>6. ASSUME NEW i \in 1 .. k + 1 PROVE u[i] = w[i]
    <3>1. i \in 1 .. k \/ i = k + 1
      OBVIOUS
    <3> QED
      BY <2>2, <2>3, <2>5, <3>1
  <2>7. u = w
    BY <2>2, <2>5, <2>6, SeqEqual
  <2> QED
    BY <2>2, <2>3, <2>5, <2>7, Zenon
<1> QED
  BY <1>0, <1>1, <1>2, <1>3, <1>4

LEMMA FlatFirst ==
    ASSUME NEW s \in Seq(Words), NEW k \in 0 .. Len(s), k < Len(s)
    PROVE  Flat(FirstOf(s, k + 1)) = Flat(FirstOf(s, k)) \o s[k + 1]
<1>1. PICK v \in Seq(Words) : v = FirstOf(s, k)
  BY FirstFacts
<1>2. s[k + 1] \in Words
  BY SeqFacts
<1>3. FirstOf(s, k + 1) = Append(v, s[k + 1])
  BY <1>1, FirstFacts
<1> QED
  BY <1>1, <1>2, <1>3, FlatAppend

LEMMA OneWord ==
    ASSUME NEW S, NEW x \in S
    PROVE  <<x>> \in Seq(S) /\ Len(<<x>>) = 1 /\ <<x>>[1] = x
OBVIOUS

Associates(s, t, u) == (s \o t) \o u = s \o (t \o u)

LEMMA Assoc ==
    ASSUME NEW S, NEW s \in Seq(S), NEW t \in Seq(S), NEW u \in Seq(S)
    PROVE  Associates(s, t, u)
BY ConcatAssociative DEF Associates

LEMMA FlatConcat ==
    ASSUME NEW s \in Seq(Words), NEW t \in Seq(Words)
    PROVE  Flat(s \o t) = Flat(s) \o Flat(t)
<1>0. PICK m \in Nat : m = Len(t) /\ \A i \in 1 .. m : t[i] \in Words
  BY SeqFacts
<1>1. PICK A : A = {i \in 0 .. m : Flat(s \o FirstOf(t, i)) = Flat(s) \o Flat(FirstOf(t, i))}
  OBVIOUS
<1>2. PICK fs \in Words : fs = Flat(s)
  BY FlatWords
<1>3. 0 \in A
  <2>1. FirstOf(t, 0) = <<>>
    BY FirstFacts
  <2>2. s \o FirstOf(t, 0) = s
    BY <2>1, ConcatEmptySeq
  <2>3. fs \o <<>> = fs
    BY ConcatEmptySeq DEF Words
  <2>4. Flat(s \o FirstOf(t, 0)) = Flat(s) \o Flat(FirstOf(t, 0))
    BY <1>2, <2>1, <2>2, <2>3, FlatEmpty
  <2> QED
    BY <1>1, <2>4
<1>4. ASSUME NEW i \in 0 .. m, i < m, i \in A PROVE i + 1 \in A
  <2>1. i + 1 \in 0 .. m /\ i + 1 \in 1 .. m
    BY <1>4
  <2>2. PICK p \in Seq(Words), g \in Words : p = FirstOf(t, i) /\ g = t[i + 1]
    BY <1>0, <2>1, FirstFacts
  <2>3. PICK q \in Seq(Words) : q = FirstOf(t, i + 1) /\ q = Append(p, g)
    BY <1>0, <1>4, <2>1, <2>2, FirstFacts
  <2>4. PICK u \in Seq(Words) : u = s \o p
    BY ConcatFacts
  <2>5. s \o q = Append(u, g)
    <3>1. PICK one \in Seq(Words) : one = <<g>>
      BY OneWord
    <3>2. q = p \o one /\ Append(u, g) = u \o one
      BY <2>3, <3>1, AppendIsConcat, Zenon
    <3>3. (s \o p) \o one = s \o (p \o one)
      <4>1. Associates(s, p, one)
        BY Assoc
      <4> QED
        BY <4>1, Zenon DEF Associates
    <3> QED
      BY <2>4, <3>2, <3>3, Zenon
  <2>6. Flat(s \o q) = Flat(u) \o g
    BY <2>5, FlatAppend
  <2>7. PICK fp \in Words : fp = Flat(p) /\ Flat(q) = fp \o g
    BY <2>3, FlatWords, FlatAppend
  <2>8. Flat(u) = fs \o fp
    BY <1>1, <1>2, <1>4, <2>2, <2>4, <2>7
  <2>9. (fs \o fp) \o g = fs \o (fp \o g)
    <3>1. fs \in Seq(Nat) /\ fp \in Seq(Nat) /\ g \in Seq(Nat)
      BY DEF Words
    <3>2. Associates(fs, fp, g)
      BY <3>1, Assoc, Zenon
    <3> QED
      BY <3>2, Zenon DEF Associates
  <2>10. Flat(s \o q) = Flat(s) \o Flat(q)
    BY <1>2, <2>6, <2>7, <2>8, <2>9, Zenon
  <2> QED
    BY <1>1, <2>1, <2>3, <2>10
<1>5. \A i \in 0 .. m : i \in A
  BY <1>3, <1>4, Turns
<1>6. Flat(s \o FirstOf(t, m)) = Flat(s) \o Flat(FirstOf(t, m))
  BY <1>1, <1>5
<1>7. FirstOf(t, m) = t
  BY <1>0, FirstFacts
<1> QED
  BY <1>6, <1>7, Zenon

-----------------------------------------------------------------------------
(* Reading a group.                                                         *)

Word == 0 .. MaxWord

(* What a group of a text can be: nothing, a number, a dotted address.      *)
Group == {g \in Words : Len(g) <= 1 \/ (Len(g) = 2 /\ g[1] \in Word /\ g[2] \in Word)}

(* A group that may stand where it is.                                      *)
Fit(g, last) == \/ g = <<>>
                \/ Len(g) = 1 /\ g[1] \in Word
                \/ Len(g) = 2 /\ last

Reading == [words : Seq(Word), colonp : Int, ok : BOOLEAN]

LEMMA MaxWordNat == MaxWord \in Nat
BY DEF MaxWord

LEMMA GroupFacts ==
    ASSUME NEW g \in Group
    PROVE  /\ g \in Words /\ Len(g) \in Nat /\ (g = <<>> <=> Len(g) = 0)
           /\ Len(g) = 0 \/ Len(g) = 1 \/ Len(g) = 2
           /\ Len(g) = 1 => g[1] \in Nat
           /\ Len(g) = 2 => g[1] \in Word /\ g[2] \in Word
<1>1. g \in Seq(Nat) /\ (Len(g) <= 1 \/ (Len(g) = 2 /\ g[1] \in Word /\ g[2] \in Word))
  BY DEF Group, Words
<1>2. Len(g) \in Nat /\ \A i \in 1 .. Len(g) : g[i] \in Nat
  BY <1>1, SeqFacts
<1>3. g = <<>> <=> Len(g) = 0
  BY <1>1
<1>4. Len(g) = 0 \/ Len(g) = 1 \/ Len(g) = 2
  <2>1. Len(g) <= 1 \/ Len(g) = 2
    BY <1>1, Zenon
  <2>2. PICK n \in Nat : n = Len(g)
    BY <1>2
  <2> QED
    BY <2>1, <2>2
<1> QED
  BY <1>1, <1>2, <1>3, <1>4 DEF Words

LEMMA FitWords ==
    ASSUME NEW g \in Group, NEW last \in BOOLEAN, Fit(g, last)
    PROVE  g \in Seq(Word)
<1>1. PICK n \in Nat : n = Len(g) /\ g \in [1 .. n -> Nat]
  <2>1. g \in Seq(Nat)
    BY GroupFacts DEF Words
  <2> QED
    BY <2>1, SeqFacts
<1>2. ASSUME NEW i \in 1 .. n PROVE g[i] \in Word
  <2>1. n # 0 /\ (n = 1 \/ n = 2)
    <3>1. n = 0 \/ n = 1 \/ n = 2
      BY <1>1, GroupFacts, Zenon
    <3> QED
      BY <3>1
  <2>2. CASE n = 1
    <3>1. i = 1
      BY <2>2
    <3>2. g[1] \in Word
      BY <1>1, <2>1, <2>2, GroupFacts DEF Fit
    <3> QED
      BY <3>1, <3>2
  <2>3. CASE n = 2
    <3>1. i = 1 \/ i = 2
      BY <2>3
    <3>2. g[1] \in Word /\ g[2] \in Word
      BY <1>1, <2>3, GroupFacts
    <3> QED
      BY <3>1, <3>2
  <2> QED
    BY <2>1, <2>2, <2>3
<1>3. g \in [1 .. n -> Word]
  BY <1>1, <1>2
<1> QED
  BY <1>3

ReadStep(s, g, last, r) ==
    /\ g = <<>> /\ last => r = s
    /\ g = <<>> /\ ~last /\ s.colonp # -1 => ~r.ok
    /\ g = <<>> /\ ~last /\ s.colonp = -1 =>
          r.ok /\ r.words = s.words /\ r.colonp = Len(s.words)
    /\ g # <<>> /\ ~Fit(g, last) => ~r.ok
    /\ g # <<>> /\ Fit(g, last) /\ Len(s.words) + Len(g) > WORDS => ~r.ok
    /\ g # <<>> /\ Fit(g, last) /\ ~(Len(s.words) + Len(g) > WORDS) =>
          r.ok /\ r.words = s.words \o g /\ r.colonp = s.colonp

LEMMA ReadingFacts ==
    ASSUME NEW s \in Reading
    PROVE  /\ s.words \in Seq(Word) /\ Len(s.words) \in Nat /\ s.colonp \in Int /\ s.ok \in BOOLEAN
           /\ Refused(s) \in Reading /\ ~Refused(s).ok
<1>1. s.words \in Seq(Word) /\ s.colonp \in Int /\ s.ok \in BOOLEAN
  BY DEF Reading
<1>2. Len(s.words) \in Nat
  BY <1>1, SeqFacts
<1>3. Refused(s) = [s EXCEPT !.ok = FALSE]
  BY DEF Refused
<1>4. Refused(s) \in Reading /\ Refused(s).ok = FALSE
  BY <1>3 DEF Reading
<1> QED
  BY <1>1, <1>2, <1>4

LEMMA StoredFacts ==
    ASSUME NEW s \in Reading, s.ok, NEW g \in Seq(Word), NEW r, r = Stored(s, g)
    PROVE  /\ r \in Reading
           /\ Len(s.words) + Len(g) > WORDS => ~r.ok
           /\ ~(Len(s.words) + Len(g) > WORDS) =>
                 r.ok /\ r.words = s.words \o g /\ r.colonp = s.colonp
<1>1. CASE Len(s.words) + Len(g) > WORDS
  <2>1. r = Refused(s)
    BY <1>1, Zenon DEF Stored
  <2> QED
    BY <1>1, <2>1, ReadingFacts
<1>2. CASE ~(Len(s.words) + Len(g) > WORDS)
  <2>1. PICK w : w = s.words \o g
    OBVIOUS
  <2>2. w \in Seq(Word)
    BY <2>1, ReadingFacts, ConcatFacts
  <2>3. r = [s EXCEPT !.words = w]
    BY <1>2, <2>1, Zenon DEF Stored
  <2>4. r \in Reading /\ r.ok = s.ok /\ r.words = w /\ r.colonp = s.colonp
    BY <2>2, <2>3 DEF Reading
  <2> QED
    BY <1>2, <2>1, <2>4
<1> QED
  BY <1>1, <1>2

LEMMA SeenGapFacts ==
    ASSUME NEW s \in Reading, s.ok, NEW r, r = SeenGap(s)
    PROVE  /\ r \in Reading
           /\ s.colonp # -1 => ~r.ok
           /\ s.colonp = -1 => r.ok /\ r.words = s.words /\ r.colonp = Len(s.words)
<1>1. CASE s.colonp # -1
  <2>1. r = Refused(s)
    BY <1>1, Zenon DEF SeenGap
  <2> QED
    BY <1>1, <2>1, ReadingFacts
<1>2. CASE s.colonp = -1
  <2>1. PICK c \in Int : c = Len(s.words)
    BY ReadingFacts
  <2>2. r = [s EXCEPT !.colonp = c]
    BY <1>2, <2>1, Zenon DEF SeenGap
  <2>3. r \in Reading /\ r.ok = s.ok /\ r.words = s.words /\ r.colonp = c
    BY <2>2 DEF Reading
  <2> QED
    BY <1>2, <2>1, <2>3
<1> QED
  BY <1>1, <1>2

LEMMA ReadIs ==
    ASSUME NEW s \in Reading, s.ok, NEW g \in Group, NEW last \in BOOLEAN,
           NEW r, r = Read(s, g, last)
    PROVE  r \in Reading /\ ReadStep(s, g, last, r)
<1>0. /\ Refused(s) \in Reading /\ ~Refused(s).ok
  BY ReadingFacts
<1>1. CASE g = <<>>
  <2>1. ~(Len(g) = 1) /\ ~(Len(g) = 2)
    BY <1>1, GroupFacts
  <2>2. r = IF last THEN s ELSE SeenGap(s)
    BY <1>1, <2>1, Zenon DEF Read
  <2>3. CASE last
    BY <1>1, <2>2, <2>3, Zenon DEF ReadStep
  <2>4. CASE ~last
    <3>1. r = SeenGap(s)
      BY <2>2, <2>4
    <3>2. /\ r \in Reading
          /\ s.colonp # -1 => ~r.ok
          /\ s.colonp = -1 => r.ok /\ r.words = s.words /\ r.colonp = Len(s.words)
      BY <3>1, SeenGapFacts
    <3> QED
      BY <1>1, <2>4, <3>2, Zenon DEF ReadStep
  <2> QED
    BY <2>3, <2>4
<1>2. CASE Len(g) = 1
  <2>1. g # <<>> /\ ~(Len(g) = 2)
    BY <1>2, GroupFacts
  <2>2. r = IF g[1] > MaxWord THEN Refused(s) ELSE Stored(s, g)
    BY <1>2, <2>1, Zenon DEF Read
  <2>3. Fit(g, last) <=> g[1] \in Word
    BY <1>2, <2>1, Zenon DEF Fit
  <2>4. g[1] \in Word <=> ~(g[1] > MaxWord)
    <3>1. g[1] \in Nat
      BY <1>2, GroupFacts
    <3> QED
      BY <3>1, MaxWordNat DEF Word
  <2>5. CASE g[1] > MaxWord
    <3>1. r = Refused(s)
      BY <2>2, <2>5, Zenon
    <3>2. r \in Reading /\ ~r.ok /\ ~Fit(g, last)
      BY <1>0, <2>3, <2>4, <2>5, <3>1, Zenon
    <3> QED
      BY <2>1, <3>2, Zenon DEF ReadStep
  <2>6. CASE ~(g[1] > MaxWord)
    <3>1. r = Stored(s, g) /\ Fit(g, last)
      BY <2>2, <2>3, <2>4, <2>6, Zenon
    <3>2. g \in Seq(Word)
      BY <3>1, FitWords
    <3>3. /\ r \in Reading
          /\ Len(s.words) + Len(g) > WORDS => ~r.ok
          /\ ~(Len(s.words) + Len(g) > WORDS) =>
                 r.ok /\ r.words = s.words \o g /\ r.colonp = s.colonp
      BY <3>1, <3>2, StoredFacts, Zenon
    <3> QED
      BY <2>1, <3>1, <3>3, Zenon DEF ReadStep
  <2> QED
    BY <2>5, <2>6
<1>3. CASE Len(g) = 2
  <2>1. g # <<>> /\ ~(Len(g) = 1)
    BY <1>3, GroupFacts
  <2>2. r = IF last THEN Stored(s, g) ELSE Refused(s)
    BY <1>3, <2>1, Zenon DEF Read
  <2>3. Fit(g, last) <=> last
    BY <1>3, <2>1, Zenon DEF Fit
  <2>4. CASE ~last
    <3>1. r = Refused(s)
      BY <2>2, <2>4, Zenon
    <3>2. r \in Reading /\ ~r.ok /\ ~Fit(g, last)
      BY <1>0, <2>3, <2>4, <3>1, Zenon
    <3> QED
      BY <2>1, <3>2, Zenon DEF ReadStep
  <2>5. CASE last
    <3>1. r = Stored(s, g) /\ Fit(g, last)
      BY <2>2, <2>3, <2>5, Zenon
    <3>2. g \in Seq(Word)
      BY <3>1, FitWords
    <3>3. /\ r \in Reading
          /\ Len(s.words) + Len(g) > WORDS => ~r.ok
          /\ ~(Len(s.words) + Len(g) > WORDS) =>
                 r.ok /\ r.words = s.words \o g /\ r.colonp = s.colonp
      BY <3>1, <3>2, StoredFacts, Zenon
    <3> QED
      BY <2>1, <3>1, <3>3, Zenon DEF ReadStep
  <2> QED
    BY <2>4, <2>5
<1> QED
  BY <1>1, <1>2, <1>3, GroupFacts

-----------------------------------------------------------------------------
(* Reading a text.                                                          *)

Colon(text) == Len(text) > 1 /\ text[1] = <<>>
Lone(text) == Colon(text) /\ ~(Len(text) > 2 /\ text[2] = <<>>)
FirstRead(text) == IF Colon(text) THEN 2 ELSE 1
StartRead == [words |-> <<>>, colonp |-> -1, ok |-> TRUE]

ReadTurn(text, k, s) ==
    IF k < FirstRead(text) \/ ~s.ok THEN s ELSE Read(s, text[k], k = Len(text))

Reads(f, text) ==
    /\ f \in [0 .. Len(text) -> Reading] /\ f[0] = StartRead
    /\ \A k \in 1 .. Len(text) : f[k] = ReadTurn(text, k, f[k - 1])

PtonOf(text, end) ==
    IF Lone(text) \/ ~end.ok THEN NULL
    ELSE IF end.colonp # -1 THEN Shifted(end.words, end.colonp)
    ELSE IF Len(end.words) = WORDS THEN end.words ELSE NULL

(* The loop as it is written.                                               *)
ReadLoop(f, text) ==
    f = [k \in 0 .. Len(text) |->
            IF k < FirstRead(text) THEN StartRead
            ELSE LET s == f[k - 1] IN IF s.ok THEN Read(s, text[k], k = Len(text)) ELSE s]

LEMMA FirstReadIs ==
    ASSUME NEW text
    PROVE  FirstRead(text) \in {1, 2}
BY DEF FirstRead

LEMMA StartReadType == StartRead \in Reading
<1>1. <<>> \in Seq(Word)
  BY EmptySeq
<1> QED
  BY <1>1 DEF StartRead, Reading

LEMMA ReadTurnType ==
    ASSUME NEW text \in Seq(Group), NEW k \in 1 .. Len(text), NEW s \in Reading
    PROVE  ReadTurn(text, k, s) \in Reading
<1>1. text[k] \in Group /\ (k = Len(text)) \in BOOLEAN
  BY SeqFacts
<1>2. CASE k < FirstRead(text) \/ ~s.ok
  BY <1>2, Zenon DEF ReadTurn
<1>3. CASE ~(k < FirstRead(text) \/ ~s.ok)
  <2>1. s.ok
    BY <1>3
  <2>2. Read(s, text[k], k = Len(text)) \in Reading
    BY <1>1, <2>1, ReadIs, Zenon
  <2> QED
    BY <1>3, <2>2, Zenon DEF ReadTurn
<1> QED
  BY <1>2, <1>3

LEMMA LoopReads ==
    ASSUME NEW text \in Seq(Group), NEW f, ReadLoop(f, text)
    PROVE  Reads(f, text)
<1>0. PICK n \in Nat, first \in {1, 2} : n = Len(text) /\ first = FirstRead(text)
  BY SeqFacts, FirstReadIs
<1>1. f = [k \in 0 .. n |->
              IF k < first THEN StartRead
              ELSE IF f[k - 1].ok THEN Read(f[k - 1], text[k], k = n) ELSE f[k - 1]]
  BY <1>0, Zenon DEF ReadLoop
<1>2. f[0] = StartRead
  BY <1>1
<1>3. ASSUME NEW k \in 1 .. n PROVE f[k] = ReadTurn(text, k, f[k - 1])
  <2>1. k \in 0 .. n
    OBVIOUS
  <2>2. f[k] = IF k < first THEN StartRead
               ELSE IF f[k - 1].ok THEN Read(f[k - 1], text[k], k = n) ELSE f[k - 1]
    BY <1>1, <2>1, Zenon
  <2>3. CASE k < first
    <3>1. k - 1 = 0
      BY <2>3
    <3>2. f[k] = StartRead /\ f[k - 1] = StartRead
      BY <1>2, <2>2, <2>3, <3>1, Zenon
    <3> QED
      BY <1>0, <2>3, <3>2, Zenon DEF ReadTurn
  <2>4. CASE ~(k < first)
    BY <1>0, <2>2, <2>4, Zenon DEF ReadTurn
  <2> QED
    BY <2>3, <2>4
<1>4. PICK A : A = {i \in 0 .. n : f[i] \in Reading}
  OBVIOUS
<1>5. 0 \in A
  BY <1>2, <1>4, StartReadType
<1>6. ASSUME NEW i \in 0 .. n, i < n, i \in A PROVE i + 1 \in A
  <2>1. i + 1 \in 0 .. n /\ i + 1 \in 1 .. n /\ (i + 1) - 1 = i
    BY <1>6
  <2>2. f[i + 1] = ReadTurn(text, i + 1, f[i])
    BY <1>3, <2>1
  <2>3. f[i] \in Reading
    BY <1>4, <1>6
  <2>4. f[i + 1] \in Reading
    BY <1>0, <2>1, <2>2, <2>3, ReadTurnType
  <2> QED
    BY <1>4, <2>1, <2>4
<1>7. \A i \in 0 .. n : i \in A
  BY <1>5, <1>6, Turns
<1>8. f \in [0 .. n -> Reading]
  BY <1>1, <1>4, <1>7
<1> QED
  BY <1>0, <1>2, <1>3, <1>8 DEF Reads

LEMMA ReadLoopExists ==
    ASSUME NEW text \in Seq(Group)
    PROVE  \E f : ReadLoop(f, text)
<1>0. PICK n \in Nat, first \in {1, 2} : n = Len(text) /\ first = FirstRead(text)
  BY SeqFacts, FirstReadIs
<1>1. PICK G : G = [k \in 1 .. n |-> [s \in Reading |-> ReadTurn(text, k, s)]]
  OBVIOUS
<1>2. ASSUME NEW k \in 1 .. n, NEW s \in Reading PROVE ReadTurn(text, k, s) \in Reading
  BY <1>0, ReadTurnType
<1>3. G \in [1 .. n -> [Reading -> Reading]]
  BY <1>1, <1>2
<1>4. PICK g \in [0 .. n -> Reading] : Iteration(g, n, StartRead, G)
  BY <1>3, StartReadType, Iterates
<1>5. g[0] = StartRead
  BY <1>4 DEF Iteration
<1>6. ASSUME NEW k \in 1 .. n PROVE g[k] = ReadTurn(text, k, g[k - 1])
  <2>1. g[k] = G[k][g[k - 1]]
    BY <1>4 DEF Iteration
  <2>2. g[k - 1] \in Reading
    BY <1>4
  <2>3. G[k] = [s \in Reading |-> ReadTurn(text, k, s)]
    BY <1>1
  <2> QED
    BY <2>1, <2>2, <2>3
<1>7. ASSUME NEW k \in 0 .. n
      PROVE  g[k] = IF k < first THEN StartRead
                    ELSE IF g[k - 1].ok THEN Read(g[k - 1], text[k], k = n) ELSE g[k - 1]
  <2>1. CASE k = 0
    BY <1>5, <2>1
  <2>2. CASE k # 0
    <3>1. k \in 1 .. n
      BY <2>2
    <3>2. g[k] = ReadTurn(text, k, g[k - 1])
      BY <1>6, <3>1
    <3>3. CASE k < first
      <4>1. k - 1 = 0
        BY <3>1, <3>3
      <4>2. g[k] = g[k - 1]
        BY <1>0, <3>2, <3>3, Zenon DEF ReadTurn
      <4> QED
        BY <1>5, <3>3, <4>1, <4>2, Zenon
    <3>4. CASE ~(k < first)
      BY <1>0, <3>2, <3>4, Zenon DEF ReadTurn
    <3> QED
      BY <3>3, <3>4
  <2> QED
    BY <2>1, <2>2
<1>8. g = [k \in 0 .. n |->
              IF k < first THEN StartRead
              ELSE IF g[k - 1].ok THEN Read(g[k - 1], text[k], k = n) ELSE g[k - 1]]
  <2>1. PICK h : h = [k \in 0 .. n |->
              IF k < first THEN StartRead
              ELSE IF g[k - 1].ok THEN Read(g[k - 1], text[k], k = n) ELSE g[k - 1]]
    OBVIOUS
  <2>2. \A k \in 0 .. n : h[k] = g[k]
    BY <1>7, <2>1
  <2>3. g = h
    BY <1>4, <2>1, <2>2
  <2> QED
    BY <2>1, <2>3, Zenon
<1> QED
  BY <1>0, <1>8, Zenon DEF ReadLoop

LEMMA PtonReads ==
    ASSUME NEW text \in Seq(Group)
    PROVE  \E f : Reads(f, text) /\ inet_pton6(text) = PtonOf(text, f[Len(text)])
<1>1. PICK g : ReadLoop(g, text)
  BY ReadLoopExists
<1>2. PICK f :
         /\ f = [k \in 0 .. Len(text) |->
                    IF k < (IF Len(text) > 1 /\ text[1] = <<>> THEN 2 ELSE 1)
                    THEN [words |-> <<>>, colonp |-> -1, ok |-> TRUE]
                    ELSE LET s == f[k - 1] IN IF s.ok THEN Read(s, text[k], k = Len(text)) ELSE s]
         /\ inet_pton6(text) =
               CASE \/ (Len(text) > 1 /\ text[1] = <<>>) /\ ~(Len(text) > 2 /\ text[2] = <<>>)
                    \/ ~f[Len(text)].ok -> NULL
                 [] /\ ~((Len(text) > 1 /\ text[1] = <<>>) /\ ~(Len(text) > 2 /\ text[2] = <<>>))
                    /\ f[Len(text)].ok /\ f[Len(text)].colonp # -1
                      -> Shifted(f[Len(text)].words, f[Len(text)].colonp)
                 [] OTHER -> IF Len(f[Len(text)].words) = WORDS THEN f[Len(text)].words ELSE NULL
  BY <1>1, Zenon DEF inet_pton6, ReadLoop, StartRead, FirstRead, Colon
<1>3. ReadLoop(f, text)
  BY <1>2, Zenon DEF ReadLoop, StartRead, FirstRead, Colon
<1>4. inet_pton6(text) = PtonOf(text, f[Len(text)])
  BY <1>2, Zenon DEF PtonOf, Lone, Colon
<1> QED
  BY <1>3, <1>4, LoopReads

(* The groups among the first k that :: leaves empty; whether these groups  *)
(* may stand where they are; and what makes a text no address.              *)
Empties(text, k) == {j \in 2 .. k : j < Len(text) /\ text[j] = <<>>}
Sane(text, k) == \A j \in 1 .. k : Fit(text[j], j = Len(text))
Wrong(text, k) == \/ ~Sane(text, k)
                  \/ Len(Flat(FirstOf(text, k))) > WORDS
                  \/ \E i, j \in Empties(text, k) : i # j

GapSeen(text, k, colonp) ==
    \/ colonp = -1 /\ Empties(text, k) = {}
    \/ \E j : Empties(text, k) = {j} /\ colonp = Len(Flat(FirstOf(text, j)))

ReadSoFar(s, text, k) ==
    /\ s.words = Flat(FirstOf(text, k)) /\ Len(s.words) <= WORDS
    /\ Sane(text, k) /\ GapSeen(text, k, s.colonp)

ReadInv(s, text, k) == IF s.ok THEN ReadSoFar(s, text, k) ELSE Wrong(text, k)

LEMMA GroupsAreWords ==
    ASSUME NEW text \in Seq(Group)
    PROVE  text \in Seq(Words)
<1>1. Group \subseteq Words
  BY DEF Group
<1> QED
  BY <1>1, SeqMonotonic

LEMMA WORDSNat == WORDS \in Nat /\ WORDS = 8
BY DEF WORDS

LEMMA EmptiesNext ==
    ASSUME NEW text \in Seq(Group), NEW k \in 0 .. Len(text), k < Len(text)
    PROVE  /\ k + 1 >= 2 /\ k + 1 < Len(text) /\ text[k + 1] = <<>> =>
                 Empties(text, k + 1) = Empties(text, k) \cup {k + 1}
           /\ ~(k + 1 >= 2 /\ k + 1 < Len(text) /\ text[k + 1] = <<>>) =>
                 Empties(text, k + 1) = Empties(text, k)
           /\ k + 1 \notin Empties(text, k) /\ Empties(text, k) \subseteq Empties(text, k + 1)
<1>0. PICK n \in Nat : n = Len(text)
  BY SeqFacts
<1>1. /\ Empties(text, k) = {j \in 2 .. k : j < n /\ text[j] = <<>>}
      /\ Empties(text, k + 1) = {j \in 2 .. k + 1 : j < n /\ text[j] = <<>>}
  BY <1>0 DEF Empties
<1>2. k \in Nat /\ (\A j \in 2 .. k + 1 : j \in 2 .. k \/ j = k + 1) /\ (\A j \in 2 .. k : j \in 2 .. k + 1)
      /\ (k + 1 >= 2 => k + 1 \in 2 .. k + 1) /\ ~(k + 1 \in 2 .. k)
      /\ (k + 1 \in 2 .. k + 1 => k + 1 >= 2)
  BY <1>0
<1> QED
  BY <1>0, <1>1, <1>2, Zenon

LEMMA SaneNext ==
    ASSUME NEW text \in Seq(Group), NEW k \in 0 .. Len(text), k < Len(text)
    PROVE  Sane(text, k + 1) <=> Sane(text, k) /\ Fit(text[k + 1], k + 1 = Len(text))
<1>1. /\ \A j \in 1 .. k + 1 : j \in 1 .. k \/ j = k + 1
      /\ \A j \in 1 .. k : j \in 1 .. k + 1
      /\ k + 1 \in 1 .. k + 1
  BY SeqFacts
<1> QED
  BY <1>1, Zenon DEF Sane

LEMMA FlatNext ==
    ASSUME NEW text \in Seq(Group), NEW k \in 0 .. Len(text), k < Len(text)
    PROVE  /\ text[k + 1] \in Group
           /\ Flat(FirstOf(text, k)) \in Words /\ Len(Flat(FirstOf(text, k))) \in Nat
           /\ Flat(FirstOf(text, k + 1)) = Flat(FirstOf(text, k)) \o text[k + 1]
           /\ Len(Flat(FirstOf(text, k + 1))) = Len(Flat(FirstOf(text, k))) + Len(text[k + 1])
           /\ text[k + 1] = <<>> => Flat(FirstOf(text, k + 1)) = Flat(FirstOf(text, k))
<1>1. text \in Seq(Words) /\ text[k + 1] \in Group
  BY GroupsAreWords, SeqFacts
<1>2. FirstOf(text, k) \in Seq(Words)
  BY <1>1, FirstFacts
<1>3. PICK w \in Words : w = Flat(FirstOf(text, k)) /\ Len(w) \in Nat
  BY <1>2, FlatWords
<1>4. Flat(FirstOf(text, k + 1)) = w \o text[k + 1]
  BY <1>1, <1>3, FlatFirst
<1>5. PICK g \in Words : g = text[k + 1]
  BY <1>1, GroupFacts
<1>6. w \in Seq(Nat) /\ g \in Seq(Nat)
  BY DEF Words
<1>7. Len(w \o g) = Len(w) + Len(g)
  BY <1>6, ConcatFacts
<1>8. w \o <<>> = w
  BY <1>6, ConcatEmptySeq
<1> QED
  BY <1>1, <1>3, <1>4, <1>5, <1>7, <1>8

LEMMA WrongNext ==
    ASSUME NEW text \in Seq(Group), NEW k \in 0 .. Len(text), k < Len(text), Wrong(text, k)
    PROVE  Wrong(text, k + 1)
<1>1. CASE ~Sane(text, k)
  BY <1>1, SaneNext, Zenon DEF Wrong
<1>2. CASE Len(Flat(FirstOf(text, k))) > WORDS
  <2>1. PICK l \in Nat, m \in Nat : l = Len(Flat(FirstOf(text, k))) /\ m = Len(text[k + 1])
    BY FlatNext, GroupFacts
  <2>2. Len(Flat(FirstOf(text, k + 1))) = l + m
    BY <2>1, FlatNext
  <2>3. l + m > WORDS
    BY <1>2, <2>1, WORDSNat
  <2> QED
    BY <2>2, <2>3, Zenon DEF Wrong
<1>3. CASE \E i, j \in Empties(text, k) : i # j
  BY <1>3, EmptiesNext, Zenon DEF Wrong
<1> QED
  BY <1>1, <1>2, <1>3, Zenon DEF Wrong

(* The gap seen stays so when no other is.                                  *)
LEMMA GapStays ==
    ASSUME NEW text, NEW k, NEW m, NEW colonp, GapSeen(text, k, colonp),
           Empties(text, m) = Empties(text, k)
    PROVE  GapSeen(text, m, colonp)
BY Zenon DEF GapSeen

LEMMA GapColonp ==
    ASSUME NEW text \in Seq(Group), NEW k \in 0 .. Len(text), NEW colonp, GapSeen(text, k, colonp)
    PROVE  /\ colonp = -1 => Empties(text, k) = {}
           /\ colonp # -1 => \E j \in Empties(text, k) :
                                Empties(text, k) = {j} /\ colonp = Len(Flat(FirstOf(text, j)))
<1>1. ASSUME NEW j, Empties(text, k) = {j}, colonp = Len(Flat(FirstOf(text, j)))
      PROVE  colonp # -1 /\ j \in Empties(text, k)
  <2>1. j \in Empties(text, k)
    BY <1>1
  <2>2. j \in 0 .. Len(text)
    <3>1. j \in 2 .. k
      BY <2>1 DEF Empties
    <3> QED
      BY <3>1, SeqFacts
  <2>3. FirstOf(text, j) \in Seq(Words)
    BY <2>2, GroupsAreWords, FirstFacts
  <2>4. colonp \in Nat
    BY <1>1, <2>3, FlatWords
  <2> QED
    BY <2>1, <2>4
<1> QED
  BY <1>1, Zenon DEF GapSeen

LEMMA ReadInvNext ==
    ASSUME NEW text \in Seq(Group), NEW k \in 0 .. Len(text), k < Len(text),
           NEW s \in Reading, ReadInv(s, text, k), k = 0 => s = StartRead,
           NEW r \in Reading, r = ReadTurn(text, k + 1, s)
    PROVE  ReadInv(r, text, k + 1)
<1>0. PICK n \in Nat, g \in Group, last \in BOOLEAN :
         n = Len(text) /\ g = text[k + 1] /\ last = (k + 1 = Len(text))
  BY SeqFacts, FlatNext
<1>1. CASE ~s.ok
  <2>1. r = s
    BY <1>1, Zenon DEF ReadTurn
  <2>2. Wrong(text, k + 1)
    BY <1>1, WrongNext, Zenon DEF ReadInv
  <2> QED
    BY <1>1, <2>1, <2>2, Zenon DEF ReadInv
<1>2. CASE s.ok /\ k + 1 < FirstRead(text)
  <2>1. k = 0 /\ Colon(text)
    BY <1>2 DEF FirstRead
  <2>2. text[1] = <<>> /\ n > 1
    BY <1>0, <2>1 DEF Colon
  <2>3. r = s
    BY <1>2, Zenon DEF ReadTurn
  <2>4. ReadSoFar(s, text, k)
    BY <1>2, Zenon DEF ReadInv
  <2>5. s.words = Flat(FirstOf(text, k + 1))
    <3>1. text[k + 1] = <<>>
      BY <2>1, <2>2
    <3> QED
      BY <2>4, <3>1, FlatNext, Zenon DEF ReadSoFar
  <2>6. Sane(text, k + 1)
    <3>1. Fit(text[k + 1], k + 1 = Len(text))
      BY <2>1, <2>2 DEF Fit
    <3> QED
      BY <2>4, <3>1, SaneNext, Zenon DEF ReadSoFar
  <2>7. GapSeen(text, k + 1, s.colonp)
    <3>1. ~(k + 1 >= 2)
      BY <2>1
    <3>2. Empties(text, k + 1) = Empties(text, k)
      BY <3>1, EmptiesNext, Zenon
    <3> QED
      BY <2>4, <3>2, GapStays, Zenon DEF ReadSoFar
  <2>8. ReadSoFar(s, text, k + 1)
    BY <2>4, <2>5, <2>6, <2>7, Zenon DEF ReadSoFar
  <2> QED
    BY <1>2, <2>3, <2>8, Zenon DEF ReadInv
<1>3. CASE s.ok /\ ~(k + 1 < FirstRead(text))
  <2>1. r = Read(s, g, last)
    BY <1>0, <1>3, Zenon DEF ReadTurn
  <2>2. ReadStep(s, g, last, r)
    BY <1>3, <2>1, ReadIs, Zenon
  <2>3. ReadSoFar(s, text, k)
    BY <1>3, Zenon DEF ReadInv
  <2>4. PICK w \in Words : w = s.words /\ w = Flat(FirstOf(text, k)) /\ Len(w) \in Nat
    BY <2>3, FlatNext, Zenon DEF ReadSoFar
  <2>5. Sane(text, k) /\ GapSeen(text, k, s.colonp) /\ Len(w) <= WORDS
    BY <2>3, <2>4, Zenon DEF ReadSoFar
  <2>6. last <=> k + 1 = n
    BY <1>0
  <2>7. g = <<>> /\ ~last => k + 1 >= 2 /\ k + 1 < n
    <3>1. SUFFICES ASSUME g = <<>>, ~last PROVE k + 1 >= 2 /\ k + 1 < n
      OBVIOUS
    <3>2. k + 1 < n
      BY <1>0, <2>6, <3>1
    <3>3. ASSUME k = 0 PROVE FALSE
      <4>1. Len(text) > 1 /\ text[1] = <<>>
        <5>1. k + 1 = 1
          BY <3>3
        <5>2. 1 < n
          BY <3>2, <5>1
        <5>3. text[1] = <<>>
          BY <1>0, <3>1, <5>1, Zenon
        <5> QED
          BY <1>0, <5>2, <5>3
      <4>2. FirstRead(text) = 2
        BY <4>1 DEF FirstRead, Colon
      <4> QED
        BY <1>3, <3>3, <4>2
    <3> QED
      BY <3>2, <3>3
  <2>8. CASE g = <<>> /\ last
    <3>1. r = s
      BY <2>2, <2>8, Zenon DEF ReadStep
    <3>2. s.words = Flat(FirstOf(text, k + 1))
      BY <1>0, <2>4, <2>8, FlatNext, Zenon
    <3>3. Sane(text, k + 1)
      <4>1. Fit(g, last)
        BY <2>8, Zenon DEF Fit
      <4> QED
        BY <1>0, <2>5, <4>1, SaneNext, Zenon
    <3>4. ~(k + 1 < Len(text))
      BY <1>0, <2>6, <2>8
    <3>5. Empties(text, k + 1) = Empties(text, k)
      BY <3>4, EmptiesNext, Zenon
    <3>6. GapSeen(text, k + 1, s.colonp)
      BY <2>5, <3>5, GapStays, Zenon
    <3>7. ReadSoFar(r, text, k + 1)
      BY <2>4, <2>5, <3>1, <3>2, <3>3, <3>6, Zenon DEF ReadSoFar
    <3> QED
      BY <1>3, <3>1, <3>7, Zenon DEF ReadInv
  <2>9. CASE g = <<>> /\ ~last /\ s.colonp # -1
    <3>1. ~r.ok
      BY <2>2, <2>9, Zenon DEF ReadStep
    <3>2. Empties(text, k + 1) = Empties(text, k) \cup {k + 1} /\ k + 1 \notin Empties(text, k)
      BY <1>0, <2>7, <2>9, EmptiesNext, Zenon
    <3>3. PICK j \in Empties(text, k) :
             Empties(text, k) = {j} /\ s.colonp = Len(Flat(FirstOf(text, j)))
      BY <2>5, <2>9, GapColonp
    <3>4. Wrong(text, k + 1)
      BY <3>2, <3>3, Zenon DEF Wrong
    <3> QED
      BY <3>1, <3>4, Zenon DEF ReadInv
  <2>10. CASE g = <<>> /\ ~last /\ s.colonp = -1
    <3>1. r.ok /\ r.words = s.words /\ r.colonp = Len(s.words)
      BY <2>2, <2>10, Zenon DEF ReadStep
    <3>2. Empties(text, k + 1) = Empties(text, k) \cup {k + 1}
      BY <1>0, <2>7, <2>10, EmptiesNext, Zenon
    <3>3. Empties(text, k) = {}
      BY <2>5, <2>10, GapColonp, Zenon
    <3>4. Empties(text, k + 1) = {k + 1}
      BY <3>2, <3>3
    <3>5. s.words = Flat(FirstOf(text, k + 1))
      BY <1>0, <2>4, <2>10, FlatNext, Zenon
    <3>6. GapSeen(text, k + 1, r.colonp)
      BY <3>1, <3>4, <3>5, Zenon DEF GapSeen
    <3>7. Sane(text, k + 1)
      <4>1. Fit(g, last)
        BY <2>10, Zenon DEF Fit
      <4> QED
        BY <1>0, <2>5, <4>1, SaneNext, Zenon
    <3>8. ReadSoFar(r, text, k + 1)
      BY <2>4, <2>5, <3>1, <3>5, <3>6, <3>7, Zenon DEF ReadSoFar
    <3> QED
      BY <3>1, <3>8, Zenon DEF ReadInv
  <2>11. CASE g # <<>> /\ ~Fit(g, last)
    <3>1. ~r.ok
      BY <2>2, <2>11, Zenon DEF ReadStep
    <3>2. Wrong(text, k + 1)
      BY <1>0, <2>11, SaneNext, Zenon DEF Wrong
    <3> QED
      BY <3>1, <3>2, Zenon DEF ReadInv
  <2>12. CASE g # <<>> /\ Fit(g, last) /\ Len(s.words) + Len(g) > WORDS
    <3>1. ~r.ok
      BY <2>2, <2>12, Zenon DEF ReadStep
    <3>2. Wrong(text, k + 1)
      BY <1>0, <2>4, <2>12, FlatNext, Zenon DEF Wrong
    <3> QED
      BY <3>1, <3>2, Zenon DEF ReadInv
  <2>13. CASE g # <<>> /\ Fit(g, last) /\ ~(Len(s.words) + Len(g) > WORDS)
    <3>1. r.ok /\ r.words = s.words \o g /\ r.colonp = s.colonp
      BY <2>2, <2>13, Zenon DEF ReadStep
    <3>2. r.words = Flat(FirstOf(text, k + 1)) /\ Len(r.words) = Len(w) + Len(g)
      BY <1>0, <2>4, <3>1, FlatNext, Zenon
    <3>3. Len(r.words) <= WORDS
      <4>1. PICK l \in Nat, m \in Nat : l = Len(w) /\ m = Len(g)
        BY <2>4, GroupFacts
      <4>2. ~(l + m > WORDS)
        BY <2>4, <2>13, <4>1, Zenon
      <4>3. l + m <= WORDS
        BY <4>2, WORDSNat
      <4> QED
        BY <3>2, <4>1, <4>3, Zenon
    <3>4. Sane(text, k + 1)
      BY <1>0, <2>5, <2>13, SaneNext, Zenon
    <3>5. Empties(text, k + 1) = Empties(text, k)
      BY <1>0, <2>13, EmptiesNext, Zenon
    <3>6. GapSeen(text, k + 1, r.colonp)
      BY <2>5, <3>1, <3>5, GapStays, Zenon
    <3>7. ReadSoFar(r, text, k + 1)
      BY <3>2, <3>3, <3>4, <3>6, Zenon DEF ReadSoFar
    <3> QED
      BY <3>1, <3>7, Zenon DEF ReadInv
  <2> QED
    BY <2>8, <2>9, <2>10, <2>11, <2>12, <2>13, Zenon
<1> QED
  BY <1>1, <1>2, <1>3

LEMMA ReadInvStart ==
    ASSUME NEW text \in Seq(Group)
    PROVE  ReadInv(StartRead, text, 0)
<1>1. StartRead.ok = TRUE /\ StartRead.words = <<>> /\ StartRead.colonp = -1
  BY DEF StartRead
<1>2. Flat(FirstOf(text, 0)) = <<>> /\ Len(<<>>) = 0
  BY FirstFacts, FlatEmpty
<1>3. Sane(text, 0) /\ Empties(text, 0) = {}
  BY DEF Sane, Empties
<1>4. 0 <= WORDS
  BY WORDSNat
<1>5. ReadSoFar(StartRead, text, 0)
  BY <1>1, <1>2, <1>3, <1>4 DEF ReadSoFar, GapSeen
<1> QED
  BY <1>1, <1>5, Zenon DEF ReadInv

(* The state at the end of a text, and the answer made of it.               *)
LEMMA PtonEnds ==
    ASSUME NEW text \in Seq(Group)
    PROVE  \E end \in Reading :
              ReadInv(end, text, Len(text)) /\ inet_pton6(text) = PtonOf(text, end)
<1>0. PICK n \in Nat : n = Len(text)
  BY SeqFacts
<1>1. PICK f : Reads(f, text) /\ inet_pton6(text) = PtonOf(text, f[n])
  BY <1>0, PtonReads
<1>2. f \in [0 .. n -> Reading] /\ f[0] = StartRead
      /\ \A k \in 1 .. n : f[k] = ReadTurn(text, k, f[k - 1])
  BY <1>0, <1>1 DEF Reads
<1>3. PICK A : A = {k \in 0 .. n : ReadInv(f[k], text, k)}
  OBVIOUS
<1>4. 0 \in A
  BY <1>2, <1>3, ReadInvStart
<1>5. ASSUME NEW k \in 0 .. n, k < n, k \in A PROVE k + 1 \in A
  <2>1. k + 1 \in 0 .. n /\ k + 1 \in 1 .. n /\ (k + 1) - 1 = k
    BY <1>5
  <2>2. PICK s \in Reading, r \in Reading : s = f[k] /\ r = f[k + 1]
    BY <1>2, <2>1
  <2>3. r = ReadTurn(text, k + 1, s)
    BY <1>2, <2>1, <2>2
  <2>4. ReadInv(s, text, k)
    BY <1>3, <1>5, <2>2
  <2>5. k = 0 => s = StartRead
    BY <1>2, <2>2
  <2>6. ReadInv(r, text, k + 1)
    BY <1>0, <1>5, <2>3, <2>4, <2>5, ReadInvNext
  <2> QED
    BY <1>3, <2>1, <2>2, <2>6
<1>6. \A k \in 0 .. n : k \in A
  BY <1>4, <1>5, Turns
<1>7. n \in 0 .. n
  OBVIOUS
<1>8. f[n] \in Reading /\ ReadInv(f[n], text, n)
  BY <1>2, <1>3, <1>6, <1>7
<1> QED
  BY <1>0, <1>1, <1>8, Zenon

-----------------------------------------------------------------------------
(* Moving the words after :: to the end.                                    *)

Laid(words) == [k \in 1 .. WORDS |-> IF k <= Len(words) THEN words[k] ELSE 0]

Moved(m, from, to) == [[m EXCEPT ![to] = m[from]] EXCEPT ![from] = 0]

Moves(f, words, c, n) ==
    /\ f \in [0 .. n -> Address] /\ f[0] = Laid(words)
    /\ \A i \in 1 .. n : f[i] = Moved(f[i - 1], c + n - i + 1, WORDS + 1 - i)

(* Zero words where :: stands.                                              *)
Spaced(w, c) ==
    [k \in 1 .. WORDS |-> IF k <= c THEN w[k]
                          ELSE IF k > c + (WORDS - Len(w)) THEN w[k - (WORDS - Len(w))]
                          ELSE 0]

LEMMA WordFacts == 0 \in Word /\ Address = [1 .. WORDS -> Word]
BY MaxWordNat DEF Word, Address

LEMMA MovedType ==
    ASSUME NEW m \in Address, NEW from \in 1 .. WORDS, NEW to \in 1 .. WORDS
    PROVE  Moved(m, from, to) \in Address
<1>1. m \in [1 .. WORDS -> Word] /\ m[from] \in Word /\ 0 \in Word
  BY WordFacts
<1>2. PICK h : h = [m EXCEPT ![to] = m[from]]
  OBVIOUS
<1>3. h \in [1 .. WORDS -> Word]
  BY <1>1, <1>2
<1>4. [h EXCEPT ![from] = 0] \in [1 .. WORDS -> Word]
  BY <1>1, <1>3
<1> QED
  BY <1>2, <1>4, WordFacts, Zenon DEF Moved

LEMMA LaidType ==
    ASSUME NEW words \in Seq(Word)
    PROVE  Laid(words) \in Address
<1>1. ASSUME NEW k \in 1 .. WORDS PROVE (IF k <= Len(words) THEN words[k] ELSE 0) \in Word
  <2>1. CASE k <= Len(words)
    <3>1. k \in 1 .. Len(words)
      BY <2>1, SeqFacts, WORDSNat
    <3>2. words[k] \in Word
      BY <3>1, SeqFacts
    <3> QED
      BY <2>1, <3>2, Zenon
  <2>2. CASE ~(k <= Len(words))
    BY <2>2, WordFacts, Zenon
  <2> QED
    BY <2>1, <2>2
<1>2. Laid(words) \in [1 .. WORDS -> Word]
  BY <1>1 DEF Laid
<1> QED
  BY <1>2, WordFacts

(* The places of a move.                                                    *)
LEMMA MovePlaces ==
    ASSUME NEW c \in Nat, NEW n \in Nat, NEW i \in 1 .. n, c + n <= WORDS
    PROVE  /\ c + n - i + 1 \in 1 .. WORDS /\ WORDS + 1 - i \in 1 .. WORDS
           /\ c + n - i + 1 \in c + 1 .. c + n
<1>1. WORDS = 8
  BY WORDSNat
<1> QED
  BY <1>1

MoveLoop(f, words, c) ==
    f = [i \in 0 .. Len(words) - c |->
            IF i = 0 THEN [k \in 1 .. WORDS |-> IF k <= Len(words) THEN words[k] ELSE 0]
            ELSE LET m == f[i - 1]
                     from == c + (Len(words) - c) - i + 1
                 IN  [[m EXCEPT ![WORDS + 1 - i] = m[from]] EXCEPT ![from] = 0]]

LEMMA ShiftMoves ==
    ASSUME NEW words \in Seq(Word), NEW c \in Nat, NEW n \in Nat, Len(words) = c + n, c + n <= WORDS
    PROVE  \E f : Moves(f, words, c, n) /\ Shifted(words, c) = f[n]
<1>0. n = Len(words) - c
  <2>1. PICK l \in Nat : l = Len(words)
    BY SeqFacts
  <2> QED
    BY <2>1
<1>1. PICK G : G = [i \in 1 .. n |-> [m \in Address |-> Moved(m, c + n - i + 1, WORDS + 1 - i)]]
  OBVIOUS
<1>2. ASSUME NEW i \in 1 .. n, NEW m \in Address
      PROVE  Moved(m, c + n - i + 1, WORDS + 1 - i) \in Address
  <2>1. c + n - i + 1 \in 1 .. WORDS /\ WORDS + 1 - i \in 1 .. WORDS
    BY MovePlaces
  <2> QED
    BY <2>1, MovedType, Zenon
<1>3. G \in [1 .. n -> [Address -> Address]]
  BY <1>1, <1>2
<1>4. PICK start \in Address : start = Laid(words)
  BY LaidType
<1>5. ASSUME NEW f, f \in [0 .. n -> Address], f[0] = start, \A i \in 1 .. n : f[i] = G[i][f[i - 1]]
      PROVE  Moves(f, words, c, n)
  <2>1. ASSUME NEW i \in 1 .. n PROVE f[i] = Moved(f[i - 1], c + n - i + 1, WORDS + 1 - i)
    <3>1. f[i - 1] \in Address
      BY <1>5
    <3>2. G[i] = [m \in Address |-> Moved(m, c + n - i + 1, WORDS + 1 - i)]
      BY <1>1
    <3>3. f[i] = G[i][f[i - 1]]
      BY <1>5
    <3> QED
      BY <3>1, <3>2, <3>3
  <2> QED
    BY <1>4, <1>5, <2>1, Zenon DEF Moves
<1>6. PICK g \in [0 .. n -> Address] : Iteration(g, n, start, G)
  BY <1>3, Iterates
<1>7. Moves(g, words, c, n)
  BY <1>5, <1>6 DEF Iteration
<1>8. MoveLoop(g, words, c)
  <2>1. ASSUME NEW i \in 0 .. n
        PROVE  g[i] = IF i = 0 THEN Laid(words) ELSE Moved(g[i - 1], c + n - i + 1, WORDS + 1 - i)
    <3>1. i = 0 \/ i \in 1 .. n
      OBVIOUS
    <3> QED
      BY <1>7, <3>1 DEF Moves
  <2>2. PICK h : h = [i \in 0 .. n |-> IF i = 0 THEN Laid(words)
                                       ELSE Moved(g[i - 1], c + n - i + 1, WORDS + 1 - i)]
    OBVIOUS
  <2>3. \A i \in 0 .. n : g[i] = h[i]
    BY <2>1, <2>2
  <2>4. g = h
    BY <1>6, <2>2, <2>3
  <2>5. g = [i \in 0 .. n |-> IF i = 0 THEN Laid(words)
                              ELSE Moved(g[i - 1], c + n - i + 1, WORDS + 1 - i)]
    BY <2>2, <2>4, Zenon
  <2> QED
    BY <1>0, <2>5, Zenon DEF MoveLoop, Laid, Moved
<1>9. PICK f : MoveLoop(f, words, c) /\ Shifted(words, c) = f[Len(words) - c]
  BY <1>8, Zenon DEF Shifted, MoveLoop
<1>10. f = [i \in 0 .. n |-> IF i = 0 THEN Laid(words)
                             ELSE Moved(f[i - 1], c + n - i + 1, WORDS + 1 - i)]
  BY <1>0, <1>9, Zenon DEF MoveLoop, Laid, Moved
<1>11. f[0] = start /\ \A i \in 1 .. n : f[i] = Moved(f[i - 1], c + n - i + 1, WORDS + 1 - i)
  BY <1>4, <1>10
<1>12. PICK A : A = {i \in 0 .. n : f[i] \in Address}
  OBVIOUS
<1>13. 0 \in A
  BY <1>11, <1>12
<1>14. ASSUME NEW i \in 0 .. n, i < n, i \in A PROVE i + 1 \in A
  <2>1. i + 1 \in 0 .. n /\ i + 1 \in 1 .. n /\ (i + 1) - 1 = i
    BY <1>14
  <2>2. f[i + 1] = Moved(f[i], c + n - (i + 1) + 1, WORDS + 1 - (i + 1))
    BY <1>11, <2>1
  <2>3. f[i] \in Address
    BY <1>12, <1>14
  <2>4. f[i + 1] \in Address
    BY <1>2, <2>1, <2>2, <2>3, Zenon
  <2> QED
    BY <1>12, <2>1, <2>4
<1>15. \A i \in 0 .. n : i \in A
  BY <1>13, <1>14, Turns
<1>16. f \in [0 .. n -> Address]
  BY <1>10, <1>12, <1>15
<1>17. Moves(f, words, c, n)
  BY <1>4, <1>11, <1>16, Zenon DEF Moves
<1> QED
  BY <1>0, <1>9, <1>17, Zenon

LEMMA ShiftedType ==
    ASSUME NEW words \in Seq(Word), NEW c \in Nat, NEW n \in Nat, Len(words) = c + n, c + n <= WORDS
    PROVE  Shifted(words, c) \in Address
<1>1. PICK f : Moves(f, words, c, n) /\ Shifted(words, c) = f[n]
  BY ShiftMoves
<1>2. n \in 0 .. n
  OBVIOUS
<1> QED
  BY <1>1, <1>2 DEF Moves

(* After i moves.                                                           *)
HalfMoved(words, l, i) ==
    [k \in 1 .. WORDS |-> IF k <= l - i THEN words[k]
                          ELSE IF k > WORDS - i THEN words[k - (WORDS - l)]
                          ELSE 0]

LEMMA HalfMoves ==
    ASSUME NEW words \in Seq(Word), NEW l \in Nat, l = Len(words), l < WORDS, NEW i \in 0 .. l, i < l
    PROVE  Moved(HalfMoved(words, l, i), l - (i + 1) + 1, WORDS + 1 - (i + 1)) = HalfMoved(words, l, i + 1)
<1>0. PICK W \in Nat : W = WORDS /\ l < W
  BY WORDSNat
<1>1. PICK from \in 1 .. W, to \in 1 .. W : from = l - (i + 1) + 1 /\ to = W + 1 - (i + 1)
  <2>1. l - (i + 1) + 1 \in 1 .. W /\ W + 1 - (i + 1) \in 1 .. W
    BY <1>0
  <2> QED
    BY <2>1
<1>2. from = l - i /\ to = W - i /\ from < to
  BY <1>0, <1>1
<1>3. PICK m : m = HalfMoved(words, l, i)
  OBVIOUS
<1>4. m = [k \in 1 .. W |-> IF k <= l - i THEN words[k]
                          ELSE IF k > W - i THEN words[k - (W - l)] ELSE 0]
  BY <1>0, <1>3, Zenon DEF HalfMoved
<1>5. PICK h : h = HalfMoved(words, l, i + 1)
  OBVIOUS
<1>6. h = [k \in 1 .. W |-> IF k <= l - (i + 1) THEN words[k]
                          ELSE IF k > W - (i + 1) THEN words[k - (W - l)] ELSE 0]
  BY <1>0, <1>5, Zenon DEF HalfMoved
<1>7. PICK x : x = Moved(m, from, to)
  OBVIOUS
<1>8. x = [[m EXCEPT ![to] = m[from]] EXCEPT ![from] = 0]
  BY <1>7, Zenon DEF Moved
<1>9. m[from] = words[from]
  BY <1>2, <1>4
<1>10. ASSUME NEW k \in 1 .. W PROVE x[k] = h[k]
  <2>1. CASE k = from
    <3>1. x[k] = 0
      BY <1>4, <1>8, <2>1
    <3>2. ~(k <= l - (i + 1)) /\ ~(k > W - (i + 1))
      BY <1>0, <1>2, <2>1
    <3> QED
      BY <1>6, <3>1, <3>2
  <2>2. CASE k = to
    <3>1. x[k] = words[from]
      BY <1>2, <1>4, <1>8, <1>9, <2>2
    <3>2. ~(k <= l - (i + 1)) /\ k > W - (i + 1) /\ k - (W - l) = from
      BY <1>0, <1>2, <2>2
    <3> QED
      BY <1>6, <3>1, <3>2
  <2>3. CASE k # from /\ k # to
    <3>1. x[k] = m[k]
      BY <1>4, <1>8, <2>3
    <3>2. (k <= l - (i + 1) <=> k <= l - i) /\ (k > W - (i + 1) <=> k > W - i)
      BY <1>0, <1>2, <2>3
    <3> QED
      BY <1>4, <1>6, <3>1, <3>2
  <2> QED
    BY <2>1, <2>2, <2>3
<1>11. x = h
  BY <1>4, <1>6, <1>8, <1>10
<1> QED
  BY <1>0, <1>1, <1>3, <1>5, <1>7, <1>11, Zenon

LEMMA ShiftedIs ==
    ASSUME NEW words \in Seq(Word), NEW c \in Nat, NEW n \in Nat, Len(words) = c + n, c + n < WORDS
    PROVE  Shifted(words, c) = Spaced(words, c)
<1>0. PICK l \in Nat : l = Len(words) /\ l = c + n /\ l < WORDS /\ l <= WORDS
  BY WORDSNat
<1>1. PICK f : Moves(f, words, c, n) /\ Shifted(words, c) = f[n]
  BY <1>0, ShiftMoves
<1>2. f[0] = Laid(words) /\ \A i \in 1 .. n : f[i] = Moved(f[i - 1], l - i + 1, WORDS + 1 - i)
  <2>1. f[0] = Laid(words)
    BY <1>1, Zenon DEF Moves
  <2>2. ASSUME NEW i \in 1 .. n PROVE f[i] = Moved(f[i - 1], l - i + 1, WORDS + 1 - i)
    <3>1. f[i] = Moved(f[i - 1], c + n - i + 1, WORDS + 1 - i)
      BY <1>1, Zenon DEF Moves
    <3>2. c + n = l
      BY <1>0
    <3> QED
      BY <3>1, <3>2
  <2> QED
    BY <2>1, <2>2
<1>3. PICK A : A = {i \in 0 .. n : f[i] = HalfMoved(words, l, i)}
  OBVIOUS
<1>4. 0 \in A
  <2>1. PICK W \in Nat : W = WORDS
    BY WORDSNat
  <2>2. \A k \in 1 .. W : (k <= l - 0 <=> k <= l) /\ ~(k > W - 0)
    OBVIOUS
  <2>3. HalfMoved(words, l, 0) = [k \in 1 .. W |-> IF k <= l THEN words[k] ELSE 0]
    BY <2>1, <2>2 DEF HalfMoved
  <2>4. f[0] = HalfMoved(words, l, 0)
    BY <1>0, <1>2, <2>1, <2>3, Zenon DEF Laid
  <2> QED
    BY <1>3, <2>4
<1>5. ASSUME NEW i \in 0 .. n, i < n, i \in A PROVE i + 1 \in A
  <2>1. i + 1 \in 0 .. n /\ i + 1 \in 1 .. n /\ (i + 1) - 1 = i /\ i \in 0 .. l /\ i < l
    BY <1>0, <1>5
  <2>2. f[i + 1] = Moved(f[i], l - (i + 1) + 1, WORDS + 1 - (i + 1))
    BY <1>2, <2>1
  <2>3. f[i] = HalfMoved(words, l, i)
    BY <1>3, <1>5
  <2>4. f[i + 1] = HalfMoved(words, l, i + 1)
    BY <1>0, <2>1, <2>2, <2>3, HalfMoves, Zenon
  <2> QED
    BY <1>3, <2>1, <2>4
<1>6. \A i \in 0 .. n : i \in A
  BY <1>4, <1>5, Turns
<1>7. f[n] = HalfMoved(words, l, n)
  BY <1>3, <1>6
<1>8. HalfMoved(words, l, n) = Spaced(words, c)
  <2>1. PICK W \in Nat : W = WORDS
    BY WORDSNat
  <2>2. \A k \in 1 .. W : (k <= l - n <=> k <= c) /\ (k > W - n <=> k > c + (W - l))
    BY <1>0
  <2>3. Spaced(words, c) = [k \in 1 .. W |-> IF k <= c THEN words[k]
                                ELSE IF k > c + (W - l) THEN words[k - (W - l)] ELSE 0]
    BY <1>0, <2>1, Zenon DEF Spaced
  <2>4. HalfMoved(words, l, n) = [k \in 1 .. W |-> IF k <= l - n THEN words[k]
                                ELSE IF k > W - n THEN words[k - (W - l)] ELSE 0]
    BY <2>1, Zenon DEF HalfMoved
  <2> QED
    BY <2>2, <2>3, <2>4
<1> QED
  BY <1>1, <1>7, <1>8, Zenon

-----------------------------------------------------------------------------
(* What inet_pton6 answers.                                                 *)

LEMMA FlatSplits ==
    ASSUME NEW text \in Seq(Words), NEW j \in 0 .. Len(text)
    PROVE  \E c \in Nat, m \in Nat :
              c = Len(Flat(FirstOf(text, j))) /\ Len(Flat(text)) = c + m
<1>0. PICK n \in Nat : n = Len(text) /\ \A i \in 1 .. n : text[i] \in Words
  BY SeqFacts
<1>1. PICK p \in Seq(Words) : p = FirstOf(text, j)
  BY FirstFacts
<1>2. PICK q \in Seq(Words) : q = SubSeq(text, j + 1, n)
  <2>1. j + 1 \in Int /\ n \in Int /\ \A i \in j + 1 .. n : text[i] \in Words
    BY <1>0
  <2> QED
    BY <2>1, SubSeqProperties
<1>3. p \o q = text
  <2>1. 1 \in 1 .. Len(text) + 1 /\ j \in 1 - 1 .. Len(text) /\ n \in j .. Len(text)
    BY <1>0
  <2>2. SubSeq(text, 1, j) \o SubSeq(text, j + 1, n) = SubSeq(text, 1, n)
    BY <2>1, ConcatAdjacentSubSeq
  <2>3. SubSeq(text, 1, n) = text
    BY <1>0, SubSeqFull
  <2> QED
    BY <1>1, <1>2, <2>2, <2>3, Zenon DEF FirstOf
<1>4. PICK fp \in Words, fq \in Words : fp = Flat(p) /\ fq = Flat(q)
  BY FlatWords
<1>5. Flat(text) = fp \o fq
  BY <1>3, <1>4, FlatConcat
<1>6. fp \in Seq(Nat) /\ fq \in Seq(Nat)
  BY DEF Words
<1>7. Len(fp \o fq) = Len(fp) + Len(fq) /\ Len(fp) \in Nat /\ Len(fq) \in Nat
  BY <1>6, ConcatFacts, SeqFacts
<1> QED
  BY <1>1, <1>4, <1>5, <1>7

LEMMA OkIsRight ==
    ASSUME NEW text \in Seq(Group), NEW end \in Reading, ReadInv(end, text, Len(text))
    PROVE  /\ end.ok <=> ~Wrong(text, Len(text))
           /\ end.ok => end.words = Flat(text) /\ Len(Flat(text)) \in Nat /\ Len(Flat(text)) <= WORDS
<1>1. FirstOf(text, Len(text)) = text
  BY FirstFacts
<1>2. CASE ~end.ok
  BY <1>2, Zenon DEF ReadInv
<1>3. CASE end.ok
  <2>1. /\ end.words = Flat(text) /\ Len(end.words) <= WORDS
        /\ Sane(text, Len(text)) /\ GapSeen(text, Len(text), end.colonp)
    BY <1>1, <1>3, Zenon DEF ReadInv, ReadSoFar
  <2>2. PICK l \in Nat : l = Len(Flat(text))
    BY <2>1, ReadingFacts
  <2>3. ~(l > WORDS)
    BY <2>1, <2>2, WORDSNat
  <2>4. ~(\E i, j \in Empties(text, Len(text)) : i # j)
    BY <2>1 DEF GapSeen
  <2>5. ~Wrong(text, Len(text))
    BY <1>1, <2>1, <2>2, <2>3, <2>4, Zenon DEF Wrong
  <2> QED
    BY <1>3, <2>1, <2>2, <2>5
<1> QED
  BY <1>2, <1>3

PtonAnswer(text, answer) ==
    /\ Lone(text) \/ Wrong(text, Len(text)) => answer = NULL
    /\ ~Lone(text) /\ ~Wrong(text, Len(text)) /\ Empties(text, Len(text)) = {} =>
          answer = IF Len(Flat(text)) = WORDS THEN Flat(text) ELSE NULL
    /\ \A j \in Empties(text, Len(text)) :
          ~Lone(text) /\ ~Wrong(text, Len(text)) /\ Len(Flat(text)) < WORDS =>
             answer = Spaced(Flat(text), Len(Flat(FirstOf(text, j))))
    /\ ~Lone(text) /\ ~Wrong(text, Len(text)) =>
          (Len(Flat(text)) = WORDS \/ Empties(text, Len(text)) # {} => answer \in Address)

LEMMA PtonAnswers ==
    ASSUME NEW text \in Seq(Group)
    PROVE  inet_pton6(text) \in Address \cup {NULL} /\ PtonAnswer(text, inet_pton6(text))
<1>0. PICK n, answer : n \in Nat /\ n = Len(text) /\ answer = inet_pton6(text)
  BY SeqFacts
<1>1. PICK end \in Reading : ReadInv(end, text, n) /\ answer = PtonOf(text, end)
  BY <1>0, PtonEnds
<1>2. /\ end.ok <=> ~Wrong(text, n)
      /\ end.ok => end.words = Flat(text) /\ Len(Flat(text)) \in Nat /\ Len(Flat(text)) <= WORDS
  BY <1>0, <1>1, OkIsRight
<1>3. CASE Lone(text) \/ ~end.ok
  <2>1. answer = NULL
    BY <1>1, <1>3, Zenon DEF PtonOf
  <2> QED
    BY <1>0, <1>2, <1>3, <2>1, Zenon DEF PtonAnswer
<1>4. CASE ~Lone(text) /\ end.ok
  <2>1. GapSeen(text, n, end.colonp)
    BY <1>1, <1>4, Zenon DEF ReadInv, ReadSoFar
  <2>2. n \in 0 .. Len(text)
    BY <1>0
  <2>3. PICK w \in Seq(Word), l \in Nat : w = end.words /\ w = Flat(text) /\ l = Len(w) /\ l <= WORDS
    BY <1>2, <1>4, ReadingFacts
  <2>4. CASE end.colonp = -1
    <3>1. Empties(text, n) = {}
      BY <2>1, <2>2, <2>4, GapColonp
    <3>2. answer = IF Len(w) = WORDS THEN w ELSE NULL
      BY <1>1, <1>4, <2>3, <2>4, Zenon DEF PtonOf
    <3>3. answer \in Address \cup {NULL} /\ (Len(w) = WORDS => answer \in Address)
      <4>1. CASE Len(w) = WORDS
        <5>1. w \in [1 .. WORDS -> Word]
          BY <4>1, SeqFacts
        <5> QED
          BY <3>2, <4>1, <5>1, WordFacts, Zenon
      <4>2. CASE Len(w) # WORDS
        BY <3>2, <4>2
      <4> QED
        BY <4>1, <4>2
    <3>4. PtonAnswer(text, answer)
      BY <1>0, <1>2, <1>4, <2>3, <3>1, <3>2, <3>3, Zenon DEF PtonAnswer
    <3> QED
      BY <1>0, <3>3, <3>4, Zenon
  <2>5. CASE end.colonp # -1
    <3>1. PICK j \in Empties(text, n) : Empties(text, n) = {j} /\ end.colonp = Len(Flat(FirstOf(text, j)))
      BY <2>1, <2>2, <2>5, GapColonp
    <3>2. j \in 0 .. Len(text)
      <4>1. j \in 2 .. n
        BY <3>1, Zenon DEF Empties
      <4> QED
        BY <1>0, <4>1
    <3>3. PICK c \in Nat, m \in Nat : c = Len(Flat(FirstOf(text, j))) /\ l = c + m
      BY <2>3, <3>2, FlatSplits, GroupsAreWords
    <3>4. answer = Shifted(w, c)
      BY <1>1, <1>4, <2>3, <2>5, <3>1, <3>3, Zenon DEF PtonOf
    <3>5. answer \in Address
      BY <2>3, <3>3, <3>4, ShiftedType
    <3>6. l < WORDS => answer = Spaced(w, c)
      BY <2>3, <3>3, <3>4, ShiftedIs
    <3>7. Empties(text, n) # {} /\ \A i \in Empties(text, n) : i = j
      BY <3>1
    <3>8. PtonAnswer(text, answer)
      BY <1>0, <1>2, <1>4, <2>3, <3>3, <3>5, <3>6, <3>7, Zenon DEF PtonAnswer
    <3> QED
      BY <1>0, <3>5, <3>8, Zenon
  <2> QED
    BY <2>4, <2>5
<1> QED
  BY <1>3, <1>4

-----------------------------------------------------------------------------
(* A text cut at ::.                                                        *)

ProperText(s) == \A k \in 1 .. Len(s) : s[k] # <<>>

OrEmpty(s) == IF s = <<>> THEN << <<>> >> ELSE s

LEMMA EmptyGroup == <<>> \in Group /\ << <<>> >> \in Seq(Group) /\ Len(<< <<>> >>) = 1
<1>1. <<>> \in Words /\ Len(<<>>) = 0
  BY EmptySeq DEF Words
<1>2. <<>> \in Group
  BY <1>1 DEF Group
<1> QED
  BY <1>2, OneWord

LEMMA OrEmptyFacts ==
    ASSUME NEW s \in Seq(Group)
    PROVE  /\ OrEmpty(s) \in Seq(Group) /\ Len(OrEmpty(s)) \in Nat \ {0}
           /\ s = <<>> => Len(OrEmpty(s)) = 1 /\ OrEmpty(s)[1] = <<>>
           /\ s # <<>> => OrEmpty(s) = s
           /\ Flat(OrEmpty(s)) = Flat(s)
<1>1. CASE s = <<>>
  <2>1. PICK e \in Group, t \in Seq(Group) : e = <<>> /\ t = <<e>> /\ Len(t) = 1 /\ t[1] = e
    BY EmptyGroup, OneWord
  <2>2. OrEmpty(s) = t
    BY <1>1, <2>1, Zenon DEF OrEmpty
  <2>3. Flat(t) = <<>>
    <3>1. PICK none \in Seq(Words) : none = <<>>
      BY EmptySeq
    <3>2. e \in Words
      BY <2>1, GroupFacts
    <3>3. t = Append(none, e)
      BY <2>1, <3>1
    <3>4. Flat(t) = Flat(none) \o e
      BY <3>2, <3>3, FlatAppend
    <3>5. <<>> \o <<>> = <<>>
      OBVIOUS
    <3> QED
      BY <2>1, <3>1, <3>4, <3>5, FlatEmpty, Zenon
  <2>4. Len(t) \in Nat \ {0}
    BY <2>1
  <2> QED
    BY <1>1, <2>1, <2>2, <2>3, <2>4, FlatEmpty, Zenon
<1>2. CASE s # <<>>
  <2>1. OrEmpty(s) = s
    BY <1>2, Zenon DEF OrEmpty
  <2>2. Len(s) \in Nat \ {0}
    BY <1>2, EmptySeq
  <2> QED
    BY <1>2, <2>1, <2>2
<1> QED
  BY <1>1, <1>2

ConcatOf(S, t, u, v) ==
    /\ t \in Seq(S) /\ Len(t) = Len(u) + Len(v)
    /\ \A i \in 1 .. Len(u) : t[i] = u[i]
    /\ \A j \in 1 .. Len(v) : t[Len(u) + j] = v[j]

LEMMA ConcatIs ==
    ASSUME NEW S, NEW u \in Seq(S), NEW v \in Seq(S)
    PROVE  ConcatOf(S, u \o v, u, v)
BY ConcatFacts DEF ConcatOf

(* A sequence, an element and a sequence.                                   *)
TripleOf(S, t, u, x, v) ==
    /\ t \in Seq(S) /\ Len(t) = Len(u) + 1 + Len(v)
    /\ \A i \in 1 .. Len(u) : t[i] = u[i]
    /\ t[Len(u) + 1] = x
    /\ \A i \in 1 .. Len(v) : t[Len(u) + 1 + i] = v[i]

LEMMA Triple ==
    ASSUME NEW S, NEW u \in Seq(S), NEW x \in S, NEW v \in Seq(S)
    PROVE  TripleOf(S, (u \o <<x>>) \o v, u, x, v)
<1>0. PICK a \in Nat, b \in Nat : a = Len(u) /\ b = Len(v)
  BY SeqFacts
<1>1. PICK one \in Seq(S) : one = <<x>> /\ Len(one) = 1 /\ one[1] = x
  BY OneWord
<1>2. PICK p : p = u \o one
  OBVIOUS
<1>3. /\ p \in Seq(S) /\ Len(p) = Len(u) + Len(one)
      /\ \A i \in 1 .. Len(u) : p[i] = u[i]
      /\ \A j \in 1 .. Len(one) : p[Len(u) + j] = one[j]
  <2>1. ConcatOf(S, p, u, one)
    BY <1>2, ConcatIs, Zenon
  <2> QED
    BY <2>1, Zenon DEF ConcatOf
<1>4. Len(p) = a + 1 /\ p[a + 1] = x /\ \A i \in 1 .. a : p[i] = u[i]
  BY <1>0, <1>1, <1>3
<1>5. PICK t : t = p \o v
  OBVIOUS
<1>6. /\ t \in Seq(S) /\ Len(t) = Len(p) + Len(v)
      /\ \A i \in 1 .. Len(p) : t[i] = p[i]
      /\ \A j \in 1 .. Len(v) : t[Len(p) + j] = v[j]
  <2>1. ConcatOf(S, t, p, v)
    BY <1>3, <1>5, ConcatIs, Zenon
  <2> QED
    BY <2>1, Zenon DEF ConcatOf
<1>7. /\ t \in Seq(S) /\ Len(t) = a + 1 + b
      /\ \A i \in 1 .. a + 1 : t[i] = p[i]
      /\ \A j \in 1 .. b : t[a + 1 + j] = v[j]
  BY <1>0, <1>4, <1>6, Zenon
<1>8. ASSUME NEW i \in 1 .. a PROVE t[i] = u[i]
  <2>1. i \in 1 .. a + 1
    OBVIOUS
  <2> QED
    BY <1>4, <1>7, <2>1, Zenon
<1>9. t[a + 1] = x
  <2>1. a + 1 \in 1 .. a + 1
    OBVIOUS
  <2> QED
    BY <1>4, <1>7, <2>1, Zenon
<1>10. TripleOf(S, t, u, x, v)
  BY <1>0, <1>7, <1>8, <1>9, Zenon DEF TripleOf
<1> QED
  BY <1>1, <1>2, <1>5, <1>10, Zenon

CutAt(text, j) ==
    /\ j \in 2 .. Len(text) - 1 /\ text[j] = <<>>
    /\ \A k \in 1 .. Len(text) :
          text[k] = <<>> => k = j \/ (k = 1 /\ j = 2) \/ (k = Len(text) /\ j = Len(text) - 1)

LEMMA AroundIs ==
    ASSUME NEW left, NEW right
    PROVE  Around(left, right) = (OrEmpty(left) \o << <<>> >>) \o OrEmpty(right)
BY Zenon DEF Around, OrEmpty

(* The gap of a text made around ::, and its words.                         *)
AroundOf(t, j, left, right) ==
    /\ t \in Seq(Group) /\ CutAt(t, j)
    /\ Flat(FirstOf(t, j)) = Flat(left)
    /\ Flat(t) = Flat(left) \o Flat(right)

LEMMA FirstOfTriple ==
    ASSUME NEW S, NEW t, NEW u \in Seq(S), NEW x \in S, NEW v \in Seq(S), TripleOf(S, t, u, x, v)
    PROVE  FirstOf(t, Len(u) + 1) = Append(u, x)
<1>0. PICK a \in Nat, b \in Nat : a = Len(u) /\ b = Len(v)
  BY SeqFacts
<1>1. /\ t \in Seq(S) /\ Len(t) = a + 1 + b /\ t[a + 1] = x
      /\ \A i \in 1 .. a : t[i] = u[i]
  BY <1>0, Zenon DEF TripleOf
<1>2. a + 1 \in 0 .. Len(t) /\ a \in 0 .. Len(t) /\ a < Len(t)
  BY <1>1
<1>3. FirstOf(t, a + 1) = Append(FirstOf(t, a), x)
  BY <1>1, <1>2, FirstFacts
<1>4. FirstOf(t, a) \in Seq(S) /\ Len(FirstOf(t, a)) = a /\ \A i \in 1 .. a : FirstOf(t, a)[i] = t[i]
  BY <1>1, <1>2, FirstFacts
<1>5. PICK p \in Seq(S) : p = FirstOf(t, a)
  BY <1>4
<1>6. Len(p) = Len(u) /\ \A i \in 1 .. Len(p) : p[i] = u[i]
  BY <1>0, <1>1, <1>4, <1>5
<1>7. p = u
  BY <1>6, SeqEqual
<1> QED
  BY <1>0, <1>3, <1>5, <1>7, Zenon

LEMMA AroundFacts ==
    ASSUME NEW left \in Seq(Group), NEW right \in Seq(Group), ProperText(left), ProperText(right),
           NEW t, t = Around(left, right), NEW j, j = Len(OrEmpty(left)) + 1
    PROVE  AroundOf(t, j, left, right)
<1>0. PICK u \in Seq(Group), v \in Seq(Group) : u = OrEmpty(left) /\ v = OrEmpty(right)
  BY OrEmptyFacts
<1>1. PICK a \in Nat \ {0}, b \in Nat \ {0} : a = Len(u) /\ b = Len(v) /\ j = a + 1
  BY <1>0, OrEmptyFacts
<1>2. PICK e \in Group : e = <<>>
  BY EmptyGroup
<1>3. t = (u \o <<e>>) \o v
  BY <1>0, <1>2, AroundIs, Zenon
<1>4. TripleOf(Group, t, u, e, v)
  BY <1>3, Triple, Zenon
<1>5. PICK n \in Nat : n = a + 1 + b
  OBVIOUS
<1>6. /\ t \in Seq(Group) /\ Len(t) = n /\ t[j] = <<>>
      /\ \A i \in 1 .. a : t[i] = u[i]
      /\ \A i \in 1 .. b : t[a + 1 + i] = v[i]
  BY <1>1, <1>2, <1>4, <1>5, Zenon DEF TripleOf
<1>7. j \in 2 .. n - 1
  BY <1>1, <1>5
<1>8. ASSUME NEW k \in 1 .. n, t[k] = <<>>
      PROVE  k = j \/ (k = 1 /\ j = 2) \/ (k = n /\ j = n - 1)
  <2>1. k \in 1 .. a \/ k = j \/ \E i \in 1 .. b : k = a + 1 + i
    <3>1. k \in 1 .. a \/ k = a + 1 \/ (k - (a + 1) \in 1 .. b /\ k = a + 1 + (k - (a + 1)))
      BY <1>5
    <3> QED
      BY <1>1, <3>1
  <2>2. ASSUME k \in 1 .. a PROVE k = 1 /\ j = 2
    <3>1. u[k] = <<>>
      BY <1>6, <1>8, <2>2
    <3>2. left = <<>>
      <4>1. ASSUME left # <<>> PROVE FALSE
        <5>1. u = left
          BY <1>0, <4>1, OrEmptyFacts
        <5> QED
          BY <1>1, <2>2, <3>1, <5>1, Zenon DEF ProperText
      <4> QED
        BY <4>1
    <3>3. a = 1
      BY <1>0, <1>1, <3>2, OrEmptyFacts
    <3> QED
      BY <1>1, <2>2, <3>3
  <2>3. ASSUME NEW i \in 1 .. b, k = a + 1 + i PROVE k = n /\ j = n - 1
    <3>1. v[i] = <<>>
      BY <1>6, <1>8, <2>3
    <3>2. right = <<>>
      <4>1. ASSUME right # <<>> PROVE FALSE
        <5>1. v = right
          BY <1>0, <4>1, OrEmptyFacts
        <5> QED
          BY <1>1, <2>3, <3>1, <5>1, Zenon DEF ProperText
      <4> QED
        BY <4>1
    <3>3. b = 1
      BY <1>0, <1>1, <3>2, OrEmptyFacts
    <3> QED
      BY <1>1, <1>5, <2>3, <3>3
  <2> QED
    BY <2>1, <2>2, <2>3
<1>9. CutAt(t, j)
  BY <1>6, <1>7, <1>8, Zenon DEF CutAt
<1>10. Flat(u) = Flat(left) /\ Flat(v) = Flat(right)
  BY <1>0, OrEmptyFacts
<1>11. u \in Seq(Words) /\ v \in Seq(Words) /\ e \in Words
  BY GroupsAreWords, GroupFacts
<1>12. PICK fu \in Words : fu = Flat(u)
  BY <1>11, FlatWords
<1>13. fu \o e = fu
  BY <1>2, ConcatEmptySeq DEF Words
<1>14. Append(u, e) = u \o <<e>> /\ Append(u, e) \in Seq(Words)
  BY <1>11, AppendIsConcat, AppendFacts
<1>15. Flat(Append(u, e)) = fu
  BY <1>11, <1>12, <1>13, FlatAppend
<1>16. FirstOf(t, j) = Append(u, e)
  <2>1. FirstOf(t, Len(u) + 1) = Append(u, e)
    BY <1>4, FirstOfTriple
  <2> QED
    BY <1>1, <2>1, Zenon
<1>17. Flat(t) = fu \o Flat(v)
  <2>1. t = Append(u, e) \o v
    BY <1>3, <1>14, Zenon
  <2>2. Flat(Append(u, e) \o v) = Flat(Append(u, e)) \o Flat(v)
    BY <1>11, <1>14, FlatConcat, Zenon
  <2> QED
    BY <1>15, <2>1, <2>2, Zenon
<1> QED
  BY <1>6, <1>9, <1>10, <1>12, <1>15, <1>16, <1>17, Zenon DEF AroundOf

(* Zero words between two sequences of words.                               *)
LEMMA ZerosFacts ==
    ASSUME NEW z \in Nat
    PROVE  Zeros(z) \in Seq(Nat) /\ Len(Zeros(z)) = z /\ \A i \in 1 .. z : Zeros(z)[i] = 0
<1>1. Zeros(z) = [k \in 1 .. z |-> 0]
  BY DEF Zeros
<1>2. Zeros(z) \in [1 .. z -> Nat]
  BY <1>1
<1> QED
  BY <1>1, <1>2

SpacesOut(fl, fr, z, a) == (fl \o Zeros(z)) \o fr = Spaced(fl \o fr, a)

LEMMA SpacedIs ==
    ASSUME NEW fl \in Seq(Nat), NEW fr \in Seq(Nat), NEW a \in Nat, NEW b \in Nat, NEW z \in Nat,
           a = Len(fl), b = Len(fr), a + z + b = WORDS
    PROVE  SpacesOut(fl, fr, z, a)
<1>0. PICK W \in Nat : W = WORDS /\ a + z + b = W
  BY WORDSNat
<1>1. PICK zs \in Seq(Nat) : zs = Zeros(z) /\ Len(zs) = z /\ \A i \in 1 .. z : zs[i] = 0
  BY ZerosFacts
<1>2. PICK p : p = fl \o zs
  OBVIOUS
<1>3. ConcatOf(Nat, p, fl, zs)
  BY <1>2, ConcatIs, Zenon
<1>4. /\ p \in Seq(Nat) /\ Len(p) = a + z
      /\ \A i \in 1 .. a : p[i] = fl[i]
      /\ \A i \in 1 .. z : p[a + i] = zs[i]
  BY <1>1, <1>3, Zenon DEF ConcatOf
<1>5. PICK t : t = p \o fr
  OBVIOUS
<1>6. ConcatOf(Nat, t, p, fr)
  BY <1>4, <1>5, ConcatIs, Zenon
<1>7. /\ t \in Seq(Nat) /\ Len(t) = a + z + b
      /\ \A i \in 1 .. a + z : t[i] = p[i]
      /\ \A i \in 1 .. b : t[a + z + i] = fr[i]
  BY <1>4, <1>6, Zenon DEF ConcatOf
<1>8. PICK w : w = fl \o fr
  OBVIOUS
<1>9. ConcatOf(Nat, w, fl, fr)
  BY <1>8, ConcatIs, Zenon
<1>10. /\ w \in Seq(Nat) /\ Len(w) = a + b
       /\ \A i \in 1 .. a : w[i] = fl[i]
       /\ \A i \in 1 .. b : w[a + i] = fr[i]
  BY <1>9, Zenon DEF ConcatOf
<1>11. PICK h : h = Spaced(w, a)
  OBVIOUS
<1>12. h = [k \in 1 .. W |-> IF k <= a THEN w[k]
                             ELSE IF k > a + (W - (a + b)) THEN w[k - (W - (a + b))] ELSE 0]
  BY <1>0, <1>10, <1>11, Zenon DEF Spaced
<1>13. ASSUME NEW k \in 1 .. W PROVE h[k] = t[k]
  <2>0. h[k] = IF k <= a THEN w[k] ELSE IF k > a + (W - (a + b)) THEN w[k - (W - (a + b))] ELSE 0
    BY <1>12
  <2>1. CASE k <= a
    <3>1. k \in 1 .. a /\ k \in 1 .. a + z
      BY <2>1
    <3>2. h[k] = w[k]
      BY <2>0, <2>1, Zenon
    <3> QED
      BY <1>4, <1>7, <1>10, <3>1, <3>2, Zenon
  <2>2. CASE ~(k <= a) /\ k > a + z
    <3>1. PICK i \in 1 .. b : k = a + z + i
      <4>1. k - (a + z) \in 1 .. b /\ k = a + z + (k - (a + z))
        BY <1>0, <2>2
      <4> QED
        BY <4>1
    <3>2. k > a + (W - (a + b)) /\ k - (W - (a + b)) = a + i
      <4>1. W - (a + b) = z
        BY <1>0
      <4>2. k > a + z /\ k - z = a + i
        BY <2>2, <3>1
      <4> QED
        BY <4>1, <4>2, Zenon
    <3>3. h[k] = w[a + i]
      BY <2>0, <2>2, <3>2, Zenon
    <3> QED
      BY <1>7, <1>10, <3>1, <3>3, Zenon
  <2>3. CASE ~(k <= a) /\ ~(k > a + z)
    <3>1. PICK i \in 1 .. z : k = a + i
      <4>1. k - a \in 1 .. z /\ k = a + (k - a)
        BY <2>3
      <4> QED
        BY <4>1
    <3>2. ~(k > a + (W - (a + b))) /\ k \in 1 .. a + z
      BY <1>0, <2>3
    <3>3. h[k] = 0
      BY <2>0, <2>3, <3>2, Zenon
    <3>4. t[k] = p[a + i]
      BY <1>7, <3>1, <3>2, Zenon
    <3>5. p[a + i] = zs[i] /\ zs[i] = 0
      BY <1>1, <1>4, <3>1, Zenon
    <3> QED
      BY <3>3, <3>4, <3>5, Zenon
  <2> QED
    BY <2>1, <2>2, <2>3
<1>14. t \in [1 .. W -> Nat]
  BY <1>0, <1>7, SeqFacts
<1>15. h = t
  BY <1>12, <1>13, <1>14
<1> QED
  BY <1>1, <1>2, <1>5, <1>8, <1>11, <1>15, Zenon DEF SpacesOut

-----------------------------------------------------------------------------
(* What a text means.                                                       *)

IsCut(text, left, right) ==
    ProperText(left) /\ ProperText(right) /\ text = Around(left, right)

CutsOf(text) ==
    {c \in (0 .. Len(text)) \X (1 .. Len(text) + 1) :
        IsCut(text, SubSeq(text, 1, c[1]), SubSeq(text, c[2], Len(text)))}

FilledOf(left, right) == (left \o Zeros(WORDS - Len(left) - Len(right))) \o right

FilledCut(text, c) == FilledOf(Flat(SubSeq(text, 1, c[1])), Flat(SubSeq(text, c[2], Len(text))))

Barred(text) == \/ \E k \in 1 .. Len(text) : text[k] # <<>> /\ text[k][1] > MaxWord
                \/ \E k \in 1 .. Len(text) - 1 : Len(text[k]) = 2

LEMMA MeaningIs ==
    ASSUME NEW text
    PROVE  Meaning(text) =
              IF Barred(text) THEN {}
              ELSE (IF ProperText(text) /\ Len(Flat(text)) = WORDS THEN {Flat(text)} ELSE {})
                      \cup {FilledCut(text, c) : c \in {d \in CutsOf(text) : Len(Flat(text)) < WORDS}}
BY DEF Meaning, Barred, ProperText, CutsOf, IsCut, FilledCut, FilledOf

LEMMA BarredIs ==
    ASSUME NEW text \in Seq(Group)
    PROVE  Barred(text) <=> ~Sane(text, Len(text))
<1>0. PICK n \in Nat : n = Len(text) /\ \A k \in 1 .. n : text[k] \in Group
  BY SeqFacts
<1>1. ASSUME NEW k \in 1 .. n
      PROVE  Fit(text[k], k = n) <=>
                ~(text[k] # <<>> /\ text[k][1] > MaxWord) /\ ~(k \in 1 .. n - 1 /\ Len(text[k]) = 2)
  <2>1. PICK g \in Group : g = text[k]
    BY <1>0
  <2>2. k \in 1 .. n - 1 <=> k # n
    OBVIOUS
  <2>3. \A x \in Nat : x \in Word <=> ~(x > MaxWord)
    BY MaxWordNat DEF Word
  <2>4. CASE g = <<>>
    <3>1. Len(g) # 2
      BY <2>4, GroupFacts
    <3> QED
      BY <2>1, <2>4, <3>1, Zenon DEF Fit
  <2>5. CASE Len(g) = 1
    <3>1. Len(g) # 2 /\ g # <<>> /\ g[1] \in Nat
      BY <2>5, GroupFacts
    <3> QED
      BY <2>1, <2>3, <2>5, <3>1, Zenon DEF Fit
  <2>6. CASE Len(g) = 2
    <3>1. Len(g) # 1 /\ g # <<>> /\ g[1] \in Word
      BY <2>6, GroupFacts
    <3>2. ~(g[1] > MaxWord)
      BY <3>1, MaxWordNat DEF Word
    <3> QED
      BY <2>1, <2>2, <2>6, <3>1, <3>2, Zenon DEF Fit
  <2> QED
    BY <2>4, <2>5, <2>6, GroupFacts
<1>2. \A k \in 1 .. n - 1 : k \in 1 .. n
  OBVIOUS
<1> QED
  BY <1>0, <1>1, <1>2, Zenon DEF Barred, Sane

LEMMA SidesType ==
    ASSUME NEW text \in Seq(Group), NEW a \in 0 .. Len(text), NEW b \in 1 .. Len(text) + 1
    PROVE  /\ SubSeq(text, 1, a) \in Seq(Group) /\ SubSeq(text, b, Len(text)) \in Seq(Group)
           /\ Len(SubSeq(text, b, Len(text))) = Len(text) + 1 - b
           /\ \A i \in 1 .. Len(text) + 1 - b : SubSeq(text, b, Len(text))[i] = text[b + i - 1]
<1>0. PICK n \in Nat : n = Len(text) /\ \A k \in 1 .. n : text[k] \in Group
  BY SeqFacts
<1>1. SubSeq(text, 1, a) \in Seq(Group)
  BY FirstFacts DEF FirstOf
<1>2. b \in Int /\ n \in Int /\ \A i \in b .. n : text[i] \in Group
  BY <1>0
<1>3. PICK q : q = SubSeq(text, b, n)
  OBVIOUS
<1>4. /\ q \in Seq(Group) /\ Len(q) = IF b <= n THEN n - b + 1 ELSE 0
      /\ \A i \in 1 .. n - b + 1 : q[i] = text[b + i - 1]
  BY <1>2, <1>3, SubSeqProperties
<1>5. n - b + 1 = n + 1 - b /\ (~(b <= n) => n + 1 - b = 0)
  BY <1>0
<1>6. Len(q) = n + 1 - b
  BY <1>4, <1>5
<1> QED
  BY <1>0, <1>1, <1>3, <1>4, <1>5, <1>6, Zenon

(* Every cut is at the gap, and gives the address with zeros there.         *)
LEMMA CutIsGap ==
    ASSUME NEW text \in Seq(Group), NEW c \in CutsOf(text)
    PROVE  \E j : /\ CutAt(text, j)
                  /\ Len(Flat(text)) <= WORDS =>
                        FilledCut(text, c) = Spaced(Flat(text), Len(Flat(FirstOf(text, j))))
<1>1. c[1] \in 0 .. Len(text) /\ c[2] \in 1 .. Len(text) + 1
      /\ IsCut(text, SubSeq(text, 1, c[1]), SubSeq(text, c[2], Len(text)))
  BY DEF CutsOf
<1>2. PICK left \in Seq(Group), right \in Seq(Group) :
         left = SubSeq(text, 1, c[1]) /\ right = SubSeq(text, c[2], Len(text))
  BY <1>1, SidesType
<1>3. ProperText(left) /\ ProperText(right) /\ text = Around(left, right)
  BY <1>1, <1>2, Zenon DEF IsCut
<1>4. PICK j : j = Len(OrEmpty(left)) + 1
  OBVIOUS
<1>5. AroundOf(text, j, left, right)
  BY <1>3, <1>4, AroundFacts, Zenon
<1>6. CutAt(text, j) /\ Flat(FirstOf(text, j)) = Flat(left) /\ Flat(text) = Flat(left) \o Flat(right)
  BY <1>5, Zenon DEF AroundOf
<1>7. PICK fl \in Seq(Nat), fr \in Seq(Nat) : fl = Flat(left) /\ fr = Flat(right)
  BY FlatWords, GroupsAreWords DEF Words
<1>8. PICK a \in Nat, b \in Nat : a = Len(fl) /\ b = Len(fr)
  BY SeqFacts
<1>9. Len(fl \o fr) = a + b
  BY <1>8, ConcatFacts
<1>10. ASSUME Len(Flat(text)) <= WORDS
       PROVE  FilledCut(text, c) = Spaced(Flat(text), Len(Flat(FirstOf(text, j))))
  <2>1. a + b <= WORDS
    BY <1>6, <1>7, <1>9, <1>10, Zenon
  <2>2. PICK z \in Nat : z = WORDS - a - b /\ a + z + b = WORDS
    <3>1. WORDS - a - b \in Nat /\ a + (WORDS - a - b) + b = WORDS
      BY <2>1, WORDSNat
    <3> QED
      BY <3>1
  <2>3. (fl \o Zeros(z)) \o fr = Spaced(fl \o fr, a)
    <3>1. SpacesOut(fl, fr, z, a)
      BY <1>8, <2>2, SpacedIs
    <3> QED
      BY <3>1, Zenon DEF SpacesOut
  <2>4. FilledCut(text, c) = (fl \o Zeros(z)) \o fr
    BY <1>2, <1>7, <1>8, <2>2, Zenon DEF FilledCut, FilledOf
  <2> QED
    BY <1>6, <1>7, <1>8, <2>3, <2>4, Zenon
<1> QED
  BY <1>6, <1>10, Zenon

(* And a gap can be cut.                                                    *)
LEMMA GapIsCut ==
    ASSUME NEW text \in Seq(Group), NEW j, CutAt(text, j)
    PROVE  CutsOf(text) # {}
<1>0. PICK n \in Nat : n = Len(text) /\ \A k \in 1 .. n : text[k] \in Group
  BY SeqFacts
<1>1. /\ j \in 2 .. n - 1 /\ text[j] = <<>>
      /\ \A k \in 1 .. n : text[k] = <<>> => k = j \/ (k = 1 /\ j = 2) \/ (k = n /\ j = n - 1)
  BY <1>0, Zenon DEF CutAt
<1>2. PICK a \in 0 .. n : a = IF text[1] = <<>> THEN 0 ELSE j - 1
  BY <1>1
<1>3. PICK b \in 1 .. n + 1 : b = IF text[n] = <<>> THEN n + 1 ELSE j + 1
  BY <1>1
<1>4. PICK left \in Seq(Group) : left = SubSeq(text, 1, a) /\ Len(left) = a
                                 /\ \A i \in 1 .. a : left[i] = text[i]
  BY <1>0, FirstFacts DEF FirstOf
<1>5. PICK right \in Seq(Group) : right = SubSeq(text, b, n) /\ Len(right) = n + 1 - b
                                  /\ \A i \in 1 .. n + 1 - b : right[i] = text[b + i - 1]
  BY <1>0, SidesType
<1>6. ProperText(left)
  <2>1. ASSUME NEW i \in 1 .. a, text[i] = <<>> PROVE FALSE
    <3>1. text[1] # <<>> /\ a = j - 1
      BY <1>2, <2>1
    <3>2. i \in 1 .. n /\ i # j /\ i # n /\ i # 1
      BY <1>1, <2>1, <3>1
    <3> QED
      BY <1>1, <2>1, <3>2, Zenon
  <2> QED
    BY <1>4, <2>1, Zenon DEF ProperText
<1>7. ProperText(right)
  <2>1. ASSUME NEW i \in 1 .. n + 1 - b, text[b + i - 1] = <<>> PROVE FALSE
    <3>1. text[n] # <<>> /\ b = j + 1
      <4>1. b # n + 1
        BY <2>1
      <4> QED
        BY <1>3, <4>1
    <3>2. PICK k \in 1 .. n : k = b + i - 1 /\ k > j
      <4>1. b + i - 1 \in 1 .. n /\ b + i - 1 > j
        BY <1>1, <3>1
      <4> QED
        BY <4>1
    <3>3. k # j /\ k # 1 /\ k # n
      <4>1. text[k] = <<>>
        BY <2>1, <3>2
      <4>2. k # n
        BY <3>1, <4>1
      <4> QED
        BY <1>1, <3>2, <4>2
    <3> QED
      BY <1>1, <2>1, <3>2, <3>3, Zenon
  <2> QED
    BY <1>5, <2>1, Zenon DEF ProperText
<1>8. PICK u \in Seq(Group), v \in Seq(Group) : u = OrEmpty(left) /\ v = OrEmpty(right)
  BY OrEmptyFacts
<1>9. Len(u) = j - 1 /\ \A i \in 1 .. j - 1 : u[i] = text[i]
  <2>1. CASE text[1] = <<>>
    <3>1. a = 0 /\ left = <<>>
      BY <1>2, <1>4, <2>1
    <3>2. Len(u) = 1 /\ u[1] = <<>>
      BY <1>8, <3>1, OrEmptyFacts
    <3>3. j = 2
      <4>1. 1 \in 1 .. n /\ 1 # j /\ 1 # n
        BY <1>1
      <4> QED
        BY <1>1, <2>1, <4>1, Zenon
    <3>4. \A i \in 1 .. j - 1 : i = 1
      BY <3>3
    <3>5. j - 1 = 1
      BY <3>3
    <3> QED
      BY <2>1, <3>2, <3>4, <3>5, Zenon
  <2>2. CASE text[1] # <<>>
    <3>1. a = j - 1
      BY <1>2, <2>2
    <3>2. a # 0
      BY <1>1, <3>1
    <3>3. left # <<>>
      <4>1. Len(left) # 0
        BY <1>4, <3>2
      <4> QED
        BY <4>1
    <3>4. u = left
      BY <1>8, <3>3, OrEmptyFacts
    <3> QED
      BY <1>4, <3>1, <3>4, Zenon
  <2> QED
    BY <2>1, <2>2
<1>10. Len(v) = n - j /\ \A i \in 1 .. n - j : v[i] = text[j + i]
  <2>1. CASE text[n] = <<>>
    <3>1. n + 1 - b = 0 /\ right = <<>>
      BY <1>3, <1>5, <2>1
    <3>2. Len(v) = 1 /\ v[1] = <<>>
      BY <1>8, <3>1, OrEmptyFacts
    <3>3. j = n - 1
      <4>1. n \in 1 .. n /\ n # j /\ n # 1
        BY <1>1
      <4> QED
        BY <1>1, <2>1, <4>1, Zenon
    <3>4. n - j = 1 /\ j + 1 = n /\ \A i \in 1 .. 1 : i = 1
      BY <1>1, <3>3
    <3> QED
      BY <2>1, <3>2, <3>4, Zenon
  <2>2. CASE text[n] # <<>>
    <3>1. b = j + 1
      BY <1>3, <2>2
    <3>2. n + 1 - b = n - j /\ n - j # 0 /\ \A i \in 1 .. n - j : b + i - 1 = j + i
      BY <1>1, <3>1
    <3>3. right # <<>>
      <4>1. Len(right) # 0
        BY <1>5, <3>2
      <4> QED
        BY <4>1
    <3>4. v = right
      BY <1>8, <3>3, OrEmptyFacts
    <3> QED
      BY <1>5, <3>2, <3>4, Zenon
  <2> QED
    BY <2>1, <2>2
<1>11. PICK e \in Group : e = <<>>
  BY EmptyGroup
<1>12. PICK t : t = (u \o <<e>>) \o v
  OBVIOUS
<1>13. TripleOf(Group, t, u, e, v)
  BY <1>12, Triple, Zenon
<1>14. /\ t \in Seq(Group) /\ Len(t) = (j - 1) + 1 + (n - j)
       /\ \A i \in 1 .. j - 1 : t[i] = u[i]
       /\ t[(j - 1) + 1] = e
       /\ \A i \in 1 .. n - j : t[(j - 1) + 1 + i] = v[i]
  BY <1>9, <1>10, <1>13, Zenon DEF TripleOf
<1>15. Len(t) = n
  BY <1>1, <1>14
<1>16. ASSUME NEW k \in 1 .. n PROVE text[k] = t[k]
  <2>1. CASE k \in 1 .. j - 1
    BY <1>9, <1>14, <2>1, Zenon
  <2>2. CASE k = j
    <3>1. (j - 1) + 1 = j
      BY <1>1
    <3> QED
      BY <1>1, <1>11, <1>14, <2>2, <3>1, Zenon
  <2>3. CASE k > j
    <3>1. PICK i \in 1 .. n - j : k = j + i /\ (j - 1) + 1 + i = k
      <4>1. k - j \in 1 .. n - j /\ k = j + (k - j) /\ (j - 1) + 1 + (k - j) = k
        BY <1>1, <2>3
      <4> QED
        BY <4>1
    <3> QED
      BY <1>10, <1>14, <3>1, Zenon
  <2> QED
    BY <1>1, <2>1, <2>2, <2>3
<1>17. text = t
  BY <1>0, <1>14, <1>15, <1>16, SeqEqual
<1>18. text = Around(left, right)
  BY <1>8, <1>11, <1>12, <1>17, AroundIs, Zenon
<1>19. IsCut(text, left, right)
  BY <1>6, <1>7, <1>18, Zenon DEF IsCut
<1>20. PICK c : c = <<a, b>>
  OBVIOUS
<1>21. c \in (0 .. n) \X (1 .. n + 1) /\ c[1] = a /\ c[2] = b
  BY <1>20
<1>22. c \in CutsOf(text)
  BY <1>0, <1>4, <1>5, <1>19, <1>21, Zenon DEF CutsOf
<1> QED
  BY <1>22

MeaningOf(text, meaning) ==
    /\ ~Sane(text, Len(text)) => meaning = {}
    /\ Sane(text, Len(text)) /\ ProperText(text) =>
          meaning = IF Len(Flat(text)) = WORDS THEN {Flat(text)} ELSE {}
    /\ \A j : Sane(text, Len(text)) /\ CutAt(text, j) =>
          meaning = IF Len(Flat(text)) < WORDS
                    THEN {Spaced(Flat(text), Len(Flat(FirstOf(text, j))))} ELSE {}
    /\ ~ProperText(text) /\ ~(\E j : CutAt(text, j)) => meaning = {}

LEMMA CutUnique ==
    ASSUME NEW text \in Seq(Group), NEW i, NEW j, CutAt(text, i), CutAt(text, j)
    PROVE  i = j
<1>0. PICK n \in Nat : n = Len(text)
  BY SeqFacts
<1>1. i \in 2 .. n - 1 /\ text[i] = <<>>
  BY <1>0 DEF CutAt
<1>2. \A k \in 1 .. n : text[k] = <<>> => k = j \/ (k = 1 /\ j = 2) \/ (k = n /\ j = n - 1)
  BY <1>0, Zenon DEF CutAt
<1>3. i \in 1 .. n /\ i # 1 /\ i # n
  BY <1>1
<1> QED
  BY <1>1, <1>2, <1>3, Zenon

LEMMA MeaningCases ==
    ASSUME NEW text \in Seq(Group)
    PROVE  MeaningOf(text, Meaning(text))
<1>0. PICK l, meaning : l \in Nat /\ l = Len(Flat(text)) /\ meaning = Meaning(text)
  BY GroupsAreWords, FlatWords
<1>1. PICK filled : filled = {FilledCut(text, c) : c \in {d \in CutsOf(text) : l < WORDS}}
  OBVIOUS
<1>2. meaning = IF ~Sane(text, Len(text)) THEN {}
                ELSE (IF ProperText(text) /\ l = WORDS THEN {Flat(text)} ELSE {}) \cup filled
  <2>1. meaning = IF Barred(text) THEN {}
                  ELSE (IF ProperText(text) /\ l = WORDS THEN {Flat(text)} ELSE {}) \cup filled
    BY <1>0, <1>1, MeaningIs, Zenon
  <2> QED
    BY <2>1, BarredIs, Zenon
<1>3. ASSUME NEW c \in CutsOf(text)
      PROVE  \E j : /\ CutAt(text, j) /\ ~ProperText(text)
                    /\ l < WORDS => FilledCut(text, c) = Spaced(Flat(text), Len(Flat(FirstOf(text, j))))
  <2>1. PICK j : /\ CutAt(text, j)
                 /\ l <= WORDS => FilledCut(text, c) = Spaced(Flat(text), Len(Flat(FirstOf(text, j))))
    BY <1>0, CutIsGap, Zenon
  <2>2. l < WORDS => l <= WORDS
    <3>1. l \in Nat
      BY <1>0
    <3> QED
      BY <3>1, WORDSNat
  <2>3. ~ProperText(text)
    <3>1. j \in 1 .. Len(text) /\ text[j] = <<>>
      BY <2>1, SeqFacts DEF CutAt
    <3> QED
      BY <3>1, Zenon DEF ProperText
  <2> QED
    BY <2>1, <2>2, <2>3, Zenon
<1>4. ~(l < WORDS) => filled = {}
  BY <1>1, Zenon
<1>5. ~(\E j : CutAt(text, j)) => filled = {}
  BY <1>1, <1>3, Zenon
<1>6. ProperText(text) => filled = {}
  BY <1>1, <1>3, Zenon
<1>7. ASSUME NEW j, CutAt(text, j)
      PROVE  /\ l < WORDS => filled = {Spaced(Flat(text), Len(Flat(FirstOf(text, j))))}
             /\ ~ProperText(text)
  <2>1. PICK c \in CutsOf(text) : TRUE
    BY <1>7, GapIsCut, Zenon
  <2>2. ASSUME NEW d \in CutsOf(text), l < WORDS
        PROVE  FilledCut(text, d) = Spaced(Flat(text), Len(Flat(FirstOf(text, j))))
    <3>1. PICK i : /\ CutAt(text, i)
                   /\ l < WORDS => FilledCut(text, d) = Spaced(Flat(text), Len(Flat(FirstOf(text, i))))
      BY <1>3, Zenon
    <3>2. i = j
      BY <1>7, <3>1, CutUnique
    <3> QED
      BY <2>2, <3>1, <3>2, Zenon
  <2>3. ~ProperText(text)
    BY <1>3, <2>1, Zenon
  <2>4. ASSUME l < WORDS PROVE filled = {Spaced(Flat(text), Len(Flat(FirstOf(text, j))))}
    BY <1>1, <2>1, <2>2, <2>4, Zenon
  <2> QED
    BY <2>3, <2>4
<1>8. ProperText(text) => meaning = IF ~Sane(text, Len(text)) THEN {}
                                    ELSE IF l = WORDS THEN {Flat(text)} ELSE {}
  <2>1. \A X : X \cup {} = X
    OBVIOUS
  <2> QED
    BY <1>2, <1>6, <2>1, Zenon
<1>9. ~ProperText(text) => meaning = IF ~Sane(text, Len(text)) THEN {} ELSE filled
  <2>1. \A X : {} \cup X = X
    OBVIOUS
  <2> QED
    BY <1>2, <2>1, Zenon
<1> QED
  BY <1>0, <1>4, <1>5, <1>7, <1>8, <1>9, Zenon DEF MeaningOf

-----------------------------------------------------------------------------
(* A text and the same without the colon at its end.                        *)

LEMMA ColonGap ==
    ASSUME NEW text \in Seq(Group), ~Lone(text), Len(text) > 1, text[1] = <<>>
    PROVE  2 \in Empties(text, Len(text)) /\ Len(text) > 2
<1>0. PICK n \in Nat : n = Len(text)
  BY SeqFacts
<1>1. Len(text) > 2 /\ text[2] = <<>>
  BY Zenon DEF Lone, Colon
<1>2. 2 \in 2 .. n /\ 2 < n
  BY <1>0, <1>1
<1> QED
  BY <1>0, <1>1, <1>2, Zenon DEF Empties

LEMMA EmptiesAre ==
    ASSUME NEW text \in Seq(Group), NEW n \in Nat, n = Len(text)
    PROVE  \A k : k \in Empties(text, n) <=> k \in 2 .. n - 1 /\ text[k] = <<>>
<1>1. \A k : k \in 2 .. n /\ k < n <=> k \in 2 .. n - 1
  OBVIOUS
<1> QED
  BY <1>1, Zenon DEF Empties

Ended(text) == Len(text) > 1 /\ text[Len(text)] = <<>> /\ Len(text[Len(text) - 1]) = 1

Agree(tx, text) ==
    /\ tx \in Seq(Group) /\ Flat(tx) = Flat(text)
    /\ Sane(tx, Len(tx)) <=> Sane(text, Len(text))
    /\ \A j \in Empties(text, Len(text)) : Flat(FirstOf(tx, j)) = Flat(FirstOf(text, j))
    /\ Sane(text, Len(text)) =>
          /\ \A j : CutAt(tx, j) <=> ~Lone(text) /\ Empties(text, Len(text)) = {j}
          /\ ProperText(tx) => ~Lone(text) /\ Empties(text, Len(text)) = {}
          /\ ~Lone(text) /\ Empties(text, Len(text)) = {} /\ Len(Flat(text)) = WORDS
                => ProperText(tx)

LEMMA AgreeSame ==
    ASSUME NEW text \in Seq(Group), ~Ended(text)
    PROVE  Agree(text, text)
<1>0. PICK n \in Nat : n = Len(text) /\ \A k \in 1 .. n : text[k] \in Group
  BY SeqFacts
<1>1. PICK E : E = Empties(text, n) /\ \A k : k \in E <=> k \in 2 .. n - 1 /\ text[k] = <<>>
  BY <1>0, EmptiesAre
<1>2. ASSUME Sane(text, n), n > 1, text[n] = <<>> PROVE text[n - 1] = <<>>
  <2>1. n - 1 \in 1 .. n /\ n - 1 # n
    BY <1>2
  <2>2. PICK g \in Group : g = text[n - 1]
    BY <1>0, <2>1
  <2>3. (n - 1 = n) = FALSE
    BY <2>1
  <2>4. Fit(g, FALSE)
    BY <1>0, <1>2, <2>1, <2>2, <2>3, Zenon DEF Sane
  <2>5. Len(g) # 1
    BY <1>0, <1>2, <2>2, Zenon DEF Ended
  <2> QED
    BY <2>2, <2>4, <2>5, Zenon DEF Fit
<1>3. ASSUME ~Lone(text), n > 1, text[1] = <<>> PROVE 2 \in E /\ n > 2
  BY <1>0, <1>1, <1>3, ColonGap, Zenon
<1>4. ASSUME NEW j, CutAt(text, j) PROVE ~Lone(text) /\ E = {j}
  <2>1. /\ j \in 2 .. n - 1 /\ text[j] = <<>>
        /\ \A k \in 1 .. n : text[k] = <<>> => k = j \/ (k = 1 /\ j = 2) \/ (k = n /\ j = n - 1)
    BY <1>0, <1>4, Zenon DEF CutAt
  <2>2. j \in E
    BY <1>1, <2>1
  <2>3. ASSUME NEW i \in E PROVE i = j
    <3>1. i \in 2 .. n - 1 /\ text[i] = <<>>
      BY <1>1
    <3>2. i \in 1 .. n /\ i # 1 /\ i # n
      BY <3>1
    <3> QED
      BY <2>1, <3>1, <3>2, Zenon
  <2>4. n > 2 /\ 1 \in 1 .. n /\ 1 # j /\ 1 # n
    BY <2>1
  <2>5. ASSUME text[1] = <<>> PROVE text[2] = <<>>
    BY <2>1, <2>4, <2>5, Zenon
  <2>6. ~Lone(text)
    BY <1>0, <2>4, <2>5, Zenon DEF Lone, Colon
  <2> QED
    BY <2>2, <2>3, <2>6
<1>5. ASSUME NEW j, Sane(text, n), ~Lone(text), E = {j} PROVE CutAt(text, j)
  <2>1. j \in 2 .. n - 1 /\ text[j] = <<>>
    BY <1>1, <1>5
  <2>2. \A i \in E : i = j
    BY <1>5
  <2>3. ASSUME NEW k \in 1 .. n, text[k] = <<>>
        PROVE  k = j \/ (k = 1 /\ j = 2) \/ (k = n /\ j = n - 1)
    <3>1. CASE k = 1
      <4>1. n > 1 /\ text[1] = <<>>
        BY <2>1, <2>3, <3>1
      <4>2. 2 \in E
        BY <1>3, <1>5, <4>1, Zenon
      <4> QED
        BY <2>2, <3>1, <4>2
    <3>2. CASE k = n
      <4>1. n > 1 /\ text[n] = <<>> /\ n - 1 \in 2 .. n - 1
        BY <2>1, <2>3, <3>2
      <4>2. text[n - 1] = <<>>
        BY <1>2, <1>5, <4>1, Zenon
      <4>3. n - 1 \in E
        BY <1>1, <4>1, <4>2, Zenon
      <4> QED
        BY <2>2, <3>2, <4>3
    <3>3. CASE k # 1 /\ k # n
      <4>1. k \in 2 .. n - 1
        BY <3>3
      <4> QED
        BY <1>1, <2>2, <2>3, <4>1, Zenon
    <3> QED
      BY <3>1, <3>2, <3>3
  <2> QED
    BY <1>0, <2>1, <2>3, Zenon DEF CutAt
<1>6. ASSUME ProperText(text) PROVE ~Lone(text) /\ E = {}
  <2>1. \A k \in 1 .. n : text[k] # <<>>
    BY <1>0, <1>6, Zenon DEF ProperText
  <2>2. \A k \in 2 .. n - 1 : k \in 1 .. n
    OBVIOUS
  <2>3. E = {}
    BY <1>1, <2>1, <2>2
  <2>4. n > 1 => 1 \in 1 .. n
    OBVIOUS
  <2>5. ~Lone(text)
    BY <1>0, <2>1, <2>4, Zenon DEF Lone, Colon
  <2> QED
    BY <2>3, <2>5
<1>7. ASSUME Sane(text, n), ~Lone(text), E = {}, Len(Flat(text)) = WORDS PROVE ProperText(text)
  <2>1. n > 1 => text[1] # <<>>
    BY <1>3, <1>7
  <2>2. ASSUME NEW k \in 1 .. n, text[k] = <<>> PROVE FALSE
    <3>1. CASE k = 1
      <4>1. n = 1 /\ 0 \in 0 .. Len(text) /\ 0 < Len(text) /\ text[0 + 1] = <<>>
        BY <1>0, <2>1, <2>2, <3>1
      <4>2. Flat(FirstOf(text, 0 + 1)) = Flat(FirstOf(text, 0))
        BY <4>1, FlatNext
      <4>3. 0 + 1 = Len(text)
        BY <1>0, <4>1
      <4>4. Flat(text) = <<>>
        BY <4>2, <4>3, FirstFacts, FlatEmpty
      <4>5. Len(<<>>) = 0
        OBVIOUS
      <4>6. 0 = WORDS
        BY <1>7, <4>4, <4>5
      <4> QED
        BY <4>6, WORDSNat
    <3>2. CASE k # 1 /\ k # n
      <4>1. k \in 2 .. n - 1
        BY <3>2
      <4> QED
        BY <1>1, <1>7, <2>2, <4>1
    <3>3. CASE k # 1 /\ k = n
      <4>1. n > 1 /\ text[n] = <<>>
        BY <2>2, <3>3
      <4>2. text[n - 1] = <<>>
        BY <1>2, <1>7, <4>1
      <4>3. n - 1 # 1
        BY <2>1, <4>1, <4>2
      <4>4. n - 1 \in 2 .. n - 1
        BY <4>1, <4>3
      <4> QED
        BY <1>1, <1>7, <4>2, <4>4
    <3> QED
      BY <3>1, <3>2, <3>3
  <2> QED
    BY <1>0, <2>2, Zenon DEF ProperText
<1> QED
  BY <1>0, <1>1, <1>4, <1>5, <1>6, <1>7, Zenon DEF Agree

FirstIs(tx, j) ==
    /\ FirstOf(tx, j) \in Seq(Group)
    /\ Len(FirstOf(tx, j)) = j
    /\ \A i \in 1 .. j : FirstOf(tx, j)[i] = tx[i]

LEMMA FirstsAre ==
    ASSUME NEW tx \in Seq(Group), NEW j \in 0 .. Len(tx)
    PROVE  FirstIs(tx, j)
BY FirstFacts DEF FirstIs

LEMMA AgreeEnded ==
    ASSUME NEW text \in Seq(Group), Ended(text), NEW tx, tx = SubSeq(text, 1, Len(text) - 1)
    PROVE  Agree(tx, text)
<1>0. PICK n \in Nat : n = Len(text) /\ \A k \in 1 .. n : text[k] \in Group
  BY SeqFacts
<1>1. PICK E : E = Empties(text, n) /\ \A k : k \in E <=> k \in 2 .. n - 1 /\ text[k] = <<>>
  BY <1>0, EmptiesAre
<1>2. PICK m \in Nat : m = n - 1 /\ m # 0 /\ n = m + 1
  BY <1>0 DEF Ended
<1>3. m \in 0 .. Len(text) /\ m < Len(text) /\ m \in 1 .. n
  BY <1>0, <1>2
<1>4. tx = FirstOf(text, m)
  BY <1>0, <1>2, Zenon DEF FirstOf
<1>5. tx \in Seq(Group) /\ Len(tx) = m /\ \A k \in 1 .. m : tx[k] = text[k]
  BY <1>3, <1>4, FirstFacts
<1>6. text[m + 1] = <<>> /\ Len(text[m]) = 1
  BY <1>0, <1>2 DEF Ended
<1>7. text[m] # <<>>
  <2>1. text[m] \in Group
    BY <1>0, <1>3
  <2> QED
    BY <1>6, <2>1, GroupFacts
<1>8. Flat(tx) = Flat(text)
  <2>1. Flat(FirstOf(text, m + 1)) = Flat(FirstOf(text, m))
    BY <1>3, <1>6, FlatNext
  <2>2. FirstOf(text, m + 1) = text
    BY <1>0, <1>2, FirstFacts
  <2> QED
    BY <1>4, <2>1, <2>2, Zenon
<1>9. Sane(tx, m) <=> Sane(text, n)
  <2>1. ASSUME NEW k \in 1 .. m PROVE Fit(tx[k], k = Len(tx)) <=> Fit(text[k], k = n)
    <3>1. tx[k] = text[k] /\ k # n
      BY <1>2, <1>5
    <3>2. CASE k = m
      <4>1. Len(text[k]) = 1
        BY <1>6, <3>2, Zenon
      <4>2. 1 # 2
        OBVIOUS
      <4> QED
        BY <3>1, <4>1, <4>2, Zenon DEF Fit
    <3>3. CASE k # m
      <4>1. k # Len(tx)
        BY <1>5, <3>3
      <4> QED
        BY <3>1, <4>1, Zenon DEF Fit
    <3> QED
      BY <3>2, <3>3
  <2>2. Sane(text, m + 1) <=> Sane(text, m) /\ Fit(text[m + 1], m + 1 = Len(text))
    BY <1>3, SaneNext
  <2>3. Fit(text[m + 1], m + 1 = Len(text))
    BY <1>6, Zenon DEF Fit
  <2>4. Sane(text, n) <=> Sane(text, m)
    BY <1>2, <2>2, <2>3, Zenon
  <2>5. Sane(text, m) <=> \A k \in 1 .. m : Fit(text[k], k = n)
    BY <1>0, Zenon DEF Sane
  <2>6. Sane(tx, m) <=> \A k \in 1 .. m : Fit(tx[k], k = Len(tx))
    BY Zenon DEF Sane
  <2> QED
    BY <2>1, <2>4, <2>5, <2>6, Zenon
<1>10. ASSUME NEW j \in E PROVE FirstOf(tx, j) = FirstOf(text, j)
  <2>1. j \in 2 .. n - 1
    BY <1>1
  <2>2. j \in 0 .. Len(text) /\ j \in 0 .. m
    BY <1>0, <1>2, <2>1
  <2>3. PICK p \in Seq(Group) : p = FirstOf(text, j) /\ Len(p) = j /\ \A i \in 1 .. j : p[i] = text[i]
    BY <2>2, FirstFacts
  <2>4. PICK q : q = FirstOf(tx, j)
    OBVIOUS
  <2>5. q \in Seq(Group) /\ Len(q) = j /\ \A i \in 1 .. j : q[i] = tx[i]
    <3>1. j \in 0 .. Len(tx) /\ tx \in Seq(Group)
      BY <1>5, <2>2, Zenon
    <3>2. FirstIs(tx, j)
      BY <3>1, FirstsAre, Zenon
    <3> QED
      BY <2>4, <3>2, Zenon DEF FirstIs
  <2>6. \A i \in 1 .. j : p[i] = q[i]
    <3>1. \A i \in 1 .. j : i \in 1 .. m
      BY <2>2
    <3> QED
      BY <1>5, <2>3, <2>5, <3>1, Zenon
  <2>7. p = q
    BY <2>3, <2>5, <2>6, SeqEqual
  <2> QED
    BY <2>3, <2>4, <2>7, Zenon
<1>11. ASSUME ~Lone(text), text[1] = <<>> PROVE 2 \in E /\ n > 2
  <2>1. Len(text) > 1
    BY DEF Ended
  <2> QED
    BY <1>0, <1>1, <1>11, <2>1, ColonGap, Zenon
<1>12. ASSUME NEW j, CutAt(tx, j) PROVE ~Lone(text) /\ E = {j}
  <2>1. /\ j \in 2 .. m - 1 /\ tx[j] = <<>>
        /\ \A k \in 1 .. m : tx[k] = <<>> => k = j \/ (k = 1 /\ j = 2) \/ (k = m /\ j = m - 1)
    BY <1>5, <1>12, Zenon DEF CutAt
  <2>2. j \in 1 .. m /\ j \in 2 .. n - 1
    BY <1>2, <2>1
  <2>3. j \in E
    BY <1>1, <1>5, <2>1, <2>2
  <2>4. ASSUME NEW i \in E PROVE i = j
    <3>1. i \in 2 .. n - 1 /\ text[i] = <<>>
      BY <1>1
    <3>2. i \in 1 .. m /\ i # 1
      BY <1>2, <3>1
    <3>3. i # m
      BY <1>7, <3>1
    <3>4. tx[i] = <<>>
      BY <1>5, <3>1, <3>2
    <3> QED
      BY <2>1, <3>2, <3>3, <3>4, Zenon
  <2>5. n > 2 /\ 1 \in 1 .. m /\ 1 # j /\ 1 # m /\ 2 \in 1 .. m
    BY <1>2, <2>1
  <2>6. ASSUME text[1] = <<>> PROVE text[2] = <<>>
    BY <1>5, <2>1, <2>5, <2>6, Zenon
  <2>7. ~Lone(text)
    BY <1>0, <2>5, <2>6, Zenon DEF Lone, Colon
  <2> QED
    BY <2>3, <2>4, <2>7
<1>13. ASSUME NEW j, ~Lone(text), E = {j} PROVE CutAt(tx, j)
  <2>1. j \in 2 .. n - 1 /\ text[j] = <<>>
    BY <1>1, <1>13
  <2>2. \A i \in E : i = j
    BY <1>13
  <2>3. j # m
    BY <1>7, <2>1
  <2>4. j \in 2 .. m - 1 /\ j \in 1 .. m
    BY <1>2, <2>1, <2>3
  <2>5. ASSUME NEW k \in 1 .. m, tx[k] = <<>> PROVE k = j \/ (k = 1 /\ j = 2)
    <3>1. text[k] = <<>>
      BY <1>5, <2>5
    <3>2. CASE k = 1
      <4>1. 2 \in E
        BY <1>11, <1>13, <3>1, <3>2, Zenon
      <4> QED
        BY <2>2, <3>2, <4>1
    <3>3. CASE k # 1
      <4>1. k \in 2 .. n - 1
        BY <1>2, <3>3
      <4> QED
        BY <1>1, <2>2, <3>1, <4>1, Zenon
    <3> QED
      BY <3>2, <3>3
  <2>6. tx[j] = <<>>
    BY <1>5, <2>1, <2>4
  <2> QED
    BY <1>5, <2>4, <2>5, <2>6, Zenon DEF CutAt
<1>14. ASSUME ProperText(tx) PROVE ~Lone(text) /\ E = {}
  <2>1. \A k \in 1 .. m : text[k] # <<>>
    BY <1>5, <1>14, Zenon DEF ProperText
  <2>2. (\A k \in 2 .. n - 1 : k \in 1 .. m) /\ 1 \in 1 .. m
    BY <1>2
  <2>3. E = {}
    BY <1>1, <2>1, <2>2
  <2>4. ~Lone(text)
    BY <2>1, <2>2, Zenon DEF Lone, Colon
  <2> QED
    BY <2>3, <2>4
<1>15. ASSUME ~Lone(text), E = {} PROVE ProperText(tx)
  <2>1. text[1] # <<>>
    BY <1>11, <1>15
  <2>2. ASSUME NEW k \in 1 .. m, tx[k] = <<>> PROVE FALSE
    <3>1. text[k] = <<>>
      BY <1>5, <2>2
    <3>2. k # 1
      BY <2>1, <3>1
    <3>3. k \in 2 .. n - 1
      BY <1>2, <3>2
    <3> QED
      BY <1>1, <1>15, <3>1, <3>3
  <2> QED
    BY <1>5, <2>2, Zenon DEF ProperText
<1> QED
  BY <1>0, <1>1, <1>5, <1>8, <1>9, <1>10, <1>12, <1>13, <1>14, <1>15, Zenon DEF Agree

LEMMA UnendedAgrees ==
    ASSUME NEW text \in Seq(Group)
    PROVE  Agree(Unended(text), text)
<1>1. CASE Ended(text)
  <2>1. Unended(text) = SubSeq(text, 1, Len(text) - 1)
    BY <1>1, Zenon DEF Unended, Ended
  <2> QED
    BY <1>1, <2>1, AgreeEnded
<1>2. CASE ~Ended(text)
  <2>1. Unended(text) = text
    BY <1>2, Zenon DEF Unended, Ended
  <2> QED
    BY <1>2, <2>1, AgreeSame, Zenon
<1> QED
  BY <1>1, <1>2

LEMMA OneOrder ==
    ASSUME NEW a \in Nat, NEW b \in Nat
    PROVE  /\ a > b => a # b /\ ~(a < b)
           /\ a < b => a # b /\ ~(a > b)
           /\ a = b => ~(a > b) /\ ~(a < b)
OBVIOUS

LEMMA NoneOneTwo ==
    ASSUME NEW X
    PROVE  (\E i, j \in X : i # j) \/ X = {} \/ \E j : X = {j}
<1> SUFFICES ASSUME X # {}, ~(\E i, j \in X : i # j)
             PROVE  \E j : X = {j}
  BY Zenon
<1>1. PICK j : j \in X
  OBVIOUS
<1>2. X = {j}
  BY <1>1
<1> QED
  BY <1>2

Spare(tx) == Len(Flat(tx)) = WORDS /\ \E k \in 1 .. Len(tx) : tx[k] = <<>>

(* A text is accepted exactly if it has a meaning, which is the answer.     *)
LEMMA PtonMeans ==
    ASSUME NEW text \in Seq(Group), ~Spare(Unended(text))
    PROVE  Meaning(Unended(text)) = {inet_pton6(text)} \ {NULL}
<1>0. PICK tx, n, answer, meaning :
         tx = Unended(text) /\ n = Len(text) /\ answer = inet_pton6(text) /\ meaning = Meaning(tx)
  OBVIOUS
<1>1. Agree(tx, text)
  BY <1>0, UnendedAgrees
<1>2. tx \in Seq(Group) /\ Flat(tx) = Flat(text) /\ (Sane(tx, Len(tx)) <=> Sane(text, n))
      /\ \A j \in Empties(text, n) : Flat(FirstOf(tx, j)) = Flat(FirstOf(text, j))
  BY <1>0, <1>1, Zenon DEF Agree
<1>3. ASSUME Sane(text, n)
      PROVE  /\ \A j : CutAt(tx, j) <=> ~Lone(text) /\ Empties(text, n) = {j}
             /\ ProperText(tx) => ~Lone(text) /\ Empties(text, n) = {}
             /\ ~Lone(text) /\ Empties(text, n) = {} /\ Len(Flat(text)) = WORDS => ProperText(tx)
  BY <1>0, <1>1, <1>3, Zenon DEF Agree
<1>4. MeaningOf(tx, meaning)
  BY <1>0, <1>2, MeaningCases, Zenon
<1>5. PtonAnswer(text, answer)
  BY <1>0, PtonAnswers, Zenon
<1>6. PICK l \in Nat : l = Len(Flat(text))
  BY GroupsAreWords, FlatWords
<1>7. l > WORDS \/ l = WORDS \/ l < WORDS
  BY <1>6, WORDSNat
<1>8. (l > WORDS => l # WORDS /\ ~(l < WORDS)) /\ (l < WORDS => l # WORDS /\ ~(l > WORDS))
      /\ (l = WORDS => ~(l > WORDS) /\ ~(l < WORDS))
  BY <1>6, WORDSNat, OneOrder, Zenon
<1>9. Wrong(text, n) <=> \/ ~Sane(text, n) \/ l > WORDS
                         \/ \E i, j \in Empties(text, n) : i # j
  <2>1. FirstOf(text, n) = text
    BY <1>0, FirstFacts
  <2> QED
    BY <1>6, <2>1, Zenon DEF Wrong
<1>10. answer \in Address => {answer} \ {NULL} = {answer}
  BY NullIsNoAddress
<1>11. answer = NULL => {answer} \ {NULL} = {}
  OBVIOUS
<1>12. CASE ~Sane(text, n)
  <2>1. answer = NULL
    BY <1>0, <1>5, <1>9, <1>12, Zenon DEF PtonAnswer
  <2>2. meaning = {}
    BY <1>2, <1>4, <1>12, Zenon DEF MeaningOf
  <2> QED
    BY <1>0, <1>11, <2>1, <2>2, Zenon
<1>13. CASE Sane(text, n) /\ (Lone(text) \/ \E i, j \in Empties(text, n) : i # j)
  <2>1. answer = NULL
    BY <1>0, <1>5, <1>9, <1>13, Zenon DEF PtonAnswer
  <2>2. \A j : (\E x, y \in Empties(text, n) : x # y) => Empties(text, n) # {j} /\ Empties(text, n) # {}
    OBVIOUS
  <2>3. ~ProperText(tx)
    BY <1>3, <1>13, <2>2, Zenon
  <2>4. ~(\E j : CutAt(tx, j))
    BY <1>3, <1>13, <2>2, Zenon
  <2>5. meaning = {}
    BY <1>4, <2>3, <2>4, Zenon DEF MeaningOf
  <2> QED
    BY <1>0, <1>11, <2>1, <2>5, Zenon
<1>14. CASE Sane(text, n) /\ ~Lone(text) /\ Empties(text, n) = {}
  <2>1. ~(\E i, j \in Empties(text, n) : i # j)
    BY <1>14
  <2>2. Wrong(text, n) <=> l > WORDS
    BY <1>9, <1>14, <2>1, Zenon
  <2>3. CASE l = WORDS
    <3>1. answer = Flat(text) /\ answer \in Address
      BY <1>0, <1>5, <1>6, <1>8, <1>14, <2>2, <2>3, Zenon DEF PtonAnswer
    <3>2. meaning = {Flat(text)}
      BY <1>2, <1>3, <1>4, <1>6, <1>14, <2>3, Zenon DEF MeaningOf
    <3> QED
      BY <1>0, <1>10, <3>1, <3>2, Zenon
  <2>4. CASE l # WORDS
    <3>1. answer = NULL
      BY <1>0, <1>5, <1>6, <1>14, <2>2, <2>4, Zenon DEF PtonAnswer
    <3>2. ~(\E j : CutAt(tx, j))
      <4>1. \A j : Empties(text, n) # {j}
        BY <1>14
      <4> QED
        BY <1>3, <1>14, <4>1, Zenon
    <3>3. meaning = {}
      BY <1>2, <1>4, <1>6, <1>14, <2>4, <3>2, Zenon DEF MeaningOf
    <3> QED
      BY <1>0, <1>11, <3>1, <3>3, Zenon
  <2> QED
    BY <2>3, <2>4
<1>15. ASSUME NEW j, Sane(text, n), ~Lone(text), Empties(text, n) = {j}
       PROVE  meaning = {answer} \ {NULL}
  <2>1. ~(\E x, y \in Empties(text, n) : x # y) /\ j \in Empties(text, n) /\ Empties(text, n) # {}
    BY <1>15
  <2>2. Wrong(text, n) <=> l > WORDS
    BY <1>9, <1>15, <2>1, Zenon
  <2>3. CutAt(tx, j)
    BY <1>3, <1>15, Zenon
  <2>4. meaning = IF l < WORDS THEN {Spaced(Flat(text), Len(Flat(FirstOf(tx, j))))} ELSE {}
    BY <1>2, <1>4, <1>6, <1>15, <2>3, Zenon DEF MeaningOf
  <2>5. CASE l < WORDS
    <3>1. answer = Spaced(Flat(text), Len(Flat(FirstOf(text, j)))) /\ answer \in Address
      BY <1>0, <1>5, <1>6, <1>8, <1>15, <2>1, <2>2, <2>5, Zenon DEF PtonAnswer
    <3>2. meaning = {answer}
      BY <1>2, <2>1, <2>4, <2>5, <3>1, Zenon
    <3> QED
      BY <1>10, <3>1, <3>2, Zenon
  <2>6. CASE l > WORDS
    <3>1. answer = NULL
      BY <1>0, <1>5, <2>2, <2>6, Zenon DEF PtonAnswer
    <3>2. meaning = {}
      BY <1>8, <2>4, <2>6, Zenon
    <3> QED
      BY <1>11, <3>1, <3>2, Zenon
  <2>7. CASE l = WORDS
    <3>1. j \in 1 .. Len(tx) /\ tx[j] = <<>>
      BY <1>2, <2>3, SeqFacts DEF CutAt
    <3>2. Spare(tx)
      BY <1>2, <1>6, <2>7, <3>1, Zenon DEF Spare
    <3> QED
      BY <1>0, <3>2, Zenon
  <2> QED
    BY <1>7, <2>5, <2>6, <2>7
<1>16. \/ \E i, j \in Empties(text, n) : i # j
       \/ Empties(text, n) = {}
       \/ \E j : Empties(text, n) = {j}
  BY NoneOneTwo, Zenon
<1> QED
  BY <1>0, <1>12, <1>13, <1>14, <1>15, <1>16, Zenon

-----------------------------------------------------------------------------
(* What the calls are called with, and the types of their answers.          *)

LEMMA NumberGroup ==
    ASSUME NEW x \in Nat
    PROVE  <<x>> \in Group
<1>1. <<x>> \in Seq(Nat) /\ Len(<<x>>) = 1
  BY OneWord
<1> QED
  BY <1>1 DEF Group, Words

LEMMA DottedGroup ==
    ASSUME NEW x \in Word, NEW y \in Word
    PROVE  <<x, y>> \in Group
<1>1. x \in Nat /\ y \in Nat
  BY MaxWordNat DEF Word
<1>2. <<x, y>> \in Seq(Nat) /\ Len(<<x, y>>) = 2 /\ <<x, y>>[1] = x /\ <<x, y>>[2] = y
  BY <1>1
<1> QED
  BY <1>2 DEF Group, Words

LEMMA SpelledGroups ==
    ASSUME NEW n \in 1 .. MaxGroups, NEW number \in [1 .. n -> BOOLEAN], NEW big, NEW dotted
    PROVE  Spelled(number, big, dotted) \in Seq(Group)
<1>1. n \in Nat /\ MaxGroups \in Nat /\ MaxGroups < MaxWord /\ MaxWord \in Nat
  BY InetAssumption, MaxWordNat
<1>2. PICK text : text = Spelled(number, big, dotted)
  OBVIOUS
<1>3. text = [k \in 1 .. n |-> CASE ~number[k] -> <<>>
                                 [] number[k] /\ k = big -> <<MaxWord + 1>>
                                 [] number[k] /\ k # big /\ k = dotted -> <<k, k + 1>>
                                 [] OTHER -> <<k>>]
  <2>1. DOMAIN number = 1 .. n
    OBVIOUS
  <2> QED
    BY <1>2, <2>1, Zenon DEF Spelled
<1>4. ASSUME NEW k \in 1 .. n PROVE text[k] \in Group
  <2>1. text[k] \in {<<>>, <<MaxWord + 1>>, <<k, k + 1>>, <<k>>}
    <3>1. text[k] = CASE ~number[k] -> <<>>
                      [] number[k] /\ k = big -> <<MaxWord + 1>>
                      [] number[k] /\ k # big /\ k = dotted -> <<k, k + 1>>
                      [] OTHER -> <<k>>
      BY <1>3, Zenon
    <3> QED
      BY <3>1, Zenon
  <2>2. k \in Nat /\ MaxWord + 1 \in Nat /\ k \in Word /\ k + 1 \in Word
    BY <1>1 DEF Word
  <2>3. <<MaxWord + 1>> \in Group /\ <<k>> \in Group
    BY <2>2, NumberGroup, Zenon
  <2>4. <<k, k + 1>> \in Group
    BY <2>2, DottedGroup, Zenon
  <2> QED
    BY <2>1, <2>3, <2>4, EmptyGroup, Zenon
<1>5. text \in [1 .. n -> Group]
  BY <1>3, <1>4, Zenon
<1> QED
  BY <1>1, <1>2, <1>5

LEMMA AtonType ==
    ASSUME NEW parts \in PartSeqs
    PROVE  inet_aton(parts) \in [1 .. 4 -> 0 .. ByteBase - 1] \cup {NULL}
<1>1. CASE Len(parts) = 5
  BY <1>1, AtonFive
<1>2. ASSUME NEW n \in 1 .. 4, parts \in [1 .. n -> Nat \cup {-1}], Len(parts) = n,
             \A k \in 1 .. n : parts[k] # -1
      PROVE  inet_aton(parts) \in [1 .. 4 -> 0 .. ByteBase - 1] \cup {NULL}
  <2>1. PICK a : a = Numbers(parts)
    OBVIOUS
  <2>2. \A k \in 1 .. n : parts[k] \in Nat
    BY <1>2
  <2>3. \A k \in 1 .. n : Strtoul(parts[k]) \in Nat
    <3>1. Power(4) \in Nat \ {0}
      BY Powers
    <3> QED
      BY <2>2, <3>1 DEF Strtoul
  <2>4. a \in [1 .. 4 -> Nat]
    <3>1. \A k \in 1 .. 4 : k <= n => k \in 1 .. n
      OBVIOUS
    <3>2. \A k \in 1 .. 4 : (IF k <= n THEN Strtoul(parts[k]) ELSE 0) \in Nat
      BY <2>3, <3>1
    <3>3. a = [k \in 1 .. 4 |-> IF k <= n THEN Strtoul(parts[k]) ELSE 0]
      BY <1>2, <2>1, Zenon DEF Numbers
    <3> QED
      BY <3>2, <3>3, Zenon
  <2>5. PICK z : z = Spread(a, n - 1)
    OBVIOUS
  <2>6. z \in [1 .. 4 -> Nat]
    BY <1>2, <2>4, <2>5, Spreads, Zenon DEF SpreadOf
  <2>7. inet_aton(parts) = NULL \/ (inet_aton(parts) = z /\ ~\E k \in 1 .. 4 : z[k] >= ByteBase)
    BY <1>2, <2>1, <2>5, AtonOf, Zenon
  <2>8. ASSUME ~\E k \in 1 .. 4 : z[k] >= ByteBase PROVE z \in [1 .. 4 -> 0 .. ByteBase - 1]
    <3>1. ByteBase \in Nat
      BY AtonAssumption
    <3>2. \A k \in 1 .. 4 : z[k] \in 0 .. ByteBase - 1
      BY <2>6, <2>8, <3>1
    <3> QED
      BY <2>6, <3>2
  <2> QED
    BY <2>7, <2>8, Zenon
<1>3. ASSUME NEW n \in 1 .. 4, Len(parts) = n, \E k \in 1 .. n : parts[k] = -1
      PROVE  inet_aton(parts) = NULL
  BY <1>3, AtonOf, Zenon
<1> QED
  BY <1>1, <1>2, <1>3, PartSeqsAre, Zenon

(* The state of the calls: an answer is that of its argument.               *)
InetInv ==
    \/ inet = NULL
    \/ /\ inet.call = "ntop" /\ inet.of \in Address
       /\ inet.answer = inet_ntop6(inet.of)
    \/ /\ inet.call = "pton" /\ inet.of \in Seq(Group)
       /\ inet.answer = inet_pton6(inet.of)
    \/ /\ inet.call = "aton" /\ inet.of \in PartSeqs
       /\ inet.answer = inet_aton(inet.of)

LEMMA InetInvStep == InetInv /\ [InetNext]_inetVars => InetInv'
<1> SUFFICES ASSUME InetInv, [InetNext]_inetVars PROVE InetInv'
  OBVIOUS
<1>1. ASSUME NEW a \in [1 .. WORDS -> InetWords], Ntop(a) PROVE InetInv'
  <2>1. a \in Address
    BY InetAssumption DEF Address
  <2>2. inet'.call = "ntop" /\ inet'.of = a /\ inet'.answer = inet_ntop6(a)
    BY <1>1 DEF Ntop
  <2> QED
    BY <2>1, <2>2, Zenon DEF InetInv
<1>2. ASSUME NEW n \in 1 .. MaxGroups, NEW number \in [1 .. n -> BOOLEAN], NEW big, NEW dotted,
             Pton(Spelled(number, big, dotted))
      PROVE  InetInv'
  <2>1. PICK text : text = Spelled(number, big, dotted)
    OBVIOUS
  <2>2. inet'.call = "pton" /\ inet'.of = text /\ inet'.answer = inet_pton6(text)
    BY <1>2, <2>1 DEF Pton
  <2>3. text \in Seq(Group)
    BY <2>1, SpelledGroups, Zenon
  <2> QED
    BY <2>2, <2>3, Zenon DEF InetInv
<1>3. ASSUME NEW parts \in PartSeqs, Aton(parts) PROVE InetInv'
  <2>1. inet'.call = "aton" /\ inet'.of = parts /\ inet'.answer = inet_aton(parts)
    BY <1>3 DEF Aton
  <2> QED
    BY <2>1, Zenon DEF InetInv
<1>4. CASE InetDone
  BY <1>4, Zenon DEF InetDone, InetInv
<1>5. CASE UNCHANGED inetVars
  <2>1. inet' = inet
    BY <1>5 DEF inetVars
  <2> QED
    BY <2>1, Zenon DEF InetInv
<1> QED
  BY <1>1, <1>2, <1>3, <1>4, <1>5, Zenon DEF InetNext

LEMMA InetInvType == InetInv => InetTypeOK
<1> SUFFICES ASSUME InetInv, inet # NULL
             PROVE  CASE inet.call = "ntop" -> inet.of \in Address
                      [] inet.call = "pton" -> inet.answer \in Address \cup {NULL}
                      [] inet.call = "aton" ->
                             inet.answer \in [1 .. 4 -> 0 .. ByteBase - 1] \cup {NULL}
  BY Zenon DEF InetTypeOK
<1>0. PICK call : call = inet.call
  OBVIOUS
<1>1. CASE call = "ntop"
  <2>1. inet.of \in Address
    BY <1>0, <1>1 DEF InetInv
  <2> QED
    BY <1>0, <1>1, <2>1
<1>2. CASE call = "pton"
  <2>1. inet.of \in Seq(Group) /\ inet.answer = inet_pton6(inet.of)
    BY <1>0, <1>2 DEF InetInv
  <2>2. inet.answer \in Address \cup {NULL}
    BY <2>1, PtonAnswers, Zenon
  <2> QED
    BY <1>0, <1>2, <2>2
<1>3. CASE call = "aton"
  <2>1. inet.of \in PartSeqs /\ inet.answer = inet_aton(inet.of)
    BY <1>0, <1>3 DEF InetInv
  <2>2. inet.answer \in [1 .. 4 -> 0 .. ByteBase - 1] \cup {NULL}
    BY <2>1, AtonType, Zenon
  <2> QED
    BY <1>0, <1>3, <2>2
<1> QED
  BY <1>0, <1>1, <1>2, <1>3 DEF InetInv

LEMMA InetInvPton == InetInv => PtonExact
<1> SUFFICES ASSUME InetInv, InetAnswered("pton") PROVE PtonExact
  BY Zenon DEF PtonExact
<1>1. inet.of \in Seq(Group) /\ inet.answer = inet_pton6(inet.of)
  BY DEF InetInv, InetAnswered
<1>2. PICK text, answer : text = inet.of /\ answer = inet.answer
  OBVIOUS
<1>3. ~Spare(Unended(text)) => Meaning(Unended(text)) = {answer} \ {NULL}
  BY <1>1, <1>2, PtonMeans, Zenon
<1> QED
  BY <1>2, <1>3, Zenon DEF PtonExact, Spare

LEMMA InetInvAton == InetInv => AtonInv
<1> SUFFICES ASSUME InetInv, InetAnswered("aton") PROVE AtonGood(inet.of, inet.answer)
  BY Zenon DEF AtonInv
<1>1. inet.of \in PartSeqs /\ inet.answer = inet_aton(inet.of)
  BY DEF InetInv, InetAnswered
<1> QED
  BY <1>1, AtonIsGood, Zenon

-----------------------------------------------------------------------------
(* The run of zero words that inet_ntop6 shortens.                          *)

(* A run that is open after i words, from b on; none is b = 0.              *)
CurOf(a, i, b, l) ==
    \/ b = 0 /\ l = 0 /\ (i = 0 \/ a[i] # 0)
    \/ b \in 1 .. i /\ l = i - b + 1 /\ ZeroRun(a, b, i) /\ (b = 1 \/ a[b - 1] # 0)

(* The first of the longest runs of the first i words that begin before c.  *)
LongestRun(a, i, b, l, c) ==
    \A p, q \in 1 .. i : p <= q /\ p < c /\ ZeroRun(a, p, q) =>
                            q - p + 1 <= l /\ (q - p + 1 = l => b <= p)

BestOf(a, i, b, l, c) ==
    /\ \/ b = 0 /\ l = 0
       \/ b \in 1 .. i /\ l > 0 /\ b + l <= c /\ ZeroRun(a, b, b + l - 1)
    /\ LongestRun(a, i, b, l, c)

LEMMA ClosedBest ==
    ASSUME NEW a, NEW i \in Nat, NEW b \in Nat, NEW l \in Nat, NEW cb \in Nat, NEW cl \in Nat,
           CurOf(a, i, cb, cl), BestOf(a, i, b, l, IF cb = 0 THEN i + 1 ELSE cb)
    PROVE  IF cl > l THEN BestOf(a, i, cb, cl, i + 1) ELSE BestOf(a, i, b, l, i + 1)
<1>1. CASE cb = 0
  <2>1. cl = 0 /\ ~(cl > l)
    BY <1>1 DEF CurOf
  <2> QED
    BY <1>1, <2>1, Zenon
<1>2. CASE cb # 0
  <2>1. cb \in 1 .. i /\ cl = i - cb + 1 /\ ZeroRun(a, cb, i)
    BY <1>2, Zenon DEF CurOf
  <2>2. /\ (b = 0 /\ l = 0) \/ (b \in 1 .. i /\ l > 0 /\ b + l <= cb /\ ZeroRun(a, b, b + l - 1))
        /\ LongestRun(a, i, b, l, cb)
    BY <1>2, Zenon DEF BestOf
  <2>3. ASSUME NEW p \in 1 .. i, NEW q \in 1 .. i, p <= q, p < cb, ZeroRun(a, p, q)
        PROVE  q - p + 1 <= l /\ (q - p + 1 = l => b <= p)
    BY <2>2, <2>3, Zenon DEF LongestRun
  <2>4. CASE cl > l
    <3>1. ASSUME NEW p \in 1 .. i, NEW q \in 1 .. i, p <= q, p < i + 1, ZeroRun(a, p, q)
          PROVE  q - p + 1 <= cl /\ (q - p + 1 = cl => cb <= p)
      <4>1. CASE p < cb
        <5>1. q - p + 1 <= l
          BY <2>3, <3>1, <4>1, Zenon
        <5> QED
          BY <2>4, <5>1
      <4>2. CASE ~(p < cb)
        BY <2>1, <4>2
      <4> QED
        BY <4>1, <4>2
    <3>2. LongestRun(a, i, cb, cl, i + 1)
      BY <3>1, Zenon DEF LongestRun
    <3>3. cl > 0 /\ cb + cl <= i + 1 /\ cb + cl - 1 = i
      BY <2>1, <2>4
    <3>4. BestOf(a, i, cb, cl, i + 1)
      BY <2>1, <3>2, <3>3, Zenon DEF BestOf
    <3> QED
      BY <2>4, <3>4, Zenon
  <2>5. CASE ~(cl > l)
    <3>1. b \in 1 .. i /\ l > 0 /\ b + l <= cb /\ ZeroRun(a, b, b + l - 1)
      <4>1. l # 0
        BY <2>1, <2>5
      <4> QED
        BY <2>2, <4>1, Zenon
    <3>2. ASSUME NEW p \in 1 .. i, NEW q \in 1 .. i, p <= q, p < i + 1, ZeroRun(a, p, q)
          PROVE  q - p + 1 <= l /\ (q - p + 1 = l => b <= p)
      <4>1. CASE p < cb
        BY <2>3, <3>2, <4>1, Zenon
      <4>2. CASE ~(p < cb)
        BY <2>1, <2>5, <3>1, <4>2
      <4> QED
        BY <4>1, <4>2
    <3>3. LongestRun(a, i, b, l, i + 1)
      BY <3>2, Zenon DEF LongestRun
    <3>4. b + l <= i + 1
      BY <2>1, <3>1
    <3>5. BestOf(a, i, b, l, i + 1)
      BY <3>1, <3>3, <3>4, Zenon DEF BestOf
    <3> QED
      BY <2>5, <3>5, Zenon
  <2> QED
    BY <2>4, <2>5
<1> QED
  BY <1>1, <1>2

LEMMA ZeroIn ==
    ASSUME NEW a, NEW p, NEW q, ZeroRun(a, p, q), NEW k \in p .. q
    PROVE  a[k] = 0
BY DEF ZeroRun

(* One word more that no run before c reaches.                              *)
LEMMA BestNext ==
    ASSUME NEW a, NEW i \in Nat, NEW b \in Nat, NEW l \in Nat, NEW c \in Nat, NEW d \in Nat,
           BestOf(a, i, b, l, c), c <= d, d <= i + 2,
           \A p \in 1 .. i + 1 : p < d => ~ZeroRun(a, p, i + 1),
           c = d \/ (c = i + 1 /\ d = i + 2)
    PROVE  BestOf(a, i + 1, b, l, d)
<1>1. /\ (b = 0 /\ l = 0) \/ (b \in 1 .. i /\ l > 0 /\ b + l <= c /\ ZeroRun(a, b, b + l - 1))
      /\ LongestRun(a, i, b, l, c)
  BY Zenon DEF BestOf
<1>2. ASSUME NEW p \in 1 .. i + 1, NEW q \in 1 .. i + 1, p <= q, p < d, ZeroRun(a, p, q)
      PROVE  q - p + 1 <= l /\ (q - p + 1 = l => b <= p)
  <2>1. q # i + 1
    BY <1>2, Zenon
  <2>2. q \in 1 .. i /\ p \in 1 .. i /\ p < c
    BY <1>2, <2>1
  <2> QED
    BY <1>1, <1>2, <2>2, Zenon DEF LongestRun
<1>3. LongestRun(a, i + 1, b, l, d)
  BY <1>2, Zenon DEF LongestRun
<1>4. CASE b = 0 /\ l = 0
  BY <1>3, <1>4, Zenon DEF BestOf
<1>5. CASE b \in 1 .. i /\ l > 0 /\ b + l <= c /\ ZeroRun(a, b, b + l - 1)
  <2>1. b \in 1 .. i + 1 /\ b + l <= d
    BY <1>5
  <2> QED
    BY <1>3, <1>5, <2>1, Zenon DEF BestOf
<1> QED
  BY <1>1, <1>4, <1>5

Run == [base : Nat, len : Nat]
RunScan == [cur : Run, best : Run]
StartRunScan == [cur |-> NoRun, best |-> NoRun]

(* The loop as it is written.                                               *)
ScanLoop(f, a) ==
    f = [i \in 0 .. WORDS |-> IF i = 0 THEN StartRunScan ELSE RunTurn(a, i, f[i - 1])]

BestOfScan(s) == IF Closed(s).best.len < 2 THEN NoRun ELSE Closed(s).best

LEMMA NoRunIs == NoRun \in Run /\ NoRun.base = 0 /\ NoRun.len = 0
BY DEF NoRun, Run

LEMMA RunFacts ==
    ASSUME NEW r \in Run
    PROVE  r.base \in Nat /\ r.len \in Nat /\ (r = NoRun <=> r.base = 0 /\ r.len = 0)
BY DEF Run, NoRun

LEMMA RunScanFacts ==
    ASSUME NEW s \in RunScan
    PROVE  s.cur \in Run /\ s.best \in Run
BY DEF RunScan

LEMMA ClosedIs ==
    ASSUME NEW s \in RunScan
    PROVE  /\ Closed(s) \in RunScan /\ Closed(s).cur = NoRun
           /\ Closed(s).best = IF s.cur.len > s.best.len THEN s.cur ELSE s.best
<1>1. s.cur \in Run /\ s.best \in Run /\ NoRun \in Run
  BY RunScanFacts, NoRunIs
<1>2. CASE s.cur.len > s.best.len
  <2>1. Closed(s) = [cur |-> NoRun, best |-> s.cur]
    BY <1>2, Zenon DEF Closed, Better
  <2> QED
    BY <1>1, <1>2, <2>1 DEF RunScan
<1>3. CASE ~(s.cur.len > s.best.len)
  <2>1. Closed(s) = [s EXCEPT !.cur = NoRun]
    BY <1>3, Zenon DEF Closed, Better
  <2>2. Closed(s) \in RunScan /\ Closed(s).cur = NoRun /\ Closed(s).best = s.best
    BY <1>1, <2>1 DEF RunScan
  <2> QED
    BY <1>3, <2>2, Zenon
<1> QED
  BY <1>2, <1>3

TurnOf(a, i, s, r) ==
    /\ r \in RunScan
    /\ a[i] # 0 => r.cur = NoRun /\ r.best = IF s.cur.len > s.best.len THEN s.cur ELSE s.best
    /\ a[i] = 0 => /\ r.best = s.best
                   /\ s.cur = NoRun => r.cur.base = i /\ r.cur.len = 1
                   /\ s.cur # NoRun => r.cur.base = s.cur.base /\ r.cur.len = s.cur.len + 1

LEMMA RunTurnIs ==
    ASSUME NEW a, NEW i \in Nat, NEW s \in RunScan, NEW r, r = RunTurn(a, i, s)
    PROVE  TurnOf(a, i, s, r)
<1>1. CASE a[i] # 0
  <2>1. r = Closed(s)
    BY <1>1, Zenon DEF RunTurn
  <2> QED
    BY <1>1, <2>1, ClosedIs, Zenon DEF TurnOf
<1>2. CASE a[i] = 0
  <2>0. PICK x : x = Grown(s.cur, i)
    OBVIOUS
  <2>1. r = [s EXCEPT !.cur = x]
    BY <1>2, <2>0, Zenon DEF RunTurn
  <2>2. x \in Run /\ (s.cur = NoRun => x.base = i /\ x.len = 1)
                  /\ (s.cur # NoRun => x.base = s.cur.base /\ x.len = s.cur.len + 1)
    <3>1. CASE s.cur = NoRun
      BY <2>0, <3>1 DEF Run, Grown
    <3>2. CASE s.cur # NoRun
      <4>1. PICK y \in Run : y = s.cur
        BY RunScanFacts
      <4>2. x = [y EXCEPT !.len = y.len + 1]
        BY <2>0, <3>2, <4>1, Zenon DEF Grown
      <4>3. x \in Run /\ x.base = y.base /\ x.len = y.len + 1
        BY <4>2 DEF Run
      <4> QED
        BY <3>2, <4>1, <4>3, Zenon
    <3> QED
      BY <3>1, <3>2
  <2>3. r \in RunScan /\ r.best = s.best /\ r.cur = x
    BY <2>1, <2>2 DEF RunScan
  <2> QED
    BY <1>2, <2>2, <2>3, Zenon DEF TurnOf
<1> QED
  BY <1>1, <1>2

RunScanInv(a, i, s) ==
    /\ CurOf(a, i, s.cur.base, s.cur.len)
    /\ BestOf(a, i, s.best.base, s.best.len, IF s.cur.base = 0 THEN i + 1 ELSE s.cur.base)

LEMMA RunScanStarts ==
    ASSUME NEW a
    PROVE  StartRunScan \in RunScan /\ RunScanInv(a, 0, StartRunScan)
<1>1. StartRunScan \in RunScan /\ StartRunScan.cur = NoRun /\ StartRunScan.best = NoRun
  BY NoRunIs DEF StartRunScan, RunScan
<1>2. CurOf(a, 0, 0, 0)
  BY DEF CurOf
<1>3. BestOf(a, 0, 0, 0, 0 + 1)
  <2>1. LongestRun(a, 0, 0, 0, 0 + 1)
    BY DEF LongestRun
  <2> QED
    BY <2>1 DEF BestOf
<1> QED
  BY <1>1, <1>2, <1>3, NoRunIs, Zenon DEF RunScanInv

LEMMA RunScanCloses ==
    ASSUME NEW a, NEW i \in Nat, NEW s \in RunScan, RunScanInv(a, i, s),
           NEW best \in Run, best = IF s.cur.len > s.best.len THEN s.cur ELSE s.best
    PROVE  BestOf(a, i, best.base, best.len, i + 1)
<1>1. PICK b \in Nat, l \in Nat, cb \in Nat, cl \in Nat :
         b = s.best.base /\ l = s.best.len /\ cb = s.cur.base /\ cl = s.cur.len
  BY RunScanFacts, RunFacts
<1>2. CurOf(a, i, cb, cl) /\ BestOf(a, i, b, l, IF cb = 0 THEN i + 1 ELSE cb)
  BY <1>1, Zenon DEF RunScanInv
<1>3. IF cl > l THEN BestOf(a, i, cb, cl, i + 1) ELSE BestOf(a, i, b, l, i + 1)
  BY <1>2, ClosedBest
<1> QED
  BY <1>1, <1>3, Zenon

LEMMA RunScanNext ==
    ASSUME NEW a, NEW i \in Nat, NEW s \in RunScan, RunScanInv(a, i, s),
           NEW r, r = RunTurn(a, i + 1, s)
    PROVE  r \in RunScan /\ RunScanInv(a, i + 1, r)
<1>0. i + 1 \in Nat
  OBVIOUS
<1>1. /\ r \in RunScan
      /\ a[i + 1] # 0 => r.cur = NoRun /\ r.best = IF s.cur.len > s.best.len THEN s.cur ELSE s.best
      /\ a[i + 1] = 0 => /\ r.best = s.best
                         /\ s.cur = NoRun => r.cur.base = i + 1 /\ r.cur.len = 1
                         /\ s.cur # NoRun => r.cur.base = s.cur.base /\ r.cur.len = s.cur.len + 1
  <2>1. TurnOf(a, i + 1, s, r)
    BY <1>0, RunTurnIs, Zenon
  <2> QED
    BY <2>1, Zenon DEF TurnOf
<1>2. PICK b \in Nat, l \in Nat, cb \in Nat, cl \in Nat :
         b = s.best.base /\ l = s.best.len /\ cb = s.cur.base /\ cl = s.cur.len
  BY RunScanFacts, RunFacts
<1>3. CurOf(a, i, cb, cl) /\ BestOf(a, i, b, l, IF cb = 0 THEN i + 1 ELSE cb)
  BY <1>2, Zenon DEF RunScanInv
<1>4. s.cur = NoRun <=> cb = 0 /\ cl = 0
  BY <1>2, RunScanFacts, RunFacts, Zenon
<1>5. CASE a[i + 1] # 0
  <2>1. PICK nb \in Nat, nl \in Nat : nb = r.best.base /\ nl = r.best.len
    BY <1>1, RunScanFacts, RunFacts
  <2>2. r.cur.base = 0 /\ r.cur.len = 0
    BY <1>1, <1>5, NoRunIs
  <2>3. BestOf(a, i, nb, nl, i + 1)
    <3>1. r.best \in Run
      BY <1>1, RunScanFacts
    <3> QED
      BY <1>1, <1>5, <2>1, <3>1, RunScanCloses, Zenon
  <2>4. ASSUME NEW p \in 1 .. i + 1, ZeroRun(a, p, i + 1) PROVE FALSE
    <3>1. i + 1 \in p .. i + 1
      OBVIOUS
    <3> QED
      BY <1>5, <2>4, <3>1, ZeroIn
  <2>5. BestOf(a, i + 1, nb, nl, i + 2)
    <3>1. i + 1 \in Nat /\ i + 2 \in Nat /\ i + 1 <= i + 2 /\ i + 2 <= i + 2
      OBVIOUS
    <3> QED
      BY <2>3, <2>4, <3>1, BestNext, Zenon
  <2>6. BestOf(a, i + 1, nb, nl, (i + 1) + 1)
    <3>1. (i + 1) + 1 = i + 2
      OBVIOUS
    <3> QED
      BY <2>5, <3>1, Zenon
  <2>7. CurOf(a, i + 1, 0, 0)
    BY <1>5, Zenon DEF CurOf
  <2> QED
    BY <1>1, <2>1, <2>2, <2>6, <2>7, Zenon DEF RunScanInv
<1>6. CASE a[i + 1] = 0 /\ cb = 0
  <2>1. cl = 0 /\ (i = 0 \/ a[i] # 0)
    BY <1>3, <1>6 DEF CurOf
  <2>2. r.cur.base = i + 1 /\ r.cur.len = 1 /\ r.best = s.best
    BY <1>1, <1>4, <1>6, <2>1, Zenon
  <2>3. CurOf(a, i + 1, i + 1, 1)
    <3>1. ZeroRun(a, i + 1, i + 1)
      BY <1>6 DEF ZeroRun
    <3>2. i + 1 \in 1 .. i + 1 /\ 1 = (i + 1) - (i + 1) + 1
      OBVIOUS
    <3>3. i + 1 = 1 \/ a[(i + 1) - 1] # 0
      BY <2>1
    <3> QED
      BY <3>1, <3>2, <3>3, Zenon DEF CurOf
  <2>4. ASSUME NEW p \in 1 .. i + 1, p < i + 1, ZeroRun(a, p, i + 1) PROVE FALSE
    <3>1. i \in p .. i + 1 /\ i # 0
      BY <2>4
    <3>2. a[i] = 0
      BY <2>4, <3>1, ZeroIn
    <3> QED
      BY <2>1, <3>1, <3>2
  <2>5. BestOf(a, i + 1, b, l, i + 1)
    <3>1. i + 1 \in Nat /\ i + 1 <= i + 1 /\ i + 1 <= i + 2
      OBVIOUS
    <3>2. BestOf(a, i, b, l, i + 1)
      BY <1>3, <1>6, Zenon
    <3> QED
      BY <2>4, <3>1, <3>2, BestNext, Zenon
  <2>6. i + 1 # 0
    OBVIOUS
  <2> QED
    BY <1>1, <1>2, <2>2, <2>3, <2>5, <2>6, Zenon DEF RunScanInv
<1>7. CASE a[i + 1] = 0 /\ cb # 0
  <2>1. cb \in 1 .. i /\ cl = i - cb + 1 /\ ZeroRun(a, cb, i) /\ (cb = 1 \/ a[cb - 1] # 0)
    BY <1>3, <1>7, Zenon DEF CurOf
  <2>2. r.cur.base = cb /\ r.cur.len = cl + 1 /\ r.best = s.best
    BY <1>1, <1>2, <1>4, <1>7, Zenon
  <2>3. CurOf(a, i + 1, cb, cl + 1)
    <3>1. ZeroRun(a, cb, i + 1)
      <4>1. ASSUME NEW k \in cb .. i + 1 PROVE a[k] = 0
        <5>1. k \in cb .. i \/ k = i + 1
          BY <2>1
        <5> QED
          BY <1>7, <2>1, <5>1, ZeroIn
      <4> QED
        BY <4>1 DEF ZeroRun
    <3>2. cb \in 1 .. i + 1 /\ cl + 1 = (i + 1) - cb + 1
      BY <2>1
    <3> QED
      BY <2>1, <3>1, <3>2, Zenon DEF CurOf
  <2>4. ASSUME NEW p \in 1 .. i + 1, p < cb, ZeroRun(a, p, i + 1) PROVE FALSE
    <3>1. cb - 1 \in p .. i + 1 /\ cb # 1
      BY <2>1, <2>4
    <3>2. a[cb - 1] = 0
      BY <2>4, <3>1, ZeroIn
    <3> QED
      BY <2>1, <3>1, <3>2
  <2>5. BestOf(a, i + 1, b, l, cb)
    <3>1. cb <= cb /\ cb <= i + 2
      BY <2>1
    <3>2. BestOf(a, i, b, l, cb)
      BY <1>3, <1>7, Zenon
    <3> QED
      BY <2>4, <3>1, <3>2, BestNext, Zenon
  <2> QED
    BY <1>1, <1>2, <1>7, <2>2, <2>3, <2>5, Zenon DEF RunScanInv
<1> QED
  BY <1>5, <1>6, <1>7

Scans(f, a) ==
    /\ f \in [0 .. WORDS -> RunScan] /\ f[0] = StartRunScan
    /\ \A i \in 1 .. WORDS : f[i] = RunTurn(a, i, f[i - 1])

LEMMA RunTurnType ==
    ASSUME NEW a, NEW i \in Nat, NEW s \in RunScan
    PROVE  RunTurn(a, i, s) \in RunScan
<1>1. PICK r : r = RunTurn(a, i, s)
  OBVIOUS
<1>2. TurnOf(a, i, s, r)
  BY <1>1, RunTurnIs, Zenon
<1> QED
  BY <1>1, <1>2, Zenon DEF TurnOf

LEMMA LoopScans ==
    ASSUME NEW a, NEW f, ScanLoop(f, a)
    PROVE  Scans(f, a)
<1>0. PICK n \in Nat : n = WORDS
  BY WORDSNat
<1>1. f = [i \in 0 .. n |-> IF i = 0 THEN StartRunScan ELSE RunTurn(a, i, f[i - 1])]
  BY <1>0, Zenon DEF ScanLoop
<1>2. f[0] = StartRunScan
  BY <1>1
<1>3. ASSUME NEW i \in 1 .. n PROVE f[i] = RunTurn(a, i, f[i - 1])
  <2>1. i \in 0 .. n /\ i # 0
    OBVIOUS
  <2> QED
    BY <1>1, <2>1, Zenon
<1>4. PICK A : A = {i \in 0 .. n : f[i] \in RunScan}
  OBVIOUS
<1>5. 0 \in A
  BY <1>2, <1>4, RunScanStarts
<1>6. ASSUME NEW i \in 0 .. n, i < n, i \in A PROVE i + 1 \in A
  <2>1. i + 1 \in 0 .. n /\ i + 1 \in 1 .. n /\ (i + 1) - 1 = i /\ i + 1 \in Nat
    BY <1>6
  <2>2. f[i + 1] = RunTurn(a, i + 1, f[i])
    BY <1>3, <2>1
  <2>3. f[i] \in RunScan
    BY <1>4, <1>6
  <2>4. f[i + 1] \in RunScan
    BY <2>1, <2>2, <2>3, RunTurnType
  <2> QED
    BY <1>4, <2>1, <2>4
<1>7. \A i \in 0 .. n : i \in A
  BY <1>5, <1>6, Turns
<1>8. f \in [0 .. n -> RunScan]
  BY <1>1, <1>4, <1>7
<1> QED
  BY <1>0, <1>2, <1>3, <1>8 DEF Scans

LEMMA ScanLoopExists ==
    ASSUME NEW a
    PROVE  \E f : ScanLoop(f, a)
<1>0. PICK n \in Nat : n = WORDS
  BY WORDSNat
<1>1. PICK G : G = [i \in 1 .. n |-> [s \in RunScan |-> RunTurn(a, i, s)]]
  OBVIOUS
<1>2. ASSUME NEW i \in 1 .. n, NEW s \in RunScan PROVE RunTurn(a, i, s) \in RunScan
  <2>1. i \in Nat
    OBVIOUS
  <2> QED
    BY <2>1, RunTurnType
<1>3. G \in [1 .. n -> [RunScan -> RunScan]]
  BY <1>1, <1>2
<1>4. PICK g \in [0 .. n -> RunScan] : Iteration(g, n, StartRunScan, G)
  BY <1>3, RunScanStarts, Iterates
<1>5. g[0] = StartRunScan
  BY <1>4 DEF Iteration
<1>6. ASSUME NEW i \in 1 .. n PROVE g[i] = RunTurn(a, i, g[i - 1])
  <2>1. g[i] = G[i][g[i - 1]]
    BY <1>4 DEF Iteration
  <2>2. g[i - 1] \in RunScan
    BY <1>4
  <2>3. G[i] = [s \in RunScan |-> RunTurn(a, i, s)]
    BY <1>1
  <2> QED
    BY <2>1, <2>2, <2>3
<1>7. ASSUME NEW i \in 0 .. n
      PROVE  g[i] = IF i = 0 THEN StartRunScan ELSE RunTurn(a, i, g[i - 1])
  <2>1. CASE i = 0
    BY <1>5, <2>1
  <2>2. CASE i # 0
    <3>1. i \in 1 .. n
      BY <2>2
    <3> QED
      BY <1>6, <2>2, <3>1, Zenon
  <2> QED
    BY <2>1, <2>2
<1>8. g = [i \in 0 .. n |-> IF i = 0 THEN StartRunScan ELSE RunTurn(a, i, g[i - 1])]
  <2>1. PICK h : h = [i \in 0 .. n |-> IF i = 0 THEN StartRunScan ELSE RunTurn(a, i, g[i - 1])]
    OBVIOUS
  <2>2. \A i \in 0 .. n : h[i] = g[i]
    BY <1>7, <2>1
  <2>3. g = h
    BY <1>4, <2>1, <2>2
  <2> QED
    BY <2>1, <2>3, Zenon
<1> QED
  BY <1>0, <1>8, Zenon DEF ScanLoop

LEMMA BestRunScans ==
    ASSUME NEW a
    PROVE  \E f : Scans(f, a) /\ BestRun(a) = BestOfScan(f[WORDS])
<1>1. PICK g : ScanLoop(g, a)
  BY ScanLoopExists
<1>2. PICK f : f = CHOOSE h : h = [i \in 0 .. WORDS |->
                                     IF i = 0 THEN [cur |-> NoRun, best |-> NoRun]
                                     ELSE RunTurn(a, i, h[i - 1])]
  OBVIOUS
<1>3. ScanLoop(f, a)
  <2>1. g = [i \in 0 .. WORDS |-> IF i = 0 THEN [cur |-> NoRun, best |-> NoRun]
                                  ELSE RunTurn(a, i, g[i - 1])]
    BY <1>1, Zenon DEF ScanLoop, StartRunScan
  <2>2. f = [i \in 0 .. WORDS |-> IF i = 0 THEN [cur |-> NoRun, best |-> NoRun]
                                  ELSE RunTurn(a, i, f[i - 1])]
    BY <1>2, <2>1, Zenon
  <2> QED
    BY <2>2, Zenon DEF ScanLoop, StartRunScan
<1>4. BestRun(a) = BestOfScan(f[WORDS])
  <2>1. BestRun(a) = BestOfScan((CHOOSE h : h = [i \in 0 .. WORDS |->
                                     IF i = 0 THEN [cur |-> NoRun, best |-> NoRun]
                                     ELSE RunTurn(a, i, h[i - 1])])[WORDS])
    BY DEF BestRun, BestOfScan
  <2> QED
    BY <1>2, <2>1, Zenon
<1> QED
  BY <1>3, <1>4, LoopScans

(* The run that is shortened, or none.                                      *)
BestIs(a, r) ==
    \/ /\ r = NoRun
       /\ \A p, q \in 1 .. WORDS : p < q => ~ZeroRun(a, p, q)
    \/ /\ r.base \in 1 .. WORDS /\ r.len >= 2 /\ r.base + r.len <= WORDS + 1
       /\ ZeroRun(a, r.base, r.base + r.len - 1)
       /\ LongestRun(a, WORDS, r.base, r.len, WORDS + 1)

LEMMA BestRunIs ==
    ASSUME NEW a
    PROVE  BestRun(a) \in Run /\ BestIs(a, BestRun(a))
<1>0. PICK n \in Nat : n = WORDS
  BY WORDSNat
<1>1. PICK f : Scans(f, a) /\ BestRun(a) = BestOfScan(f[n])
  BY <1>0, BestRunScans
<1>2. f \in [0 .. n -> RunScan] /\ f[0] = StartRunScan /\ \A i \in 1 .. n : f[i] = RunTurn(a, i, f[i - 1])
  BY <1>0, <1>1, Zenon DEF Scans
<1>3. PICK A : A = {i \in 0 .. n : RunScanInv(a, i, f[i])}
  OBVIOUS
<1>4. 0 \in A
  BY <1>2, <1>3, RunScanStarts
<1>5. ASSUME NEW i \in 0 .. n, i < n, i \in A PROVE i + 1 \in A
  <2>1. i + 1 \in 0 .. n /\ i + 1 \in 1 .. n /\ (i + 1) - 1 = i /\ i \in Nat
    BY <1>5
  <2>2. f[i + 1] = RunTurn(a, i + 1, f[i]) /\ f[i] \in RunScan
    BY <1>2, <2>1
  <2>3. RunScanInv(a, i, f[i])
    BY <1>3, <1>5
  <2>4. RunScanInv(a, i + 1, f[i + 1])
    BY <2>1, <2>2, <2>3, RunScanNext
  <2> QED
    BY <1>3, <2>1, <2>4
<1>6. \A i \in 0 .. n : i \in A
  BY <1>4, <1>5, Turns
<1>7. PICK s \in RunScan : s = f[n] /\ RunScanInv(a, n, s)
  <2>1. n \in 0 .. n
    OBVIOUS
  <2> QED
    BY <1>2, <1>3, <1>6, <2>1
<1>8. PICK r : r = Closed(s).best
  OBVIOUS
<1>9. r \in Run /\ r = IF s.cur.len > s.best.len THEN s.cur ELSE s.best
  BY <1>8, ClosedIs, RunScanFacts
<1>10. BestOf(a, n, r.base, r.len, n + 1)
  BY <1>7, <1>9, RunScanCloses, Zenon
<1>11. PICK b \in Nat, l \in Nat : b = r.base /\ l = r.len
  BY <1>9, RunFacts
<1>12. /\ (b = 0 /\ l = 0) \/ (b \in 1 .. n /\ l > 0 /\ b + l <= n + 1 /\ ZeroRun(a, b, b + l - 1))
       /\ LongestRun(a, n, b, l, n + 1)
  BY <1>10, <1>11, Zenon DEF BestOf
<1>13. BestRun(a) = IF l < 2 THEN NoRun ELSE r
  BY <1>1, <1>7, <1>8, <1>11, Zenon DEF BestOfScan
<1>14. CASE l < 2
  <2>1. BestRun(a) = NoRun
    BY <1>13, <1>14, Zenon
  <2>2. ASSUME NEW p \in 1 .. n, NEW q \in 1 .. n, p < q, ZeroRun(a, p, q) PROVE FALSE
    <3>1. p <= q /\ p < n + 1
      BY <2>2
    <3>2. q - p + 1 <= l
      BY <1>12, <2>2, <3>1, Zenon DEF LongestRun
    <3> QED
      BY <1>14, <2>2, <3>2
  <2> QED
    BY <1>0, <2>1, <2>2, NoRunIs, Zenon DEF BestIs
<1>15. CASE ~(l < 2)
  <2>1. BestRun(a) = r
    BY <1>13, <1>15, Zenon
  <2>2. l >= 2 /\ l # 0
    BY <1>15
  <2> QED
    BY <1>0, <1>9, <1>11, <1>12, <2>1, <2>2, Zenon DEF BestIs
<1> QED
  BY <1>14, <1>15

-----------------------------------------------------------------------------
(* The groups that inet_ntop6 writes.                                       *)

(* Groups of numbers, the last perhaps a dotted address.                    *)
Written(s, end) ==
    /\ s \in Seq(Group) /\ ProperText(s)
    /\ \A k \in 1 .. Len(s) : Fit(s[k], end /\ k = Len(s))

SinglesOf(s, ws) == Written(s, FALSE) /\ Len(s) = Len(ws) /\ Flat(s) = ws

LEMMA SinglesAre ==
    ASSUME NEW ws \in Seq(Word)
    PROVE  SinglesOf(Singles(ws), ws)
<1>0. PICK n \in Nat : n = Len(ws) /\ \A k \in 1 .. n : ws[k] \in Word
  BY SeqFacts
<1>1. ws \in Seq(Nat)
  <2>1. ws \in [1 .. n -> Word]
    BY <1>0, SeqFacts
  <2>2. ws \in [1 .. n -> Nat]
    BY <2>1, MaxWordNat DEF Word
  <2> QED
    BY <1>0, <2>2
<1>2. PICK s : s = Singles(ws)
  OBVIOUS
<1>3. s = [k \in 1 .. n |-> <<ws[k]>>]
  BY <1>0, <1>2, Zenon DEF Singles
<1>4. ASSUME NEW k \in 1 .. n
      PROVE  s[k] = <<ws[k]>> /\ s[k] \in Group /\ Len(s[k]) = 1 /\ s[k][1] \in Word /\ s[k] # <<>>
  <2>1. ws[k] \in Word /\ ws[k] \in Nat
    BY <1>0, MaxWordNat DEF Word
  <2>2. PICK g : g = <<ws[k]>>
    OBVIOUS
  <2>3. g \in Group /\ Len(g) = 1 /\ g[1] = ws[k]
    BY <2>1, <2>2, NumberGroup, OneWord
  <2>4. g # <<>>
    BY <2>3, GroupFacts
  <2> QED
    BY <1>3, <2>1, <2>2, <2>3, <2>4, Zenon
<1>5. s \in Seq(Group) /\ Len(s) = n
  <2>1. s \in [1 .. n -> Group]
    BY <1>3, <1>4, Zenon
  <2> QED
    BY <2>1
<1>6. Written(s, FALSE)
  <2>1. ProperText(s)
    BY <1>4, <1>5, Zenon DEF ProperText
  <2>2. \A k \in 1 .. Len(s) : Fit(s[k], FALSE /\ k = Len(s))
    BY <1>4, <1>5, Zenon DEF Fit
  <2> QED
    BY <1>5, <2>1, <2>2, Zenon DEF Written
<1>7. PICK A : A = {i \in 0 .. n : Flat(FirstOf(s, i)) = FirstOf(ws, i)}
  OBVIOUS
<1>8. 0 \in A
  <2>1. FirstOf(s, 0) = <<>> /\ FirstOf(ws, 0) = <<>>
    BY <1>1, <1>5, FirstFacts
  <2> QED
    BY <1>7, <2>1, FlatEmpty
<1>9. s \in Seq(Words)
  BY <1>5, GroupsAreWords
<1>10. ASSUME NEW i \in 0 .. n, i < n, i \in A PROVE i + 1 \in A
  <2>1. i + 1 \in 0 .. n /\ i + 1 \in 1 .. n
    BY <1>10
  <2>2. Flat(FirstOf(s, i + 1)) = Flat(FirstOf(s, i)) \o s[i + 1]
    BY <1>5, <1>9, <1>10, FlatFirst, Zenon
  <2>3. FirstOf(ws, i + 1) = Append(FirstOf(ws, i), ws[i + 1]) /\ FirstOf(ws, i) \in Seq(Nat)
    BY <1>0, <1>1, <1>10, FirstFacts, Zenon
  <2>4. PICK p \in Seq(Nat), x \in Nat : p = FirstOf(ws, i) /\ x = ws[i + 1]
    <3>1. ws[i + 1] \in Nat
      BY <1>0, <2>1, MaxWordNat DEF Word
    <3> QED
      BY <2>3, <3>1
  <2>5. Append(p, x) = p \o <<x>>
    BY AppendIsConcat, Zenon
  <2>6. s[i + 1] = <<x>> /\ Flat(FirstOf(s, i)) = p
    BY <1>4, <1>7, <1>10, <2>1, <2>4
  <2>7. Flat(FirstOf(s, i + 1)) = FirstOf(ws, i + 1)
    BY <2>2, <2>3, <2>4, <2>5, <2>6, Zenon
  <2> QED
    BY <1>7, <2>1, <2>7
<1>11. \A i \in 0 .. n : i \in A
  BY <1>8, <1>10, Turns
<1>12. Flat(FirstOf(s, n)) = FirstOf(ws, n)
  BY <1>7, <1>11
<1>13. FirstOf(s, n) = s /\ FirstOf(ws, n) = ws
  BY <1>0, <1>1, <1>5, FirstFacts
<1> QED
  BY <1>0, <1>2, <1>5, <1>6, <1>12, <1>13, Zenon DEF SinglesOf

(* Words i to j of an address.                                              *)
PartOf(p, a, i, j) ==
    /\ p \in Seq(Word) /\ Len(p) = j - i + 1
    /\ \A k \in 1 .. j - i + 1 : p[k] = a[i + k - 1]

LEMMA PartsAre ==
    ASSUME NEW a \in Address, NEW i \in 1 .. WORDS + 1, NEW j \in 0 .. WORDS, i <= j + 1
    PROVE  PartOf(SubSeq(a, i, j), a, i, j)
<1>0. PICK n \in Nat : n = WORDS
  BY WORDSNat
<1>1. a \in [1 .. n -> Word]
  BY <1>0, WordFacts
<1>2. i \in Int /\ j \in Int /\ i \in 1 .. n + 1 /\ j \in 0 .. n
  BY <1>0
<1>3. \A k \in i .. j : a[k] \in Word
  BY <1>1, <1>2
<1>4. PICK p : p = SubSeq(a, i, j)
  OBVIOUS
<1>5. a \in Seq(Word)
  BY <1>1
<1>6. /\ p \in Seq(Word)
      /\ Len(p) = IF i <= j THEN j - i + 1 ELSE 0
      /\ \A k \in 1 .. j - i + 1 : p[k] = a[i + k - 1]
  BY <1>2, <1>3, <1>4, <1>5, SubSeqProperties
<1>7. Len(p) = j - i + 1
  BY <1>2, <1>6
<1> QED
  BY <1>4, <1>6, <1>7, Zenon DEF PartOf

LEMMA FitAnywhere ==
    ASSUME NEW g, NEW last, Fit(g, FALSE)
    PROVE  Fit(g, last)
BY DEF Fit

LEMMA WrittenEnd ==
    ASSUME NEW s, Written(s, FALSE)
    PROVE  Written(s, TRUE)
<1>1. ASSUME NEW k \in 1 .. Len(s) PROVE Fit(s[k], TRUE /\ k = Len(s))
  <2>1. Fit(s[k], FALSE)
    BY DEF Written
  <2> QED
    BY <2>1, FitAnywhere, Zenon
<1> QED
  BY <1>1, Zenon DEF Written

LEMMA WrittenDotted ==
    ASSUME NEW s, Written(s, FALSE), NEW d \in Group, Len(d) = 2
    PROVE  Written(Append(s, d), TRUE) /\ Flat(Append(s, d)) = Flat(s) \o d
<1>1. s \in Seq(Group) /\ ProperText(s) /\ \A k \in 1 .. Len(s) : Fit(s[k], FALSE)
  BY DEF Written
<1>2. PICK n \in Nat : n = Len(s)
  BY <1>1, SeqFacts
<1>3. PICK t : t = Append(s, d)
  OBVIOUS
<1>4. /\ t \in Seq(Group) /\ Len(t) = n + 1 /\ t[n + 1] = d
      /\ \A i \in 1 .. n : t[i] = s[i]
  <2>1. /\ t \in Seq(Group) /\ Len(t) = Len(s) + 1 /\ t[Len(s) + 1] = d
        /\ \A i \in 1 .. Len(s) : t[i] = s[i]
    BY <1>1, <1>3, AppendFacts
  <2> QED
    BY <1>2, <2>1, Zenon
<1>5. ASSUME NEW k \in 1 .. n + 1 PROVE t[k] # <<>> /\ Fit(t[k], TRUE /\ k = n + 1)
  <2>1. CASE k = n + 1
    <3>1. d # <<>>
      BY GroupFacts
    <3>2. Fit(d, TRUE)
      BY DEF Fit
    <3> QED
      BY <1>4, <2>1, <3>1, <3>2, Zenon
  <2>2. CASE k # n + 1
    <3>1. k \in 1 .. n
      BY <2>2
    <3>2. s[k] # <<>> /\ Fit(s[k], FALSE)
      BY <1>1, <1>2, <3>1, Zenon DEF ProperText
    <3> QED
      BY <1>4, <3>1, <3>2, FitAnywhere, Zenon
  <2> QED
    BY <2>1, <2>2
<1>6. Written(t, TRUE)
  BY <1>4, <1>5, Zenon DEF Written, ProperText
<1>7. Flat(t) = Flat(s) \o d
  <2>1. s \in Seq(Words) /\ d \in Words
    BY <1>1, GroupsAreWords, GroupFacts
  <2> QED
    BY <1>3, <2>1, FlatAppend, Zenon
<1> QED
  BY <1>3, <1>6, <1>7, Zenon

(* The last two words after the others.                                     *)
LEMMA LastTwo ==
    ASSUME NEW a \in Address, NEW i \in 1 .. 7
    PROVE  SubSeq(a, i, 6) \o <<a[7], a[8]>> = SubSeq(a, i, WORDS)
<1>0. PICK n \in Nat : n = WORDS /\ n = 8
  BY WORDSNat
<1>1. PICK p, q, d, t : /\ p = SubSeq(a, i, 6) /\ q = SubSeq(a, i, n) /\ d = <<a[7], a[8]>>
                        /\ t = p \o d
  OBVIOUS
<1>2. a[7] \in Word /\ a[8] \in Word
  <2>1. 7 \in 1 .. WORDS /\ 8 \in 1 .. WORDS
    BY WORDSNat
  <2> QED
    BY <2>1, WordFacts
<1>3. d \in Seq(Word) /\ Len(d) = 2 /\ d[1] = a[7] /\ d[2] = a[8]
  BY <1>1, <1>2
<1>4. PartOf(p, a, i, 6)
  <2>1. i \in 1 .. WORDS + 1 /\ 6 \in 0 .. WORDS /\ i <= 6 + 1
    BY <1>0
  <2> QED
    BY <1>1, <2>1, PartsAre, Zenon
<1>5. PartOf(q, a, i, n)
  <2>1. i \in 1 .. WORDS + 1 /\ n \in 0 .. WORDS /\ i <= n + 1
    BY <1>0
  <2> QED
    BY <1>1, <2>1, PartsAre, Zenon
<1>6. PICK m \in Nat : m = 6 - i + 1 /\ i = 7 - m
  <2>1. 6 - i + 1 \in Nat /\ i = 7 - (6 - i + 1)
    OBVIOUS
  <2> QED
    BY <2>1
<1>7. p \in Seq(Word) /\ Len(p) = m /\ \A k \in 1 .. m : p[k] = a[i + k - 1]
  BY <1>4, <1>6, Zenon DEF PartOf
<1>8. n - i + 1 = m + 2
  BY <1>0, <1>6
<1>9. q \in Seq(Word) /\ Len(q) = m + 2 /\ \A k \in 1 .. m + 2 : q[k] = a[i + k - 1]
  BY <1>5, <1>8, Zenon DEF PartOf
<1>10. ConcatOf(Word, t, p, d)
  BY <1>1, <1>3, <1>7, ConcatIs, Zenon
<1>11. /\ t \in Seq(Word) /\ Len(t) = m + 2
       /\ \A k \in 1 .. m : t[k] = p[k]
       /\ \A k \in 1 .. 2 : t[m + k] = d[k]
  BY <1>3, <1>7, <1>10, Zenon DEF ConcatOf
<1>12. ASSUME NEW k \in 1 .. m + 2 PROVE t[k] = q[k]
  <2>1. q[k] = a[i + k - 1]
    BY <1>9, Zenon
  <2>2. CASE k \in 1 .. m
    BY <1>7, <1>11, <2>1, <2>2, Zenon
  <2>3. CASE k = m + 1
    <3>1. i + k - 1 = 7 /\ 1 \in 1 .. 2
      BY <1>6, <2>3
    <3> QED
      BY <1>3, <1>11, <2>1, <2>3, <3>1, Zenon
  <2>4. CASE k = m + 2
    <3>1. i + k - 1 = 8 /\ 2 \in 1 .. 2
      BY <1>6, <2>4
    <3> QED
      BY <1>3, <1>11, <2>1, <2>4, <3>1, Zenon
  <2>5. k \in 1 .. m \/ k = m + 1 \/ k = m + 2
    OBVIOUS
  <2> QED
    BY <2>2, <2>3, <2>4, <2>5
<1>13. t = q
  BY <1>9, <1>11, <1>12, SeqEqual
<1> QED
  BY <1>0, <1>1, <1>13, Zenon

(* The text on both sides of the run r.                                     *)
Sides(a, r, text, left, right) ==
    /\ Written(left, FALSE) /\ Written(right, TRUE) /\ text = Around(left, right)
    /\ Len(left) = r.base - 1 /\ Flat(left) = SubSeq(a, 1, r.base - 1)
    /\ Flat(right) = SubSeq(a, r.base + r.len, WORDS)

LEMMA NtopSides ==
    ASSUME NEW a \in Address, NEW r \in Run, r = BestRun(a), r # NoRun,
           r.base \in 1 .. WORDS, r.len >= 2, r.base + r.len <= WORDS + 1
    PROVE  \E left, right : Sides(a, r, inet_ntop6(a), left, right)
<1>0. PICK b \in Nat, l \in Nat, rest \in Nat :
         b = r.base /\ l = r.len /\ rest = r.base + r.len /\ rest = b + l
  BY RunFacts
<1>1. b \in 1 .. WORDS /\ l >= 2 /\ rest <= WORDS + 1 /\ b - 1 \in 0 .. WORDS
      /\ rest \in 1 .. WORDS + 1 /\ 1 \in 1 .. WORDS + 1 /\ WORDS \in 0 .. WORDS
      /\ 1 <= b - 1 + 1 /\ rest <= WORDS + 1
  BY <1>0, WORDSNat
<1>2. PICK left, ws : left = Singles(ws) /\ ws = SubSeq(a, 1, b - 1)
  OBVIOUS
<1>3. PICK right : right = IF Encapsulated(a, r)
                           THEN Singles(SubSeq(a, rest, 6)) \o << <<a[7], a[8]>> >>
                           ELSE Singles(SubSeq(a, rest, WORDS))
  OBVIOUS
<1>4. inet_ntop6(a) = Around(left, right)
  BY <1>0, <1>2, <1>3, Zenon DEF inet_ntop6
<1>5. Written(left, FALSE) /\ Len(left) = b - 1 /\ Flat(left) = ws
  <2>1. PartOf(ws, a, 1, b - 1)
    BY <1>1, <1>2, PartsAre, Zenon
  <2>2. ws \in Seq(Word) /\ Len(ws) = b - 1 - 1 + 1
    BY <2>1, Zenon DEF PartOf
  <2>3. b - 1 - 1 + 1 = b - 1
    OBVIOUS
  <2>4. SinglesOf(left, ws)
    BY <1>2, <2>2, SinglesAre, Zenon
  <2> QED
    BY <2>2, <2>3, <2>4, Zenon DEF SinglesOf
<1>6. Written(right, TRUE) /\ Flat(right) = SubSeq(a, rest, WORDS)
  <2>1. CASE Encapsulated(a, r)
    <3>1. rest \in 1 .. 7
      <4>1. b = 1 /\ (l = 6 \/ l = 5)
        BY <1>0, <2>1, Zenon DEF Encapsulated
      <4> QED
        BY <1>0, <4>1
    <3>2. PICK u, s, d : u = SubSeq(a, rest, 6) /\ s = Singles(u) /\ d = <<a[7], a[8]>>
      OBVIOUS
    <3>3. right = s \o <<d>>
      BY <1>3, <2>1, <3>2, Zenon
    <3>4. PartOf(u, a, rest, 6)
      <4>1. 6 \in 0 .. WORDS /\ rest <= 6 + 1
        BY <3>1, WORDSNat
      <4> QED
        BY <1>1, <3>2, <4>1, PartsAre, Zenon
    <3>5. SinglesOf(s, u)
      BY <3>2, <3>4, SinglesAre, Zenon DEF PartOf
    <3>6. Written(s, FALSE) /\ Flat(s) = u
      BY <3>5, Zenon DEF SinglesOf
    <3>7. d \in Group /\ Len(d) = 2
      <4>1. a[7] \in Word /\ a[8] \in Word
        BY WordFacts, WORDSNat
      <4>2. d \in Group
        BY <3>2, <4>1, DottedGroup, Zenon
      <4>3. Len(d) = 2
        BY <3>2
      <4> QED
        BY <4>2, <4>3
    <3>8. right = Append(s, d)
      <4>1. s \in Seq(Group)
        BY <3>6, Zenon DEF Written
      <4> QED
        BY <3>3, <3>7, <4>1, AppendIsConcat, Zenon
    <3>9. Written(right, TRUE) /\ Flat(right) = u \o d
      BY <3>6, <3>7, <3>8, WrittenDotted, Zenon
    <3>10. u \o d = SubSeq(a, rest, WORDS)
      BY <3>1, <3>2, LastTwo, Zenon
    <3> QED
      BY <3>9, <3>10, Zenon
  <2>2. CASE ~Encapsulated(a, r)
    <3>1. PICK u : u = SubSeq(a, rest, WORDS)
      OBVIOUS
    <3>2. right = Singles(u)
      BY <1>3, <2>2, <3>1, Zenon
    <3>3. PartOf(u, a, rest, WORDS)
      BY <1>1, <3>1, PartsAre, Zenon
    <3>4. SinglesOf(right, u)
      BY <3>2, <3>3, SinglesAre, Zenon DEF PartOf
    <3>5. Written(right, FALSE) /\ Flat(right) = u
      BY <3>4, Zenon DEF SinglesOf
    <3> QED
      BY <3>1, <3>5, WrittenEnd, Zenon
  <2> QED
    BY <2>1, <2>2
<1>7. Sides(a, r, inet_ntop6(a), left, right)
  BY <1>0, <1>2, <1>4, <1>5, <1>6, Zenon DEF Sides
<1> QED
  BY <1>7

-----------------------------------------------------------------------------
(* What inet_ntop6 writes is read back.                                     *)

LEMMA ReadBack ==
    ASSUME NEW text \in Seq(Group), NEW a, a # NULL, Unended(text) = text, ~Spare(text),
           Meaning(text) = {a}
    PROVE  inet_pton6(text) = a
<1>1. PICK answer : answer = inet_pton6(text)
  OBVIOUS
<1>2. {a} = {answer} \ {NULL}
  BY <1>1, PtonMeans, Zenon
<1>3. a = answer
  BY <1>2
<1> QED
  BY <1>1, <1>3

LEMMA SaneWritten ==
    ASSUME NEW text, Written(text, FALSE)
    PROVE  Sane(text, Len(text))
<1>1. ASSUME NEW k \in 1 .. Len(text) PROVE Fit(text[k], k = Len(text))
  <2>1. Fit(text[k], FALSE)
    BY DEF Written
  <2> QED
    BY <2>1, FitAnywhere, Zenon
<1> QED
  BY <1>1, Zenon DEF Sane

LEMMA AddressFacts ==
    ASSUME NEW a \in Address
    PROVE  a \in Seq(Word) /\ Len(a) = WORDS /\ a # NULL /\ \A k \in 1 .. WORDS : a[k] \in Word
<1>1. PICK n \in Nat : n = WORDS
  BY WORDSNat
<1>2. a \in [1 .. n -> Word]
  BY <1>1, WordFacts
<1>3. a \in Seq(Word) /\ Len(a) = n
  BY <1>2
<1> QED
  BY <1>1, <1>2, <1>3, NullIsNoAddress

LEMMA WholeReadBack ==
    ASSUME NEW a \in Address, NEW text, text = Singles(a)
    PROVE  inet_pton6(text) = a /\ ProperText(text)
<1>1. SinglesOf(text, a)
  BY AddressFacts, SinglesAre, Zenon
<1>2. Written(text, FALSE) /\ Len(text) = WORDS /\ Flat(text) = a
  BY <1>1, AddressFacts, Zenon DEF SinglesOf
<1>3. text \in Seq(Group) /\ ProperText(text) /\ Sane(text, Len(text))
  BY <1>2, SaneWritten, Zenon DEF Written
<1>4. MeaningOf(text, Meaning(text))
  BY <1>3, MeaningCases, Zenon
<1>5. Meaning(text) = {a}
  BY <1>2, <1>3, <1>4, AddressFacts, Zenon DEF MeaningOf
<1>6. ~Spare(text)
  BY <1>3, Zenon DEF Spare, ProperText
<1>7. Unended(text) = text
  <2>1. Len(text) \in 1 .. Len(text)
    BY <1>2, WORDSNat
  <2>2. text[Len(text)] # <<>>
    BY <1>3, <2>1, Zenon DEF ProperText
  <2> QED
    BY <2>2, Zenon DEF Unended
<1> QED
  BY <1>3, <1>5, <1>6, <1>7, AddressFacts, ReadBack, Zenon

(* An address is what stands before its run, the run and what follows.      *)
RunIsBetween(a, b, l, fl, fr) ==
    /\ fl \in Seq(Nat) /\ fr \in Seq(Nat) /\ Len(fl) = b - 1 /\ Len(fl \o fr) = WORDS - l
    /\ a = Spaced(fl \o fr, b - 1)

LEMMA RunBetween ==
    ASSUME NEW a \in Address, NEW b \in Nat, NEW l \in Nat,
           b \in 1 .. WORDS, b + l <= WORDS + 1, ZeroRun(a, b, b + l - 1),
           NEW fl, fl = SubSeq(a, 1, b - 1), NEW fr, fr = SubSeq(a, b + l, WORDS)
    PROVE  RunIsBetween(a, b, l, fl, fr)
<1>0. PICK n \in Nat : n = WORDS /\ b \in 1 .. n /\ b + l <= n + 1
  BY WORDSNat
<1>1. PICK m \in Nat, z \in Nat : m = b - 1 /\ z = n + 1 - (b + l) /\ b = m + 1 /\ m + l + z = n
  <2>1. b - 1 \in Nat /\ n + 1 - (b + l) \in Nat /\ b = (b - 1) + 1
        /\ (b - 1) + l + (n + 1 - (b + l)) = n
    BY <1>0
  <2> QED
    BY <2>1
<1>2. PartOf(fl, a, 1, m)
  <2>1. 1 \in 1 .. WORDS + 1 /\ m \in 0 .. WORDS /\ 1 <= m + 1
    BY <1>0, <1>1
  <2> QED
    BY <1>1, <2>1, PartsAre, Zenon
<1>3. PartOf(fr, a, b + l, n)
  <2>1. b + l \in 1 .. WORDS + 1 /\ n \in 0 .. WORDS /\ b + l <= n + 1
    BY <1>0
  <2> QED
    BY <1>0, <2>1, PartsAre, Zenon
<1>4. m - 1 + 1 = m /\ n - (b + l) + 1 = z
  BY <1>0, <1>1
<1>5. fl \in Seq(Word) /\ Len(fl) = m /\ \A k \in 1 .. m : fl[k] = a[1 + k - 1]
  BY <1>2, <1>4, Zenon DEF PartOf
<1>6. fr \in Seq(Word) /\ Len(fr) = z /\ \A k \in 1 .. z : fr[k] = a[b + l + k - 1]
  BY <1>3, <1>4, Zenon DEF PartOf
<1>7. ASSUME NEW s \in Seq(Word) PROVE s \in Seq(Nat)
  <2>1. \A k \in 1 .. Len(s) : s[k] \in Nat
    BY SeqFacts, MaxWordNat DEF Word
  <2>2. s \in [1 .. Len(s) -> Nat] /\ Len(s) \in Nat
    BY <2>1, SeqFacts
  <2> QED
    BY <2>2
<1>8. fl \in Seq(Nat) /\ fr \in Seq(Nat)
  BY <1>5, <1>6, <1>7
<1>9. PICK w : w = fl \o fr
  OBVIOUS
<1>10. ConcatOf(Nat, w, fl, fr)
  BY <1>8, <1>9, ConcatIs, Zenon
<1>11. /\ Len(w) = m + z
       /\ \A i \in 1 .. m : w[i] = fl[i]
       /\ \A i \in 1 .. z : w[m + i] = fr[i]
  BY <1>5, <1>6, <1>10, Zenon DEF ConcatOf
<1>12. m + z = n - l /\ n - (m + z) = l
  BY <1>1
<1>13. PICK h : h = Spaced(w, m)
  OBVIOUS
<1>14. h = [k \in 1 .. n |-> IF k <= m THEN w[k] ELSE IF k > m + l THEN w[k - l] ELSE 0]
  BY <1>0, <1>11, <1>12, <1>13, Zenon DEF Spaced
<1>15. ASSUME NEW k \in 1 .. n PROVE h[k] = a[k]
  <2>0. h[k] = IF k <= m THEN w[k] ELSE IF k > m + l THEN w[k - l] ELSE 0
    BY <1>14, Zenon
  <2>1. CASE k <= m
    <3>1. k \in 1 .. m /\ 1 + k - 1 = k
      BY <2>1
    <3> QED
      BY <1>5, <1>11, <2>0, <2>1, <3>1, Zenon
  <2>2. CASE ~(k <= m) /\ k > m + l
    <3>1. PICK i \in 1 .. z : k - l = m + i /\ b + l + i - 1 = k
      <4>1. k - l - m \in 1 .. z /\ k - l = m + (k - l - m) /\ b + l + (k - l - m) - 1 = k
        BY <1>1, <2>2
      <4> QED
        BY <4>1
    <3>2. h[k] = w[m + i]
      BY <2>0, <2>2, <3>1, Zenon
    <3> QED
      BY <1>6, <1>11, <3>1, <3>2, Zenon
  <2>3. CASE ~(k <= m) /\ ~(k > m + l)
    <3>1. k \in b .. b + l - 1
      BY <1>1, <2>3
    <3>2. a[k] = 0
      BY <3>1, ZeroIn
    <3> QED
      BY <2>0, <2>3, <3>2, Zenon
  <2> QED
    BY <2>1, <2>2, <2>3
<1>16. a \in [1 .. n -> Word]
  BY <1>0, WordFacts
<1>17. a = h
  BY <1>14, <1>15, <1>16
<1> QED
  BY <1>0, <1>1, <1>5, <1>8, <1>9, <1>11, <1>12, <1>13, <1>17, Zenon DEF RunIsBetween

LEMMA FitEmpty ==
    ASSUME NEW last
    PROVE  Fit(<<>>, last)
BY DEF Fit

LEMMA SideFits ==
    ASSUME NEW s, NEW end \in BOOLEAN, Written(s, end), NEW k \in 1 .. Len(OrEmpty(s))
    PROVE  Fit(OrEmpty(s)[k], end /\ k = Len(OrEmpty(s)))
<1>0. s \in Seq(Group)
  BY Zenon DEF Written
<1>1. CASE s = <<>>
  <2>1. Len(OrEmpty(s)) = 1 /\ OrEmpty(s)[1] = <<>>
    BY <1>0, <1>1, OrEmptyFacts, Zenon
  <2>2. k = 1
    BY <2>1
  <2> QED
    BY <2>1, <2>2, FitEmpty, Zenon
<1>2. CASE s # <<>>
  <2>1. OrEmpty(s) = s
    BY <1>2, Zenon DEF OrEmpty
  <2> QED
    BY <2>1, Zenon DEF Written
<1> QED
  BY <1>1, <1>2

LEMMA SaneAround ==
    ASSUME NEW left, NEW right, Written(left, FALSE), Written(right, TRUE),
           NEW text, text = Around(left, right)
    PROVE  Sane(text, Len(text))
<1>0. left \in Seq(Group) /\ right \in Seq(Group)
  BY Zenon DEF Written
<1>1. PICK u \in Seq(Group), v \in Seq(Group) : u = OrEmpty(left) /\ v = OrEmpty(right)
  BY <1>0, OrEmptyFacts
<1>2. PICK m \in Nat \ {0}, z \in Nat \ {0} : m = Len(u) /\ z = Len(v)
  BY <1>0, <1>1, OrEmptyFacts
<1>3. PICK e \in Group : e = <<>>
  BY EmptyGroup
<1>4. text = (u \o <<e>>) \o v
  BY <1>1, <1>3, AroundIs, Zenon
<1>5. TripleOf(Group, text, u, e, v)
  BY <1>4, Triple, Zenon
<1>6. /\ Len(text) = m + 1 + z /\ text[m + 1] = <<>>
      /\ \A i \in 1 .. m : text[i] = u[i]
      /\ \A i \in 1 .. z : text[m + 1 + i] = v[i]
  BY <1>2, <1>3, <1>5, Zenon DEF TripleOf
<1>7. \A i \in 1 .. m : Fit(u[i], FALSE)
  <2>1. ASSUME NEW i \in 1 .. m PROVE Fit(u[i], FALSE)
    <3>1. Fit(u[i], FALSE /\ i = Len(u))
      BY <1>1, <1>2, SideFits, Zenon
    <3> QED
      BY <3>1, Zenon
  <2> QED
    BY <2>1
<1>8. \A i \in 1 .. z : Fit(v[i], i = z)
  <2>1. ASSUME NEW i \in 1 .. z PROVE Fit(v[i], i = z)
    <3>1. Fit(v[i], TRUE /\ i = Len(v))
      BY <1>1, <1>2, SideFits, Zenon
    <3> QED
      BY <1>2, <3>1, Zenon
  <2> QED
    BY <2>1
<1>9. PICK n \in Nat : n = m + 1 + z
  OBVIOUS
<1>10. ASSUME NEW k \in 1 .. n PROVE Fit(text[k], k = n)
  <2>1. k \in 1 .. m \/ k = m + 1 \/ (k - (m + 1) \in 1 .. z /\ k = m + 1 + (k - (m + 1)))
    BY <1>9
  <2>2. CASE k \in 1 .. m
    BY <1>6, <1>7, <2>2, FitAnywhere, Zenon
  <2>3. CASE k = m + 1
    BY <1>6, <2>3, FitEmpty, Zenon
  <2>4. CASE k - (m + 1) \in 1 .. z /\ k = m + 1 + (k - (m + 1))
    <3>1. PICK i \in 1 .. z : k = m + 1 + i
      BY <2>4
    <3>2. i = z <=> k = n
      BY <1>9, <3>1
    <3>3. text[k] = v[i] /\ Fit(v[i], i = z)
      BY <1>6, <1>8, <3>1, Zenon
    <3>4. CASE k = n
      BY <3>2, <3>3, <3>4, Zenon
    <3>5. CASE k # n
      BY <3>2, <3>3, <3>5, Zenon DEF Fit
    <3> QED
      BY <3>4, <3>5
  <2> QED
    BY <2>1, <2>2, <2>3, <2>4
<1>11. Len(text) = n
  BY <1>6, <1>9, Zenon
<1> QED
  BY <1>10, <1>11, Zenon DEF Sane

LEMMA CutUnended ==
    ASSUME NEW text \in Seq(Group), NEW j, CutAt(text, j)
    PROVE  Unended(text) = text
<1>0. PICK n \in Nat : n = Len(text)
  BY SeqFacts
<1>1. /\ j \in 2 .. n - 1 /\ text[j] = <<>>
      /\ \A k \in 1 .. n : text[k] = <<>> => k = j \/ (k = 1 /\ j = 2) \/ (k = n /\ j = n - 1)
  BY <1>0, Zenon DEF CutAt
<1>2. n \in 1 .. n /\ n # j /\ n # 1
  BY <1>1
<1>3. ASSUME text[n] = <<>> PROVE text[n - 1] = <<>>
  BY <1>1, <1>2, <1>3, Zenon
<1>4. Len(<<>>) # 1
  BY EmptySeq
<1> QED
  BY <1>0, <1>3, <1>4, Zenon DEF Unended

(* The gap of a shortened text, and the words before it.                    *)
LEMMA SidesReadBack ==
    ASSUME NEW a \in Address, NEW r \in Run, r.base \in 1 .. WORDS, r.len >= 2,
           r.base + r.len <= WORDS + 1, ZeroRun(a, r.base, r.base + r.len - 1),
           NEW text, NEW left, NEW right, Sides(a, r, text, left, right)
    PROVE  /\ inet_pton6(text) = a /\ text \in Seq(Group)
           /\ CutAt(text, Len(OrEmpty(left)) + 1)
<1>0. PICK b \in Nat, l \in Nat : b = r.base /\ l = r.len
  BY RunFacts
<1>1. b \in 1 .. WORDS /\ l >= 2 /\ b + l <= WORDS + 1 /\ ZeroRun(a, b, b + l - 1)
  BY <1>0, Zenon
<1>2. PICK fl, fr : fl = SubSeq(a, 1, b - 1) /\ fr = SubSeq(a, b + l, WORDS)
  OBVIOUS
<1>3. /\ Written(left, FALSE) /\ Written(right, TRUE) /\ text = Around(left, right)
      /\ Flat(left) = fl /\ Flat(right) = fr
  BY <1>0, <1>2, Zenon DEF Sides
<1>4. Len(fl) = b - 1 /\ Len(fl \o fr) = WORDS - l /\ a = Spaced(fl \o fr, b - 1)
  <2>1. RunIsBetween(a, b, l, fl, fr)
    BY <1>1, <1>2, RunBetween, Zenon
  <2> QED
    BY <2>1, Zenon DEF RunIsBetween
<1>5. PICK j : j = Len(OrEmpty(left)) + 1
  OBVIOUS
<1>6. AroundOf(text, j, left, right)
  <2>1. left \in Seq(Group) /\ right \in Seq(Group) /\ ProperText(left) /\ ProperText(right)
    BY <1>3, Zenon DEF Written
  <2> QED
    BY <1>3, <1>5, <2>1, AroundFacts, Zenon
<1>7. /\ text \in Seq(Group) /\ CutAt(text, j) /\ Flat(FirstOf(text, j)) = fl
      /\ Flat(text) = fl \o fr
  BY <1>3, <1>6, Zenon DEF AroundOf
<1>8. Sane(text, Len(text))
  BY <1>3, SaneAround, Zenon
<1>9. PICK x \in Nat : x = WORDS - l /\ x < WORDS /\ x # WORDS
  <2>1. WORDS - l \in Nat /\ WORDS - l < WORDS /\ WORDS - l # WORDS
    BY <1>1, WORDSNat
  <2> QED
    BY <2>1
<1>10. Len(Flat(text)) = x
  BY <1>4, <1>7, <1>9, Zenon
<1>11. MeaningOf(text, Meaning(text))
  BY <1>7, MeaningCases, Zenon
<1>12. Meaning(text) = {a}
  <2>1. Meaning(text) = {Spaced(Flat(text), Len(Flat(FirstOf(text, j))))}
    BY <1>7, <1>8, <1>9, <1>10, <1>11, Zenon DEF MeaningOf
  <2> QED
    BY <1>4, <1>7, <2>1, Zenon
<1>13. ~Spare(text)
  BY <1>9, <1>10, Zenon DEF Spare
<1>14. Unended(text) = text
  BY <1>7, CutUnended, Zenon
<1>15. inet_pton6(text) = a
  BY <1>7, <1>12, <1>13, <1>14, AddressFacts, ReadBack, Zenon
<1> QED
  BY <1>5, <1>7, <1>15, Zenon

-----------------------------------------------------------------------------
(* Where the text of an address is shortened.                               *)

GapsOf(text) == {k \in 1 .. Len(text) : text[k] = <<>>}

FirstGap(text) == CHOOSE k \in GapsOf(text) : \A g \in GapsOf(text) : k <= g

LeftOf(text) == IF 1 \in GapsOf(text) THEN 0 ELSE FirstGap(text) - 1

LEMMA LeftIs ==
    ASSUME NEW left, NEW right, NEW text, Written(left, FALSE), text = Around(left, right),
           text \in Seq(Group), CutAt(text, Len(OrEmpty(left)) + 1),
           right \in Seq(Group)
    PROVE  GapsOf(text) # {} /\ LeftOf(text) = Len(left)
<1>0. left \in Seq(Group) /\ ProperText(left)
  BY Zenon DEF Written
<1>1. PICK u \in Seq(Group), v \in Seq(Group) : u = OrEmpty(left) /\ v = OrEmpty(right)
  BY <1>0, OrEmptyFacts
<1>2. PICK m \in Nat \ {0} : m = Len(u)
  BY <1>0, <1>1, OrEmptyFacts
<1>3. PICK e \in Group : e = <<>>
  BY EmptyGroup
<1>4. text = (u \o <<e>>) \o v
  BY <1>1, <1>3, AroundIs, Zenon
<1>5. TripleOf(Group, text, u, e, v)
  BY <1>4, Triple, Zenon
<1>6. \A i \in 1 .. m : text[i] = u[i]
  BY <1>2, <1>5, Zenon DEF TripleOf
<1>7. PICK n \in Nat : n = Len(text)
  BY SeqFacts
<1>8. /\ m + 1 \in 2 .. n - 1 /\ text[m + 1] = <<>>
      /\ \A k \in 1 .. n : text[k] = <<>> => \/ k = m + 1 \/ (k = 1 /\ m + 1 = 2)
                                             \/ (k = n /\ m + 1 = n - 1)
  BY <1>1, <1>2, <1>7, Zenon DEF CutAt
<1>9. PICK gaps : gaps = GapsOf(text)
  OBVIOUS
<1>10. gaps = {k \in 1 .. n : text[k] = <<>>}
  BY <1>7, <1>9, Zenon DEF GapsOf
<1>11. m + 1 \in gaps
  BY <1>8, <1>10
<1>12. 1 \in 1 .. m /\ 1 \in 1 .. n
  BY <1>8
<1>13. CASE left = <<>>
  <2>1. u[1] = <<>>
    BY <1>0, <1>1, <1>13, OrEmptyFacts
  <2>2. 1 \in gaps
    BY <1>6, <1>10, <1>12, <2>1, Zenon
  <2>3. Len(left) = 0
    BY <1>13, EmptySeq
  <2> QED
    BY <1>9, <1>11, <2>2, <2>3, Zenon DEF LeftOf
<1>14. CASE left # <<>>
  <2>1. u = left
    BY <1>0, <1>1, <1>14, OrEmptyFacts
  <2>2. \A i \in 1 .. m : text[i] # <<>>
    BY <1>0, <1>2, <1>6, <2>1, Zenon DEF ProperText
  <2>3. 1 \notin gaps
    BY <1>10, <1>12, <2>2, Zenon
  <2>4. ASSUME NEW g \in gaps PROVE m + 1 <= g
    <3>1. g \in 1 .. n /\ g \notin 1 .. m
      BY <1>10, <2>2
    <3> QED
      BY <3>1
  <2>5. PICK first : first = FirstGap(text)
    OBVIOUS
  <2>6. first \in gaps /\ \A g \in gaps : first <= g
    BY <1>9, <1>11, <2>4, <2>5, Zenon DEF FirstGap
  <2>7. first \in Nat /\ first <= m + 1 /\ m + 1 <= first
    BY <1>10, <1>11, <2>4, <2>6
  <2>8. first - 1 = m
    BY <2>7
  <2> QED
    BY <1>2, <1>9, <1>11, <2>1, <2>3, <2>5, <2>8, Zenon DEF LeftOf
<1> QED
  BY <1>13, <1>14

RunsOf(a) == {r \in (1 .. WORDS) \X (1 .. WORDS) : r[1] < r[2] /\ ZeroRun(a, r[1], r[2])}

LongestOf(a) == {r \in RunsOf(a) : \A q \in RunsOf(a) : q[2] - q[1] <= r[2] - r[1]}

NtopGood(a, text) ==
    /\ inet_pton6(text) = a
    /\ GapsOf(text) = {} <=> RunsOf(a) = {}
    /\ RunsOf(a) # {} => \E r \in LongestOf(a) : /\ LeftOf(text) = r[1] - 1
                                                 /\ \A q \in LongestOf(a) : r[1] <= q[1]

LEMMA RunsAre ==
    ASSUME NEW a
    PROVE  /\ \A r \in RunsOf(a) : /\ r[1] \in 1 .. WORDS /\ r[2] \in 1 .. WORDS /\ r[1] < r[2]
                                   /\ ZeroRun(a, r[1], r[2])
           /\ \A p, q \in 1 .. WORDS : p < q /\ ZeroRun(a, p, q) => <<p, q>> \in RunsOf(a)
BY DEF RunsOf

(* The run of BestRun is the first of the longest.                          *)
LEMMA BestIsLongest ==
    ASSUME NEW a, NEW b \in 1 .. WORDS, NEW l \in Nat, l >= 2, b + l <= WORDS + 1,
           ZeroRun(a, b, b + l - 1), LongestRun(a, WORDS, b, l, WORDS + 1)
    PROVE  <<b, b + l - 1>> \in LongestOf(a) /\ \A q \in LongestOf(a) : b <= q[1]
<1>0. PICK n \in Nat : n = WORDS /\ b \in 1 .. n /\ b + l <= n + 1
  BY WORDSNat
<1>1. PICK e \in Nat : e = b + l - 1 /\ e \in 1 .. n /\ b < e /\ e - b = l - 1
  <2>1. b + l - 1 \in Nat /\ b + l - 1 \in 1 .. n /\ b < b + l - 1 /\ (b + l - 1) - b = l - 1
    BY <1>0
  <2> QED
    BY <2>1
<1>2. PICK r : r = <<b, e>> /\ r[1] = b /\ r[2] = e
  <2>1. PICK r : r = <<b, e>>
    OBVIOUS
  <2>2. r[1] = b /\ r[2] = e
    BY <2>1
  <2> QED
    BY <2>1, <2>2
<1>3. r \in RunsOf(a)
  BY <1>0, <1>1, <1>2, RunsAre, Zenon
<1>4. ASSUME NEW q \in RunsOf(a) PROVE q[2] - q[1] <= e - b /\ (q[2] - q[1] = e - b => b <= q[1])
  <2>1. PICK x \in 1 .. n, y \in 1 .. n : x = q[1] /\ y = q[2] /\ x < y /\ ZeroRun(a, x, y)
    BY <1>0, RunsAre
  <2>2. x <= y /\ x < n + 1
    BY <2>1
  <2>3. y - x + 1 <= l /\ (y - x + 1 = l => b <= x)
    BY <1>0, <2>1, <2>2, Zenon DEF LongestRun
  <2>4. y - x <= e - b /\ (y - x = e - b => b <= x)
    BY <1>1, <2>3
  <2> QED
    BY <2>1, <2>4, Zenon
<1>5. r \in LongestOf(a)
  BY <1>2, <1>3, <1>4, Zenon DEF LongestOf
<1>6. ASSUME NEW q \in LongestOf(a) PROVE b <= q[1]
  <2>1. q \in RunsOf(a) /\ r[2] - r[1] <= q[2] - q[1]
    BY <1>3, <1>6 DEF LongestOf
  <2>2. PICK x \in 1 .. n, y \in 1 .. n : x = q[1] /\ y = q[2]
    BY <1>0, <2>1, RunsAre
  <2>3. e - b <= y - x /\ y - x <= e - b /\ (y - x = e - b => b <= x)
    BY <1>2, <1>4, <2>1, <2>2, Zenon
  <2>4. b <= x
    BY <1>0, <2>3
  <2> QED
    BY <2>2, <2>4, Zenon
<1> QED
  BY <1>1, <1>2, <1>5, <1>6, Zenon

LEMMA NtopIsGood ==
    ASSUME NEW a \in Address
    PROVE  NtopGood(a, inet_ntop6(a))
<1>0. PICK text, r : text = inet_ntop6(a) /\ r = BestRun(a)
  OBVIOUS
<1>1. r \in Run /\ BestIs(a, r)
  BY <1>0, BestRunIs, Zenon
<1>2. CASE r = NoRun
  <2>1. text = Singles(a)
    BY <1>0, <1>2, Zenon DEF inet_ntop6
  <2>2. inet_pton6(text) = a /\ ProperText(text)
    BY <2>1, WholeReadBack, Zenon
  <2>3. GapsOf(text) = {}
    BY <2>2 DEF GapsOf, ProperText
  <2>4. \A p, q \in 1 .. WORDS : p < q => ~ZeroRun(a, p, q)
    <3>1. ~(r.base \in 1 .. WORDS)
      BY <1>2, NoRunIs, WORDSNat
    <3> QED
      BY <1>1, <3>1, Zenon DEF BestIs
  <2>5. RunsOf(a) = {}
    BY <2>4, RunsAre
  <2> QED
    BY <1>0, <2>2, <2>3, <2>5, Zenon DEF NtopGood
<1>3. CASE r # NoRun
  <2>1. /\ r.base \in 1 .. WORDS /\ r.len >= 2 /\ r.base + r.len <= WORDS + 1
        /\ ZeroRun(a, r.base, r.base + r.len - 1)
        /\ LongestRun(a, WORDS, r.base, r.len, WORDS + 1)
    BY <1>1, <1>3, Zenon DEF BestIs
  <2>2. PICK left, right : Sides(a, r, text, left, right)
    BY <1>0, <1>1, <1>3, <2>1, NtopSides, Zenon
  <2>3. /\ inet_pton6(text) = a /\ text \in Seq(Group)
        /\ CutAt(text, Len(OrEmpty(left)) + 1)
    BY <1>1, <2>1, <2>2, SidesReadBack, Zenon
  <2>4. /\ Written(left, FALSE) /\ right \in Seq(Group) /\ text = Around(left, right)
        /\ Len(left) = r.base - 1
    BY <2>2, Zenon DEF Sides, Written
  <2>5. GapsOf(text) # {} /\ LeftOf(text) = r.base - 1
    BY <2>3, <2>4, LeftIs, Zenon
  <2>6. PICK b \in 1 .. WORDS, l \in Nat : b = r.base /\ l = r.len
    BY <1>1, <2>1, RunFacts
  <2>7. <<b, b + l - 1>> \in LongestOf(a) /\ \A q \in LongestOf(a) : b <= q[1]
    <3>1. /\ l >= 2 /\ b + l <= WORDS + 1
          /\ ZeroRun(a, b, b + l - 1)
          /\ LongestRun(a, WORDS, b, l, WORDS + 1)
      BY <2>1, <2>6, Zenon
    <3> QED
      BY <3>1, BestIsLongest, Zenon
  <2>8. PICK x : x = <<b, b + l - 1>> /\ x[1] = b
    <3>1. PICK x : x = <<b, b + l - 1>>
      OBVIOUS
    <3>2. x[1] = b
      BY <3>1
    <3> QED
      BY <3>1, <3>2
  <2>9. x \in LongestOf(a) /\ LeftOf(text) = x[1] - 1 /\ \A q \in LongestOf(a) : x[1] <= q[1]
    BY <2>5, <2>6, <2>7, <2>8, Zenon
  <2>10. RunsOf(a) # {}
    BY <2>9 DEF LongestOf
  <2> QED
    BY <1>0, <2>3, <2>5, <2>9, <2>10, Zenon DEF NtopGood
<1> QED
  BY <1>2, <1>3

LEMMA InetInvNtop == InetInv => NtopExact
<1> SUFFICES ASSUME InetInv, InetAnswered("ntop") PROVE NtopExact
  BY Zenon DEF NtopExact
<1>1. inet.of \in Address /\ inet.answer = inet_ntop6(inet.of)
  BY DEF InetInv, InetAnswered
<1>2. NtopGood(inet.of, inet.answer)
  BY <1>1, NtopIsGood, Zenon
<1> QED
  BY <1>2, Zenon DEF NtopExact, NtopGood, GapsOf, FirstGap, LeftOf, RunsOf, LongestOf

-----------------------------------------------------------------------------
(* The theorems.                                                            *)

LEMMA InetInductive == InetSpec => []InetInv
<1>1. InetInit => InetInv
  BY DEF InetInit, InetInv
<1> QED
  BY <1>1, InetInvStep, PTL DEF InetSpec

(* The calls answer what they may answer: inet_pton6 an address and         *)
(* inet_aton four bytes, or both nothing (network/inet_pton.c,              *)
(* network/inet_aton.c).                                                    *)
THEOREM InetTypeCorrect == InetSpec => []InetTypeOK
BY InetInductive, InetInvType, PTL

(* Every address of any words is read back by inet_pton as it was written   *)
(* by inet_ntop, and the text is shortened at the first of the longest runs *)
(* of zero words, if one has two words or more (network/inet_ntop.c).       *)
THEOREM NtopCorrect == InetSpec => []NtopExact
BY InetInductive, InetInvNtop, PTL

(* A text of fewer groups than a word has values is accepted by inet_pton   *)
(* exactly if it stands for an address, which is the answer; but for ::     *)
(* among eight words and a colon at the end (network/inet_pton.c).          *)
THEOREM PtonCorrect == InetSpec => []PtonExact
BY InetInductive, InetInvPton, PTL

(* inet_aton accepts exactly the texts whose numbers fit their bytes, and   *)
(* gives the bytes of the number they make (network/inet_aton.c), for any   *)
(* size of a byte and any numbers that strtoul can return.                  *)
THEOREM AtonCorrect == InetSpec => []AtonExact
BY InetInductive, InetInvAton, AtonInvGood, PTL

=============================================================================
