---------------------------- MODULE ScriptProofs ----------------------------
(***************************************************************************)
(* What iterating over a script and its predicates promise, for scripts of *)
(* any length, any number of byte values and any layout of the opcodes.    *)
(*                                                                         *)
(* Powers and the walk over a script are recursive functions: the lemmas   *)
(* PowerIs and WalkIs prove that they are what their definitions say.      *)
(* Lemma Parsed says what one parsed instruction has to do with the bytes  *)
(* it was read from; the invariant says what an iterator has to do with    *)
(* the script it points into.                                              *)
(***************************************************************************)
EXTENDS Script, SequenceFacts

-----------------------------------------------------------------------------
(* Numbers *)

LEMMA Layout ==
  /\ Radix \in Nat /\ Radix > 1 /\ PushData1 \in Nat /\ PushData1 > 0
  /\ PushData2 = PushData1 + 1 /\ PushData4 = PushData1 + 2
  /\ Op1Negate = PushData1 + 3 /\ Op1 = PushData1 + 5
  /\ Op16 \in Nat /\ Op16 >= Op1 /\ Op16 + 1 < Radix + 1
  /\ 0 \in Byte /\ PushData1 \in Byte /\ PushData2 \in Byte /\ PushData4 \in Byte
  /\ Op1Negate \in Byte
BY LayoutAssumption DEF Byte, PushData2, PushData4, Op1Negate, Op1, Op16

(* Power is what its definition says. *)
Powers(f, n) == f = [k \in 0 .. n |-> IF k = 0 THEN 1 ELSE Radix * f[k - 1]]

LEMMA PowersAt ==
  ASSUME NEW f, NEW n \in Nat, Powers(f, n), NEW k \in 0 .. n
  PROVE  f[k] = IF k = 0 THEN 1 ELSE Radix * f[k - 1]
<1>. DEFINE g == [j \in 0 .. n |-> IF j = 0 THEN 1 ELSE Radix * f[j - 1]]
<1>1. f = g
  BY DEF Powers
<1>2. g[k] = IF k = 0 THEN 1 ELSE Radix * f[k - 1]
  OBVIOUS
<1>. QED  BY <1>1, <1>2

LEMMA PowersExist ==
  ASSUME NEW n \in Nat
  PROVE  \E f : Powers(f, n)
<1>. DEFINE T == {m \in Nat : ~ \E f : Powers(f, m)}
<1>. SUFFICES ASSUME T # {}
              PROVE  FALSE
  OBVIOUS
<1>1. T \subseteq Nat
  OBVIOUS
<1>2. PICK m \in T : \A k \in T : m <= k
  BY <1>1, LeastNat
<1>3. m \in Nat /\ ~ \E f : Powers(f, m)
  OBVIOUS
<1>4. m # 0
  <2>. DEFINE f0 == [k \in 0 .. 0 |-> 1]
  <2>1. f0 = [k \in 0 .. 0 |-> IF k = 0 THEN 1 ELSE Radix * f0[k - 1]]
    OBVIOUS
  <2>. HIDE DEF f0
  <2>2. Powers(f0, 0)
    BY <2>1 DEF Powers
  <2>. QED  BY <1>3, <2>2
<1>5. m - 1 \in Nat /\ m - 1 \notin T
  BY <1>2, <1>3, <1>4
<1>6. PICK f : Powers(f, m - 1)
  BY <1>5
<1>. DEFINE g == [k \in 0 .. m |-> IF k = 0 THEN 1 ELSE Radix * f[k - 1]]
<1>7. \A k \in 0 .. m - 1 : g[k] = f[k]
  BY <1>5, <1>6, PowersAt
<1>8. \A k \in 0 .. m : k # 0 => g[k - 1] = f[k - 1]
  <2>1. \A k \in 0 .. m : k # 0 => k - 1 \in 0 .. m - 1
    BY <1>3
  <2>. HIDE DEF g
  <2>. QED  BY <1>7, <2>1
<1>9. Powers(g, m)
  BY <1>8 DEF Powers
<1>. QED  BY <1>3, <1>9

LEMMA PowersAgree ==
  ASSUME NEW f, NEW g, NEW n \in Nat, NEW m \in Nat, Powers(f, n), Powers(g, m),
         NEW k \in 0 .. n, k \in 0 .. m
  PROVE  f[k] = g[k]
<1>. DEFINE T == {j \in 0 .. n : j \in 0 .. m /\ f[j] # g[j]}
<1>. SUFFICES ASSUME T # {}
              PROVE  FALSE
  OBVIOUS
<1>1. T \subseteq Nat
  OBVIOUS
<1>2. PICK j \in T : \A i \in T : j <= i
  BY <1>1, LeastNat
<1>3. j \in 0 .. n /\ j \in 0 .. m /\ f[j] # g[j]
  OBVIOUS
<1>4. /\ f[j] = IF j = 0 THEN 1 ELSE Radix * f[j - 1]
      /\ g[j] = IF j = 0 THEN 1 ELSE Radix * g[j - 1]
  BY <1>3, PowersAt
<1>5. j # 0
  BY <1>3, <1>4
<1>6. j - 1 \in 0 .. n /\ j - 1 \in 0 .. m /\ j - 1 \notin T
  BY <1>2, <1>3, <1>5
<1>7. f[j - 1] = g[j - 1]
  BY <1>6
<1>. QED  BY <1>3, <1>4, <1>7

LEMMA PowerIs ==
  \A k \in Nat : Power[k] = IF k = 0 THEN 1 ELSE Radix * Power[k - 1]
<1>. DEFINE some(n) == CHOOSE f : Powers(f, n)
            g == [k \in Nat |-> some(k)[k]]
            h == [k \in Nat |-> IF k = 0 THEN 1 ELSE Radix * g[k - 1]]
<1>1. \A n \in Nat : Powers(some(n), n)
  BY PowersExist
<1>. HIDE DEF some
<1>2. \A k \in Nat : g[k] = h[k]
  <2>. SUFFICES ASSUME NEW k \in Nat
                PROVE  g[k] = h[k]
    OBVIOUS
  <2>1. some(k)[k] = IF k = 0 THEN 1 ELSE Radix * some(k)[k - 1]
    BY <1>1, PowersAt
  <2>2. CASE k = 0
    BY <2>1, <2>2
  <2>3. CASE k # 0
    <3>1. k - 1 \in Nat /\ k - 1 \in 0 .. k /\ k - 1 \in 0 .. k - 1
      BY <2>3
    <3>2. some(k)[k - 1] = some(k - 1)[k - 1]
      BY <1>1, <3>1, PowersAgree
    <3>3. g[k - 1] = some(k - 1)[k - 1] /\ h[k] = Radix * g[k - 1]
      BY <2>3, <3>1
    <3>. QED  BY <2>1, <2>3, <3>2, <3>3
  <2>. QED  BY <2>2, <2>3
<1>3. g = h
  BY <1>2
<1>. HIDE DEF g
<1>4. g = [k \in Nat |-> IF k = 0 THEN 1 ELSE Radix * g[k - 1]]
  BY <1>3
<1>5. Power = [k \in Nat |-> IF k = 0 THEN 1 ELSE Radix * Power[k - 1]]
  BY <1>4, Zenon DEF Power
<1>. DEFINE p == [k \in Nat |-> IF k = 0 THEN 1 ELSE Radix * Power[k - 1]]
<1>6. \A k \in Nat : p[k] = IF k = 0 THEN 1 ELSE Radix * Power[k - 1]
  OBVIOUS
<1>. QED  BY <1>5, <1>6

LEMMA PowerPositive == \A k \in Nat : Power[k] \in Nat \ {0}
<1>. DEFINE T == {k \in Nat : Power[k] \notin Nat \ {0}}
<1>. SUFFICES ASSUME T # {}
              PROVE  FALSE
  OBVIOUS
<1>1. T \subseteq Nat
  OBVIOUS
<1>2. PICK k \in T : \A j \in T : k <= j
  BY <1>1, LeastNat
<1>3. k \in Nat /\ Power[k] \notin Nat \ {0}
  OBVIOUS
<1>4. k # 0
  BY <1>3, PowerIs
<1>5. k - 1 \in Nat /\ k - 1 \notin T
  BY <1>2, <1>3, <1>4
<1>6. Power[k - 1] \in Nat \ {0} /\ Power[k] = Radix * Power[k - 1]
  BY <1>4, <1>5, PowerIs
<1>7. \A a \in Nat \ {0} : Radix * a \in Nat \ {0}
  BY Layout
<1>. QED  BY <1>3, <1>6, <1>7

LEMMA SmallPowers ==
  /\ Power[0] = 1 /\ Power[1] = Radix /\ Power[2] = Radix * Radix
  /\ Power[3] = Radix * (Radix * Radix) /\ Power[4] = Radix * (Radix * (Radix * Radix))
<1>1. Power[0] = 1
  BY PowerIs
<1>2. Power[1] = Radix
  BY <1>1, PowerIs, Layout
<1>3. Power[2] = Radix * Radix
  BY <1>2, PowerIs
<1>4. Power[3] = Radix * (Radix * Radix)
  BY <1>3, PowerIs
<1>5. Power[4] = Radix * (Radix * (Radix * Radix))
  BY <1>4, PowerIs
<1>. QED  BY <1>1, <1>2, <1>3, <1>4, <1>5

-----------------------------------------------------------------------------
(* Bytes of a number *)

LEMMA Quotient ==
  ASSUME NEW q \in Nat \ {0}, NEW a \in Int, NEW r \in Nat, r < q
  PROVE  (q * a + r) \div q = a /\ (q * a + r) % q = r
OBVIOUS

LEMMA DivMod ==
  ASSUME NEW q \in Nat \ {0}, NEW n \in Nat
  PROVE  /\ n \div q \in Nat /\ n % q \in Nat /\ n % q < q
         /\ n = q * (n \div q) + (n % q)
OBVIOUS

(* A digit in front of a number. *)
LEMMA InFront ==
  ASSUME NEW d \in Byte, NEW a \in Nat
  PROVE  /\ d + Radix * a \in Nat
         /\ (d + Radix * a) % Radix = d
         /\ (d + Radix * a) \div Radix = a
         /\ \A q \in Nat \ {0} : /\ (d + Radix * a) \div (Radix * q) = a \div q
                                 /\ a < q => d + Radix * a < Radix * q
<1>1. d \in Nat /\ d < Radix /\ Radix \in Nat \ {0} /\ Radix * a \in Nat
  BY Layout DEF Byte
<1>2. (Radix * a + d) % Radix = d /\ (Radix * a + d) \div Radix = a
  BY <1>1, Quotient
<1>3. ASSUME NEW q \in Nat \ {0}
      PROVE  /\ (d + Radix * a) \div (Radix * q) = a \div q
             /\ a < q => d + Radix * a < Radix * q
  <2>. DEFINE c == a \div q
              e == a % q
              p == Radix * q
  <2>1. c \in Nat /\ e \in Nat /\ e < q /\ a = q * c + e
    BY DivMod
  <2>. HIDE DEF c, e
  <2>2. p \in Nat \ {0}
    BY <1>1
  <2>3. \A y \in Nat : y < q => Radix * y + d \in Nat /\ Radix * y + d < p
    <3>. SUFFICES ASSUME NEW y \in Nat, y < q
                  PROVE  Radix * y + d \in Nat /\ Radix * y + d < p
      OBVIOUS
    <3>1. y + 1 <= q /\ y + 1 \in Nat
      OBVIOUS
    <3>2. Radix * (y + 1) <= Radix * q
      BY <1>1, <3>1
    <3>3. Radix * (y + 1) = Radix * y + Radix /\ Radix * y \in Nat
      BY <1>1
    <3>. QED  BY <1>1, <3>2, <3>3
  <2>4. Radix * a = p * c + Radix * e
    <3>1. Radix * a = Radix * (q * c) + Radix * e
      BY <1>1, <2>1
    <3>2. Radix * (q * c) = (Radix * q) * c
      BY <1>1, <2>1
    <3>. QED  BY <3>1, <3>2
  <2>5. Radix * e + d \in Nat /\ Radix * e + d < p
    BY <2>1, <2>3
  <2>. DEFINE r == Radix * e + d
  <2>6. p * c \in Nat /\ Radix * e \in Nat
    BY <1>1, <2>1, <2>2
  <2>8. a < q => d + Radix * a < p
    BY <1>1, <2>3
  <2>. HIDE DEF p
  <2>7. d + Radix * a = p * c + r
    BY <1>1, <2>4, <2>6
  <2>. HIDE DEF r
  <2>9. (p * c + r) \div p = c
    BY <2>1, <2>2, <2>5, Quotient DEF r
  <2>. QED  BY <2>7, <2>8, <2>9 DEF p, c
<1>4. d + Radix * a = Radix * a + d /\ d + Radix * a \in Nat
  BY <1>1
<1>. QED  BY <1>2, <1>3, <1>4

LEMMA ToLittleEndianIs ==
  ASSUME NEW n \in Nat, NEW width \in Nat
  PROVE  /\ ToLittleEndian(n, width) \in Seq(Byte)
         /\ Len(ToLittleEndian(n, width)) = width
         /\ \A i \in 1 .. width :
              ToLittleEndian(n, width)[i] = (n \div Power[i - 1]) % Radix
<1>. DEFINE f == ToLittleEndian(n, width)
<1>1. f = [i \in 1 .. width |-> (n \div Power[i - 1]) % Radix]
  BY DEF ToLittleEndian
<1>2. \A i \in 1 .. width : (n \div Power[i - 1]) % Radix \in Byte
  <2>. SUFFICES ASSUME NEW i \in 1 .. width
                PROVE  (n \div Power[i - 1]) % Radix \in Byte
    OBVIOUS
  <2>1. i - 1 \in Nat
    OBVIOUS
  <2>2. Power[i - 1] \in Nat \ {0}
    BY <2>1, PowerPositive
  <2>3. n \div Power[i - 1] \in Nat /\ Radix \in Nat \ {0}
    <3>1. n \div Power[i - 1] \in Nat
      BY <2>2, DivMod
    <3>2. Radix \in Nat \ {0}
      BY Layout
    <3>. QED  BY <3>1, <3>2
  <2>4. \A q \in Nat : q % Radix \in Nat /\ q % Radix < Radix
    BY <2>3, DivMod
  <2>. QED  BY <2>3, <2>4 DEF Byte
<1>. HIDE DEF f
<1>3. f = [i \in 1 .. width |-> f[i]] /\ \A i \in 1 .. width : f[i] \in Byte
  BY <1>1, <1>2
<1>4. f \in Seq(Byte) /\ Len(f) = width
  BY <1>3, MakeSeq
<1>5. \A i \in 1 .. width : f[i] = (n \div Power[i - 1]) % Radix
  BY <1>1
<1>. QED  BY <1>4, <1>5 DEF f

Put(d, a) == d + Radix * a

LEMMA PutDigit ==
  ASSUME NEW d \in Byte, NEW a \in Nat
  PROVE  Put(d, a) \in Nat /\ Put(d, a) % Radix = d
BY InFront DEF Put

LEMMA PutPower ==
  ASSUME NEW d \in Byte, NEW a \in Nat, NEW k \in Nat, NEW j \in Nat, j = k + 1
  PROVE  /\ Put(d, a) \div Power[j] = a \div Power[k]
         /\ a < Power[k] => Put(d, a) < Power[j]
<1>1. Power[k] \in Nat \ {0}
  BY PowerPositive
<1>2. Power[j] = Radix * Power[k]
  BY PowerIs
<1>3. \A q \in Nat \ {0} : /\ (d + Radix * a) \div (Radix * q) = a \div q
                           /\ a < q => d + Radix * a < Radix * q
  BY InFront
<1>4. /\ (d + Radix * a) \div (Radix * Power[k]) = a \div Power[k]
      /\ a < Power[k] => d + Radix * a < Radix * Power[k]
  BY <1>1, <1>3, Zenon
<1>. QED  BY <1>2, <1>4, Zenon DEF Put

LEMMA PutPowers ==
  ASSUME NEW d \in Byte, NEW a \in Nat
  PROVE  /\ Put(d, a) \div Power[1] = a \div Power[0]
         /\ Put(d, a) \div Power[2] = a \div Power[1]
         /\ Put(d, a) \div Power[3] = a \div Power[2]
         /\ a < Power[1] => Put(d, a) < Power[2]
         /\ a < Power[2] => Put(d, a) < Power[3]
         /\ a < Power[3] => Put(d, a) < Power[4]
<1>1. \A k, j \in Nat : j = k + 1 =>
        /\ Put(d, a) \div Power[j] = a \div Power[k]
        /\ a < Power[k] => Put(d, a) < Power[j]
  BY PutPower
<1>2. 1 = 0 + 1 /\ 2 = 1 + 1 /\ 3 = 2 + 1 /\ 4 = 3 + 1
  OBVIOUS
<1>3. 0 \in Nat /\ 1 \in Nat /\ 2 \in Nat /\ 3 \in Nat /\ 4 \in Nat
  OBVIOUS
<1>. QED  BY <1>1, <1>2, <1>3, Zenon

(* A length that is read back is written with the same bytes. *)
LEMMA LengthRead ==
  ASSUME NEW s \in Seq(Byte), Len(s) \in {0, 1, 2, 4}
  PROVE  /\ ReadLength(s) \in Nat
         /\ ReadLength(s) < Power[Len(s)]
         /\ ToLittleEndian(ReadLength(s), Len(s)) = s
<1>. DEFINE n == ReadLength(s)
            w == Len(s)
            Digit(i) == (n \div Power[i - 1]) % Radix = s[i]
<1>1. \A i \in 1 .. w : s[i] \in Byte
  BY ElementOfSeq
<1>2. \A a \in Byte : a \in Nat /\ a < Power[1] /\ a % Radix = a
  <2>1. \A a \in Byte : a \in Nat /\ a < Radix
    BY Layout DEF Byte
  <2>2. \A a \in Byte : a % Radix = a
    BY <2>1, Layout
  <2>. QED  BY <2>1, <2>2, SmallPowers
<1>p. \A a \in Nat : a \div Power[0] = a
  BY SmallPowers
<1>3. n \in Nat /\ n < Power[w] /\ \A i \in 1 .. w : Digit(i)
  <2>0. CASE w = 0
    <3>1. n = 0
      BY <2>0 DEF ReadLength
    <3>. QED  BY <2>0, <3>1, SmallPowers
  <2>1. CASE w = 1
    <3>1. n = s[1] /\ s[1] \in Byte
      BY <1>1, <2>1 DEF ReadLength
    <3>2. n \in Nat /\ n < Power[1] /\ n \div Power[0] = n /\ n % Radix = n
      BY <1>2, <1>p, <3>1
    <3>. HIDE DEF n
    <3>3. Digit(1)
      BY <3>1, <3>2
    <3>4. \A i \in 1 .. w : i = 1
      BY <2>1
    <3>. HIDE DEF Digit
    <3>. QED  BY <2>1, <3>2, <3>3, <3>4
  <2>2. CASE w = 2
    <3>1. n = Put(s[1], s[2]) /\ s[1] \in Byte /\ s[2] \in Byte
      BY <1>1, <2>2 DEF ReadLength, Put
    <3>. HIDE DEF n
    <3>2. s[2] \in Nat /\ s[2] < Power[1] /\ s[2] \div Power[0] = s[2] /\ s[2] % Radix = s[2]
      BY <1>2, <1>p, <3>1
    <3>3. n \in Nat /\ n % Radix = s[1]
      BY <3>1, <3>2, PutDigit
    <3>4. n \div Power[1] = s[2] /\ n < Power[2]
      <4>1. n \div Power[1] = s[2] \div Power[0]
        BY <3>1, <3>2, PutPowers
      <4>2. n < Power[2]
        BY <3>1, <3>2, PutPowers
      <4>. QED  BY <3>2, <4>1, <4>2
    <3>5. Digit(1)
      BY <1>p, <3>3
    <3>6. Digit(2)
      BY <3>2, <3>4
    <3>7. \A i \in 1 .. w : i = 1 \/ i = 2
      BY <2>2
    <3>. HIDE DEF Digit
    <3>. QED  BY <2>2, <3>3, <3>4, <3>5, <3>6, <3>7
  <2>3. CASE w = 4
    <3>. DEFINE a3 == Put(s[3], s[4])
                a2 == Put(s[2], a3)
    <3>1. /\ n = Put(s[1], a2)
          /\ s[1] \in Byte /\ s[2] \in Byte /\ s[3] \in Byte /\ s[4] \in Byte
      BY <1>1, <2>3 DEF ReadLength, Put
    <3>. HIDE DEF n
    <3>2. s[4] \in Nat /\ s[4] < Power[1] /\ s[4] \div Power[0] = s[4] /\ s[4] % Radix = s[4]
      BY <1>2, <1>p, <3>1
    <3>3. a3 \in Nat /\ a3 % Radix = s[3]
      BY <3>1, <3>2, PutDigit
    <3>4. a3 \div Power[1] = s[4] /\ a3 < Power[2]
      <4>1. a3 \div Power[1] = s[4] \div Power[0]
        BY <3>1, <3>2, PutPowers
      <4>2. a3 < Power[2]
        BY <3>1, <3>2, PutPowers
      <4>. QED  BY <3>2, <4>1, <4>2
    <3>. HIDE DEF a3
    <3>5. a2 \in Nat /\ a2 % Radix = s[2]
      BY <3>1, <3>3, PutDigit
    <3>6. a2 \div Power[1] = a3 /\ a2 \div Power[2] = s[4] /\ a2 < Power[3]
      <4>1. a2 \div Power[1] = a3 \div Power[0]
        BY <3>1, <3>3, PutPowers
      <4>2. a2 \div Power[2] = a3 \div Power[1]
        BY <3>1, <3>3, PutPowers
      <4>3. a2 < Power[3]
        BY <3>1, <3>3, <3>4, PutPowers
      <4>. QED  BY <1>p, <3>3, <3>4, <4>1, <4>2, <4>3
    <3>. HIDE DEF a2
    <3>7. n \in Nat /\ n % Radix = s[1]
      BY <3>1, <3>5, PutDigit
    <3>8. n \div Power[1] = a2 /\ n \div Power[2] = a3 /\ n \div Power[3] = s[4] /\ n < Power[4]
      <4>1. n \div Power[1] = a2 \div Power[0]
        BY <3>1, <3>5, PutPowers
      <4>2. n \div Power[2] = a2 \div Power[1]
        BY <3>1, <3>5, PutPowers
      <4>3. n \div Power[3] = a2 \div Power[2]
        BY <3>1, <3>5, PutPowers
      <4>4. n < Power[4]
        BY <3>1, <3>5, <3>6, PutPowers
      <4>. QED  BY <1>p, <3>5, <3>6, <4>1, <4>2, <4>3, <4>4
    <3>9. Digit(1) /\ Digit(2) /\ Digit(3) /\ Digit(4)
      <4>1. Digit(1)
        BY <1>p, <3>7
      <4>2. Digit(2)
        BY <3>5, <3>8
      <4>3. Digit(3)
        BY <3>3, <3>8
      <4>4. Digit(4)
        BY <3>2, <3>8
      <4>. QED  BY <4>1, <4>2, <4>3, <4>4
    <3>10. \A i \in 1 .. w : i = 1 \/ i = 2 \/ i = 3 \/ i = 4
      BY <2>3
    <3>. HIDE DEF Digit
    <3>. QED  BY <2>3, <3>7, <3>8, <3>9, <3>10
  <2>. QED  BY <2>0, <2>1, <2>2, <2>3
<1>. HIDE DEF n
<1>4. w \in Nat
  BY LenProperties
<1>5. ToLittleEndian(n, w) = s
  <2>1. /\ ToLittleEndian(n, w) \in Seq(Byte) /\ Len(ToLittleEndian(n, w)) = w
        /\ \A i \in 1 .. w : ToLittleEndian(n, w)[i] = (n \div Power[i - 1]) % Radix
    BY <1>3, <1>4, ToLittleEndianIs
  <2>2. \A i \in 1 .. w : ToLittleEndian(n, w)[i] = s[i]
    BY <1>3, <2>1
  <2>. QED  BY <2>1, <2>2, SeqEqual
<1>. QED  BY <1>3, <1>5 DEF n

-----------------------------------------------------------------------------
(* Instructions *)

Instructions == [code : Byte, immediate : Seq(Byte)]

LEMMA WidthIs == \A c \in Byte :
  /\ LengthWidth(c) \in {0, 1, 2, 4}
  /\ c < PushData1 => LengthWidth(c) = 0
BY Layout DEF LengthWidth, Byte

LEMMA OneByte ==
  ASSUME NEW c \in Byte
  PROVE  <<c>> \in Seq(Byte) /\ Len(<<c>>) = 1 /\ <<c>>[1] = c
OBVIOUS

LEMMA Bytes ==
  ASSUME NEW s \in Seq(Byte), NEW t \in Seq(Byte)
  PROVE  s \o t \in Seq(Byte) /\ Len(s \o t) = Len(s) + Len(t)
BY ConcatProperties

(* A part of the bytes. *)
LEMMA Part ==
  ASSUME NEW s \in Seq(Byte), NEW m \in Nat \ {0}, NEW n \in Nat,
         n <= Len(s), m <= n + 1
  PROVE  /\ SubSeq(s, m, n) \in Seq(Byte)
         /\ Len(SubSeq(s, m, n)) = n - m + 1
<1>1. \A i \in m .. n : i \in 1 .. Len(s)
  BY LenProperties
<1>2. \A i \in m .. n : s[i] \in Byte
  BY <1>1, ElementOfSeq
<1>3. m \in Int /\ n \in Int
  OBVIOUS
<1>4. /\ SubSeq(s, m, n) \in Seq(Byte)
      /\ Len(SubSeq(s, m, n)) = IF m <= n THEN n - m + 1 ELSE 0
  BY ONLY <1>2, <1>3, SubSeqProperties
<1>. QED  BY <1>4

LEMMA AfterIs ==
  ASSUME NEW s \in Seq(Byte), NEW n \in Nat, n <= Len(s)
  PROVE  /\ After(s, n) \in Seq(Byte)
         /\ Len(After(s, n)) = Len(s) - n
<1>1. Len(s) \in Nat
  BY LenProperties
<1>2. n + 1 \in Nat \ {0} /\ n + 1 <= Len(s) + 1 /\ Len(s) <= Len(s)
  BY <1>1
<1>3. /\ SubSeq(s, n + 1, Len(s)) \in Seq(Byte)
      /\ Len(SubSeq(s, n + 1, Len(s))) = Len(s) - (n + 1) + 1
  BY ONLY <1>1, <1>2, Part
<1>. QED  BY <1>1, <1>3 DEF After

(* Two cuts. *)
LEMMA CutTwice ==
  ASSUME NEW s \in Seq(Byte), NEW h \in Nat \ {0}, NEW n \in Nat, h <= n, n <= Len(s)
  PROVE  s = <<s[1]>> \o SubSeq(s, 2, h) \o SubSeq(s, h + 1, n) \o After(s, n)
<1>1. Len(s) \in Nat
  BY LenProperties
<1>2. s = SubSeq(s, 1, Len(s))
  BY SubSeqFull
<1>3. SubSeq(s, 1, 1) = <<s[1]>>
  <2>1. /\ SubSeq(s, 1, 1) \in Seq(Byte) /\ Len(SubSeq(s, 1, 1)) = 1
    BY <1>1, Part
  <2>2. s[1] \in Byte
    BY <1>1, ElementOfSeq
  <2>3. SubSeq(s, 1, 1)[1] = s[1]
    <3>1. \A i \in 1 .. 1 : s[i] \in Byte
      BY <2>2
    <3>2. \A i \in 1 .. 1 - 1 + 1 : SubSeq(s, 1, 1)[i] = s[1 + i - 1]
      BY ONLY <3>1, SubSeqProperties
    <3>. QED  BY <3>2
  <2>4. <<s[1]>> \in Seq(Byte) /\ Len(<<s[1]>>) = 1 /\ <<s[1]>>[1] = s[1]
    BY <2>2, OneByte
  <2>. DEFINE l == SubSeq(s, 1, 1)
              r == <<s[1]>>
  <2>5. l \in Seq(Byte) /\ r \in Seq(Byte) /\ Len(l) = Len(r)
        /\ \A i \in 1 .. Len(l) : l[i] = r[i]
    BY <2>1, <2>3, <2>4
  <2>. HIDE DEF l, r
  <2>6. l = r
    BY ONLY <2>5, SeqEqual
  <2>. QED  BY <2>6 DEF l, r
<1>4. SubSeq(s, 1, 1) \o SubSeq(s, 1 + 1, h) = SubSeq(s, 1, h)
  <2>1. 1 \in 1 .. Len(s) + 1 /\ 1 \in 1 - 1 .. Len(s) /\ h \in 1 .. Len(s)
    BY <1>1
  <2>. QED  BY <2>1, ConcatAdjacentSubSeq
<1>5. SubSeq(s, 1, h) \o SubSeq(s, h + 1, n) = SubSeq(s, 1, n)
  <2>1. 1 \in 1 .. Len(s) + 1 /\ h \in 1 - 1 .. Len(s) /\ n \in h .. Len(s)
    BY <1>1
  <2>. QED  BY <2>1, ConcatAdjacentSubSeq
<1>6. SubSeq(s, 1, n) \o SubSeq(s, n + 1, Len(s)) = SubSeq(s, 1, Len(s))
  <2>1. 1 \in 1 .. Len(s) + 1 /\ n \in 1 - 1 .. Len(s) /\ Len(s) \in n .. Len(s)
    BY <1>1
  <2>. QED  BY <2>1, ConcatAdjacentSubSeq
<1>7. 1 + 1 = 2
  OBVIOUS
<1>. QED  BY <1>2, <1>3, <1>4, <1>5, <1>6, <1>7, Zenon DEF After

(* The length that a parsed instruction has, and its bytes. *)
LEMMA PayloadIs ==
  ASSUME NEW b \in Seq(Byte), b # << >>, Len(b) >= Header(b)
  PROVE  LET w == LengthWidth(b[1]) IN
         /\ b[1] \in Byte /\ w \in {0, 1, 2, 4} /\ Header(b) = 1 + w
         /\ Payload(b) \in Nat
         /\ IF b[1] < PushData1 THEN Payload(b) = b[1] ELSE Payload(b) < Power[w]
         /\ SubSeq(b, 2, Header(b)) \in Seq(Byte)
         /\ ToLittleEndian(Payload(b), w) = SubSeq(b, 2, Header(b))
<1>. DEFINE c == b[1]
            w == LengthWidth(c)
            h == Header(b)
            s == SubSeq(b, 2, h)
            n == Payload(b)
<1>1. Len(b) \in Nat \ {0}
  BY EmptySeq
<1>2. c \in Byte
  BY <1>1, ElementOfSeq
<1>3. w \in {0, 1, 2, 4} /\ h = 1 + w
  BY <1>2, WidthIs DEF Header
<1>4. h \in Nat /\ h <= Len(b) /\ 2 <= h + 1 /\ h - 2 + 1 = w
  BY <1>3
<1>5. s \in Seq(Byte) /\ Len(s) = w
  <2>1. s \in Seq(Byte) /\ Len(s) = h - 2 + 1
    BY <1>4, Part
  <2>. QED  BY <1>4, <2>1
<1>6. ReadLength(s) \in Nat /\ ReadLength(s) < Power[w] /\ ToLittleEndian(ReadLength(s), w) = s
  <2>1. Len(s) \in {0, 1, 2, 4}
    BY <1>3, <1>5
  <2>. HIDE DEF s, w
  <2>2. ReadLength(s) \in Nat /\ ReadLength(s) < Power[Len(s)]
        /\ ToLittleEndian(ReadLength(s), Len(s)) = s
    BY ONLY <1>5, <2>1, LengthRead
  <2>. QED  BY <1>5, <2>2
<1>7. n = IF c < PushData1 THEN c ELSE ReadLength(s)
  BY DEF Payload
<1>8. CASE c < PushData1
  <2>1. n = c /\ w = 0
    BY <1>2, <1>7, <1>8, WidthIs
  <2>2. c \in Nat
    BY <1>2, Layout DEF Byte
  <2>3. ToLittleEndian(n, w) \in Seq(Byte) /\ Len(ToLittleEndian(n, w)) = w
    BY <1>3, <2>1, <2>2, ToLittleEndianIs
  <2>4. \A t \in Seq(Byte) : Len(t) = 0 => t = << >>
    BY EmptySeq
  <2>5. ToLittleEndian(n, w) = s
    <3>1. Len(ToLittleEndian(n, w)) = 0 /\ Len(s) = 0
      BY <1>5, <2>1, <2>3
    <3>. HIDE DEF s, n, w
    <3>. QED  BY ONLY <1>5, <2>3, <2>4, <3>1
  <2>. HIDE DEF s, n, w, h
  <2>. QED  BY <1>2, <1>3, <1>5, <1>8, <2>1, <2>2, <2>5 DEF s, n, w, h
<1>9. CASE ~(c < PushData1)
  <2>1. n = ReadLength(s)
    BY <1>7, <1>9
  <2>2. n \in Nat /\ n < Power[w] /\ ToLittleEndian(n, w) = s
    BY <1>6, <2>1
  <2>. HIDE DEF s, n, w, h
  <2>. QED  BY <1>2, <1>3, <1>5, <1>9, <2>2 DEF s, n, w, h
<1>. QED  BY <1>8, <1>9

LEMMA EncodingType ==
  ASSUME NEW i \in Instructions
  PROVE  /\ i.code \in Byte /\ i.immediate \in Seq(Byte)
         /\ Encoding(i) \in Seq(Byte)
         /\ Encoding(i) = <<i.code>> \o ToLittleEndian(Len(i.immediate), LengthWidth(i.code))
                          \o i.immediate
<1>1. i.code \in Byte /\ i.immediate \in Seq(Byte)
  BY DEF Instructions
<1>2. Len(i.immediate) \in Nat /\ LengthWidth(i.code) \in Nat
  <2>1. Len(i.immediate) \in Nat
    BY <1>1, LenProperties
  <2>2. LengthWidth(i.code) \in {0, 1, 2, 4}
    BY <1>1, WidthIs
  <2>. QED  BY <2>1, <2>2
<1>3. ToLittleEndian(Len(i.immediate), LengthWidth(i.code)) \in Seq(Byte)
  BY <1>2, ToLittleEndianIs
<1>4. <<i.code>> \in Seq(Byte)
  BY <1>1, OneByte
<1>5. <<i.code>> \o ToLittleEndian(Len(i.immediate), LengthWidth(i.code)) \in Seq(Byte)
  BY <1>3, <1>4, Bytes
<1>6. <<i.code>> \o ToLittleEndian(Len(i.immediate), LengthWidth(i.code)) \o i.immediate
        \in Seq(Byte)
  BY <1>1, <1>5, Bytes
<1>. QED  BY <1>1, <1>6 DEF Encoding

(* What was parsed is what its bytes encode, and the rest is behind them.   *)
LEMMA Parsed ==
  ASSUME NEW b \in Seq(Byte), Parse(b).valid
  PROVE  LET p == Parse(b) IN
         /\ p.size \in Nat \ {0} /\ p.size <= Len(b)
         /\ p.value \in Instructions /\ HasValidImmediate(p.value)
         /\ b = Encoding(p.value) \o After(b, p.size)
<1>1. Complete(b)
  <2>1. Invalid.valid = FALSE
    BY DEF Invalid
  <2>. QED  BY <2>1 DEF Parse
<1>. DEFINE c == b[1]
            w == LengthWidth(c)
            h == Header(b)
            n == Payload(b)
            imm == SubSeq(b, h + 1, h + n)
            v == Decoded(b)
<1>2. Parse(b).value = v /\ Parse(b).size = h + n
  BY <1>1 DEF Parse
<1>3. b # << >> /\ Len(b) >= h /\ Len(b) >= h + n
  BY <1>1 DEF Complete
<1>4. /\ c \in Byte /\ w \in {0, 1, 2, 4} /\ h = 1 + w
      /\ n \in Nat
      /\ IF c < PushData1 THEN n = c ELSE n < Power[w]
      /\ SubSeq(b, 2, h) \in Seq(Byte)
      /\ ToLittleEndian(n, w) = SubSeq(b, 2, h)
  BY <1>3, PayloadIs
<1>5. v.code = c /\ v.immediate = imm /\ v = [code |-> c, immediate |-> imm]
  BY DEF Decoded
<1>6. h \in Nat \ {0}
  BY <1>4
<1>. HIDE DEF c, w, h, n, v
<1>7. h + n \in Nat \ {0} /\ h <= h + n /\ h + n <= Len(b) /\ Len(b) \in Nat
  BY <1>3, <1>4, <1>6, LenProperties
<1>8. imm \in Seq(Byte) /\ Len(imm) = n
  <2>1. h + 1 \in Nat \ {0} /\ h + n \in Nat /\ h + 1 <= h + n + 1 /\ (h + n) - (h + 1) + 1 = n
    BY <1>4, <1>6
  <2>2. SubSeq(b, h + 1, h + n) \in Seq(Byte)
        /\ Len(SubSeq(b, h + 1, h + n)) = (h + n) - (h + 1) + 1
    BY ONLY <1>7, <2>1, Part
  <2>. QED  BY <2>1, <2>2
<1>. HIDE DEF imm
<1>9. v \in Instructions
  BY <1>4, <1>5, <1>8 DEF Instructions
<1>10. HasValidImmediate(v)
  BY <1>4, <1>5, <1>8 DEF HasValidImmediate, w
<1>11. b = Encoding(v) \o After(b, h + n)
  <2>1. b = <<c>> \o SubSeq(b, 2, h) \o imm \o After(b, h + n)
    BY <1>6, <1>7, CutTwice DEF c, imm
  <2>2. Encoding(v) = <<c>> \o ToLittleEndian(n, w) \o imm
    BY <1>5, <1>8 DEF Encoding, w
  <2>. QED  BY <1>4, <2>1, <2>2
<1>. QED  BY <1>2, <1>7, <1>9, <1>10, <1>11

LEMMA NotParsed ==
  ASSUME NEW b, ~Parse(b).valid
  PROVE  Parse(b) = Invalid
BY DEF Parse

LEMMA NothingParsed == ~Parse(<< >>).valid
<1>1. Parse(<< >>) = Invalid
  BY DEF Parse, Complete
<1>. QED  BY <1>1 DEF Invalid

LEMMA AfterParsed ==
  ASSUME NEW b \in Seq(Byte), Parse(b).valid
  PROVE  /\ After(b, Parse(b).size) \in Seq(Byte)
         /\ Len(After(b, Parse(b).size)) < Len(b)
<1>1. Parse(b).size \in Nat \ {0} /\ Parse(b).size <= Len(b)
  BY Parsed
<1>2. /\ After(b, Parse(b).size) \in Seq(Byte)
      /\ Len(After(b, Parse(b).size)) = Len(b) - Parse(b).size
  BY <1>1, AfterIs
<1>3. Len(b) \in Nat
  BY LenProperties
<1>. QED  BY <1>1, <1>2, <1>3

-----------------------------------------------------------------------------
(* Walk *)

Prepend(i, w) == [list |-> <<i>> \o w.list, rest |-> w.rest]
WalkFrom(f, b) ==
  IF Parse(b).valid THEN Prepend(Parse(b).value, f[After(b, Parse(b).size)])
  ELSE [list |-> << >>, rest |-> b]

(* Walk is what its definition says, for the scripts of up to n bytes. *)
Short(n) == {b \in Seq(Byte) : Len(b) <= n}
Walks(f, n) == f = [b \in Short(n) |-> WalkFrom(f, b)]

LEMMA WalksAt ==
  ASSUME NEW f, NEW n, Walks(f, n), NEW b \in Short(n)
  PROVE  f[b] = WalkFrom(f, b)
<1>. DEFINE g == [c \in Short(n) |-> WalkFrom(f, c)]
<1>1. f = g
  BY DEF Walks
<1>2. g[b] = WalkFrom(f, b)
  OBVIOUS
<1>. QED  BY <1>1, <1>2, Zenon

LEMMA FromSame ==
  ASSUME NEW f, NEW g, NEW b,
         Parse(b).valid => f[After(b, Parse(b).size)] = g[After(b, Parse(b).size)]
  PROVE  WalkFrom(f, b) = WalkFrom(g, b)
BY Zenon DEF WalkFrom

LEMMA ShortAfter ==
  ASSUME NEW n \in Nat, NEW b \in Short(n), Parse(b).valid
  PROVE  n # 0 /\ After(b, Parse(b).size) \in Short(n - 1)
<1>1. b \in Seq(Byte) /\ Len(b) <= n
  BY DEF Short
<1>2. /\ After(b, Parse(b).size) \in Seq(Byte)
      /\ Len(After(b, Parse(b).size)) < Len(b)
  BY <1>1, AfterParsed
<1>3. Len(b) \in Nat /\ Len(After(b, Parse(b).size)) \in Nat
  BY <1>1, <1>2, LenProperties
<1>. QED  BY <1>1, <1>2, <1>3 DEF Short

LEMMA WalksExist ==
  ASSUME NEW n \in Nat
  PROVE  \E f : Walks(f, n)
<1>. DEFINE T == {m \in Nat : ~ \E f : Walks(f, m)}
<1>. SUFFICES ASSUME T # {}
              PROVE  FALSE
  OBVIOUS
<1>1. T \subseteq Nat
  OBVIOUS
<1>2. PICK m \in T : \A k \in T : m <= k
  BY <1>1, LeastNat
<1>3. m \in Nat /\ ~ \E f : Walks(f, m)
  OBVIOUS
<1>4. \E f : \A b \in Short(m) :
        Parse(b).valid => f[After(b, Parse(b).size)] = WalkFrom(f, After(b, Parse(b).size))
  <2>1. CASE m = 0
    BY <2>1, ShortAfter
  <2>2. CASE m # 0
    <3>1. m - 1 \in Nat /\ m - 1 \notin T
      BY <1>2, <1>3, <2>2
    <3>2. PICK f : Walks(f, m - 1)
      BY <3>1
    <3>3. \A b \in Short(m) :
            Parse(b).valid => After(b, Parse(b).size) \in Short(m - 1)
      BY <1>3, ShortAfter
    <3>. QED  BY <3>2, <3>3, WalksAt
  <2>. QED  BY <2>1, <2>2
<1>5. PICK f : \A b \in Short(m) :
        Parse(b).valid => f[After(b, Parse(b).size)] = WalkFrom(f, After(b, Parse(b).size))
  BY <1>4
<1>. DEFINE g == [b \in Short(m) |-> WalkFrom(f, b)]
<1>6. \A b \in Short(m) : WalkFrom(f, b) = WalkFrom(g, b)
  <2>. SUFFICES ASSUME NEW b \in Short(m)
                PROVE  WalkFrom(f, b) = WalkFrom(g, b)
    OBVIOUS
  <2>1. ASSUME Parse(b).valid
        PROVE  f[After(b, Parse(b).size)] = g[After(b, Parse(b).size)]
    <3>1. After(b, Parse(b).size) \in Short(m - 1)
      BY <1>3, <2>1, ShortAfter
    <3>2. Short(m - 1) \subseteq Short(m)
      BY <1>3, LenProperties DEF Short
    <3>3. After(b, Parse(b).size) \in Short(m)
      BY <3>1, <3>2
    <3>4. g[After(b, Parse(b).size)] = WalkFrom(f, After(b, Parse(b).size))
      BY <3>3
    <3>. QED  BY <1>5, <2>1, <3>4
  <2>. HIDE DEF g
  <2>. QED  BY <2>1, FromSame
<1>7. Walks(g, m)
  BY <1>6 DEF Walks
<1>. QED  BY <1>3, <1>7

LEMMA WalksAgree ==
  ASSUME NEW f, NEW g, NEW n \in Nat, NEW m \in Nat, Walks(f, n), Walks(g, m),
         NEW b \in Short(n), b \in Short(m)
  PROVE  f[b] = g[b]
<1>. DEFINE T == {k \in Nat : \E c \in Short(n) : c \in Short(m) /\ Len(c) = k /\ f[c] # g[c]}
<1>1. ASSUME T # {} PROVE FALSE
  <2>1. T \subseteq Nat
    OBVIOUS
  <2>2. PICK k \in T : \A j \in T : k <= j
    BY <1>1, <2>1, LeastNat
  <2>3. PICK c \in Short(n) : c \in Short(m) /\ Len(c) = k /\ f[c] # g[c]
    OBVIOUS
  <2>4. f[c] = WalkFrom(f, c) /\ g[c] = WalkFrom(g, c)
    BY <2>3, WalksAt
  <2>5. ASSUME Parse(c).valid
        PROVE  f[After(c, Parse(c).size)] = g[After(c, Parse(c).size)]
    <3>. DEFINE a == After(c, Parse(c).size)
    <3>1. a \in Short(n - 1) /\ a \in Short(m - 1)
      BY <2>3, <2>5, ShortAfter
    <3>2. a \in Seq(Byte) /\ Len(a) < Len(c)
      BY <2>5, AfterParsed DEF Short
    <3>. HIDE DEF a
    <3>3. Len(a) \in Nat
      BY <3>2, LenProperties
    <3>4. a \in Short(n) /\ a \in Short(m)
      BY <3>1, <3>3 DEF Short
    <3>5. Len(a) \notin T
      BY <2>2, <2>3, <3>2, <3>3
    <3>6. f[a] = g[a]
      BY <3>3, <3>4, <3>5
    <3>. QED  BY <3>6 DEF a
  <2>6. WalkFrom(f, c) = WalkFrom(g, c)
    BY <2>5, FromSame
  <2>. QED  BY <2>3, <2>4, <2>6
<1>2. Len(b) \in Nat
  BY LenProperties DEF Short
<1>. QED  BY <1>1, <1>2

LEMMA WalkIs ==
  ASSUME NEW b \in Seq(Byte)
  PROVE  Walk[b] = WalkFrom(Walk, b)
<1>. DEFINE some(n) == CHOOSE f : Walks(f, n)
            g == [c \in Seq(Byte) |-> some(Len(c))[c]]
            h == [c \in Seq(Byte) |-> WalkFrom(g, c)]
<1>1. \A n \in Nat : Walks(some(n), n)
  BY WalksExist
<1>. HIDE DEF some
<1>2. \A c \in Seq(Byte) : Len(c) \in Nat /\ c \in Short(Len(c))
  BY LenProperties DEF Short
<1>3. \A c \in Seq(Byte) : g[c] = h[c]
  <2>. SUFFICES ASSUME NEW c \in Seq(Byte)
                PROVE  g[c] = h[c]
    OBVIOUS
  <2>1. some(Len(c))[c] = WalkFrom(some(Len(c)), c)
    BY <1>1, <1>2, WalksAt
  <2>2. ASSUME Parse(c).valid
        PROVE  some(Len(c))[After(c, Parse(c).size)] = g[After(c, Parse(c).size)]
    <3>. DEFINE a == After(c, Parse(c).size)
    <3>1. a \in Seq(Byte) /\ Len(a) < Len(c)
      BY <2>2, AfterParsed
    <3>. HIDE DEF a
    <3>2. a \in Short(Len(c)) /\ a \in Short(Len(a))
      BY <1>2, <3>1 DEF Short
    <3>3. some(Len(c))[a] = some(Len(a))[a]
      <4>1. Walks(some(Len(c)), Len(c)) /\ Walks(some(Len(a)), Len(a))
        BY <1>1, <1>2, <3>1
      <4>. QED  BY <1>2, <3>1, <3>2, <4>1, WalksAgree
    <3>. QED  BY <3>1, <3>3 DEF a
  <2>3. WalkFrom(some(Len(c)), c) = WalkFrom(g, c)
    <3>. HIDE DEF g
    <3>. QED  BY <2>2, FromSame
  <2>. QED  BY <2>1, <2>3
<1>4. g = h
  BY <1>3
<1>. HIDE DEF g
<1>5. g = [c \in Seq(Byte) |-> WalkFrom(g, c)]
  BY <1>4
<1>6. Walk = [c \in Seq(Byte) |-> WalkFrom(Walk, c)]
  BY <1>5, Zenon DEF Walk, WalkFrom, Prepend
<1>. DEFINE p == [c \in Seq(Byte) |-> WalkFrom(Walk, c)]
<1>7. p[b] = WalkFrom(Walk, b)
  OBVIOUS
<1>. QED  BY <1>6, <1>7, Zenon

LEMMA WalkParsed ==
  ASSUME NEW b \in Seq(Byte), Parse(b).valid
  PROVE  /\ Walk[b].list = <<Parse(b).value>> \o Walk[After(b, Parse(b).size)].list
         /\ Walk[b].rest = Walk[After(b, Parse(b).size)].rest
<1>. DEFINE v == Parse(b).value
            w == Walk[After(b, Parse(b).size)]
<1>1. Walk[b] = Prepend(v, w)
  BY WalkIs, Zenon DEF WalkFrom
<1>. HIDE DEF v, w
<1>2. Prepend(v, w).list = <<v>> \o w.list /\ Prepend(v, w).rest = w.rest
  BY DEF Prepend
<1>. QED  BY <1>1, <1>2, Zenon DEF v, w

LEMMA WalkStuck ==
  ASSUME NEW b \in Seq(Byte), ~Parse(b).valid
  PROVE  Walk[b].list = << >> /\ Walk[b].rest = b
<1>1. Walk[b] = [list |-> << >>, rest |-> b]
  BY WalkIs, Zenon DEF WalkFrom
<1>. QED  BY <1>1

LEMMA OneInstruction ==
  ASSUME NEW i \in Instructions
  PROVE  <<i>> \in Seq(Instructions)
OBVIOUS

LEMMA WalkType ==
  ASSUME NEW b \in Seq(Byte)
  PROVE  Walk[b].list \in Seq(Instructions) /\ Walk[b].rest \in Seq(Byte)
<1>. DEFINE Typed(c) == Walk[c].list \in Seq(Instructions) /\ Walk[c].rest \in Seq(Byte)
            T == {k \in Nat : \E c \in Seq(Byte) : Len(c) = k /\ ~Typed(c)}
<1>1. ASSUME T # {} PROVE FALSE
  <2>1. T \subseteq Nat
    OBVIOUS
  <2>2. PICK k \in T : \A j \in T : k <= j
    BY <1>1, <2>1, LeastNat
  <2>3. PICK c \in Seq(Byte) : Len(c) = k /\ ~Typed(c)
    OBVIOUS
  <2>4. CASE ~Parse(c).valid
    <3>1. << >> \in Seq(Instructions)
      BY EmptySeq
    <3>. QED  BY <2>3, <2>4, <3>1, WalkStuck
  <2>5. CASE Parse(c).valid
    <3>. DEFINE a == After(c, Parse(c).size)
    <3>1. a \in Seq(Byte) /\ Len(a) < Len(c)
      BY <2>5, AfterParsed
    <3>2. Walk[c].list = <<Parse(c).value>> \o Walk[a].list /\ Walk[c].rest = Walk[a].rest
      BY <2>5, WalkParsed
    <3>. HIDE DEF a
    <3>3. Len(a) \in Nat /\ Len(a) \notin T
      BY <2>2, <2>3, <3>1, LenProperties
    <3>4. Typed(a)
      BY <3>1, <3>3
    <3>5. <<Parse(c).value>> \in Seq(Instructions)
      BY <2>5, Parsed, OneInstruction
    <3>6. <<Parse(c).value>> \o Walk[a].list \in Seq(Instructions)
      BY <3>4, <3>5, ConcatProperties
    <3>. QED  BY <2>3, <3>2, <3>4, <3>6
  <2>. QED  BY <2>4, <2>5
<1>2. Len(b) \in Nat
  BY LenProperties
<1>. HIDE DEF Typed
<1>3. Typed(b)
  BY <1>1, <1>2
<1>. QED  BY <1>3 DEF Typed

-----------------------------------------------------------------------------
(* What is written *)

LEMMA PushPrefixType ==
  ASSUME NEW n \in Nat
  PROVE  PushPrefix(n) \in Seq(Byte)
<1>1. Power[2] \in Nat /\ Radix <= Power[2]
  <2>1. Radix \in Nat /\ Radix > 1
    BY Layout
  <2>2. Radix <= Radix * Radix
    BY <2>1
  <2>. QED  BY <2>1, <2>2, SmallPowers, PowerPositive
<1>. DEFINE l2 == <<PushData2>> \o ToLittleEndian(n, 2)
            l4 == <<PushData4>> \o ToLittleEndian(n, 4)
<1>2. l2 \in Seq(Byte) /\ l4 \in Seq(Byte)
  <2>1. ToLittleEndian(n, 2) \in Seq(Byte) /\ ToLittleEndian(n, 4) \in Seq(Byte)
    BY ToLittleEndianIs
  <2>2. <<PushData2>> \in Seq(Byte) /\ <<PushData4>> \in Seq(Byte)
    BY Layout, OneByte
  <2>. QED  BY <2>1, <2>2, Bytes
<1>3. n < PushData1 => <<n>> \in Seq(Byte)
  <2>1. n < PushData1 => n \in Byte
    BY Layout DEF Byte
  <2>. QED  BY <2>1, OneByte
<1>4. n \in PushData1 .. Radix - 1 => <<PushData1, n>> \in Seq(Byte)
  <2>1. n \in PushData1 .. Radix - 1 => n \in Byte
    BY Layout DEF Byte
  <2>2. PushData1 \in Byte
    BY Layout
  <2>3. \A a, b \in Byte : <<a, b>> \in Seq(Byte)
    OBVIOUS
  <2>. QED  BY <2>1, <2>2, <2>3
<1>5. PushPrefix(n) = CASE n < PushData1 -> <<n>>
                        [] n \in PushData1 .. Radix - 1 -> <<PushData1, n>>
                        [] n \in Radix .. Power[2] - 1 -> l2
                        [] n >= Power[2] -> l4
  BY DEF PushPrefix
<1>. HIDE DEF l2, l4
<1>6. PushData1 \in Nat /\ Radix \in Nat /\ PushData1 < Radix
  BY Layout DEF Byte
<1>7. \/ n < PushData1
      \/ n \in PushData1 .. Radix - 1 /\ ~(n < PushData1)
      \/ n \in Radix .. Power[2] - 1 /\ ~(n < PushData1) /\ n \notin PushData1 .. Radix - 1
      \/ /\ n >= Power[2] /\ ~(n < PushData1) /\ n \notin PushData1 .. Radix - 1
         /\ n \notin Radix .. Power[2] - 1
  BY <1>1, <1>6
<1>8. CASE n < PushData1
  <2>1. PushPrefix(n) = <<n>>
    BY <1>1, <1>5, <1>6, <1>8
  <2>. QED  BY <1>3, <1>8, <2>1
<1>9. CASE n \in PushData1 .. Radix - 1 /\ ~(n < PushData1)
  <2>1. PushPrefix(n) = <<PushData1, n>>
    BY <1>1, <1>5, <1>6, <1>9
  <2>. QED  BY <1>4, <1>9, <2>1
<1>10. CASE n \in Radix .. Power[2] - 1 /\ ~(n < PushData1) /\ n \notin PushData1 .. Radix - 1
  <2>1. PushPrefix(n) = l2
    BY <1>1, <1>5, <1>6, <1>10
  <2>. QED  BY <1>2, <2>1
<1>11. CASE /\ n >= Power[2] /\ ~(n < PushData1) /\ n \notin PushData1 .. Radix - 1
            /\ n \notin Radix .. Power[2] - 1
  <2>1. PushPrefix(n) = l4
    BY <1>1, <1>5, <1>6, <1>11
  <2>. QED  BY <1>2, <2>1
<1>. QED  BY <1>7, <1>8, <1>9, <1>10, <1>11

(* A magnitude that is not zero fits in a word, and has a first digit. *)
LEMMA MagnitudeIs ==
  ASSUME NEW v \in Int64, v # 0
  PROVE  /\ Magnitude(v) \in Nat \ {0} /\ Magnitude(v) < Word
         /\ v \in Int /\ v = IF v < 0 THEN -Magnitude(v) ELSE Magnitude(v)
<1>1. Word \in Nat \ {0}
  BY PowerPositive, LayoutAssumption DEF Word
<1>2. v \in Int /\ -(Word \div 2) <= v /\ v < Word \div 2
  BY <1>1 DEF Int64
<1>3. Word \div 2 \in Nat /\ Word \div 2 < Word
  BY <1>1
<1>4. CASE v >= 0
  <2>1. v \in Nat \ {0} /\ v < Word
    BY <1>1, <1>2, <1>3, <1>4
  <2>2. Magnitude(v) = v
    BY <2>1 DEF Magnitude
  <2>. QED  BY <1>2, <2>1, <2>2
<1>5. CASE v < 0
  <2>. DEFINE a == -v
  <2>1. a \in Nat \ {0} /\ a < Word /\ Word - a \in Nat /\ Word - a < Word
    BY <1>1, <1>2, <1>3, <1>5
  <2>2. v = Word * (-1) + (Word - a)
    BY <1>1, <1>2
  <2>3. (Word * (-1) + (Word - a)) % Word = Word - a
    <3>. DEFINE r == Word - a
    <3>1. r \in Nat /\ r < Word /\ -1 \in Int
      BY <2>1
    <3>. HIDE DEF r
    <3>2. (Word * (-1) + r) % Word = r
      BY <1>1, <3>1, Quotient
    <3>. QED  BY <3>2 DEF r
  <2>4. v % Word = Word - a
    BY <2>2, <2>3
  <2>5. Word - (v % Word) = a
    BY <1>1, <1>2, <2>4
  <2>p. v = -a
    BY <1>2
  <2>. HIDE DEF a
  <2>6. a % Word = a
    BY <1>1, <2>1
  <2>7. Magnitude(v) = a
    BY <1>5, <2>5, <2>6 DEF Magnitude
  <2>. QED  BY <1>2, <1>5, <2>1, <2>7, <2>p
<1>. QED  BY <1>2, <1>4, <1>5

LEMMA DigitsAre ==
  ASSUME NEW n \in Nat \ {0}, n < Word
  PROVE  \E k \in 1 .. WordBytes :
           /\ Digits(n) = ToLittleEndian(n, k) /\ n < Power[k] /\ n >= Power[k - 1]
           /\ Digits(n) \in Seq(Byte) /\ Len(Digits(n)) = k
<1>. DEFINE Fits(k) == n < Power[k] /\ (k > 0 => n >= Power[k - 1])
            width == CHOOSE k \in 0 .. WordBytes : Fits(k)
            T == {k \in 0 .. WordBytes : n < Power[k]}
<1>1. \E k \in 0 .. WordBytes : Fits(k)
  <2>1. WordBytes \in Nat
    BY LayoutAssumption
  <2>2. T \subseteq Nat /\ WordBytes \in T
    BY <2>1 DEF Word
  <2>3. PICK k \in T : \A j \in T : k <= j
    BY <2>2, LeastNat
  <2>4. k \in 0 .. WordBytes /\ n < Power[k]
    OBVIOUS
  <2>5. ASSUME k > 0 PROVE n >= Power[k - 1]
    <3>1. k - 1 \in 0 .. WordBytes /\ k - 1 \in Nat /\ k - 1 \notin T
      BY <2>1, <2>3, <2>4, <2>5
    <3>2. Power[k - 1] \in Nat
      BY <3>1, PowerPositive
    <3>. QED  BY <3>1, <3>2
  <2>. QED  BY <2>4, <2>5
<1>2. width \in 0 .. WordBytes /\ Fits(width)
  BY <1>1
<1>3. Digits(n) = ToLittleEndian(n, width)
  BY DEF Digits
<1>. HIDE DEF width
<1>4. width # 0
  BY <1>2, SmallPowers
<1>5. width \in Nat \ {0} /\ width \in 1 .. WordBytes /\ width > 0
  BY <1>2, <1>4
<1>6. ToLittleEndian(n, width) \in Seq(Byte) /\ Len(ToLittleEndian(n, width)) = width
  BY <1>5, ToLittleEndianIs
<1>. QED  BY <1>2, <1>3, <1>5, <1>6

LEMMA NumberType ==
  ASSUME NEW v \in Int64
  PROVE  SerializeScriptNumber(v) \in Seq(Byte)
<1>1. CASE v = 0
  BY <1>1, EmptySeq DEF SerializeScriptNumber
<1>2. CASE v # 0
  <2>. DEFINE s == Digits(Magnitude(v))
              n == Len(s)
              top == IF v < 0 THEN SignBit ELSE 0
  <2>1. s \in Seq(Byte) /\ n \in Nat \ {0}
    <3>1. Magnitude(v) \in Nat \ {0} /\ Magnitude(v) < Word
      BY <1>2, MagnitudeIs
    <3>2. PICK k \in 1 .. WordBytes : s \in Seq(Byte) /\ Len(s) = k
      BY <3>1, DigitsAre
    <3>3. k \in Nat \ {0}
      BY LayoutAssumption
    <3>. QED  BY <3>2, <3>3
  <2>2. SerializeScriptNumber(v) = IF Last(s) >= SignBit THEN Append(s, top)
                                   ELSE IF v < 0 THEN Append(Front(s), Last(s) + SignBit)
                                   ELSE s
    BY <1>2 DEF SerializeScriptNumber
  <2>. HIDE DEF s
  <2>3. SignBit \in Byte /\ 0 \in Byte /\ \A d \in Byte : d < SignBit => d + SignBit \in Byte
    <3>1. Radix \in Nat /\ Radix > 1
      BY Layout
    <3>. QED  BY <3>1 DEF SignBit, Byte
  <2>4. Last(s) \in Byte
    BY <2>1, ElementOfSeq DEF Last
  <2>5. Front(s) \in Seq(Byte)
    <3>1. n - 1 \in Nat /\ n - 1 <= Len(s) /\ 1 <= (n - 1) + 1
      BY <2>1
    <3>2. SubSeq(s, 1, n - 1) \in Seq(Byte)
      BY <2>1, <3>1, Part
    <3>. QED  BY <3>2 DEF Front
  <2>6. top \in Byte
    BY <2>3
  <2>. HIDE DEF top
  <2>7. Append(s, top) \in Seq(Byte)
    BY <2>1, <2>6, AppendProperties
  <2>8. Last(s) < SignBit => Append(Front(s), Last(s) + SignBit) \in Seq(Byte)
    BY <2>3, <2>4, <2>5, AppendProperties
  <2>9. Last(s) >= SignBit \/ Last(s) < SignBit
    BY <2>3, <2>4, Layout DEF Byte
  <2>. QED  BY <2>1, <2>2, <2>7, <2>8, <2>9
<1>. QED  BY <1>1, <1>2

-----------------------------------------------------------------------------
(* The invariant *)

Encodings(list) == [i \in DOMAIN list |-> Encoding(list[i])]

LEMMA EncodingsType ==
  ASSUME NEW l \in Seq(Instructions)
  PROVE  /\ Encodings(l) \in Seq(Seq(Byte)) /\ Len(Encodings(l)) = Len(l)
         /\ \A i \in 1 .. Len(l) : Encodings(l)[i] = Encoding(l[i])
<1>. DEFINE e == Encodings(l)
            n == Len(l)
<1>1. DOMAIN l = 1 .. n /\ n \in Nat
  BY LenProperties
<1>2. e = [i \in 1 .. n |-> Encoding(l[i])]
  BY <1>1 DEF Encodings
<1>3. \A i \in 1 .. n : Encoding(l[i]) \in Seq(Byte)
  BY ElementOfSeq, EncodingType
<1>. HIDE DEF e
<1>4. e = [i \in 1 .. n |-> e[i]] /\ \A i \in 1 .. n : e[i] \in Seq(Byte)
  BY <1>2, <1>3
<1>. HIDE DEF n
<1>5. e \in Seq(Seq(Byte)) /\ Len(e) = n
  BY ONLY <1>1, <1>4, MakeSeq
<1>6. \A i \in 1 .. n : e[i] = Encoding(l[i])
  BY <1>2
<1>. QED  BY <1>5, <1>6 DEF e, n

LEMMA EncodingsAppend ==
  ASSUME NEW l \in Seq(Instructions), NEW i \in Instructions
  PROVE  FlattenSeq(Encodings(Append(l, i))) = FlattenSeq(Encodings(l)) \o Encoding(i)
<1>. DEFINE m == Append(l, i)
            n == Len(l)
            p == Encodings(l)
            q == Encodings(m)
<1>1. /\ m \in Seq(Instructions) /\ Len(m) = n + 1 /\ n \in Nat
      /\ \A j \in 1 .. n : m[j] = l[j]
      /\ m[n + 1] = i
  BY AppendProperties, LenProperties
<1>. HIDE DEF m
<1>2. p \in Seq(Seq(Byte)) /\ Len(p) = n /\ \A j \in 1 .. n : p[j] = Encoding(l[j])
  BY EncodingsType
<1>3. q \in Seq(Seq(Byte)) /\ Len(q) = n + 1 /\ \A j \in 1 .. n + 1 : q[j] = Encoding(m[j])
  BY <1>1, EncodingsType
<1>4. Len(q) = Len(p) + 1 /\ \A j \in 1 .. Len(p) : q[j] = p[j]
  <2>1. \A j \in 1 .. n : j \in 1 .. n + 1
    BY <1>1
  <2>. HIDE DEF p, q
  <2>. QED  BY <1>1, <1>2, <1>3, <2>1
<1>5. q[n + 1] = Encoding(i)
  <2>1. n + 1 \in 1 .. n + 1
    BY <1>1
  <2>. HIDE DEF q
  <2>. QED  BY <1>1, <1>3, <2>1
<1>. HIDE DEF p, q
<1>6. FlattenSeq(q) = FlattenSeq(p) \o q[Len(p) + 1]
  BY ONLY <1>2, <1>3, <1>4, FlattenGrows
<1>. QED  BY <1>2, <1>5, <1>6 DEF p, q, m

(* An iterator is what was read where it stands.  The bytes and the         *)
(* instructions of the script are those it has passed and those before it.  *)
ScriptInv ==
  /\ bytes \in Seq(Byte) /\ torn \in BOOLEAN
  /\ seen \in Seq(Instructions) /\ \A i \in DOMAIN seen : HasValidImmediate(seen[i])
  /\ it # None =>
       /\ it.remaining \in Seq(Byte) /\ it = ReadNext(it.remaining)
       /\ FlattenSeq(Encodings(seen)) \o it.remaining = bytes
       /\ Walk[bytes].list = seen \o Walk[it.remaining].list
       /\ Walk[bytes].rest = Walk[it.remaining].rest

LEMMA NoneSeen ==
  /\ << >> \in Seq(Instructions)
  /\ \A i \in DOMAIN << >> : HasValidImmediate(<< >>[i])
  /\ FlattenSeq(Encodings(<< >>)) = << >>
<1>1. << >> \in Seq(Instructions)
  BY EmptySeq
<1>2. DOMAIN << >> = {}
  OBVIOUS
<1>3. Encodings(<< >>) \in Seq(Seq(Byte)) /\ Len(Encodings(<< >>)) = 0
  BY <1>1, EncodingsType, EmptySeq
<1>4. Encodings(<< >>) = << >>
  <2>1. \A s \in Seq(Seq(Byte)) : s # << >> => Len(s) # 0
    BY EmptySeq
  <2>. QED  BY <1>3, <2>1
<1>. QED  BY <1>1, <1>2, <1>4, FlattenEmpty

LEMMA ReadNextIs ==
  ASSUME NEW r
  PROVE  /\ ReadNext(r).remaining = r
         /\ ReadNext(r).atEnd = IF Parse(r).valid THEN FALSE ELSE TRUE
         /\ Parse(r).valid => /\ ReadNext(r).current = Parse(r).value
                              /\ ReadNext(r).size = Parse(r).size
         /\ ~Parse(r).valid => /\ ReadNext(r).current = NoInstruction
                               /\ ReadNext(r).size = 0
<1>1. CASE Parse(r).valid
  <2>1. ReadNext(r) = [remaining |-> r, current |-> Parse(r).value,
                       size |-> Parse(r).size, atEnd |-> FALSE]
    BY <1>1 DEF ReadNext
  <2>2. /\ ReadNext(r).remaining = r /\ ReadNext(r).atEnd = FALSE
        /\ ReadNext(r).current = Parse(r).value /\ ReadNext(r).size = Parse(r).size
    BY <2>1
  <2>. QED  BY <1>1, <2>2
<1>2. CASE ~Parse(r).valid
  <2>1. ReadNext(r) = AtEnd(r)
    BY <1>2 DEF ReadNext
  <2>2. /\ ReadNext(r).remaining = r /\ ReadNext(r).atEnd = TRUE
        /\ ReadNext(r).current = NoInstruction /\ ReadNext(r).size = 0
    BY <2>1 DEF AtEnd
  <2>. QED  BY <1>2, <2>2
<1>. QED  BY <1>1, <1>2

(* A script that changes has no iterator. *)
LEMMA ChangedInv ==
  ASSUME NEW b \in Seq(Byte), Changed(b), torn' \in BOOLEAN
  PROVE  ScriptInv'
BY NoneSeen DEF Changed, ScriptInv

LEMMA BeginStep ==
  ASSUME ScriptInv, Begin
  PROVE  ScriptInv'
<1>1. /\ bytes' = bytes /\ torn' = torn /\ seen' = << >> /\ it' = ReadNext(bytes)
      /\ bytes \in Seq(Byte) /\ torn \in BOOLEAN
  BY DEF ScriptInv, Begin
<1>2. it'.remaining = bytes
  BY <1>1, ReadNextIs
<1>3. FlattenSeq(Encodings(<< >>)) \o bytes = bytes
  BY <1>1, NoneSeen, ConcatEmptySeq
<1>4. << >> \o Walk[bytes].list = Walk[bytes].list
  BY <1>1, WalkType, ConcatEmptySeq
<1>. QED  BY <1>1, <1>2, <1>3, <1>4, NoneSeen DEF ScriptInv

LEMMA IncrementStep ==
  ASSUME ScriptInv, Increment
  PROVE  ScriptInv'
<1>1. CASE it.atEnd
  BY <1>1 DEF ScriptInv, Increment
<1>2. CASE ~it.atEnd
  <2>. DEFINE r == it.remaining
              p == Parse(r)
              a == After(r, p.size)
  <2>1. /\ bytes \in Seq(Byte) /\ torn \in BOOLEAN
        /\ seen \in Seq(Instructions) /\ \A i \in DOMAIN seen : HasValidImmediate(seen[i])
        /\ r \in Seq(Byte) /\ it = ReadNext(r)
        /\ FlattenSeq(Encodings(seen)) \o r = bytes
        /\ Walk[bytes].list = seen \o Walk[r].list
        /\ Walk[bytes].rest = Walk[r].rest
    BY DEF ScriptInv, Increment
  <2>2. p.valid /\ it.current = p.value /\ it.size = p.size
    BY <1>2, <2>1, ReadNextIs
  <2>3. /\ it' = ReadNext(a) /\ seen' = Append(seen, p.value)
        /\ bytes' = bytes /\ torn' = torn
    BY <1>2, <2>2 DEF Increment
  <2>4. p.value \in Instructions /\ HasValidImmediate(p.value) /\ r = Encoding(p.value) \o a
    BY <2>1, <2>2, Parsed
  <2>5. a \in Seq(Byte)
    BY <2>1, <2>2, AfterParsed
  <2>6. Walk[r].list = <<p.value>> \o Walk[a].list /\ Walk[r].rest = Walk[a].rest
    BY <2>1, <2>2, WalkParsed
  <2>7. Walk[a].list \in Seq(Instructions)
    BY <2>5, WalkType
  <2>. HIDE DEF a, p, r
  <2>8. it'.remaining = a
    BY <2>3, ReadNextIs
  <2>9. /\ seen' \in Seq(Instructions)
        /\ \A i \in DOMAIN seen' : HasValidImmediate(seen'[i])
    <3>. DEFINE n == Len(seen)
    <3>1. /\ seen' \in Seq(Instructions) /\ Len(seen') = n + 1 /\ n \in Nat
          /\ \A i \in 1 .. n : seen'[i] = seen[i]
          /\ seen'[n + 1] = p.value
      BY <2>1, <2>3, <2>4, AppendProperties, LenProperties
    <3>2. DOMAIN seen' = 1 .. n + 1 /\ DOMAIN seen = 1 .. n
      BY <2>1, <3>1, LenProperties
    <3>3. \A i \in 1 .. n + 1 : i \in 1 .. n \/ i = n + 1
      BY <3>1
    <3>. QED  BY <2>1, <2>4, <3>1, <3>2, <3>3
  <2>10. FlattenSeq(Encodings(seen')) \o a = bytes
    <3>. DEFINE f == FlattenSeq(Encodings(seen))
                e == Encoding(p.value)
    <3>1. FlattenSeq(Encodings(seen')) = f \o e
      BY <2>1, <2>3, <2>4, EncodingsAppend
    <3>2. f \in Seq(Byte) /\ e \in Seq(Byte)
      BY <2>1, <2>4, EncodingsType, FlattenType, EncodingType
    <3>. HIDE DEF f, e
    <3>3. (f \o e) \o a = f \o (e \o a)
      BY <2>5, <3>2, ConcatAssociative
    <3>. QED  BY <2>1, <2>4, <3>1, <3>3 DEF f, e
  <2>11. Walk[bytes].list = seen' \o Walk[a].list
    <3>. DEFINE o == <<p.value>>
                w == Walk[a].list
    <3>1. o \in Seq(Instructions)
      BY <2>4, OneInstruction
    <3>2. seen' = seen \o o
      BY <2>1, <2>3, <2>4, AppendIsConcat
    <3>3. w \in Seq(Instructions) /\ seen \in Seq(Instructions)
      BY <2>1, <2>7
    <3>. HIDE DEF o, w
    <3>4. (seen \o o) \o w = seen \o (o \o w)
      BY ONLY <3>1, <3>3, ConcatAssociative
    <3>. QED  BY <2>1, <2>6, <3>2, <3>4 DEF o, w
  <2>12. Walk[bytes].rest = Walk[a].rest
    BY <2>1, <2>6
  <2>. QED  BY <2>1, <2>3, <2>5, <2>8, <2>9, <2>10, <2>11, <2>12 DEF ScriptInv
<1>. QED  BY <1>1, <1>2

LEMMA AppendDataStep ==
  ASSUME ScriptInv, NEW data \in Data, AppendData(data)
  PROVE  ScriptInv'
<1>1. bytes \in Seq(Byte) /\ data \in Seq(Byte) /\ torn' \in BOOLEAN
  BY ScriptAssumption DEF ScriptInv, AppendData
<1>2. PushPrefix(Len(data)) \in Seq(Byte)
  BY <1>1, LenProperties, PushPrefixType
<1>3. bytes \o PushPrefix(Len(data)) \o data \in Seq(Byte)
  BY <1>1, <1>2, Bytes
<1>4. Changed(bytes \o PushPrefix(Len(data)) \o data)
  BY DEF AppendData
<1>. QED  BY <1>1, <1>3, <1>4, ChangedInv

LEMMA AppendOwnDataStep ==
  ASSUME ScriptInv, NEW from \in DOMAIN bytes, NEW to \in DOMAIN bytes, from <= to,
         AppendOwnData(from, to)
  PROVE  ScriptInv'
<1>. DEFINE data == SubSeq(bytes, from, to)
            n == Len(data)
            freed(g) == [i \in DOMAIN data |-> g]
<1>1. bytes \in Seq(Byte) /\ torn \in BOOLEAN
  BY DEF ScriptInv
<1>2. from \in 1 .. Len(bytes) /\ to \in 1 .. Len(bytes) /\ Len(bytes) \in Nat
  BY <1>1, LenProperties
<1>3. data \in Seq(Byte)
  BY <1>1, <1>2, Part
<1>. HIDE DEF data
<1>4. n \in Nat /\ DOMAIN data = 1 .. n
  BY <1>3, LenProperties
<1>5. PushPrefix(n) \in Seq(Byte)
  BY <1>4, PushPrefixType
<1>6. \A d \in Seq(Byte) : bytes \o PushPrefix(n) \o d \in Seq(Byte)
  <2>1. bytes \o PushPrefix(n) \in Seq(Byte)
    BY <1>1, <1>5, Bytes
  <2>. HIDE DEF n
  <2>. QED  BY <2>1, Bytes
<1>7. \A g \in Garbage : freed(g) \in Seq(Byte)
  <2>. SUFFICES ASSUME NEW g \in Garbage
                PROVE  freed(g) \in Seq(Byte)
    OBVIOUS
  <2>1. g \in Byte
    BY ScriptAssumption
  <2>2. freed(g) \in [1 .. n -> Byte]
    BY <1>4, <2>1
  <2>. QED  BY <1>4, <2>2, SeqDef
<1>8. \/ Changed(bytes \o PushPrefix(n) \o data) /\ torn' = torn
      \/ \E g \in Garbage : Changed(bytes \o PushPrefix(n) \o freed(g)) /\ torn' = TRUE
  BY Zenon DEF AppendOwnData, data
<1>. HIDE DEF n, freed
<1>9. CASE Changed(bytes \o PushPrefix(n) \o data) /\ torn' = torn
  BY <1>1, <1>3, <1>6, <1>9, ChangedInv
<1>10. ASSUME NEW g \in Garbage,
              Changed(bytes \o PushPrefix(n) \o freed(g)) /\ torn' = TRUE
       PROVE  ScriptInv'
  <2>1. torn' \in BOOLEAN
    BY <1>10
  <2>2. bytes \o PushPrefix(n) \o freed(g) \in Seq(Byte)
    BY <1>6, <1>7
  <2>. QED  BY <1>10, <2>1, <2>2, ChangedInv
<1>. QED  BY <1>8, <1>9, <1>10

LEMMA SmallIntegers ==
  /\ \A n \in 0 .. MaxSmall : EncodeSmallInteger(n) \in Byte
  /\ Op1 \in Nat /\ Op1 > PushData4 /\ PushData4 > PushData1
<1>1. /\ Radix \in Nat /\ PushData1 \in Nat \ {0} /\ MaxSmall \in Nat \ {0}
      /\ OpEqual \in Op16 + 1 .. OpCheckSigAdd /\ OpCheckSigAdd < Radix
      /\ OpCheckSigAdd \in Nat
  BY LayoutAssumption
<1>. QED  BY <1>1 DEF EncodeSmallInteger, Byte, Op1, Op16, PushData4

LEMMA AppendNumberStep ==
  ASSUME ScriptInv, NEW v \in Number, AppendNumber(v)
  PROVE  ScriptInv'
<1>. DEFINE s == SerializeScriptNumber(v)
            new == IF v = -1 THEN Append(bytes, Op1Negate)
                   ELSE IF v \in 0 .. MaxSmall THEN Append(bytes, EncodeSmallInteger(v))
                   ELSE bytes \o PushPrefix(Len(s)) \o s
<1>1. bytes \in Seq(Byte) /\ torn' \in BOOLEAN /\ v \in Int64
  BY ScriptAssumption DEF ScriptInv, AppendNumber
<1>2. s \in Seq(Byte)
  BY <1>1, NumberType
<1>3. PushPrefix(Len(s)) \in Seq(Byte)
  BY <1>2, LenProperties, PushPrefixType
<1>4. Changed(new)
  BY DEF AppendNumber
<1>. HIDE DEF s
<1>5. bytes \o PushPrefix(Len(s)) \o s \in Seq(Byte)
  BY <1>1, <1>2, <1>3, Bytes
<1>6. Append(bytes, Op1Negate) \in Seq(Byte)
  BY <1>1, Layout, AppendProperties
<1>7. v \in 0 .. MaxSmall => Append(bytes, EncodeSmallInteger(v)) \in Seq(Byte)
  BY <1>1, SmallIntegers, AppendProperties
<1>8. new \in Seq(Byte)
  BY <1>5, <1>6, <1>7
<1>. QED  BY <1>1, <1>4, <1>8, ChangedInv

THEOREM InitScript == Init => ScriptInv
<1>1. Init => /\ bytes \in Seq(Byte) /\ torn \in BOOLEAN
              /\ seen = << >> /\ it = None
  BY ScriptAssumption DEF Init
<1>. QED  BY <1>1, NoneSeen DEF ScriptInv

THEOREM NextScript == ScriptInv /\ [Next]_vars => ScriptInv'
<1>. SUFFICES ASSUME ScriptInv, [Next]_vars
              PROVE  ScriptInv'
  OBVIOUS
<1>1. CASE UNCHANGED vars
  BY <1>1 DEF ScriptInv, vars
<1>2. CASE Begin
  BY <1>2, BeginStep
<1>3. CASE Increment
  BY <1>3, IncrementStep
<1>4. ASSUME NEW code \in Code, AppendOpcode(code)
      PROVE  ScriptInv'
  <2>1. bytes \in Seq(Byte) /\ torn' \in BOOLEAN /\ code \in Byte
    BY <1>4, ScriptAssumption DEF ScriptInv, AppendOpcode
  <2>2. Append(bytes, code) \in Seq(Byte)
    BY <2>1, AppendProperties
  <2>. QED  BY <1>4, <2>1, <2>2, ChangedInv DEF AppendOpcode
<1>5. ASSUME NEW data \in Data, AppendData(data)
      PROVE  ScriptInv'
  BY <1>5, AppendDataStep
<1>6. ASSUME NEW from \in DOMAIN bytes, NEW to \in DOMAIN bytes, from <= to,
             AppendOwnData(from, to)
      PROVE  ScriptInv'
  BY <1>6, AppendOwnDataStep
<1>7. ASSUME NEW v \in Number, AppendNumber(v)
      PROVE  ScriptInv'
  BY <1>7, AppendNumberStep
<1>8. ASSUME NEW suffix \in Suffix \cup {bytes}, AppendScript(suffix)
      PROVE  ScriptInv'
  <2>1. bytes \in Seq(Byte) /\ torn' \in BOOLEAN /\ suffix \in Seq(Byte)
    BY <1>8, ScriptAssumption DEF ScriptInv, AppendScript
  <2>2. bytes \o suffix \in Seq(Byte)
    BY <2>1, Bytes
  <2>. QED  BY <1>8, <2>1, <2>2, ChangedInv DEF AppendScript
<1>9. CASE Clear
  <2>1. << >> \in Seq(Byte)
    BY EmptySeq
  <2>2. Changed(<< >>) /\ torn' = FALSE
    BY <1>9 DEF Clear
  <2>3. torn' \in BOOLEAN
    BY <2>2
  <2>. QED  BY <2>1, <2>2, <2>3, ChangedInv
<1>. QED  BY <1>1, <1>2, <1>3, <1>4, <1>5, <1>6, <1>7, <1>8, <1>9, Zenon DEF Next

-----------------------------------------------------------------------------
(* What follows from it *)

LEMMA StandsWhereRead ==
  ASSUME ScriptInv, it # None
  PROVE  LET r == it.remaining
             p == Parse(r) IN
         /\ r \in Seq(Byte)
         /\ it.atEnd = IF p.valid THEN FALSE ELSE TRUE
         /\ p.valid => it.current = p.value /\ it.size = p.size
         /\ ~p.valid => it.current = NoInstruction /\ it.size = 0
<1>. DEFINE r == it.remaining
<1>1. r \in Seq(Byte) /\ it = ReadNext(r)
  BY DEF ScriptInv
<1>. HIDE DEF r
<1>2. /\ it.atEnd = IF Parse(r).valid THEN FALSE ELSE TRUE
      /\ Parse(r).valid => it.current = Parse(r).value /\ it.size = Parse(r).size
      /\ ~Parse(r).valid => it.current = NoInstruction /\ it.size = 0
  BY <1>1, ReadNextIs
<1>. QED  BY <1>1, <1>2 DEF r

LEMMA InvTypes == ScriptInv => TypeOK
<1>. SUFFICES ASSUME ScriptInv
              PROVE  TypeOK
  OBVIOUS
<1>1. ASSUME it # None
      PROVE  /\ it.remaining \in Seq(Byte) /\ it.atEnd \in BOOLEAN
             /\ HasValidImmediate(it.current)
             /\ it.size <= Len(it.remaining)
  <2>. DEFINE r == it.remaining
              p == Parse(r)
  <2>1. /\ r \in Seq(Byte)
        /\ it.atEnd = IF p.valid THEN FALSE ELSE TRUE
        /\ p.valid => it.current = p.value /\ it.size = p.size
        /\ ~p.valid => it.current = NoInstruction /\ it.size = 0
    BY <1>1, StandsWhereRead
  <2>2. it.atEnd \in BOOLEAN
    BY <2>1
  <2>3. CASE p.valid
    BY <2>1, <2>2, <2>3, Parsed
  <2>4. CASE ~p.valid
    <3>1. HasValidImmediate(NoInstruction)
      BY Layout, EmptySeq DEF HasValidImmediate, NoInstruction
    <3>2. 0 <= Len(r)
      BY <2>1, LenProperties
    <3>. QED  BY <2>1, <2>2, <2>4, <3>1, <3>2
  <2>. QED  BY <2>3, <2>4
<1>. QED  BY <1>1 DEF ScriptInv, TypeOK

LEMMA InvPartition == ScriptInv => Partition
BY DEF ScriptInv, Partition, Encodings

(* At the end nothing more can be read: the walk ends where the iterator is. *)
LEMMA EndOfWalk ==
  ASSUME ScriptInv, it # None, it.atEnd
  PROVE  Walk[bytes].list = seen /\ Walk[bytes].rest = it.remaining
<1>. DEFINE r == it.remaining
<1>1. r \in Seq(Byte) /\ ~Parse(r).valid
  BY StandsWhereRead
<1>2. /\ seen \in Seq(Instructions)
      /\ Walk[bytes].list = seen \o Walk[r].list
      /\ Walk[bytes].rest = Walk[r].rest
  BY DEF ScriptInv
<1>3. Walk[r].list = << >> /\ Walk[r].rest = r
  BY <1>1, WalkStuck
<1>4. seen \o << >> = seen
  BY <1>2, ConcatEmptySeq
<1>. QED  BY <1>2, <1>3, <1>4

LEMMA InvPredicates == ScriptInv => PredicatesAgree
<1>. SUFFICES ASSUME ScriptInv
              PROVE  PredicatesAgree
  OBVIOUS
<1>1. ASSUME it # None, it.atEnd
      PROVE  Walk[bytes].list = seen /\ Walk[bytes].rest = it.remaining
  BY <1>1, EndOfWalk
<1>. QED  BY <1>1 DEF PredicatesAgree, IsWellFormed, IsPushOnly, HasValidOpcodes

-----------------------------------------------------------------------------
(* Templates *)

(* An instruction whose opcode has no length behind it. *)
LEMMA ParseShort ==
  ASSUME NEW b \in Seq(Byte), b # << >>, LengthWidth(b[1]) = 0,
         NEW n \in Nat, n = IF b[1] < PushData1 THEN b[1] ELSE 0,
         Len(b) >= 1 + n
  PROVE  Parse(b) = [value |-> [code |-> b[1], immediate |-> SubSeq(b, 2, 1 + n)],
                     size |-> 1 + n, valid |-> TRUE]
<1>1. Header(b) = 1
  BY DEF Header
<1>2. Payload(b) = n
  <2>1. SubSeq(b, 2, 1) = << >>
    BY SubSeqEmpty
  <2>2. ReadLength(<< >>) = 0
    BY EmptySeq DEF ReadLength
  <2>. QED  BY <1>1, <2>1, <2>2 DEF Payload
<1>3. Complete(b)
  <2>1. Len(b) \in Nat
    BY LenProperties
  <2>. QED  BY <1>1, <1>2, <2>1 DEF Complete
<1>4. Decoded(b) = [code |-> b[1], immediate |-> SubSeq(b, 2, 1 + n)]
  BY <1>1, <1>2 DEF Decoded
<1>. QED  BY <1>1, <1>2, <1>3, <1>4 DEF Parse

LEMMA AfterElements ==
  ASSUME NEW b \in Seq(Byte), NEW n \in Nat, n <= Len(b)
  PROVE  \A i \in 1 .. Len(b) - n : After(b, n)[i] = b[n + i]
<1>1. Len(b) \in Nat
  BY LenProperties
<1>2. \A i \in n + 1 .. Len(b) : b[i] \in Byte
  BY <1>1, ElementOfSeq
<1>3. \A i \in 1 .. Len(b) - (n + 1) + 1 : SubSeq(b, n + 1, Len(b))[i] = b[(n + 1) + i - 1]
  BY <1>1, <1>2, SubSeqProperties
<1>4. \A i \in 1 .. Len(b) - n :
        i \in 1 .. Len(b) - (n + 1) + 1 /\ (n + 1) + i - 1 = n + i
  BY <1>1
<1>. QED  BY <1>3, <1>4 DEF After

LEMMA Opcodes ==
  /\ OpReturn \in Nat /\ OpHash160 \in Nat /\ OpEqual \in Nat /\ OpCheckSigAdd \in Nat
  /\ Op16 < OpReturn /\ Op16 < OpHash160 /\ Op16 < OpEqual /\ Op16 < OpCheckSigAdd
  /\ OpReturn # OpHash160
  /\ MinProgram \in Nat /\ MaxProgram \in Nat /\ KeyHash \in Nat /\ ScriptHash \in Nat
  /\ MinProgram <= KeyHash /\ KeyHash < ScriptHash /\ ScriptHash <= MaxProgram
  /\ MaxProgram < PushData1
  /\ MaxProgram + 2 <= ScriptLimit /\ MaxProgram <= ElementLimit
  /\ ScriptLimit \in Nat /\ ElementLimit \in Nat
  /\ MaxSmall \in Nat \ {0} /\ Op16 = Op1 + MaxSmall - 1
BY LayoutAssumption DEF Op16, Op1

LEMMA NoLength ==
  ASSUME NEW c \in Byte, c < PushData1 \/ c > PushData4
  PROVE  LengthWidth(c) = 0
BY Layout DEF LengthWidth, Byte

(* After an opcode of one byte the walk goes on with the next. *)
LEMMA WalkOpcode ==
  ASSUME NEW b \in Seq(Byte), b # << >>, b[1] = 0 \/ b[1] > PushData4
  PROVE  /\ After(b, 1) \in Seq(Byte) /\ Len(After(b, 1)) = Len(b) - 1
         /\ Walk[b].list = <<[code |-> b[1], immediate |-> << >>]>> \o Walk[After(b, 1)].list
         /\ Walk[b].rest = Walk[After(b, 1)].rest
<1>1. Len(b) \in Nat \ {0}
  BY EmptySeq
<1>2. b[1] \in Byte
  BY <1>1, ElementOfSeq
<1>3. b[1] < PushData1 \/ b[1] > PushData4
  BY Layout
<1>4. LengthWidth(b[1]) = 0
  BY <1>2, <1>3, NoLength
<1>5. (IF b[1] < PushData1 THEN b[1] ELSE 0) = 0
  BY <1>2, Layout DEF Byte
<1>6. Parse(b) = [value |-> [code |-> b[1], immediate |-> SubSeq(b, 2, 1)],
                  size |-> 1, valid |-> TRUE]
  <2>1. 0 \in Nat /\ Len(b) >= 1 + 0 /\ 1 + 0 = 1
    BY <1>1
  <2>. QED  BY <1>4, <1>5, <2>1, ParseShort
<1>7. SubSeq(b, 2, 1) = << >>
  BY SubSeqEmpty
<1>8. Parse(b).valid /\ Parse(b).size = 1
      /\ Parse(b).value = [code |-> b[1], immediate |-> << >>]
  BY <1>6, <1>7
<1>9. After(b, 1) \in Seq(Byte) /\ Len(After(b, 1)) = Len(b) - 1
  BY <1>1, AfterIs
<1>10. /\ Walk[b].list = <<Parse(b).value>> \o Walk[After(b, Parse(b).size)].list
       /\ Walk[b].rest = Walk[After(b, Parse(b).size)].rest
  BY <1>8, WalkParsed
<1>. QED  BY <1>8, <1>9, <1>10

(* After a push of b[1] bytes it goes on behind them. *)
LEMMA WalkPush ==
  ASSUME NEW b \in Seq(Byte), b # << >>, b[1] < PushData1, Len(b) >= 1 + b[1]
  PROVE  LET a == After(b, 1 + b[1]) IN
         /\ a \in Seq(Byte) /\ Len(a) = Len(b) - (1 + b[1])
         /\ Walk[b].list = <<[code |-> b[1], immediate |-> SubSeq(b, 2, 1 + b[1])]>>
                             \o Walk[a].list
         /\ Walk[b].rest = Walk[a].rest
<1>. DEFINE n == b[1]
<1>1. Len(b) \in Nat \ {0}
  BY EmptySeq
<1>2. n \in Byte /\ n \in Nat
  <2>1. n \in Byte
    BY <1>1, ElementOfSeq
  <2>. QED  BY <2>1, Layout DEF Byte
<1>3. LengthWidth(n) = 0
  BY <1>2, NoLength
<1>4. Parse(b) = [value |-> [code |-> n, immediate |-> SubSeq(b, 2, 1 + n)],
                  size |-> 1 + n, valid |-> TRUE]
  <2>1. n = IF b[1] < PushData1 THEN b[1] ELSE 0
    OBVIOUS
  <2>. QED  BY <1>2, <1>3, <2>1, ParseShort
<1>5. Parse(b).valid /\ Parse(b).size = 1 + n
      /\ Parse(b).value = [code |-> n, immediate |-> SubSeq(b, 2, 1 + n)]
  BY <1>4
<1>6. After(b, 1 + n) \in Seq(Byte) /\ Len(After(b, 1 + n)) = Len(b) - (1 + n)
  <2>. DEFINE m == 1 + n
  <2>1. m \in Nat /\ m <= Len(b)
    BY <1>1, <1>2
  <2>. HIDE DEF m
  <2>2. After(b, m) \in Seq(Byte) /\ Len(After(b, m)) = Len(b) - m
    BY <2>1, AfterIs
  <2>. QED  BY <2>2 DEF m
<1>7. /\ Walk[b].list = <<Parse(b).value>> \o Walk[After(b, Parse(b).size)].list
      /\ Walk[b].rest = Walk[After(b, Parse(b).size)].rest
  BY <1>5, WalkParsed
<1>. QED  BY <1>5, <1>6, <1>7

LEMMA WalkEmpty == Walk[<< >>].list = << >> /\ Walk[<< >>].rest = << >>
BY EmptySeq, NothingParsed, WalkStuck

LEMMA NoBytes ==
  ASSUME NEW b \in Seq(Byte)
  PROVE  Len(b) = 0 <=> b = << >>
BY EmptySeq

LEMMA TwoInstructions ==
  ASSUME NEW i, NEW j
  PROVE  <<i>> \o (<<j>> \o << >>) = <<i, j>>
<1>. DEFINE S == {i, j}
            a == <<i>>
            b == <<j>>
            c == <<i, j>>
<1>1. a \in Seq(S) /\ b \in Seq(S) /\ c \in Seq(S)
  OBVIOUS
<1>2. Len(a) = 1 /\ Len(b) = 1 /\ Len(c) = 2 /\ a[1] = i /\ b[1] = j /\ c[1] = i /\ c[2] = j
  OBVIOUS
<1>. HIDE DEF S, a, b, c
<1>3. b \o << >> = b
  BY <1>1, ConcatEmptySeq
<1>4. /\ a \o b \in Seq(S) /\ Len(a \o b) = Len(a) + Len(b)
      /\ \A k \in 1 .. Len(a) + Len(b) :
           (a \o b)[k] = IF k <= Len(a) THEN a[k] ELSE b[k - Len(a)]
  BY <1>1, ConcatProperties
<1>5. Len(a \o b) = Len(c) /\ \A k \in 1 .. Len(a \o b) : (a \o b)[k] = c[k]
  BY <1>2, <1>4
<1>6. a \o b = c
  BY <1>1, <1>4, <1>5, SeqEqual
<1>. QED  BY <1>3, <1>6 DEF a, b, c

(* OP_HASH160, the push of a hash, OP_EQUAL. *)
LEMMA PayToScriptHash ==
  ASSUME NEW b \in Seq(Byte), IsPayToScriptHash(b)
  PROVE  WitnessProgram(b) = NoProgram /\ IsWellFormed(b) /\ ~IsPushOnly(b) /\ ~IsUnspendable(b)
<1>. DEFINE c == After(b, 1)
            d == After(c, 1 + KeyHash)
            e == After(d, 1)
<1>1. Len(b) = KeyHash + 3 /\ b[1] = OpHash160 /\ b[2] = KeyHash /\ b[KeyHash + 3] = OpEqual
  BY DEF IsPayToScriptHash
<1>2. b # << >>
  BY <1>1, EmptySeq, Opcodes
<1>3. OpHash160 > PushData4 /\ OpEqual > PushData4 /\ KeyHash < PushData1
  BY Opcodes, SmallIntegers, Layout
<1>4. /\ c \in Seq(Byte) /\ Len(c) = KeyHash + 2
      /\ Walk[b].list = <<[code |-> OpHash160, immediate |-> << >>]>> \o Walk[c].list
      /\ Walk[b].rest = Walk[c].rest
  <2>1. /\ c \in Seq(Byte) /\ Len(c) = Len(b) - 1
        /\ Walk[b].list = <<[code |-> b[1], immediate |-> << >>]>> \o Walk[c].list
        /\ Walk[b].rest = Walk[c].rest
    BY <1>1, <1>2, <1>3, WalkOpcode
  <2>. QED  BY <1>1, <2>1, Opcodes
<1>5. c[1] = KeyHash /\ c[KeyHash + 2] = OpEqual
  <2>1. \A i \in 1 .. Len(b) - 1 : c[i] = b[1 + i]
    BY <1>1, Opcodes, AfterElements
  <2>2. 1 \in 1 .. Len(b) - 1 /\ KeyHash + 2 \in 1 .. Len(b) - 1 /\ 1 + 1 = 2
        /\ 1 + (KeyHash + 2) = KeyHash + 3
    BY <1>1, Opcodes
  <2>. QED  BY <1>1, <2>1, <2>2
<1>. HIDE DEF c
<1>6. d \in Seq(Byte) /\ Len(d) = 1 /\ Walk[c].rest = Walk[d].rest
  <2>1. c # << >> /\ Len(c) >= 1 + c[1] /\ Len(c) - (1 + c[1]) = 1 /\ c[1] < PushData1
    BY <1>3, <1>4, <1>5, EmptySeq, Opcodes
  <2>2. /\ After(c, 1 + c[1]) \in Seq(Byte)
        /\ Len(After(c, 1 + c[1])) = Len(c) - (1 + c[1])
        /\ Walk[c].rest = Walk[After(c, 1 + c[1])].rest
    BY <1>4, <2>1, WalkPush
  <2>. QED  BY <1>5, <2>1, <2>2
<1>7. d[1] = OpEqual
  <2>1. 1 + KeyHash \in Nat /\ 1 + KeyHash <= Len(c) /\ 1 \in 1 .. Len(c) - (1 + KeyHash)
        /\ (1 + KeyHash) + 1 = KeyHash + 2
    BY <1>4, Opcodes
  <2>2. \A i \in 1 .. Len(c) - (1 + KeyHash) : d[i] = c[(1 + KeyHash) + i]
    BY <1>4, <2>1, AfterElements
  <2>. QED  BY <1>5, <2>1, <2>2
<1>. HIDE DEF d
<1>8. e \in Seq(Byte) /\ Len(e) = 0 /\ Walk[d].rest = Walk[e].rest
  <2>1. d # << >>
    <3>1. Len(d) # 0
      BY <1>6
    <3>. QED  BY <1>6, <3>1, NoBytes, Zenon
  <2>2. e \in Seq(Byte) /\ Len(e) = Len(d) - 1 /\ Walk[d].rest = Walk[e].rest
    BY <1>3, <1>6, <1>7, <2>1, WalkOpcode
  <2>. QED  BY <1>6, <2>2
<1>. HIDE DEF e
<1>9. IsWellFormed(b)
  <2>1. e = << >>
    BY <1>8, NoBytes
  <2>. QED  BY <1>4, <1>6, <1>8, <2>1, WalkEmpty DEF IsWellFormed
<1>10. ~IsPushOnly(b)
  <2>. DEFINE o == [code |-> OpHash160, immediate |-> << >>]
              w == Walk[c].list
  <2>1. o \in Instructions
    <3>1. OpHash160 \in Byte
      BY <1>1, <1>2, EmptySeq, ElementOfSeq
    <3>2. << >> \in Seq(Byte)
      BY EmptySeq
    <3>. QED  BY <3>1, <3>2 DEF Instructions
  <2>2. o.code = OpHash160
    OBVIOUS
  <2>3. w \in Seq(Instructions)
    BY <1>4, WalkType
  <2>. HIDE DEF o, w
  <2>4. Walk[b].list = <<o>> \o w
    BY <1>4 DEF o, w
  <2>5. 1 \in DOMAIN Walk[b].list /\ Walk[b].list[1] = o
    <3>1. <<o>> \in Seq(Instructions) /\ Len(<<o>>) = 1 /\ <<o>>[1] = o
      BY <2>1
    <3>. DEFINE s == <<o>>
    <3>2. s \in Seq(Instructions) /\ Len(s) = 1 /\ s[1] = o
      BY <3>1
    <3>. HIDE DEF s
    <3>c. /\ s \o w \in Seq(Instructions) /\ Len(s \o w) = Len(s) + Len(w)
          /\ \A i \in 1 .. Len(s) + Len(w) :
               (s \o w)[i] = IF i <= Len(s) THEN s[i] ELSE w[i - Len(s)]
      BY <2>3, <3>2, ConcatProperties
    <3>3. /\ s \o w \in Seq(Instructions) /\ Len(s \o w) = 1 + Len(w)
          /\ \A i \in 1 .. 1 + Len(w) : (s \o w)[i] = IF i <= 1 THEN s[i] ELSE w[i - 1]
      BY <3>2, <3>c
    <3>4. Len(w) \in Nat /\ DOMAIN (s \o w) = 1 .. 1 + Len(w)
      BY <2>3, <3>3, LenProperties
    <3>5. 1 \in DOMAIN (s \o w) /\ (s \o w)[1] = o
      BY <3>2, <3>3, <3>4
    <3>. QED  BY <2>4, <3>5 DEF s
  <2>6. ~(OpHash160 <= Op16)
    BY Opcodes, Layout
  <2>. QED  BY <2>2, <2>5, <2>6 DEF IsPushOnly
<1>11. ~IsUnspendable(b)
  <2>1. b[1] # OpReturn
    BY <1>1, Opcodes
  <2>2. ~(Len(b) > ScriptLimit)
    BY <1>1, Opcodes
  <2>. QED  BY <2>1, <2>2 DEF IsUnspendable
<1>12. WitnessProgram(b) = NoProgram
  <2>1. ~IsSmallInteger(b[1])
    BY <1>1, Opcodes, Layout DEF IsSmallInteger
  <2>. QED  BY <2>1 DEF WitnessProgram
<1>. QED  BY <1>9, <1>10, <1>11, <1>12

(* A witness program has a version and a push behind it. *)
LEMMA ProgramIs ==
  ASSUME NEW b \in Seq(Byte), WitnessProgram(b) # NoProgram
  PROVE  /\ Len(b) = b[2] + 2 /\ b[2] \in MinProgram .. MaxProgram
         /\ b[1] = 0 \/ b[1] \in Op1 .. Op16
         /\ WitnessProgram(b) =
              [version |-> DecodeSmallInteger(b[1]), program |-> SubSeq(b, 3, b[2] + 2)]
         /\ Len(SubSeq(b, 3, b[2] + 2)) = b[2]
<1>1. /\ IsSmallInteger(b[1]) /\ b[2] \in MinProgram .. MaxProgram /\ Len(b) = b[2] + 2
      /\ WitnessProgram(b) =
           [version |-> DecodeSmallInteger(b[1]), program |-> SubSeq(b, 3, b[2] + 2)]
  BY DEF WitnessProgram
<1>2. b[2] \in Nat
  BY <1>1, Opcodes
<1>3. Len(SubSeq(b, 3, b[2] + 2)) = b[2]
  <2>. DEFINE n == b[2]
  <2>0. n \in Nat /\ Len(b) = n + 2
    BY <1>1, <1>2
  <2>. HIDE DEF n
  <2>1. 3 \in Nat \ {0} /\ n + 2 \in Nat /\ n + 2 <= Len(b) /\ 3 <= (n + 2) + 1
        /\ (n + 2) - 3 + 1 = n
    BY ONLY <2>0
  <2>2. Len(SubSeq(b, 3, n + 2)) = (n + 2) - 3 + 1
    BY <2>1, Part
  <2>. QED  BY <2>1, <2>2 DEF n
<1>. QED  BY <1>1, <1>3 DEF IsSmallInteger

LEMMA Versions ==
  ASSUME NEW c, c = 0 \/ c \in Op1 .. Op16
  PROVE  /\ DecodeSmallInteger(c) \in 0 .. MaxSmall
         /\ EncodeSmallInteger(DecodeSmallInteger(c)) = c
         /\ DecodeSmallInteger(c) = 0 <=> c = 0
         /\ DecodeSmallInteger(c) = 1 <=> c = Op1
         /\ c <= Op16 /\ c # OpReturn /\ c \in Nat
         /\ c = 0 \/ c > PushData4
<1>1. Op1 \in Nat \ {0} /\ Op16 = Op1 + MaxSmall - 1 /\ MaxSmall \in Nat \ {0}
      /\ OpReturn \in Nat /\ OpReturn > Op16 /\ Op1 > PushData4 /\ PushData4 \in Nat
  BY Opcodes, SmallIntegers, Layout
<1>. QED  BY <1>1 DEF DecodeSmallInteger, EncodeSmallInteger

LEMMA WitnessProgramWalk ==
  ASSUME NEW b \in Seq(Byte), WitnessProgram(b) # NoProgram
  PROVE  LET w == WitnessProgram(b) IN
         /\ IsPushOnly(b) /\ HasValidOpcodes(b)
         /\ Walk[b].list = <<[code |-> EncodeSmallInteger(w.version), immediate |-> << >>],
                             [code |-> Len(w.program), immediate |-> w.program]>>
<1>. DEFINE n == b[2]
            prog == SubSeq(b, 3, n + 2)
            c == After(b, 1)
            d == After(c, 1 + n)
            i1 == [code |-> b[1], immediate |-> << >>]
            i2 == [code |-> n, immediate |-> prog]
<1>1. /\ Len(b) = n + 2 /\ n \in MinProgram .. MaxProgram
      /\ b[1] = 0 \/ b[1] \in Op1 .. Op16
      /\ WitnessProgram(b) = [version |-> DecodeSmallInteger(b[1]), program |-> prog]
      /\ Len(prog) = n
  BY ProgramIs
<1>2. n \in Nat /\ n < PushData1 /\ n <= ElementLimit /\ n <= Op16 /\ n <= OpCheckSigAdd
  <2>1. n \in Nat /\ n < PushData1 /\ n <= ElementLimit
    <3>1. /\ MinProgram \in Nat /\ MaxProgram \in Nat /\ ElementLimit \in Nat
          /\ MaxProgram < PushData1 /\ MaxProgram <= ElementLimit
      BY Opcodes
    <3>2. PushData1 \in Nat
      BY Layout
    <3>. HIDE DEF n
    <3>. QED  BY <1>1, <3>1, <3>2
  <2>2. PushData1 <= Op16 /\ Op16 <= OpCheckSigAdd /\ PushData1 \in Nat /\ Op16 \in Nat
        /\ OpCheckSigAdd \in Nat
    BY Layout, Opcodes
  <2>. HIDE DEF n
  <2>. QED  BY <2>1, <2>2
<1>3. b # << >> /\ (b[1] = 0 \/ b[1] > PushData4)
  BY <1>1, <1>2, EmptySeq, Versions
<1>4. /\ c \in Seq(Byte) /\ Len(c) = n + 1
      /\ Walk[b].list = <<i1>> \o Walk[c].list /\ Walk[b].rest = Walk[c].rest
  <2>1. /\ c \in Seq(Byte) /\ Len(c) = Len(b) - 1
        /\ Walk[b].list = <<i1>> \o Walk[c].list /\ Walk[b].rest = Walk[c].rest
    BY <1>3, WalkOpcode
  <2>. HIDE DEF c, i1
  <2>2. Len(b) - 1 = n + 1
    BY <1>1, <1>2
  <2>. QED  BY <2>1, <2>2
<1>5. c[1] = n /\ SubSeq(c, 2, 1 + n) = prog
  <2>1. \A i \in 1 .. n + 1 : c[i] = b[1 + i]
    <3>1. 1 \in Nat /\ 1 <= Len(b) /\ Len(b) - 1 = n + 1
      BY <1>1, <1>2
    <3>2. \A i \in 1 .. Len(b) - 1 : c[i] = b[1 + i]
      BY <3>1, AfterElements
    <3>. QED  BY <3>1, <3>2
  <2>2. c[1] = n
    BY <1>2, <2>1
  <2>. DEFINE s == SubSeq(c, 2, 1 + n)
  <2>3. s \in Seq(Byte) /\ Len(s) = n /\ \A i \in 1 .. n : s[i] = c[1 + i]
    <3>1. \A i \in 2 .. 1 + n : c[i] \in Byte
      BY <1>2, <1>4, ElementOfSeq
    <3>2. 2 \in Int /\ 1 + n \in Int
      BY <1>2
    <3>. HIDE DEF c, n
    <3>3. /\ SubSeq(c, 2, 1 + n) \in Seq(Byte)
          /\ Len(SubSeq(c, 2, 1 + n)) = IF 2 <= 1 + n THEN (1 + n) - 2 + 1 ELSE 0
          /\ \A i \in 1 .. (1 + n) - 2 + 1 : SubSeq(c, 2, 1 + n)[i] = c[2 + i - 1]
      BY ONLY <3>1, <3>2, SubSeqProperties
    <3>. QED  BY <1>2, <3>3
  <2>4. prog \in Seq(Byte) /\ Len(prog) = n /\ \A i \in 1 .. n : prog[i] = b[2 + i]
    <3>1. \A i \in 3 .. n + 2 : b[i] \in Byte
      BY <1>1, <1>2, ElementOfSeq
    <3>2. 3 \in Int /\ n + 2 \in Int
      BY <1>2
    <3>. HIDE DEF n
    <3>3. /\ SubSeq(b, 3, n + 2) \in Seq(Byte)
          /\ \A i \in 1 .. (n + 2) - 3 + 1 : SubSeq(b, 3, n + 2)[i] = b[3 + i - 1]
      BY ONLY <3>1, <3>2, SubSeqProperties
    <3>4. \A i \in 1 .. n : i \in 1 .. (n + 2) - 3 + 1 /\ 3 + i - 1 = 2 + i
      BY <1>2
    <3>. QED  BY <1>1, <3>3, <3>4
  <2>. HIDE DEF c, s, prog, n
  <2>5. \A i \in 1 .. n : s[i] = prog[i]
    <3>1. \A i \in 1 .. n : 1 + i \in 1 .. n + 1 /\ 1 + (1 + i) = 2 + i
      BY <1>2
    <3>. QED  BY <2>1, <2>3, <2>4, <3>1
  <2>6. s = prog
    BY <2>3, <2>4, <2>5, SeqEqual
  <2>. QED  BY <2>2, <2>6 DEF s
<1>6. /\ d \in Seq(Byte) /\ Len(d) = 0
      /\ Walk[c].list = <<i2>> \o Walk[d].list /\ Walk[c].rest = Walk[d].rest
  <2>1. c # << >> /\ c[1] < PushData1 /\ Len(c) >= 1 + c[1] /\ Len(c) - (1 + c[1]) = 0
    <3>1. Len(c) # 0 /\ Len(c) >= 1 + n /\ Len(c) - (1 + n) = 0 /\ c[1] = n
      <4>. HIDE DEF c, n
      <4>. QED  BY <1>2, <1>4, <1>5
    <3>. HIDE DEF c, n
    <3>2. c # << >>
      BY <1>4, <3>1, NoBytes
    <3>. QED  BY <1>2, <3>1, <3>2
  <2>2. /\ After(c, 1 + c[1]) \in Seq(Byte)
        /\ Len(After(c, 1 + c[1])) = Len(c) - (1 + c[1])
        /\ Walk[c].list = <<[code |-> c[1], immediate |-> SubSeq(c, 2, 1 + c[1])]>>
                            \o Walk[After(c, 1 + c[1])].list
        /\ Walk[c].rest = Walk[After(c, 1 + c[1])].rest
    BY <1>4, <2>1, WalkPush
  <2>. QED  BY <1>5, <2>1, <2>2
<1>7. Walk[d].list = << >> /\ Walk[d].rest = << >>
  BY <1>6, NoBytes, WalkEmpty
<1>8. i1.code = b[1] /\ Len(i1.immediate) = 0 /\ i2.code = n /\ Len(i2.immediate) = n
  BY <1>1, EmptySeq
<1>9. i1 = [code |-> EncodeSmallInteger(DecodeSmallInteger(b[1])), immediate |-> << >>]
  BY <1>1, Versions
<1>10. b[1] <= Op16 /\ b[1] <= OpCheckSigAdd
  <2>1. b[1] <= Op16 /\ b[1] \in Nat
    BY <1>1, Versions
  <2>. QED  BY <2>1, Opcodes, Layout
<1>11. IsWellFormed(b)
  BY <1>4, <1>6, <1>7 DEF IsWellFormed
<1>12. i2 = [code |-> Len(prog), immediate |-> prog]
  BY <1>1
<1>. HIDE DEF i1, i2, prog, n, c, d
<1>13. Walk[b].list = <<i1, i2>>
  <2>1. Walk[b].list = <<i1>> \o (<<i2>> \o << >>)
    BY <1>4, <1>6, <1>7
  <2>. QED  BY <2>1, TwoInstructions
<1>14. \A i \in DOMAIN <<i1, i2>> :
         <<i1, i2>>[i].code \in {b[1], n} /\ Len(<<i1, i2>>[i].immediate) \in {0, n}
  BY <1>8
<1>15. 0 <= ElementLimit
  BY Opcodes
<1>16. IsPushOnly(b)
  BY <1>2, <1>10, <1>11, <1>13, <1>14 DEF IsPushOnly
<1>17. HasValidOpcodes(b)
  BY <1>2, <1>10, <1>11, <1>13, <1>14, <1>15 DEF HasValidOpcodes
<1>18. /\ WitnessProgram(b).version = DecodeSmallInteger(b[1])
       /\ WitnessProgram(b).program = prog
  BY <1>1
<1>. QED  BY <1>9, <1>12, <1>13, <1>16, <1>17, <1>18

(* The 32-byte programs of versions 0 and 1 are P2WSH and P2TR. *)
LEMMA KnownVersions ==
  ASSUME NEW b \in Seq(Byte)
  PROVE  LET w == WitnessProgram(b) IN
         /\ IsPayToWitnessScriptHash(b) <=> w.version = 0 /\ Len(w.program) = ScriptHash
         /\ IsPayToTaproot(b) <=> w.version = 1 /\ Len(w.program) = ScriptHash
<1>. DEFINE w == WitnessProgram(b)
<1>1. CASE w = NoProgram
  <2>1. w.version = -1
    BY <1>1 DEF NoProgram
  <2>2. ASSUME Len(b) = ScriptHash + 2, b[2] = ScriptHash, b[1] = 0 \/ b[1] = Op1
        PROVE  FALSE
    <3>1. Len(b) \in MinProgram + 2 .. MaxProgram + 2 /\ b[2] \in MinProgram .. MaxProgram
      BY <2>2, Opcodes
    <3>2. IsSmallInteger(b[1])
      BY <2>2, Opcodes, SmallIntegers DEF IsSmallInteger
    <3>3. w.version = DecodeSmallInteger(b[1])
      BY <2>2, <3>1, <3>2 DEF WitnessProgram
    <3>4. DecodeSmallInteger(b[1]) \in 0 .. MaxSmall
      BY <3>2, Versions DEF IsSmallInteger
    <3>. QED  BY <2>1, <3>3, <3>4
  <2>. QED  BY <2>1, <2>2 DEF IsPayToWitnessScriptHash, IsPayToTaproot
<1>2. CASE w # NoProgram
  <2>1. /\ Len(b) = b[2] + 2 /\ b[2] \in MinProgram .. MaxProgram
        /\ b[1] = 0 \/ b[1] \in Op1 .. Op16
        /\ w = [version |-> DecodeSmallInteger(b[1]), program |-> SubSeq(b, 3, b[2] + 2)]
        /\ Len(SubSeq(b, 3, b[2] + 2)) = b[2]
    BY <1>2, ProgramIs
  <2>2. w.version = DecodeSmallInteger(b[1]) /\ Len(w.program) = b[2]
    BY <2>1
  <2>3. w.version = 0 <=> b[1] = 0
    BY <2>1, <2>2, Versions
  <2>4. w.version = 1 <=> b[1] = Op1
    BY <2>1, <2>2, Versions
  <2>5. Len(w.program) = ScriptHash <=> Len(b) = ScriptHash + 2 /\ b[2] = ScriptHash
    BY <2>1, <2>2, Opcodes
  <2>. HIDE DEF w
  <2>. QED  BY <2>3, <2>4, <2>5 DEF IsPayToWitnessScriptHash, IsPayToTaproot, w
<1>. QED  BY <1>1, <1>2

LEMMA InvTemplates == ScriptInv => Templates
<1>. SUFFICES ASSUME bytes \in Seq(Byte)
              PROVE  Templates
  BY DEF ScriptInv
<1>. DEFINE w == WitnessProgram(bytes)
<1>1. /\ IsPayToWitnessScriptHash(bytes) <=> w.version = 0 /\ Len(w.program) = ScriptHash
      /\ IsPayToTaproot(bytes) <=> w.version = 1 /\ Len(w.program) = ScriptHash
  BY KnownVersions
<1>2. IsPayToScriptHash(bytes) =>
        w = NoProgram /\ IsWellFormed(bytes) /\ ~IsPushOnly(bytes) /\ ~IsUnspendable(bytes)
  BY PayToScriptHash
<1>3. ASSUME w # NoProgram
      PROVE  /\ w.version \in 0 .. MaxSmall /\ Len(w.program) \in MinProgram .. MaxProgram
             /\ ~IsUnspendable(bytes)
  <2>1. /\ Len(bytes) = bytes[2] + 2 /\ bytes[2] \in MinProgram .. MaxProgram
        /\ bytes[1] = 0 \/ bytes[1] \in Op1 .. Op16
        /\ w = [version |-> DecodeSmallInteger(bytes[1]),
                program |-> SubSeq(bytes, 3, bytes[2] + 2)]
        /\ Len(SubSeq(bytes, 3, bytes[2] + 2)) = bytes[2]
    BY <1>3, ProgramIs
  <2>2. w.version = DecodeSmallInteger(bytes[1]) /\ Len(w.program) = bytes[2]
    BY <2>1
  <2>3. w.version \in 0 .. MaxSmall /\ bytes[1] # OpReturn
    BY <2>1, <2>2, Versions
  <2>4. ~(Len(bytes) > ScriptLimit)
    <3>. DEFINE n == bytes[2]
    <3>1. MinProgram \in Nat /\ MaxProgram \in Nat /\ ScriptLimit \in Nat
          /\ MaxProgram + 2 <= ScriptLimit
      BY Opcodes
    <3>2. n \in MinProgram .. MaxProgram /\ Len(bytes) = n + 2
      BY <2>1
    <3>. HIDE DEF n
    <3>. QED  BY ONLY <3>1, <3>2
  <2>. HIDE DEF w
  <2>. QED  BY <2>1, <2>2, <2>3, <2>4 DEF IsUnspendable
<1>4. ASSUME w # NoProgram
      PROVE  /\ IsPushOnly(bytes) /\ HasValidOpcodes(bytes)
             /\ Walk[bytes].list =
                  <<[code |-> EncodeSmallInteger(w.version), immediate |-> << >>],
                    [code |-> Len(w.program), immediate |-> w.program]>>
  BY <1>4, WitnessProgramWalk
<1>. HIDE DEF w
<1>. QED  BY <1>1, <1>2, <1>3, <1>4 DEF Templates, w

-----------------------------------------------------------------------------
(* Little endian numbers *)

LEFrom(f, s) == IF s = << >> THEN 0 ELSE Put(Head(s), f[Tail(s)])

(* LittleEndian is what its definition says, for up to n bytes. *)
LEs(f, n) == f = [s \in Short(n) |-> LEFrom(f, s)]

LEMMA LEsAt ==
  ASSUME NEW f, NEW n, LEs(f, n), NEW s \in Short(n)
  PROVE  f[s] = LEFrom(f, s)
<1>. DEFINE g == [c \in Short(n) |-> LEFrom(f, c)]
<1>1. f = g
  BY DEF LEs
<1>2. g[s] = LEFrom(f, s)
  OBVIOUS
<1>. QED  BY <1>1, <1>2, Zenon

LEMMA LESame ==
  ASSUME NEW f, NEW g, NEW s, s # << >> => f[Tail(s)] = g[Tail(s)]
  PROVE  LEFrom(f, s) = LEFrom(g, s)
BY Zenon DEF LEFrom

LEMMA ShortTail ==
  ASSUME NEW n \in Nat, NEW s \in Short(n), s # << >>
  PROVE  n # 0 /\ Tail(s) \in Short(n - 1)
<1>1. s \in Seq(Byte) /\ Len(s) <= n
  BY DEF Short
<1>2. Tail(s) \in Seq(Byte) /\ Len(Tail(s)) = Len(s) - 1
  BY <1>1, HeadTailProperties
<1>3. Len(s) \in Nat \ {0}
  BY <1>1, EmptySeq, LenProperties
<1>. QED  BY <1>1, <1>2, <1>3 DEF Short

LEMMA LEsExist ==
  ASSUME NEW n \in Nat
  PROVE  \E f : LEs(f, n)
<1>. DEFINE T == {m \in Nat : ~ \E f : LEs(f, m)}
<1>. SUFFICES ASSUME T # {}
              PROVE  FALSE
  OBVIOUS
<1>1. T \subseteq Nat
  OBVIOUS
<1>2. PICK m \in T : \A k \in T : m <= k
  BY <1>1, LeastNat
<1>3. m \in Nat /\ ~ \E f : LEs(f, m)
  OBVIOUS
<1>4. \E f : \A s \in Short(m) : s # << >> => f[Tail(s)] = LEFrom(f, Tail(s))
  <2>1. CASE m = 0
    BY <1>3, <2>1, ShortTail
  <2>2. CASE m # 0
    <3>1. m - 1 \in Nat /\ m - 1 \notin T
      BY <1>2, <1>3, <2>2
    <3>2. PICK f : LEs(f, m - 1)
      BY <3>1
    <3>3. \A s \in Short(m) : s # << >> => Tail(s) \in Short(m - 1)
      BY <1>3, ShortTail
    <3>. QED  BY <3>1, <3>2, <3>3, LEsAt
  <2>. QED  BY <2>1, <2>2
<1>5. PICK f : \A s \in Short(m) : s # << >> => f[Tail(s)] = LEFrom(f, Tail(s))
  BY <1>4
<1>. DEFINE g == [s \in Short(m) |-> LEFrom(f, s)]
<1>6. \A s \in Short(m) : LEFrom(g, s) = LEFrom(f, s)
  <2>. SUFFICES ASSUME NEW s \in Short(m)
                PROVE  LEFrom(g, s) = LEFrom(f, s)
    OBVIOUS
  <2>1. ASSUME s # << >>
        PROVE  g[Tail(s)] = f[Tail(s)]
    <3>1. Tail(s) \in Short(m - 1) /\ m # 0
      BY <1>3, <2>1, ShortTail
    <3>2. Tail(s) \in Short(m)
      BY <1>3, <3>1, LenProperties DEF Short
    <3>3. g[Tail(s)] = LEFrom(f, Tail(s))
      BY <3>2
    <3>. HIDE DEF g
    <3>. QED  BY <1>5, <2>1, <3>3, Zenon
  <2>. HIDE DEF g
  <2>. QED  BY <2>1, LESame
<1>7. g = [s \in Short(m) |-> LEFrom(g, s)]
  BY <1>6
<1>. QED  BY <1>3, <1>7 DEF LEs

LEMMA LEsAgree ==
  ASSUME NEW f, NEW g, NEW n \in Nat, NEW m \in Nat, LEs(f, n), LEs(g, m),
         NEW s \in Short(n), s \in Short(m)
  PROVE  f[s] = g[s]
<1>. DEFINE T == {k \in Nat : \E c \in Short(n) : c \in Short(m) /\ Len(c) = k /\ f[c] # g[c]}
<1>1. ASSUME T # {} PROVE FALSE
  <2>1. T \subseteq Nat
    OBVIOUS
  <2>2. PICK k \in T : \A j \in T : k <= j
    BY <1>1, <2>1, LeastNat
  <2>3. PICK c \in Short(n) : c \in Short(m) /\ Len(c) = k /\ f[c] # g[c]
    OBVIOUS
  <2>4. f[c] = LEFrom(f, c) /\ g[c] = LEFrom(g, c)
    BY <2>3, LEsAt
  <2>5. ASSUME c # << >>
        PROVE  f[Tail(c)] = g[Tail(c)]
    <3>. DEFINE a == Tail(c)
    <3>1. c \in Seq(Byte)
      BY DEF Short
    <3>2. a \in Seq(Byte) /\ Len(c) \in Nat \ {0} /\ Len(a) = Len(c) - 1
      BY <2>5, <3>1, HeadTailProperties, EmptySeq, LenProperties
    <3>. HIDE DEF a
    <3>3. Len(a) \in Nat /\ Len(a) < k /\ a \in Short(n) /\ a \in Short(m)
      BY <2>3, <3>2 DEF Short
    <3>4. Len(a) \notin T
      <4>. HIDE DEF T
      <4>. QED  BY <2>2, <3>2, <3>3, <2>3
    <3>5. f[a] = g[a]
      BY <3>3, <3>4
    <3>. QED  BY <3>5 DEF a
  <2>6. LEFrom(f, c) = LEFrom(g, c)
    BY <2>5, LESame
  <2>. QED  BY <2>3, <2>4, <2>6
<1>2. s \in Short(n) /\ s \in Short(m) /\ Len(s) \in Nat
  BY LenProperties DEF Short
<1>. QED  BY <1>1, <1>2

LEMMA LittleEndianIs ==
  \A s \in Seq(Byte) : LittleEndian[s] = LEFrom(LittleEndian, s)
<1>. DEFINE some(n) == CHOOSE f : LEs(f, n)
            g == [c \in Seq(Byte) |-> some(Len(c))[c]]
            h == [c \in Seq(Byte) |-> LEFrom(g, c)]
<1>1. \A n \in Nat : LEs(some(n), n)
  BY LEsExist
<1>. HIDE DEF some
<1>2. \A c \in Seq(Byte) : Len(c) \in Nat /\ c \in Short(Len(c))
  BY LenProperties DEF Short
<1>3. \A c \in Seq(Byte) : g[c] = h[c]
  <2>. SUFFICES ASSUME NEW c \in Seq(Byte)
                PROVE  g[c] = h[c]
    OBVIOUS
  <2>1. some(Len(c))[c] = LEFrom(some(Len(c)), c)
    BY <1>1, <1>2, LEsAt
  <2>2. ASSUME c # << >>
        PROVE  some(Len(c))[Tail(c)] = g[Tail(c)]
    <3>. DEFINE a == Tail(c)
    <3>1. a \in Seq(Byte) /\ Len(c) \in Nat \ {0} /\ Len(a) = Len(c) - 1
      BY <2>2, HeadTailProperties, EmptySeq, LenProperties
    <3>. HIDE DEF a
    <3>2. a \in Short(Len(c)) /\ a \in Short(Len(a)) /\ Len(a) \in Nat
      BY <3>1 DEF Short
    <3>3. some(Len(c))[a] = some(Len(a))[a]
      BY <1>1, <3>1, <3>2, LEsAgree
    <3>4. g[a] = some(Len(a))[a]
      BY <3>1
    <3>. QED  BY <3>3, <3>4 DEF a
  <2>. HIDE DEF g
  <2>3. LEFrom(some(Len(c)), c) = LEFrom(g, c)
    BY <2>2, LESame
  <2>4. g[c] = some(Len(c))[c]
    BY DEF g
  <2>. QED  BY <2>1, <2>3, <2>4
<1>. HIDE DEF g
<1>4. g = h
  BY <1>3 DEF g
<1>. DEFINE d(f) == [s \in Seq(Byte) |-> IF s = << >> THEN 0 ELSE Head(s) + Radix * f[Tail(s)]]
<1>5. h = d(g)
  BY DEF LEFrom, Put
<1>. HIDE DEF h
<1>6. g = d(g)
  BY <1>4, <1>5
<1>7. \E f : f = d(f)
  BY <1>6
<1>8. LittleEndian = CHOOSE f : f = d(f)
  BY DEF LittleEndian
<1>. HIDE DEF d
<1>9. LittleEndian = d(LittleEndian)
  BY <1>7, <1>8, Zenon
<1>. USE DEF d
<1>10. \A s \in Seq(Byte) : d(LittleEndian)[s] = LEFrom(LittleEndian, s)
  BY DEF LEFrom, Put
<1>. HIDE DEF d
<1>. QED  BY <1>9, <1>10

(* The digits of a number that fits give it back. *)
LEMMA DigitsRead ==
  \A w \in Nat : \A n \in Nat : n < Power[w] => LittleEndian[ToLittleEndian(n, w)] = n
<1>. DEFINE Good(w) == \A n \in Nat : n < Power[w] => LittleEndian[ToLittleEndian(n, w)] = n
            T == {w \in Nat : ~Good(w)}
<1>1. ASSUME T # {} PROVE FALSE
  <2>1. T \subseteq Nat
    OBVIOUS
  <2>2. PICK w \in T : \A j \in T : w <= j
    BY <1>1, <2>1, LeastNat
  <2>3. w \in Nat /\ ~Good(w)
    OBVIOUS
  <2>4. PICK n \in Nat : n < Power[w] /\ LittleEndian[ToLittleEndian(n, w)] # n
    BY <2>3
  <2>. DEFINE s == ToLittleEndian(n, w)
  <2>5. /\ s \in Seq(Byte) /\ Len(s) = w
        /\ \A i \in 1 .. w : s[i] = (n \div Power[i - 1]) % Radix
    BY <2>3, ToLittleEndianIs
  <2>. HIDE DEF s
  <2>6. LittleEndian[s] = LEFrom(LittleEndian, s)
    BY <2>5, LittleEndianIs
  <2>7. w # 0
    <3>1. ASSUME w = 0 PROVE FALSE
      <4>1. s = << >>
        BY <2>5, <3>1, EmptySeq
      <4>2. LittleEndian[s] = 0
        BY <2>6, <4>1, Zenon DEF LEFrom
      <4>3. n < 1
        BY <2>4, <3>1, SmallPowers
      <4>. QED  BY <2>4, <4>2, <4>3 DEF s
    <3>. QED  BY <3>1
  <2>8. w - 1 \in Nat /\ w - 1 \notin T
    <3>. HIDE DEF T
    <3>. QED  BY <2>2, <2>3, <2>7
  <2>. DEFINE d == n % Radix
              a == n \div Radix
              t == ToLittleEndian(a, w - 1)
  <2>9. Radix \in Nat \ {0}
    BY Layout
  <2>10. a \in Nat /\ d \in Byte /\ n = Put(d, a)
    <3>1. a \in Nat /\ d \in Nat /\ d < Radix /\ n = Radix * a + d
      BY <2>4, <2>9, DivMod
    <3>2. d \in Byte
      BY <2>9, <3>1 DEF Byte
    <3>. HIDE DEF d, a
    <3>3. Radix * a \in Nat
      BY <2>9, <3>1
    <3>. QED  BY <3>1, <3>2, <3>3 DEF Put
  <2>. HIDE DEF a, d
  <2>11. a < Power[w - 1]
    <3>1. Power[w - 1] \in Nat \ {0} /\ Power[w] = Radix * Power[w - 1]
      BY <2>3, <2>7, <2>8, PowerPositive, PowerIs
    <3>. DEFINE p == Power[w - 1]
    <3>2. p \in Nat /\ n < Radix * p
      BY <2>4, <3>1
    <3>. HIDE DEF p
    <3>3. ASSUME p <= a PROVE FALSE
      <4>1. Radix * p <= Radix * a
        BY <2>9, <2>10, <3>2, <3>3
      <4>2. Radix * a \in Nat /\ Radix * p \in Nat /\ d \in Nat
        BY <2>9, <2>10, <3>2 DEF Byte
      <4>. QED  BY <2>10, <3>2, <4>1, <4>2 DEF Put
    <3>. QED  BY <2>10, <3>2, <3>3 DEF p
  <2>12. LittleEndian[t] = a
    BY <2>8, <2>10, <2>11
  <2>13. /\ t \in Seq(Byte) /\ Len(t) = w - 1
         /\ \A i \in 1 .. w - 1 : t[i] = (a \div Power[i - 1]) % Radix
    BY <2>8, <2>10, ToLittleEndianIs
  <2>. HIDE DEF t
  <2>14. s # << >> /\ Head(s) = s[1] /\ Tail(s) \in Seq(Byte) /\ Len(Tail(s)) = w - 1
         /\ \A i \in 1 .. w - 1 : Tail(s)[i] = s[i + 1]
    <3>1. s # << >>
      BY <2>5, <2>7, EmptySeq
    <3>. QED  BY <2>3, <2>5, <2>7, <3>1, HeadTailProperties
  <2>15. s[1] = d
    <3>1. 1 \in 1 .. w /\ 1 - 1 = 0
      BY <2>3, <2>7
    <3>2. n \div Power[0] = n
      BY <2>4, SmallPowers
    <3>. QED  BY <2>5, <3>1, <3>2 DEF d
  <2>16. \A i \in 1 .. w - 1 : s[i + 1] = t[i]
    <3>. SUFFICES ASSUME NEW i \in 1 .. w - 1
                  PROVE  s[i + 1] = t[i]
      OBVIOUS
    <3>1. i \in Nat /\ i - 1 \in Nat /\ i = (i - 1) + 1 /\ i + 1 \in 1 .. w /\ (i + 1) - 1 = i
      BY <2>3
    <3>2. Put(d, a) \div Power[i] = a \div Power[i - 1]
      BY <2>10, <3>1, PutPower
    <3>3. s[i + 1] = (n \div Power[i]) % Radix
      BY <2>5, <3>1
    <3>4. t[i] = (a \div Power[i - 1]) % Radix
      BY <2>13
    <3>. QED  BY <2>10, <3>2, <3>3, <3>4
  <2>17. Tail(s) = t
    <3>. DEFINE u == Tail(s)
    <3>1. u \in Seq(Byte) /\ Len(u) = Len(t) /\ \A i \in 1 .. Len(u) : u[i] = t[i]
      BY <2>13, <2>14, <2>16
    <3>. HIDE DEF u
    <3>2. u = t
      BY <2>13, <3>1, SeqEqual
    <3>. QED  BY <3>2 DEF u
  <2>18. LittleEndian[s] = Put(d, a)
    BY <2>6, <2>12, <2>14, <2>15, <2>17, Zenon DEF LEFrom
  <2>. QED  BY <2>4, <2>10, <2>18 DEF s
<1>2. \A w \in Nat : Good(w)
  BY <1>1
<1>. QED  BY <1>2

(* A length that is written is read back. *)
LEMMA WrittenLength ==
  ASSUME NEW w \in {0, 1, 2, 4}, NEW n \in Nat, n < Power[w]
  PROVE  ReadLength(ToLittleEndian(n, w)) = n
<1>. DEFINE s == ToLittleEndian(n, w)
            m == ReadLength(s)
<1>1. w \in Nat
  OBVIOUS
<1>2. s \in Seq(Byte) /\ Len(s) = w
  BY <1>1, ToLittleEndianIs
<1>. HIDE DEF s
<1>3. m \in Nat /\ m < Power[w] /\ ToLittleEndian(m, w) = s
  BY <1>2, LengthRead
<1>. HIDE DEF m
<1>4. LittleEndian[ToLittleEndian(m, w)] = m /\ LittleEndian[s] = n
  BY <1>1, <1>3, DigitsRead DEF s
<1>5. m = n
  BY <1>3, <1>4
<1>. QED  BY <1>5 DEF m, s

-----------------------------------------------------------------------------
(* What is encoded is parsed *)

(* Three parts behind each other. *)
LEMMA Parts ==
  ASSUME NEW s \in Seq(Byte), NEW t \in Seq(Byte), NEW e \in Seq(Byte)
  PROVE  LET b == s \o t \o e IN
         /\ b \in Seq(Byte) /\ Len(b) = Len(s) + Len(t) + Len(e)
         /\ SubSeq(b, Len(s) + 1, Len(s) + Len(t)) = t
         /\ After(b, Len(s) + Len(t)) = e
<1>. DEFINE m == Len(s)
            n == Len(t)
            u == s \o t
            b == u \o e
<1>1. m \in Nat /\ n \in Nat /\ Len(e) \in Nat
  BY LenProperties
<1>2. u \in Seq(Byte) /\ Len(u) = m + n
  BY Bytes
<1>3. \A i \in 1 .. n : u[m + i] = t[i]
  <2>. SUFFICES ASSUME NEW i \in 1 .. n
                PROVE  u[m + i] = t[i]
    OBVIOUS
  <2>1. m + i \in 1 .. m + n /\ ~(m + i <= m) /\ (m + i) - m = i
    BY <1>1
  <2>. QED  BY <2>1, ConcatProperties
<1>. HIDE DEF u
<1>4. b = u \o e /\ b \in Seq(Byte) /\ Len(b) = m + n + Len(e)
  BY <1>2, Bytes
<1>. HIDE DEF b
<1>5. /\ \A i \in 1 .. m + n : b[i] = u[i]
      /\ \A i \in 1 .. Len(e) : b[(m + n) + i] = e[i]
  <2>1. \A i \in 1 .. m + n : b[i] = u[i]
    <3>. SUFFICES ASSUME NEW i \in 1 .. m + n
                  PROVE  b[i] = u[i]
      OBVIOUS
    <3>1. i \in 1 .. Len(u) + Len(e) /\ i <= Len(u)
      BY <1>1, <1>2
    <3>. QED  BY <1>2, <1>4, <3>1, ConcatProperties
  <2>2. \A i \in 1 .. Len(e) : b[(m + n) + i] = e[i]
    <3>. SUFFICES ASSUME NEW i \in 1 .. Len(e)
                  PROVE  b[(m + n) + i] = e[i]
      OBVIOUS
    <3>. DEFINE j == (m + n) + i
    <3>1. j \in 1 .. Len(u) + Len(e) /\ ~(j <= Len(u)) /\ j - Len(u) = i
      BY <1>1, <1>2
    <3>. HIDE DEF j
    <3>2. b[j] = e[i]
      BY <1>2, <1>4, <3>1, ConcatProperties
    <3>. QED  BY <3>2 DEF j
  <2>. QED  BY <2>1, <2>2
<1>6. SubSeq(b, m + 1, m + n) = t
  <2>. DEFINE p == SubSeq(b, m + 1, m + n)
  <2>1. \A i \in m + 1 .. m + n : b[i] \in Byte
    <3>1. \A i \in m + 1 .. m + n : i \in 1 .. Len(b)
      BY <1>1, <1>4
    <3>. QED  BY <1>4, <3>1, ElementOfSeq
  <2>2. m + 1 \in Int /\ m + n \in Int
    BY <1>1
  <2>3. /\ p \in Seq(Byte)
        /\ Len(p) = IF m + 1 <= m + n THEN (m + n) - (m + 1) + 1 ELSE 0
        /\ \A i \in 1 .. (m + n) - (m + 1) + 1 : p[i] = b[(m + 1) + i - 1]
    BY ONLY <2>1, <2>2, SubSeqProperties
  <2>4. Len(p) = n
    BY <1>1, <2>3
  <2>5. \A i \in 1 .. n : p[i] = t[i]
    <3>. SUFFICES ASSUME NEW i \in 1 .. n
                  PROVE  p[i] = t[i]
      OBVIOUS
    <3>1. /\ i \in 1 .. (m + n) - (m + 1) + 1 /\ (m + 1) + i - 1 = m + i
          /\ m + i \in 1 .. m + n
      BY <1>1
    <3>. HIDE DEF p
    <3>. QED  BY <1>3, <1>5, <2>3, <3>1
  <2>. HIDE DEF p
  <2>6. p = t
    BY <2>3, <2>4, <2>5, SeqEqual
  <2>. QED  BY <2>6 DEF p
<1>7. After(b, m + n) = e
  <2>. DEFINE k == m + n
              p == SubSeq(b, k + 1, Len(b))
  <2>1. k \in Nat /\ Len(b) = k + Len(e)
    BY <1>1, <1>4
  <2>2. \A i \in 1 .. Len(e) : b[k + i] = e[i]
    BY <1>5
  <2>. HIDE DEF k
  <2>3. \A i \in k + 1 .. Len(b) : b[i] \in Byte
    <3>1. \A i \in k + 1 .. Len(b) : i \in 1 .. Len(b)
      BY <2>1
    <3>. QED  BY <1>4, <3>1, ElementOfSeq
  <2>4. k + 1 \in Int /\ Len(b) \in Int
    BY <1>1, <2>1
  <2>5. /\ p \in Seq(Byte)
        /\ Len(p) = IF k + 1 <= Len(b) THEN Len(b) - (k + 1) + 1 ELSE 0
        /\ \A i \in 1 .. Len(b) - (k + 1) + 1 : p[i] = b[(k + 1) + i - 1]
    BY ONLY <2>3, <2>4, SubSeqProperties
  <2>6. Len(p) = Len(e)
    BY <1>1, <2>1, <2>5
  <2>7. \A i \in 1 .. Len(e) : p[i] = e[i]
    <3>. SUFFICES ASSUME NEW i \in 1 .. Len(e)
                  PROVE  p[i] = e[i]
      OBVIOUS
    <3>1. i \in 1 .. Len(b) - (k + 1) + 1 /\ (k + 1) + i - 1 = k + i
      BY <1>1, <2>1
    <3>. HIDE DEF p
    <3>. QED  BY <2>2, <2>5, <3>1
  <2>. HIDE DEF p
  <2>8. p = e
    BY <2>5, <2>6, <2>7, SeqEqual
  <2>. QED  BY <2>8 DEF p, k, After
<1>. QED  BY <1>4, <1>6, <1>7 DEF b, u

(* An instruction that may be constructed is parsed from its bytes, whatever *)
(* follows them.                                                            *)
LEMMA EncodingParses ==
  ASSUME NEW i \in Instructions, HasValidImmediate(i), NEW e \in Seq(Byte)
  PROVE  LET b == Encoding(i) \o e IN
         /\ b \in Seq(Byte)
         /\ Parse(b).valid /\ Parse(b).value = i
         /\ After(b, Parse(b).size) = e
<1>. DEFINE c == i.code
            imm == i.immediate
            n == Len(imm)
            w == LengthWidth(c)
            l == ToLittleEndian(n, w)
            u == <<c>> \o l
            v == imm \o e
            b == Encoding(i) \o e
<1>1. /\ c \in Byte /\ imm \in Seq(Byte) /\ i = [code |-> c, immediate |-> imm]
      /\ Encoding(i) = <<c>> \o l \o imm
  BY EncodingType DEF Instructions
<1>2. w \in {0, 1, 2, 4} /\ (c < PushData1 => w = 0) /\ n \in Nat
  BY <1>1, WidthIs, LenProperties
<1>3. IF c < PushData1 THEN n = c ELSE n < Power[w]
  BY DEF HasValidImmediate
<1>4. w \in Nat
  BY <1>2
<1>b. b = <<c>> \o l \o imm \o e
  BY <1>1
<1>. HIDE DEF b
<1>. HIDE DEF c, imm, n, w
<1>5. l \in Seq(Byte) /\ Len(l) = w
  BY <1>2, <1>4, ToLittleEndianIs
<1>6. n < Power[w] => ReadLength(l) = n
  BY <1>2, WrittenLength
<1>. HIDE DEF l
<1>7. <<c>> \in Seq(Byte) /\ Len(<<c>>) = 1 /\ <<c>>[1] = c
  BY <1>1, OneByte
<1>8. u \in Seq(Byte) /\ Len(u) = 1 + w
  BY <1>5, <1>7, Bytes
<1>9. v \in Seq(Byte) /\ Len(v) = n + Len(e)
  BY <1>1, Bytes DEF n
<1>10. u[1] = c
  <2>. DEFINE h == <<c>>
  <2>1. 1 \in 1 .. Len(h) + Len(l) /\ 1 <= Len(h)
    BY <1>4, <1>5, <1>7
  <2>2. h \in Seq(Byte) /\ h[1] = c
    BY <1>7
  <2>. HIDE DEF h
  <2>3. (h \o l)[1] = h[1]
    BY <1>5, <2>1, <2>2, ConcatProperties
  <2>. QED  BY <2>2, <2>3 DEF h
<1>11. b = u \o imm \o e
  BY <1>b
<1>12. b = u \o v
  <2>0. u \in Seq(Byte) /\ imm \in Seq(Byte) /\ e \in Seq(Byte)
    BY <1>1, <1>8
  <2>. HIDE DEF u
  <2>1. (u \o imm) \o e = u \o (imm \o e)
    BY ONLY <2>0, ConcatAssociative
  <2>. QED  BY <1>11, <2>1
<1>13. SubSeq(b, 2, 1 + w) = l
  <2>. DEFINE h == <<c>>
  <2>1. h \in Seq(Byte) /\ Len(h) = 1 /\ b = h \o l \o v
    BY <1>7, <1>12
  <2>. HIDE DEF h, v
  <2>2. SubSeq(b, Len(h) + 1, Len(h) + Len(l)) = l
    BY <1>5, <1>9, <2>1, Parts
  <2>3. 1 + 1 = 2
    OBVIOUS
  <2>. QED  BY <1>5, <2>1, <2>2, <2>3
<1>. HIDE DEF u, v
<1>14. /\ b \in Seq(Byte) /\ Len(b) = 1 + w + n + Len(e)
       /\ SubSeq(b, 1 + w + 1, 1 + w + n) = imm
       /\ After(b, 1 + w + n) = e
  <2>1. /\ b \in Seq(Byte) /\ Len(b) = Len(u) + Len(imm) + Len(e)
        /\ SubSeq(b, Len(u) + 1, Len(u) + Len(imm)) = imm
        /\ After(b, Len(u) + Len(imm)) = e
    BY <1>1, <1>8, <1>11, Parts
  <2>. QED  BY <1>8, <2>1 DEF n
<1>15. b[1] = c
  <2>1. 1 \in 1 .. Len(u) + Len(v) /\ 1 <= Len(u)
    BY <1>2, <1>4, <1>8, <1>9, LenProperties
  <2>2. (u \o v)[1] = u[1]
    BY <1>8, <1>9, <2>1, ConcatProperties
  <2>. QED  BY <1>10, <1>12, <2>2
<1>16. Header(b) = 1 + w
  BY <1>15 DEF Header, w
<1>17. Payload(b) = n
  <2>1. Payload(b) = IF c < PushData1 THEN c ELSE ReadLength(l)
    BY <1>13, <1>15, <1>16 DEF Payload
  <2>. QED  BY <1>3, <1>6, <2>1
<1>18. Complete(b)
  <2>1. Len(e) \in Nat
    BY LenProperties
  <2>2. Len(b) >= 1 + w /\ Len(b) >= 1 + w + n /\ Len(b) # 0
    BY <1>2, <1>4, <1>14, <2>1
  <2>3. b # << >>
    BY <1>14, <2>2, EmptySeq
  <2>. QED  BY <1>16, <1>17, <2>2, <2>3 DEF Complete
<1>19. Decoded(b) = i
  BY <1>1, <1>14, <1>15, <1>16, <1>17 DEF Decoded
<1>20. Parse(b) = [value |-> i, size |-> 1 + w + n, valid |-> TRUE]
  BY <1>16, <1>17, <1>18, <1>19 DEF Parse
<1>21. Parse(b).valid /\ Parse(b).value = i /\ Parse(b).size = 1 + w + n
  BY <1>20
<1>. QED  BY <1>14, <1>21 DEF b

(* A walk over a script that is read to its end goes on behind it. *)
LEMMA WalkOn ==
  ASSUME NEW b \in Seq(Byte), Walk[b].rest = << >>, NEW e \in Seq(Byte)
  PROVE  /\ Walk[b \o e].list = Walk[b].list \o Walk[e].list
         /\ Walk[b \o e].rest = Walk[e].rest
<1>. DEFINE GoesOn(c) == /\ Walk[c \o e].list = Walk[c].list \o Walk[e].list
                         /\ Walk[c \o e].rest = Walk[e].rest
            T == {k \in Nat : \E c \in Seq(Byte) :
                                Len(c) = k /\ Walk[c].rest = << >> /\ ~GoesOn(c)}
<1>1. ASSUME T # {} PROVE FALSE
  <2>1. T \subseteq Nat
    OBVIOUS
  <2>2. PICK k \in T : \A j \in T : k <= j
    BY <1>1, <2>1, LeastNat
  <2>3. PICK c \in Seq(Byte) : Len(c) = k /\ Walk[c].rest = << >> /\ ~GoesOn(c)
    OBVIOUS
  <2>4. CASE ~Parse(c).valid
    <3>1. c = << >> /\ Walk[c].list = << >>
      BY <2>3, <2>4, WalkStuck
    <3>2. c \o e = e /\ Walk[c].list \o Walk[e].list = Walk[e].list
      BY <3>1, WalkType, ConcatEmptySeq
    <3>. QED  BY <2>3, <3>2
  <2>5. CASE Parse(c).valid
    <3>. DEFINE v == Parse(c).value
                a == After(c, Parse(c).size)
                r == a \o e
    <3>1. /\ a \in Seq(Byte) /\ Len(a) < Len(c)
          /\ v \in Instructions /\ HasValidImmediate(v)
          /\ c = Encoding(v) \o a
      BY <2>5, AfterParsed, Parsed
    <3>2. Walk[c].list = <<v>> \o Walk[a].list /\ Walk[c].rest = Walk[a].rest
      BY <2>5, WalkParsed
    <3>. HIDE DEF v, a
    <3>3. Len(a) \in Nat /\ Len(a) < k /\ Walk[a].rest = << >>
      BY <2>3, <3>1, <3>2, LenProperties
    <3>4. Len(a) \notin T
      <4>1. \A j \in T : k <= j
        BY <2>2
      <4>2. k \in Nat
        BY <2>3, LenProperties
      <4>. HIDE DEF T
      <4>. QED  BY <3>3, <4>1, <4>2
    <3>5. GoesOn(a)
      BY <3>1, <3>3, <3>4
    <3>6. Encoding(v) \in Seq(Byte) /\ r \in Seq(Byte)
      BY <3>1, EncodingType, Bytes
    <3>7. c \o e = Encoding(v) \o r
      BY <3>1, <3>6, ConcatAssociative
    <3>. DEFINE d == c \o e
    <3>. HIDE DEF r, d
    <3>8. d \in Seq(Byte) /\ Parse(d).valid /\ Parse(d).value = v
          /\ After(d, Parse(d).size) = r
      <4>. DEFINE x == Encoding(v) \o r
      <4>1. d = x
        BY <3>7 DEF d
      <4>2. x \in Seq(Byte) /\ Parse(x).valid /\ Parse(x).value = v
            /\ After(x, Parse(x).size) = r
        BY <3>1, <3>6, EncodingParses
      <4>. QED  BY <4>1, <4>2
    <3>9. Walk[d].list = <<v>> \o Walk[r].list /\ Walk[d].rest = Walk[r].rest
      BY <3>8, WalkParsed
    <3>10. /\ Walk[a].list \in Seq(Instructions) /\ Walk[e].list \in Seq(Instructions)
           /\ <<v>> \in Seq(Instructions)
      BY <3>1, WalkType, OneInstruction
    <3>11. <<v>> \o (Walk[a].list \o Walk[e].list) = <<v>> \o Walk[a].list \o Walk[e].list
      <4>. DEFINE h == <<v>>
                  x == Walk[a].list
                  y == Walk[e].list
      <4>1. h \in Seq(Instructions) /\ x \in Seq(Instructions) /\ y \in Seq(Instructions)
        BY <3>10
      <4>. HIDE DEF h, x, y
      <4>2. (h \o x) \o y = h \o (x \o y)
        BY ONLY <4>1, ConcatAssociative
      <4>. QED  BY <4>2 DEF h, x, y
    <3>12. Walk[r].list = Walk[a].list \o Walk[e].list /\ Walk[r].rest = Walk[e].rest
      BY <3>5 DEF r
    <3>13. Walk[d].list = Walk[c].list \o Walk[e].list /\ Walk[d].rest = Walk[e].rest
      BY <3>2, <3>9, <3>11, <3>12
    <3>. QED  BY <2>3, <3>13 DEF d
  <2>. QED  BY <2>4, <2>5
<1>2. Len(b) \in Nat
  BY LenProperties
<1>. QED  BY <1>1, <1>2

-----------------------------------------------------------------------------
(* What is appended *)

(* An opcode that may be followed by n immediate bytes. *)
Takes(code, n) == IF code < PushData1 THEN n = code ELSE n < Power[LengthWidth(code)]

LEMMA Widths ==
  /\ LengthWidth(PushData1) = 1 /\ LengthWidth(PushData2) = 2 /\ LengthWidth(PushData4) = 4
  /\ Radix \in Nat /\ PushData1 \in Nat /\ PushData1 < Radix
  /\ PushData2 = PushData1 + 1 /\ PushData4 = PushData1 + 2
  /\ PushData1 \in Byte /\ PushData2 \in Byte /\ PushData4 \in Byte
  /\ Power[1] = Radix /\ Power[2] \in Nat /\ Radix <= Power[2] /\ Power[4] \in Nat
<1>1. /\ Radix \in Nat /\ Radix > 1 /\ PushData1 \in Nat
      /\ PushData2 = PushData1 + 1 /\ PushData4 = PushData1 + 2
      /\ PushData1 \in Byte /\ PushData2 \in Byte /\ PushData4 \in Byte
  BY Layout
<1>2. PushData1 < Radix
  BY <1>1 DEF Byte
<1>3. LengthWidth(PushData1) = 1 /\ LengthWidth(PushData2) = 2 /\ LengthWidth(PushData4) = 4
  BY <1>1 DEF LengthWidth
<1>4. Radix <= Radix * Radix
  BY <1>1
<1>5. Power[2] \in Nat /\ Power[4] \in Nat
  BY PowerPositive
<1>. QED  BY <1>1, <1>2, <1>3, <1>4, <1>5, SmallPowers

LEMMA TwoBytes ==
  ASSUME NEW x \in Byte, NEW y \in Byte
  PROVE  <<x>> \o <<y>> = <<x, y>>
<1>. DEFINE h == <<x>>
            a == Append(h, y)
            r == <<x, y>>
<1>1. r \in Seq(Byte) /\ Len(r) = 2 /\ r[1] = x /\ r[2] = y
  OBVIOUS
<1>2. h \in Seq(Byte) /\ Len(h) = 1 /\ h[1] = x
  BY OneByte
<1>. HIDE DEF h, r
<1>3. h \o <<y>> = a
  BY <1>2, AppendIsConcat
<1>4. a \in Seq(Byte) /\ Len(a) = 2 /\ a[1] = x /\ a[2] = y
  <2>1. /\ a \in Seq(Byte) /\ Len(a) = Len(h) + 1 /\ a[Len(h) + 1] = y
        /\ \A i \in 1 .. Len(h) : a[i] = h[i]
    <3>1. \A s \in Seq(Byte) :
            /\ Append(s, y) \in Seq(Byte) /\ Len(Append(s, y)) = Len(s) + 1
            /\ Append(s, y)[Len(s) + 1] = y
            /\ \A i \in 1 .. Len(s) : Append(s, y)[i] = s[i]
      BY AppendProperties
    <3>2. h \in Seq(Byte)
      BY <1>2
    <3>. QED  BY <3>1, <3>2
  <2>. HIDE DEF a
  <2>2. Len(h) + 1 = 2 /\ 1 \in 1 .. Len(h)
    BY <1>2
  <2>. QED  BY <1>2, <2>1, <2>2
<1>. HIDE DEF a
<1>5. \A i \in 1 .. Len(a) : a[i] = r[i]
  <2>1. \A i \in 1 .. 2 : i = 1 \/ i = 2
    OBVIOUS
  <2>. QED  BY <1>1, <1>4, <2>1
<1>6. a = r
  BY <1>1, <1>4, <1>5, SeqEqual
<1>. QED  BY <1>3, <1>6 DEF h, r

(* A prefix is the shortest opcode that takes n bytes, and their number. *)
LEMMA PushPrefixIs ==
  ASSUME NEW n \in Nat, n < Power[4]
  PROVE  \E c \in Byte :
           /\ c <= PushData4 /\ Takes(c, n) /\ \A d \in 0 .. c - 1 : ~Takes(d, n)
           /\ PushPrefix(n) = <<c>> \o ToLittleEndian(n, LengthWidth(c))
<1>. DEFINE Written(c) == <<c>> \o ToLittleEndian(n, LengthWidth(c))
            l2 == <<PushData2>> \o ToLittleEndian(n, 2)
            l4 == <<PushData4>> \o ToLittleEndian(n, 4)
<1>1. PushPrefix(n) = CASE n < PushData1 -> <<n>>
                        [] n \in PushData1 .. Radix - 1 -> <<PushData1, n>>
                        [] n \in Radix .. Power[2] - 1 -> l2
                        [] n >= Power[2] -> l4
  BY DEF PushPrefix
<1>. HIDE DEF l2, l4
<1>w. PushData1 \in Nat /\ Radix \in Nat /\ Power[2] \in Nat /\ PushData1 < Radix
      /\ Radix <= Power[2]
  BY Widths
<1>2. \/ n < PushData1
      \/ n \in PushData1 .. Radix - 1 /\ ~(n < PushData1)
      \/ n \in Radix .. Power[2] - 1 /\ ~(n < PushData1) /\ n \notin PushData1 .. Radix - 1
      \/ /\ n >= Power[2] /\ ~(n < PushData1) /\ n \notin PushData1 .. Radix - 1
         /\ n \notin Radix .. Power[2] - 1
  BY Widths
<1>3. CASE n < PushData1
  <2>1. n \in Byte /\ LengthWidth(n) = 0 /\ n <= PushData4
    <3>1. n \in Byte /\ n <= PushData4
      BY <1>3, Widths DEF Byte
    <3>. QED  BY <1>3, <3>1, WidthIs
  <2>2. Takes(n, n) /\ \A d \in 0 .. n - 1 : ~Takes(d, n)
    <3>1. \A d \in 0 .. n - 1 : d < PushData1 /\ n # d
      BY <1>3, Widths
    <3>. QED  BY <1>3, <3>1 DEF Takes
  <2>3. PushPrefix(n) = <<n>>
    BY ONLY <1>1, <1>w, <1>3, n \in Nat
  <2>4. ToLittleEndian(n, 0) \in Seq(Byte) /\ Len(ToLittleEndian(n, 0)) = 0
    BY ToLittleEndianIs
  <2>5. ToLittleEndian(n, 0) = << >>
    BY <2>4, EmptySeq
  <2>6. <<n>> \o << >> = <<n>>
    BY <2>1, OneByte, ConcatEmptySeq
  <2>7. PushPrefix(n) = Written(n)
    BY <2>1, <2>3, <2>5, <2>6
  <2>. HIDE DEF Written
  <2>. QED  BY <2>1, <2>2, <2>7 DEF Written
<1>4. CASE n \in PushData1 .. Radix - 1 /\ ~(n < PushData1)
  <2>. DEFINE c == PushData1
              l == ToLittleEndian(n, 1)
  <2>1. c \in Byte /\ c <= PushData4 /\ LengthWidth(c) = 1
    BY Widths
  <2>2. Takes(c, n) /\ \A d \in 0 .. c - 1 : ~Takes(d, n)
    <3>1. \A d \in 0 .. c - 1 : d < PushData1 /\ n # d
      BY <1>4, Widths
    <3>2. ~(c < PushData1) /\ n < Power[1]
      BY <1>4, Widths
    <3>. QED  BY <2>1, <3>1, <3>2 DEF Takes
  <2>3. PushPrefix(n) = <<c, n>>
    BY ONLY <1>1, <1>w, <1>4, n \in Nat
  <2>4. l = <<n>>
    <3>1. /\ l \in Seq(Byte) /\ Len(l) = 1
          /\ \A i \in 1 .. 1 : l[i] = (n \div Power[i - 1]) % Radix
      BY ToLittleEndianIs
    <3>2. n \div Power[0] = n
      BY SmallPowers
    <3>3. l[1] = n % Radix
      BY <3>1, <3>2
    <3>4. n % Radix = n /\ n \in Byte
      BY <1>4, Widths DEF Byte
    <3>5. <<n>> \in Seq(Byte) /\ Len(<<n>>) = 1 /\ <<n>>[1] = n
      BY <3>4, OneByte
    <3>. DEFINE r == <<n>>
    <3>6. r \in Seq(Byte) /\ Len(l) = Len(r) /\ \A i \in 1 .. Len(l) : l[i] = r[i]
      BY <3>1, <3>3, <3>4, <3>5
    <3>. HIDE DEF l, r
    <3>7. l = r
      BY <3>1, <3>6, SeqEqual
    <3>. QED  BY <3>7 DEF r
  <2>5. <<c>> \o <<n>> = <<c, n>>
    <3>1. c \in Byte /\ n \in Byte
      BY <1>4, Widths DEF Byte
    <3>. QED  BY <3>1, TwoBytes
  <2>. HIDE DEF c
  <2>6. PushPrefix(n) = Written(c)
    BY <2>1, <2>3, <2>4, <2>5
  <2>. HIDE DEF l, Written
  <2>. QED  BY <2>1, <2>2, <2>6 DEF Written
<1>5. CASE n \in Radix .. Power[2] - 1 /\ ~(n < PushData1) /\ n \notin PushData1 .. Radix - 1
  <2>. DEFINE c == PushData2
  <2>1. c \in Byte /\ c <= PushData4 /\ LengthWidth(c) = 2
    BY Widths
  <2>2. Takes(c, n) /\ \A d \in 0 .. c - 1 : ~Takes(d, n)
    <3>1. \A d \in 0 .. c - 1 : (d < PushData1 /\ n # d) \/ d = PushData1
      BY <1>5, Widths
    <3>2. ~(c < PushData1) /\ n < Power[2] /\ ~(n < Power[1]) /\ ~(PushData1 < PushData1)
      BY <1>5, Widths
    <3>3. ~Takes(PushData1, n)
      BY <3>2, Widths DEF Takes
    <3>. HIDE DEF c
    <3>. QED  BY <2>1, <3>1, <3>2, <3>3 DEF Takes
  <2>3. PushPrefix(n) = l2
    BY ONLY <1>1, <1>w, <1>5, n \in Nat
  <2>4. PushPrefix(n) = <<c>> \o ToLittleEndian(n, 2)
    BY <2>3 DEF l2
  <2>. HIDE DEF c
  <2>. QED  BY <2>1, <2>2, <2>4
<1>6. CASE /\ n >= Power[2] /\ ~(n < PushData1) /\ n \notin PushData1 .. Radix - 1
           /\ n \notin Radix .. Power[2] - 1
  <2>. DEFINE c == PushData4
  <2>1. c \in Byte /\ c <= PushData4 /\ LengthWidth(c) = 4
    BY Widths
  <2>2. Takes(c, n) /\ \A d \in 0 .. c - 1 : ~Takes(d, n)
    <3>1. \A d \in 0 .. c - 1 : (d < PushData1 /\ n # d) \/ d = PushData1 \/ d = PushData2
      BY <1>6, Widths
    <3>2. ~(c < PushData1) /\ ~(n < Power[2]) /\ ~(n < Power[1]) /\ ~(PushData1 < PushData1)
          /\ ~(PushData2 < PushData1)
      BY <1>6, Widths
    <3>3. ~Takes(PushData1, n) /\ ~Takes(PushData2, n)
      BY <3>2, Widths DEF Takes
    <3>. HIDE DEF c
    <3>. QED  BY <2>1, <3>1, <3>2, <3>3 DEF Takes
  <2>3. PushPrefix(n) = l4
    BY ONLY <1>1, <1>w, <1>6, n \in Nat
  <2>4. PushPrefix(n) = <<c>> \o ToLittleEndian(n, 4)
    BY <2>3 DEF l4
  <2>. HIDE DEF c
  <2>. QED  BY <2>1, <2>2, <2>4
<1>. QED  BY <1>2, <1>3, <1>4, <1>5, <1>6

LEMMA ValidTakes ==
  ASSUME NEW i
  PROVE  HasValidImmediate(i) <=> Takes(i.code, Len(i.immediate))
BY DEF HasValidImmediate, Takes

(* What push_prefix writes before the bytes makes the shortest push of them. *)
LEMMA PushIs ==
  ASSUME NEW data \in Seq(Byte), Len(data) < Power[4]
  PROVE  \E i \in Instructions :
           /\ HasValidImmediate(i) /\ i.immediate = data /\ i.code <= PushData4
           /\ \A c \in 0 .. i.code - 1 : ~HasValidImmediate([i EXCEPT !.code = c])
           /\ data # << >> => i.code # 0
           /\ Encoding(i) = PushPrefix(Len(data)) \o data
<1>. DEFINE n == Len(data)
<1>1. n \in Nat /\ (data # << >> => n # 0)
  BY LenProperties, EmptySeq
<1>2. PICK c \in Byte :
        /\ c <= PushData4 /\ Takes(c, n) /\ \A d \in 0 .. c - 1 : ~Takes(d, n)
        /\ PushPrefix(n) = <<c>> \o ToLittleEndian(n, LengthWidth(c))
  BY <1>1, PushPrefixIs
<1>. DEFINE i == [code |-> c, immediate |-> data]
<1>3. i \in Instructions /\ i.code = c /\ i.immediate = data
  BY DEF Instructions
<1>4. \A d : [i EXCEPT !.code = d].code = d /\ [i EXCEPT !.code = d].immediate = data
  BY <1>3 DEF Instructions
<1>. HIDE DEF i
<1>5. HasValidImmediate(i)
  BY <1>2, <1>3, ValidTakes
<1>6. \A d \in 0 .. i.code - 1 : ~HasValidImmediate([i EXCEPT !.code = d])
  <2>. SUFFICES ASSUME NEW d \in 0 .. c - 1
                PROVE  ~HasValidImmediate([i EXCEPT !.code = d])
    BY <1>3
  <2>. DEFINE j == [i EXCEPT !.code = d]
  <2>1. j.code = d /\ j.immediate = data
    BY <1>4
  <2>. HIDE DEF j
  <2>2. HasValidImmediate(j) <=> Takes(d, n)
    BY <2>1, ValidTakes
  <2>. QED  BY <1>2, <2>2 DEF j
<1>7. data # << >> => i.code # 0
  BY <1>1, <1>2, <1>3, Layout DEF Takes
<1>8. Encoding(i) = PushPrefix(n) \o data
  BY <1>2, <1>3 DEF Encoding
<1>. QED  BY <1>2, <1>3, <1>5, <1>6, <1>7, <1>8

(* An opcode without immediate bytes. *)
LEMMA OpcodeIs ==
  ASSUME NEW c \in Byte, c \notin 1 .. PushData4
  PROVE  LET i == [code |-> c, immediate |-> << >>] IN
         i \in Instructions /\ HasValidImmediate(i) /\ Encoding(i) = <<c>>
<1>. DEFINE i == [code |-> c, immediate |-> << >>]
<1>1. << >> \in Seq(Byte) /\ Len(<< >>) = 0
  BY EmptySeq
<1>2. i \in Instructions /\ i.code = c /\ i.immediate = << >>
  BY <1>1 DEF Instructions
<1>. HIDE DEF i
<1>3. c \in Nat /\ (c = 0 \/ c > PushData4)
  BY Layout DEF Byte
<1>4. LengthWidth(c) = 0
  <2>1. c # PushData1 /\ c # PushData2 /\ c # PushData4
    BY <1>3, Layout
  <2>. QED  BY <2>1 DEF LengthWidth
<1>5. Takes(c, 0)
  <2>1. c < PushData1 => c = 0
    BY <1>3, Layout
  <2>2. 0 < Power[0]
    BY SmallPowers
  <2>. QED  BY <1>4, <2>1, <2>2 DEF Takes
<1>6. HasValidImmediate(i)
  BY <1>1, <1>2, <1>5, ValidTakes
<1>7. Encoding(i) = <<c>>
  <2>1. ToLittleEndian(0, 0) \in Seq(Byte) /\ Len(ToLittleEndian(0, 0)) = 0
    BY ToLittleEndianIs
  <2>2. ToLittleEndian(0, 0) = << >>
    BY <2>1, EmptySeq
  <2>3. <<c>> \in Seq(Byte) /\ <<c>> \o << >> = <<c>>
    BY OneByte, ConcatEmptySeq
  <2>4. Encoding(i) = <<c>> \o << >> \o << >>
    BY <1>1, <1>2, <1>4, <2>2 DEF Encoding
  <2>. QED  BY <2>3, <2>4
<1>. QED  BY <1>2, <1>6, <1>7 DEF i

(* One more instruction is read behind the others. *)
LEMMA WalkAppend ==
  ASSUME NEW b \in Seq(Byte), Walk[b].rest = << >>,
         NEW i \in Instructions, HasValidImmediate(i)
  PROVE  /\ Walk[b \o Encoding(i)].list = Append(Walk[b].list, i)
         /\ Walk[b \o Encoding(i)].rest = << >>
<1>. DEFINE e == Encoding(i)
<1>1. e \in Seq(Byte) /\ << >> \in Seq(Byte)
  BY EncodingType, EmptySeq
<1>2. e \o << >> = e
  BY <1>1, ConcatEmptySeq
<1>. DEFINE x == e \o << >>
<1>3. Parse(x).valid /\ Parse(x).value = i /\ After(x, Parse(x).size) = << >>
  BY <1>1, EncodingParses
<1>. HIDE DEF x
<1>4. Parse(e).valid /\ Parse(e).value = i /\ After(e, Parse(e).size) = << >>
  BY <1>2, <1>3 DEF x
<1>. HIDE DEF e
<1>5. Walk[<< >>].list = << >> /\ Walk[<< >>].rest = << >>
  BY <1>1, NothingParsed, WalkStuck
<1>6. Walk[e].list = <<i>> \o << >> /\ Walk[e].rest = << >>
  BY <1>1, <1>4, <1>5, WalkParsed
<1>7. <<i>> \o << >> = <<i>>
  BY OneInstruction, ConcatEmptySeq
<1>8. Walk[b \o e].list = Walk[b].list \o <<i>> /\ Walk[b \o e].rest = << >>
  BY <1>1, <1>6, <1>7, WalkOn
<1>9. Walk[b].list \in Seq(Instructions)
  BY WalkType
<1>10. Append(Walk[b].list, i) = Walk[b].list \o <<i>>
  BY <1>9, AppendIsConcat
<1>. QED  BY <1>8, <1>10 DEF e

-----------------------------------------------------------------------------
(* What was meant *)

Items == [kind : {"opcode", "data", "number"}, is : Byte \cup Seq(Byte) \cup Int64]

LEMMA ReadsNothing == << >> \in Seq(Items) /\ ReadsAs(<< >>, << >>)
<1>1. << >> \in Seq(Items) /\ DOMAIN << >> = {}
  BY EmptySeq
<1>. QED  BY <1>1 DEF ReadsAs

LEMMA ReadsMore ==
  ASSUME NEW l \in Seq(Instructions), NEW m \in Seq(Items), ReadsAs(l, m),
         NEW i \in Instructions, NEW item \in Items, Reads(i, item)
  PROVE  Append(m, item) \in Seq(Items) /\ ReadsAs(Append(l, i), Append(m, item))
<1>. DEFINE n == Len(m)
            p == Append(l, i)
            q == Append(m, item)
<1>1. n \in Nat /\ Len(l) = n /\ DOMAIN m = 1 .. n /\ \A j \in 1 .. n : Reads(l[j], m[j])
  BY LenProperties DEF ReadsAs
<1>2. /\ Len(p) = n + 1 /\ p[n + 1] = i
      /\ \A j \in 1 .. n : p[j] = l[j]
  BY <1>1, AppendProperties
<1>3. /\ q \in Seq(Items) /\ Len(q) = n + 1 /\ q[n + 1] = item
      /\ \A j \in 1 .. n : q[j] = m[j]
  BY AppendProperties
<1>4. DOMAIN q = 1 .. n + 1
  BY <1>3, LenProperties
<1>. HIDE DEF p, q, n
<1>5. \A j \in 1 .. n + 1 : Reads(p[j], q[j])
  <2>. SUFFICES ASSUME NEW j \in 1 .. n + 1
                PROVE  Reads(p[j], q[j])
    OBVIOUS
  <2>1. CASE j = n + 1
    BY <1>2, <1>3, <2>1
  <2>2. CASE j # n + 1
    <3>1. j \in 1 .. n
      BY <1>1, <2>2
    <3>2. p[j] = l[j] /\ q[j] = m[j] /\ Reads(l[j], m[j])
      BY <1>1, <1>2, <1>3, <3>1
    <3>. QED  BY <3>2
  <2>. QED  BY <2>1, <2>2
<1>6. ReadsAs(p, q)
  BY <1>2, <1>3, <1>4, <1>5 DEF ReadsAs
<1>. QED  BY <1>3, <1>6 DEF p, q

LEMMA ReadsTwice ==
  ASSUME NEW l \in Seq(Instructions), NEW m \in Seq(Items), ReadsAs(l, m)
  PROVE  m \o m \in Seq(Items) /\ ReadsAs(l \o l, m \o m)
<1>. DEFINE n == Len(m)
            p == l \o l
            q == m \o m
<1>1. n \in Nat /\ Len(l) = n /\ DOMAIN m = 1 .. n /\ \A j \in 1 .. n : Reads(l[j], m[j])
  BY LenProperties DEF ReadsAs
<1>2. Len(p) = n + n /\ \A j \in 1 .. n + n : p[j] = IF j <= n THEN l[j] ELSE l[j - n]
  BY <1>1, ConcatProperties
<1>3. /\ q \in Seq(Items) /\ Len(q) = n + n
      /\ \A j \in 1 .. n + n : q[j] = IF j <= n THEN m[j] ELSE m[j - n]
  BY ConcatProperties
<1>4. DOMAIN q = 1 .. n + n
  BY <1>3, LenProperties
<1>. HIDE DEF p, q, n
<1>5. \A j \in 1 .. n + n : Reads(p[j], q[j])
  <2>. SUFFICES ASSUME NEW j \in 1 .. n + n
                PROVE  Reads(p[j], q[j])
    OBVIOUS
  <2>1. CASE j <= n
    <3>1. j \in 1 .. n
      BY <1>1, <2>1
    <3>2. p[j] = l[j] /\ q[j] = m[j] /\ Reads(l[j], m[j])
      BY <1>1, <1>2, <1>3, <2>1, <3>1
    <3>. QED  BY <3>2
  <2>2. CASE ~(j <= n)
    <3>. DEFINE k == j - n
    <3>1. k \in 1 .. n
      BY <1>1, <2>2
    <3>2. p[j] = l[k] /\ q[j] = m[k]
      BY <1>2, <1>3, <2>2
    <3>. HIDE DEF k
    <3>3. Reads(l[k], m[k])
      BY <1>1, <3>1
    <3>. QED  BY <3>2, <3>3
  <2>. QED  BY <2>1, <2>2
<1>6. ReadsAs(p, q)
  BY <1>2, <1>3, <1>4, <1>5 DEF ReadsAs
<1>. QED  BY <1>3, <1>6 DEF p, q

-----------------------------------------------------------------------------
(* Script numbers *)

(* The digits of a number that is not zero, and the highest of them. *)
LEMMA TopDigit ==
  ASSUME NEW n \in Nat \ {0}, NEW k \in Nat \ {0}, n < Power[k], n >= Power[k - 1]
  PROVE  LET s == ToLittleEndian(n, k) IN
         /\ s \in Seq(Byte) /\ Len(s) = k /\ s[k] \in 1 .. Radix - 1
         /\ LittleEndian[s] = n
         /\ LittleEndian[Append(s, 0)] = n
<1>. DEFINE s == ToLittleEndian(n, k)
            t == ToLittleEndian(n, k + 1)
            p == Power[k - 1]
            q == n \div p
<1>1. k - 1 \in Nat /\ k \in Nat /\ k + 1 \in Nat /\ k \in 1 .. k /\ k # 0
  OBVIOUS
<1>2. /\ s \in Seq(Byte) /\ Len(s) = k
      /\ \A i \in 1 .. k : s[i] = (n \div Power[i - 1]) % Radix
  BY <1>1, ToLittleEndianIs
<1>3. LittleEndian[s] = n
  BY <1>1, DigitsRead
<1>4. p \in Nat \ {0} /\ Radix \in Nat \ {0} /\ Power[k] = Radix * p
  BY <1>1, PowerPositive, PowerIs, Layout
<1>5. n < Radix * p /\ n >= p /\ n \in Nat
  BY <1>4
<1>. HIDE DEF p
<1>6. q \in Nat /\ q >= 1 /\ q < Radix
  <2>1. q \in Nat /\ n % p \in Nat /\ n % p < p /\ n = p * q + (n % p)
    BY <1>4, <1>5, DivMod
  <2>. DEFINE r == n % p
  <2>2. r \in Nat /\ r < p /\ n = p * q + r
    BY <2>1
  <2>. HIDE DEF q, r
  <2>3. q >= 1
    <3>1. q = 0 => p * q = 0
      BY <1>4
    <3>. QED  BY <1>4, <1>5, <2>1, <2>2, <3>1
  <2>4. q < Radix
    <3>1. ASSUME Radix <= q PROVE FALSE
      <4>1. p * Radix <= p * q
        BY <1>4, <2>1, <3>1
      <4>2. p * Radix = Radix * p /\ p * q \in Nat
        BY <1>4, <2>1
      <4>. QED  BY <1>4, <1>5, <2>2, <4>1, <4>2
    <3>. QED  BY <1>4, <2>1, <3>1
  <2>. QED  BY <2>1, <2>3, <2>4
<1>7. s[k] = q
  <2>1. s[k] = q % Radix
    BY <1>1, <1>2 DEF p
  <2>. HIDE DEF q, s
  <2>2. q % Radix = q
    BY <1>4, <1>6
  <2>. QED  BY <2>1, <2>2
<1>8. s[k] \in 1 .. Radix - 1
  <2>. HIDE DEF s, q
  <2>. QED  BY <1>4, <1>6, <1>7
<1>9. /\ t \in Seq(Byte) /\ Len(t) = k + 1
      /\ \A i \in 1 .. k + 1 : t[i] = (n \div Power[i - 1]) % Radix
  BY <1>1, ToLittleEndianIs
<1>10. n < Power[k + 1]
  <2>1. Power[k + 1] = Radix * Power[k] /\ Power[k] \in Nat
    BY <1>1, PowerIs, PowerPositive
  <2>. DEFINE y == Power[k]
  <2>2. y \in Nat /\ n < y /\ Power[k + 1] = Radix * y
    BY <2>1
  <2>. HIDE DEF y
  <2>3. y <= Radix * y /\ Radix * y \in Nat
    BY <1>4, <2>2
  <2>. QED  BY <1>5, <2>2, <2>3
<1>11. LittleEndian[t] = n
  BY <1>1, <1>10, DigitsRead
<1>12. t[k + 1] = 0
  <2>1. k + 1 \in 1 .. k + 1 /\ (k + 1) - 1 = k
    BY <1>1
  <2>2. t[k + 1] = (n \div Power[k]) % Radix
    BY <1>9, <2>1
  <2>. DEFINE y == Power[k]
  <2>3. y \in Nat \ {0} /\ n < y
    BY <1>1, PowerPositive
  <2>. HIDE DEF y
  <2>4. n \div y = 0
    BY <1>5, <2>3
  <2>5. 0 % Radix = 0
    BY <1>4
  <2>. QED  BY <2>2, <2>4, <2>5 DEF y
<1>. HIDE DEF s, t
<1>13. Append(s, 0) = t
  <2>. DEFINE a == Append(s, 0)
  <2>1. 0 \in Byte
    BY Layout
  <2>2. /\ a \in Seq(Byte) /\ Len(a) = k + 1 /\ a[k + 1] = 0
        /\ \A i \in 1 .. k : a[i] = s[i]
    BY <1>2, <2>1, AppendProperties
  <2>. HIDE DEF a
  <2>3. \A i \in 1 .. k + 1 : a[i] = t[i]
    <3>. SUFFICES ASSUME NEW i \in 1 .. k + 1
                  PROVE  a[i] = t[i]
      OBVIOUS
    <3>1. i = k + 1 \/ i \in 1 .. k
      BY <1>1
    <3>. QED  BY <1>2, <1>9, <1>12, <2>2, <3>1
  <2>4. a = t
    BY <1>9, <2>2, <2>3, SeqEqual
  <2>. QED  BY <2>4 DEF a
<1>. QED  BY <1>2, <1>3, <1>8, <1>11, <1>13 DEF s

(* The last of several bytes, and those before it. *)
LEMMA LastIs ==
  ASSUME NEW s \in Seq(Byte), NEW d \in Byte
  PROVE  Last(Append(s, d)) = d /\ Front(Append(s, d)) = s
<1>. DEFINE a == Append(s, d)
            n == Len(s)
<1>1. /\ a \in Seq(Byte) /\ Len(a) = n + 1 /\ a[n + 1] = d /\ n \in Nat
      /\ \A i \in 1 .. n : a[i] = s[i]
  BY AppendProperties, LenProperties
<1>. HIDE DEF a
<1>2. Last(a) = d
  BY <1>1 DEF Last
<1>3. Front(a) = s
  <2>. DEFINE f == SubSeq(a, 1, n)
  <2>1. Front(a) = f
    <3>1. Len(a) - 1 = n
      BY <1>1
    <3>. QED  BY <3>1 DEF Front
  <2>2. \A i \in 1 .. n : a[i] \in Byte
    BY <1>1, ElementOfSeq
  <2>3. 1 \in Int /\ n \in Int
    BY <1>1
  <2>4. /\ f \in Seq(Byte) /\ Len(f) = IF 1 <= n THEN n - 1 + 1 ELSE 0
        /\ \A i \in 1 .. n - 1 + 1 : f[i] = a[1 + i - 1]
    BY ONLY <2>2, <2>3, SubSeqProperties
  <2>. HIDE DEF f
  <2>5. Len(f) = n /\ \A i \in 1 .. n : f[i] = s[i]
    <3>1. Len(f) = n
      BY <1>1, <2>4
    <3>2. \A i \in 1 .. n : i \in 1 .. n - 1 + 1 /\ 1 + i - 1 = i
      BY <1>1
    <3>. QED  BY <1>1, <2>4, <3>1, <3>2
  <2>6. f = s
    BY <2>4, <2>5, SeqEqual
  <2>. QED  BY <2>1, <2>6
<1>. QED  BY <1>2, <1>3 DEF a

(* A sequence that is not empty ends in its last element. *)
LEMMA FrontLast ==
  ASSUME NEW s \in Seq(Byte), s # << >>
  PROVE  /\ Front(s) \in Seq(Byte) /\ Last(s) \in Byte /\ Last(s) = s[Len(s)]
         /\ Len(Front(s)) = Len(s) - 1
         /\ Append(Front(s), Last(s)) = s
<1>. DEFINE n == Len(s)
<1>1. PICK u \in Seq(Byte), d \in Byte : s = Append(u, d)
  BY SequenceEmptyOrAppend
<1>2. Last(s) = d /\ Front(s) = u
  BY <1>1, LastIs
<1>3. Len(s) = Len(u) + 1
  BY <1>1, AppendProperties
<1>4. Len(u) \in Nat
  BY LenProperties
<1>. QED  BY <1>1, <1>2, <1>3, <1>4 DEF Last

(* A number that is serialized is read back, in as few bytes as can be. *)
LEMMA NumberReads ==
  ASSUME NEW v \in Int64, v # 0
  PROVE  LET s == SerializeScriptNumber(v) IN
         /\ s \in Seq(Byte) /\ s # << >> /\ Len(s) \in 1 .. WordBytes + 1
         /\ ScriptNumber(s) = v /\ Minimal(s)
<1>. DEFINE n == Magnitude(v)
            s == Digits(n)
            out == SerializeScriptNumber(v)
            sign == IF v < 0 THEN SignBit ELSE 0
<1>1. /\ n \in Nat \ {0} /\ n < Word
      /\ v \in Int /\ v = IF v < 0 THEN -n ELSE n
  BY MagnitudeIs, Zenon
<1>2. out = IF Last(s) >= SignBit THEN Append(s, sign)
            ELSE IF v < 0 THEN Append(Front(s), Last(s) + SignBit)
            ELSE s
  BY DEF SerializeScriptNumber
<1>3. WordBytes \in Nat
  BY LayoutAssumption
<1>. HIDE DEF n
<1>4. PICK k \in 1 .. WordBytes :
        /\ s = ToLittleEndian(n, k) /\ n < Power[k] /\ n >= Power[k - 1]
        /\ s \in Seq(Byte) /\ Len(s) = k
  BY <1>1, DigitsAre, Zenon
<1>. HIDE DEF s, out
<1>5. k \in Nat \ {0}
  BY <1>3
<1>6. /\ s[k] \in 1 .. Radix - 1
      /\ LittleEndian[s] = n /\ LittleEndian[Append(s, 0)] = n
  BY <1>1, <1>4, <1>5, TopDigit
<1>. DEFINE top == Last(s)
<1>7. /\ SignBit \in Nat /\ SignBit > 0 /\ SignBit \in Byte /\ 0 \in Byte
      /\ \A d \in Byte : d < SignBit => d + SignBit \in Byte
      /\ \A d \in Byte : d \in Nat
  <2>1. Radix \in Nat /\ Radix > 1
    BY Layout
  <2>. QED  BY <2>1 DEF SignBit, Byte
<1>8. s # << >>
  BY <1>4, <1>5, EmptySeq
<1>9. /\ Front(s) \in Seq(Byte) /\ top \in Byte /\ top = s[k] /\ top >= 1
      /\ Len(Front(s)) = k - 1 /\ Append(Front(s), top) = s
  <2>1. /\ Front(s) \in Seq(Byte) /\ top \in Byte /\ top = s[k]
        /\ Len(Front(s)) = k - 1 /\ Append(Front(s), top) = s
    BY <1>4, <1>8, FrontLast
  <2>2. s[k] >= 1
    BY <1>6, Layout
  <2>. QED  BY <2>1, <2>2
<1>. HIDE DEF top
<1>10. CASE top >= SignBit
  <2>1. sign \in Byte
    BY <1>7
  <2>2. sign = IF v < 0 THEN SignBit ELSE 0
    OBVIOUS
  <2>. HIDE DEF sign
  <2>3. out = Append(s, sign)
    BY <1>2, <1>10 DEF top
  <2>4. /\ out \in Seq(Byte) /\ out # << >> /\ Len(out) = k + 1
        /\ out[k] = s[k] /\ Last(out) = sign /\ Front(out) = s
    <3>1. k \in 1 .. Len(s)
      BY <1>4, <1>5
    <3>. QED  BY <1>4, <2>1, <2>3, <3>1, AppendProperties, LastIs
  <2>5. Minimal(out)
    <3>1. Len(out) > 1 /\ Len(out) - 1 = k /\ out[k] >= SignBit
      BY <1>5, <1>9, <1>10, <2>4
    <3>. QED  BY <3>1 DEF Minimal
  <2>6. ScriptNumber(out) = v
    <3>1. CASE v < 0
      <4>1. Last(out) >= SignBit /\ Last(out) - SignBit = 0
        BY <1>7, <2>2, <2>4, <3>1
      <4>2. ScriptNumber(out) = -LittleEndian[Append(s, 0)]
        BY <2>4, <4>1 DEF ScriptNumber
      <4>. QED  BY <1>1, <1>6, <3>1, <4>2
    <3>2. CASE ~(v < 0)
      <4>1. ~(Last(out) >= SignBit) /\ out = Append(s, 0)
        BY <1>7, <2>2, <2>3, <2>4, <3>2
      <4>2. ScriptNumber(out) = LittleEndian[out]
        BY <2>4, <4>1 DEF ScriptNumber
      <4>. QED  BY <1>1, <1>6, <3>2, <4>1, <4>2
    <3>. QED  BY <3>1, <3>2
  <2>7. Len(out) \in 1 .. WordBytes + 1
    BY <1>3, <2>4
  <2>. QED  BY <2>4, <2>5, <2>6, <2>7 DEF out
<1>11. CASE ~(top >= SignBit) /\ v < 0
  <2>. DEFINE d == top + SignBit
  <2>1. d \in Byte /\ d >= SignBit /\ d # 0 /\ d # SignBit /\ d - SignBit = top
    <3>1. top \in Nat /\ top < SignBit
      BY <1>7, <1>9, <1>11
    <3>. QED  BY <1>7, <1>9, <3>1
  <2>2. out = Append(Front(s), d)
    BY <1>2, <1>11 DEF top
  <2>. HIDE DEF d
  <2>3. /\ out \in Seq(Byte) /\ out # << >> /\ Len(out) = k
        /\ Last(out) = d /\ Front(out) = Front(s)
    <3>1. Len(out) = (k - 1) + 1
      BY <1>9, <2>1, <2>2, AppendProperties
    <3>. QED  BY <1>5, <1>9, <2>1, <2>2, <3>1, AppendProperties, LastIs
  <2>4. Minimal(out)
    BY <2>1, <2>3 DEF Minimal
  <2>5. ScriptNumber(out) = v
    <3>1. ScriptNumber(out) = -LittleEndian[Append(Front(s), top)]
      BY <2>1, <2>3 DEF ScriptNumber
    <3>. QED  BY <1>1, <1>6, <1>9, <1>11, <3>1
  <2>6. Len(out) \in 1 .. WordBytes + 1
    BY <1>3, <2>3
  <2>. QED  BY <2>3, <2>4, <2>5, <2>6 DEF out
<1>12. CASE ~(top >= SignBit) /\ ~(v < 0)
  <2>1. out = s
    BY <1>2, <1>12 DEF top
  <2>2. top < SignBit /\ top # 0 /\ top # SignBit
    BY <1>7, <1>9, <1>12
  <2>3. Minimal(out)
    BY <2>1, <2>2 DEF Minimal, top
  <2>4. ScriptNumber(out) = v
    <3>1. ScriptNumber(s) = LittleEndian[s]
      BY <1>8, <1>12 DEF ScriptNumber, top
    <3>. QED  BY <1>1, <1>6, <1>12, <2>1, <3>1
  <2>5. Len(out) \in 1 .. WordBytes + 1
    BY <1>3, <1>4, <2>1
  <2>. QED  BY <1>4, <1>8, <2>1, <2>3, <2>4, <2>5 DEF out
<1>. QED  BY <1>10, <1>11, <1>12

-----------------------------------------------------------------------------
(* What was appended is what the walk over the script reads *)

(* The four bytes of the longest length hold every length that is pushed. *)
LengthsFit == MaxLength < Power[4] /\ \A data \in Data : Len(data) < Power[4]

Built ==
  meant # Unknown /\ ~torn =>
    /\ meant \in Seq(Items)
    /\ Walk[bytes].rest = << >> /\ ReadsAs(Walk[bytes].list, meant)

(* One more instruction, and one more item. *)
LEMMA BuiltMore ==
  ASSUME NEW b \in Seq(Byte), NEW m \in Seq(Items),
         Walk[b].rest = << >>, ReadsAs(Walk[b].list, m),
         NEW i \in Instructions, HasValidImmediate(i), NEW item \in Items, Reads(i, item)
  PROVE  LET a == b \o Encoding(i) IN
         /\ Append(m, item) \in Seq(Items)
         /\ Walk[a].rest = << >> /\ ReadsAs(Walk[a].list, Append(m, item))
<1>1. /\ Walk[b \o Encoding(i)].list = Append(Walk[b].list, i)
      /\ Walk[b \o Encoding(i)].rest = << >>
  BY WalkAppend
<1>2. Walk[b].list \in Seq(Instructions)
  BY WalkType
<1>3. Append(m, item) \in Seq(Items) /\ ReadsAs(Append(Walk[b].list, i), Append(m, item))
  BY <1>2, ReadsMore
<1>. QED  BY <1>1, <1>3

(* Every step that appends an instruction that reads as the item it means. *)
LEMMA BuiltStep ==
  ASSUME bytes \in Seq(Byte), Built,
         NEW i \in Instructions, HasValidImmediate(i), NEW item \in Items, Reads(i, item),
         bytes' = bytes \o Encoding(i), Means(item), torn' = torn
  PROVE  Built'
<1>. SUFFICES ASSUME meant' # Unknown, ~torn'
              PROVE  /\ meant' \in Seq(Items)
                     /\ Walk[bytes'].rest = << >> /\ ReadsAs(Walk[bytes'].list, meant')
  BY DEF Built
<1>1. meant # Unknown /\ meant' = Append(meant, item) /\ ~torn
  BY DEF Means
<1>2. meant \in Seq(Items) /\ Walk[bytes].rest = << >> /\ ReadsAs(Walk[bytes].list, meant)
  BY <1>1 DEF Built
<1>. DEFINE a == bytes \o Encoding(i)
<1>3. /\ Append(meant, item) \in Seq(Items)
      /\ Walk[a].rest = << >> /\ ReadsAs(Walk[a].list, Append(meant, item))
  BY <1>2, BuiltMore
<1>. HIDE DEF a
<1>4. bytes' = a
  BY DEF a
<1>. QED  BY <1>1, <1>3, <1>4

LEMMA DataReads ==
  ASSUME NEW data \in Seq(Byte), Len(data) < Power[4]
  PROVE  \E i \in Instructions :
           /\ HasValidImmediate(i) /\ Reads(i, [kind |-> "data", is |-> data])
           /\ Encoding(i) = PushPrefix(Len(data)) \o data
<1>1. PICK i \in Instructions :
        /\ HasValidImmediate(i) /\ i.immediate = data /\ i.code <= PushData4
        /\ \A c \in 0 .. i.code - 1 : ~HasValidImmediate([i EXCEPT !.code = c])
        /\ Encoding(i) = PushPrefix(Len(data)) \o data
  BY PushIs
<1>. DEFINE item == [kind |-> "data", is |-> data]
<1>2. item.kind = "data" /\ item.is = data
  OBVIOUS
<1>. HIDE DEF item
<1>3. Reads(i, item)
  BY <1>1, <1>2 DEF Reads
<1>. QED  BY <1>1, <1>3 DEF item

(* What append_number appends. *)
LEMMA AppendedNumber ==
  ASSUME NEW v \in Int64
  PROVE  LET s == SerializeScriptNumber(v) IN
         \E i \in Instructions :
           /\ HasValidImmediate(i) /\ Reads(i, [kind |-> "number", is |-> v])
           /\ IF v = -1 THEN Encoding(i) = <<Op1Negate>>
              ELSE IF v \in 0 .. MaxSmall THEN Encoding(i) = <<EncodeSmallInteger(v)>>
              ELSE Encoding(i) = PushPrefix(Len(s)) \o s
<1>. DEFINE s == SerializeScriptNumber(v)
            item == [kind |-> "number", is |-> v]
            Read(i) == NumberOf(i) = v /\ Minimal(i.immediate)
<1>1. item.kind = "number" /\ item.is = v
  OBVIOUS
<1>. HIDE DEF item
<1>2. \A i : Read(i) => Reads(i, item)
  BY <1>1 DEF Reads
<1>3. Minimal(<< >>)
  BY DEF Minimal
<1>l. /\ PushData1 \in Nat /\ PushData1 > 0 /\ MaxSmall \in Nat \ {0}
      /\ PushData4 = PushData1 + 2 /\ Op1Negate = PushData1 + 3 /\ Op1 = PushData1 + 5
      /\ Op16 = Op1 + MaxSmall - 1 /\ Op1Negate \in Byte
  <2>1. MaxSmall \in Nat \ {0}
    BY LayoutAssumption
  <2>. QED  BY <2>1, Layout DEF Op16
<1>4. CASE v = -1
  <2>. DEFINE i == [code |-> Op1Negate, immediate |-> << >>]
  <2>1. Op1Negate \in Byte /\ Op1Negate \notin 1 .. PushData4
    BY <1>l
  <2>2. i \in Instructions /\ HasValidImmediate(i) /\ Encoding(i) = <<Op1Negate>>
    BY <2>1, OpcodeIs
  <2>3. i.code = Op1Negate /\ i.immediate = << >>
    OBVIOUS
  <2>. HIDE DEF i
  <2>4. Read(i)
    BY <1>3, <1>4, <2>3 DEF NumberOf
  <2>. HIDE DEF Read
  <2>. QED  BY <1>2, <1>4, <2>2, <2>4 DEF item
<1>5. CASE v # -1 /\ v \in 0 .. MaxSmall
  <2>. DEFINE c == EncodeSmallInteger(v)
              i == [code |-> c, immediate |-> << >>]
  <2>1. c \in Byte
    BY <1>5, SmallIntegers
  <2>2. /\ c \notin 1 .. PushData4 /\ c # Op1Negate
        /\ IsSmallInteger(c) /\ DecodeSmallInteger(c) = v
    BY <1>5, <1>l DEF EncodeSmallInteger, IsSmallInteger, DecodeSmallInteger
  <2>. HIDE DEF c
  <2>3. i \in Instructions /\ HasValidImmediate(i) /\ Encoding(i) = <<c>>
    BY <2>1, <2>2, OpcodeIs
  <2>4. i.code = c /\ i.immediate = << >>
    OBVIOUS
  <2>. HIDE DEF i
  <2>5. Read(i)
    BY <1>3, <2>2, <2>4 DEF NumberOf
  <2>. HIDE DEF Read
  <2>. QED  BY <1>2, <1>5, <2>3, <2>5 DEF item, c
<1>6. CASE v # -1 /\ v \notin 0 .. MaxSmall
  <2>1. v # 0
    BY <1>6, <1>l
  <2>2. /\ s \in Seq(Byte) /\ s # << >> /\ Len(s) \in 1 .. WordBytes + 1
        /\ ScriptNumber(s) = v /\ Minimal(s)
    BY <2>1, NumberReads
  <2>3. Len(s) < Power[4]
    <3>1. WordBytes \in Nat /\ WordBytes + 1 < PushData1
      BY LayoutAssumption
    <3>2. PushData1 < Power[4]
      <4>1. PushData1 \in Nat /\ PushData1 < Radix /\ Radix \in Nat \ {0}
        BY Widths
      <4>2. Power[4] = Radix * Power[3] /\ Power[3] \in Nat \ {0}
        BY PowerPositive, PowerIs
      <4>. DEFINE p == Power[3]
      <4>3. p \in Nat \ {0} /\ Power[4] = Radix * p
        BY <4>2
      <4>. HIDE DEF p
      <4>4. Radix <= Radix * p
        BY <4>1, <4>3
      <4>. QED  BY <4>1, <4>3, <4>4
    <3>3. Power[4] \in Nat
      BY PowerPositive
    <3>. QED  BY <1>l, <2>2, <3>1, <3>2, <3>3
  <2>. HIDE DEF s
  <2>4. PICK i \in Instructions :
          /\ HasValidImmediate(i) /\ i.immediate = s /\ i.code <= PushData4
          /\ s # << >> => i.code # 0
          /\ Encoding(i) = PushPrefix(Len(s)) \o s
    BY <2>2, <2>3, PushIs
  <2>5. i.code # Op1Negate /\ ~IsSmallInteger(i.code)
    <3>1. i.code \in Nat
      BY Layout DEF Instructions, Byte
    <3>. QED  BY <1>l, <2>2, <2>4, <3>1 DEF IsSmallInteger
  <2>6. Read(i)
    BY <2>2, <2>4, <2>5 DEF NumberOf
  <2>. HIDE DEF Read
  <2>. QED  BY <1>2, <1>6, <2>4, <2>6 DEF item, s
<1>. QED  BY <1>4, <1>5, <1>6

LEMMA BuiltOpcode ==
  ASSUME ScriptInv, Built, NEW code \in Code, AppendOpcode(code)
  PROVE  Built'
<1>. DEFINE item == [kind |-> "opcode", is |-> code]
            i == [code |-> code, immediate |-> << >>]
<1>1. bytes \in Seq(Byte) /\ code \in Byte
  BY ScriptAssumption DEF ScriptInv
<1>2. /\ bytes' = Append(bytes, code) /\ torn' = torn
      /\ IF code \in 1 .. PushData4 THEN meant' = Unknown ELSE Means(item)
  BY DEF AppendOpcode, Changed
<1>3. CASE code \in 1 .. PushData4
  BY <1>2, <1>3 DEF Built
<1>4. CASE code \notin 1 .. PushData4
  <2>1. i \in Instructions /\ HasValidImmediate(i) /\ Encoding(i) = <<code>>
    BY <1>1, <1>4, OpcodeIs
  <2>2. item \in Items /\ item.kind = "opcode" /\ item.is = code
    BY <1>1 DEF Items
  <2>3. Reads(i, item)
    <3>. HIDE DEF item
    <3>. QED  BY <2>2 DEF Reads
  <2>. HIDE DEF i, item
  <2>4. bytes' = bytes \o Encoding(i)
    BY <1>1, <1>2, <2>1, AppendIsConcat
  <2>. QED  BY <1>1, <1>2, <1>4, <2>1, <2>2, <2>3, <2>4, BuiltStep
<1>. QED  BY <1>3, <1>4

(* A datum that fits, whether or not it was a part of the script. *)
LEMMA BuiltDatum ==
  ASSUME ScriptInv, Built, NEW data \in Seq(Byte), Len(data) < Power[4],
         bytes' = bytes \o PushPrefix(Len(data)) \o data,
         Means([kind |-> "data", is |-> data]), torn' = torn
  PROVE  Built'
<1>. DEFINE item == [kind |-> "data", is |-> data]
            p == PushPrefix(Len(data))
<1>1. bytes \in Seq(Byte)
  BY DEF ScriptInv
<1>2. PICK i \in Instructions :
        /\ HasValidImmediate(i) /\ Reads(i, item)
        /\ Encoding(i) = p \o data
  BY DataReads
<1>3. item \in Items
  BY DEF Items
<1>4. p \in Seq(Byte)
  BY LenProperties, PushPrefixType
<1>. HIDE DEF p, item
<1>5. (bytes \o p) \o data = bytes \o (p \o data)
  BY <1>1, <1>4, ConcatAssociative
<1>6. bytes' = bytes \o Encoding(i)
  BY <1>2, <1>5 DEF p
<1>. QED  BY <1>1, <1>2, <1>3, <1>6, BuiltStep DEF item

LEMMA BuiltData ==
  ASSUME LengthsFit, ScriptInv, Built, NEW data \in Data, AppendData(data)
  PROVE  Built'
<1>1. data \in Seq(Byte) /\ Len(data) < Power[4]
  BY ScriptAssumption DEF LengthsFit
<1>2. /\ bytes' = bytes \o PushPrefix(Len(data)) \o data
      /\ Means([kind |-> "data", is |-> data]) /\ torn' = torn
  BY DEF AppendData, Changed
<1>. QED  BY <1>1, <1>2, BuiltDatum

LEMMA BuiltOwnData ==
  ASSUME LengthsFit, ScriptInv, Built, Len(bytes) <= MaxLength,
         NEW from \in DOMAIN bytes, NEW to \in DOMAIN bytes, from <= to,
         AppendOwnData(from, to)
  PROVE  Built'
<1>. DEFINE data == SubSeq(bytes, from, to)
<1>1. bytes \in Seq(Byte)
  BY DEF ScriptInv
<1>2. from \in 1 .. Len(bytes) /\ to \in 1 .. Len(bytes) /\ Len(bytes) \in Nat
  BY <1>1, LenProperties
<1>3. data \in Seq(Byte) /\ Len(data) = to - from + 1
  BY <1>1, <1>2, Part
<1>4. Len(data) < Power[4]
  <2>1. MaxLength \in Nat /\ Power[4] \in Nat
    BY ScriptAssumption, PowerPositive
  <2>2. MaxLength < Power[4]
    BY DEF LengthsFit
  <2>. QED  BY <1>2, <1>3, <2>1, <2>2
<1>. HIDE DEF data
<1>5. /\ Means([kind |-> "data", is |-> data])
      /\ \/ bytes' = bytes \o PushPrefix(Len(data)) \o data /\ torn' = torn
         \/ torn' = TRUE
  BY Zenon DEF AppendOwnData, Changed, data
<1>6. CASE bytes' = bytes \o PushPrefix(Len(data)) \o data /\ torn' = torn
  BY <1>3, <1>4, <1>5, <1>6, BuiltDatum
<1>7. CASE torn' = TRUE
  BY <1>7 DEF Built
<1>. QED  BY <1>5, <1>6, <1>7

LEMMA BuiltNumber ==
  ASSUME ScriptInv, Built, NEW v \in Number, AppendNumber(v)
  PROVE  Built'
<1>. DEFINE item == [kind |-> "number", is |-> v]
            s == SerializeScriptNumber(v)
            p == PushPrefix(Len(s))
<1>1. bytes \in Seq(Byte) /\ v \in Int64
  BY ScriptAssumption DEF ScriptInv
<1>2. PICK i \in Instructions :
        /\ HasValidImmediate(i) /\ Reads(i, item)
        /\ IF v = -1 THEN Encoding(i) = <<Op1Negate>>
           ELSE IF v \in 0 .. MaxSmall THEN Encoding(i) = <<EncodeSmallInteger(v)>>
           ELSE Encoding(i) = p \o s
  BY <1>1, AppendedNumber
<1>3. item \in Items
  BY <1>1 DEF Items
<1>4. s \in Seq(Byte) /\ p \in Seq(Byte)
  BY <1>1, NumberType, LenProperties, PushPrefixType
<1>5. /\ bytes' = IF v = -1 THEN Append(bytes, Op1Negate)
                  ELSE IF v \in 0 .. MaxSmall THEN Append(bytes, EncodeSmallInteger(v))
                  ELSE bytes \o p \o s
      /\ Means(item) /\ torn' = torn
  BY DEF AppendNumber, Changed
<1>. HIDE DEF s, p, item
<1>6. (bytes \o p) \o s = bytes \o (p \o s)
  BY <1>1, <1>4, ConcatAssociative
<1>7. Append(bytes, Op1Negate) = bytes \o <<Op1Negate>>
  BY <1>1, Layout, AppendIsConcat
<1>8. v \in 0 .. MaxSmall =>
        Append(bytes, EncodeSmallInteger(v)) = bytes \o <<EncodeSmallInteger(v)>>
  BY <1>1, SmallIntegers, AppendIsConcat
<1>9. bytes' = bytes \o Encoding(i)
  BY <1>2, <1>5, <1>6, <1>7, <1>8
<1>. QED  BY <1>1, <1>2, <1>3, <1>5, <1>9, BuiltStep

LEMMA BuiltScript ==
  ASSUME ScriptInv, Built, NEW suffix \in Suffix \cup {bytes}, AppendScript(suffix)
  PROVE  Built'
<1>1. bytes \in Seq(Byte)
  BY DEF ScriptInv
<1>2. /\ bytes' = bytes \o suffix /\ torn' = torn
      /\ meant' = IF suffix = bytes /\ meant # Unknown THEN meant \o meant
                  ELSE IF suffix = << >> THEN meant ELSE Unknown
  BY DEF AppendScript, Changed
<1>. SUFFICES ASSUME meant' # Unknown, ~torn'
              PROVE  /\ meant' \in Seq(Items)
                     /\ Walk[bytes'].rest = << >> /\ ReadsAs(Walk[bytes'].list, meant')
  BY DEF Built
<1>3. CASE suffix = bytes /\ meant # Unknown
  <2>1. /\ meant \in Seq(Items) /\ Walk[bytes].rest = << >>
        /\ ReadsAs(Walk[bytes].list, meant)
    BY <1>2, <1>3 DEF Built
  <2>2. /\ Walk[bytes \o bytes].list = Walk[bytes].list \o Walk[bytes].list
        /\ Walk[bytes \o bytes].rest = << >>
    BY <1>1, <2>1, WalkOn
  <2>3. Walk[bytes].list \in Seq(Instructions)
    BY <1>1, WalkType
  <2>4. /\ meant \o meant \in Seq(Items)
        /\ ReadsAs(Walk[bytes].list \o Walk[bytes].list, meant \o meant)
    BY <2>1, <2>3, ReadsTwice
  <2>. QED  BY <1>2, <1>3, <2>2, <2>4
<1>4. CASE ~(suffix = bytes /\ meant # Unknown)
  <2>1. suffix = << >> /\ meant' = meant /\ meant # Unknown /\ ~torn
    BY <1>2, <1>4
  <2>2. bytes' = bytes
    BY <1>1, <1>2, <2>1, ConcatEmptySeq
  <2>. QED  BY <2>1, <2>2 DEF Built
<1>. QED  BY <1>3, <1>4

LEMMA BuiltEmpty ==
  /\ << >> \in Seq(Items)
  /\ Walk[<< >>].rest = << >> /\ ReadsAs(Walk[<< >>].list, << >>)
<1>1. << >> \in Seq(Byte)
  BY EmptySeq
<1>2. Walk[<< >>].list = << >> /\ Walk[<< >>].rest = << >>
  BY <1>1, NothingParsed, WalkStuck
<1>. QED  BY <1>2, ReadsNothing

LEMMA InitBuilt == Init => Built
<1>. SUFFICES ASSUME Init, meant # Unknown
              PROVE  bytes = << >> /\ meant = << >>
  BY BuiltEmpty DEF Built
<1>. QED  BY DEF Init

LEMMA NextBuilt == LengthsFit /\ ScriptInv /\ Built /\ [Next]_vars => Built'
<1>. SUFFICES ASSUME LengthsFit, ScriptInv, Built, [Next]_vars
              PROVE  Built'
  OBVIOUS
<1>1. CASE UNCHANGED <<bytes, meant, torn>>
  BY <1>1 DEF Built
<1>2. UNCHANGED vars => UNCHANGED <<bytes, meant, torn>>
  BY DEF vars
<1>3. Begin \/ Increment => UNCHANGED <<bytes, meant, torn>>
  BY DEF Begin, Increment
<1>4. ASSUME NEW code \in Code, AppendOpcode(code)
      PROVE  Built'
  BY <1>4, BuiltOpcode
<1>5. ASSUME NEW data \in Data, AppendData(data)
      PROVE  Built'
  BY <1>5, BuiltData
<1>6. ASSUME Len(bytes) <= MaxLength,
             NEW from \in DOMAIN bytes, NEW to \in DOMAIN bytes, from <= to,
             AppendOwnData(from, to)
      PROVE  Built'
  BY <1>6, BuiltOwnData
<1>7. ASSUME NEW v \in Number, AppendNumber(v)
      PROVE  Built'
  BY <1>7, BuiltNumber
<1>8. ASSUME NEW suffix \in Suffix \cup {bytes}, AppendScript(suffix)
      PROVE  Built'
  BY <1>8, BuiltScript
<1>9. CASE Clear
  <2>1. bytes' = << >> /\ meant' = << >>
    BY <1>9 DEF Clear, Changed
  <2>. QED  BY <2>1, BuiltEmpty DEF Built
<1>. QED  BY <1>1, <1>2, <1>3, <1>4, <1>5, <1>6, <1>7, <1>8, <1>9, Zenon DEF Next

LEMMA InvReadsBack == ScriptInv /\ Built => ReadsBack
<1>. SUFFICES ASSUME ScriptInv, Built, meant # Unknown, it # None, it.atEnd, ~torn
              PROVE  it.remaining = << >> /\ ReadsAs(seen, meant)
  BY DEF ReadsBack
<1>1. Walk[bytes].list = seen /\ Walk[bytes].rest = it.remaining
  BY EndOfWalk
<1>. QED  BY <1>1 DEF Built

-----------------------------------------------------------------------------
(* The theorems *)

(* At every point of every program that appends and iterates, the iterator  *)
(* is what _read_next made of the bytes it stands at.                       *)
THEOREM ScriptInductive == Spec => []ScriptInv
BY InitScript, NextScript, PTL DEF Spec

(* Whatever the bytes, the instruction an iterator holds is one that the    *)
(* constructor's assertion accepts, and lies within the bytes that remain   *)
(* (parse_instruction, instruction::_has_valid_immediate).                  *)
THEOREM AssertionHolds == Spec => []TypeOK
BY ScriptInductive, InvTypes, PTL

(* An iterator skips no byte and reads none twice (iterator::operator++).   *)
THEOREM ReadsAllOnce == Spec => []Partition
BY ScriptInductive, InvPartition, PTL

(* The predicates and an iteration over the same script agree               *)
(* (is_well_formed, is_push_only, has_valid_opcodes).                       *)
THEOREM PredicatesAndIteration == Spec => []PredicatesAgree
BY ScriptInductive, InvPredicates, PTL

(* The templates are told apart, and what they match is well formed         *)
(* (witness_program, is_pay_to_script_hash, is_pay_to_taproot).             *)
THEOREM TemplatesDisjoint == Spec => []Templates
BY ScriptInductive, InvTemplates, PTL

(* Every opcode, datum and number appended is read back, in order and in    *)
(* its shortest form (append, append_number, iterator::_read_next), if the  *)
(* four bytes of op_pushdata4 hold the length of every datum.               *)
THEOREM ReadsWhatWasAppended == LengthsFit => (Spec => []ReadsBack)
<1>1. ASSUME LengthsFit
      PROVE  Spec => []ReadsBack
  <2>1. Init => ScriptInv /\ Built
    BY InitScript, InitBuilt
  <2>2. ScriptInv /\ Built /\ [Next]_vars => (ScriptInv /\ Built)'
    BY <1>1, NextScript, NextBuilt
  <2>. QED  BY <2>1, <2>2, InvReadsBack, PTL DEF Spec
<1>. QED  BY <1>1

=============================================================================
