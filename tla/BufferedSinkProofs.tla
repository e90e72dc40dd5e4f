------------------------- MODULE BufferedSinkProofs -------------------------
(***************************************************************************)
(* Theorems about serialize() and its buffered_sink: for every size of the *)
(* buffer and every length of an encoding, however the encoder cuts it.    *)
(***************************************************************************)
EXTENDS BufferedSink, SequenceTheorems, TLAPS

-----------------------------------------------------------------------------
(* Multiples of the buffer *)

LEMMA DivisionWithRest ==
  ASSUME NEW b \in Nat \ {0}, NEW q \in Int, NEW r \in 0 .. b - 1
  PROVE  (b * q + r) % b = r
  OBVIOUS

LEMMA OneMoreBuffer ==
  ASSUME NEW b \in Nat \ {0}, NEW a \in Nat, a % b = 0
  PROVE  (a + b) % b = 0
<1> DEFINE q == a \div b
<1>1. q \in Int /\ a = b * q
  OBVIOUS
<1>2. q + 1 \in Int /\ 0 \in 0 .. b - 1
  OBVIOUS
<1> HIDE DEF q
<1>3. a + b = b * (q + 1) + 0
  BY <1>1
<1> QED
  BY <1>2, <1>3, DivisionWithRest

-----------------------------------------------------------------------------
(* Stretches of the encoding *)

LEMMA StretchFacts ==
  ASSUME NEW a \in Nat, NEW b \in Nat, a <= b
  PROVE  /\ Stretch(a, b) \in Seq(Nat) /\ Len(Stretch(a, b)) = b - a
         /\ \A i \in 1 .. b - a : Stretch(a, b)[i] = a + i
<1>1. b - a \in Nat /\ \A i \in 1 .. b - a : a + i \in Nat
  OBVIOUS
<1>2. [i \in 1 .. b - a |-> a + i] \in Seq(Nat)
  BY <1>1, IsASeq
<1> QED
  BY <1>1, <1>2, LenProperties DEF Stretch

LEMMA StretchType ==
  ASSUME NEW a \in Nat, NEW b \in Nat, a <= b, b <= Total
  PROVE  Stretch(a, b) \in Seq(1 .. Total)
<1>1. b - a \in Nat /\ \A i \in 1 .. b - a : a + i \in 1 .. Total
  BY SizeAssumption
<1> QED
  BY <1>1, IsASeq DEF Stretch

LEMMA StretchesJoin ==
  ASSUME NEW a \in Nat, NEW b \in Nat, NEW c \in Nat, a <= b, b <= c
  PROVE  Stretch(a, b) \o Stretch(b, c) = Stretch(a, c)
<1> DEFINE s == Stretch(a, b)
           t == Stretch(b, c)
           w == Stretch(a, c)
<1>1. /\ s \in Seq(Nat) /\ Len(s) = b - a /\ \A i \in 1 .. b - a : s[i] = a + i
      /\ t \in Seq(Nat) /\ Len(t) = c - b /\ \A i \in 1 .. c - b : t[i] = b + i
      /\ w \in Seq(Nat) /\ Len(w) = c - a /\ \A i \in 1 .. c - a : w[i] = a + i
  <2>1. a <= c
    OBVIOUS
  <2>2. s \in Seq(Nat) /\ Len(s) = b - a /\ \A i \in 1 .. b - a : s[i] = a + i
    BY StretchFacts
  <2>3. t \in Seq(Nat) /\ Len(t) = c - b /\ \A i \in 1 .. c - b : t[i] = b + i
    BY StretchFacts
  <2>4. w \in Seq(Nat) /\ Len(w) = c - a /\ \A i \in 1 .. c - a : w[i] = a + i
    BY <2>1, StretchFacts
  <2> QED
    BY <2>2, <2>3, <2>4
<1> HIDE DEF s, t, w
<1>2. /\ s \o t \in Seq(Nat) /\ Len(s \o t) = c - a
      /\ \A i \in 1 .. c - a : (s \o t)[i] = IF i <= b - a THEN s[i] ELSE t[i - (b - a)]
  <2>1. /\ s \o t \in Seq(Nat) /\ Len(s \o t) = Len(s) + Len(t)
        /\ \A i \in 1 .. Len(s) + Len(t) :
             (s \o t)[i] = IF i <= Len(s) THEN s[i] ELSE t[i - Len(s)]
    BY <1>1, ConcatProperties
  <2>2. Len(s) + Len(t) = c - a
    BY <1>1
  <2> QED
    BY <2>1, <2>2, <1>1
<1>3. ASSUME NEW i \in 1 .. c - a
      PROVE  (s \o t)[i] = w[i]
  <2>1. CASE i <= b - a
    BY <2>1, <1>1, <1>2
  <2>2. CASE ~(i <= b - a)
    <3>1. i - (b - a) \in 1 .. c - b
      BY <2>2
    <3> QED
      BY <2>2, <3>1, <1>1, <1>2, SMTT(30)
  <2> QED
    BY <2>1, <2>2
<1>4. s \o t = w
  BY <1>1, <1>2, <1>3, SeqEqual
<1> QED
  BY <1>4 DEF s, t, w

(* What is left of a stretch when n of its bytes are gone. *)
LEMMA StretchRest ==
  ASSUME NEW a \in Nat, NEW b \in Nat, a <= b, NEW n \in 0 .. b - a
  PROVE  SubSeq(Stretch(a, b), n + 1, Len(Stretch(a, b))) = Stretch(a + n, b)
<1> DEFINE s == Stretch(a, b)
           r == Stretch(a + n, b)
           u == SubSeq(s, n + 1, b - a)
<1>1. /\ s \in Seq(Nat) /\ Len(s) = b - a /\ \A i \in 1 .. b - a : s[i] = a + i
      /\ r \in Seq(Nat) /\ Len(r) = b - (a + n)
      /\ \A i \in 1 .. b - (a + n) : r[i] = a + n + i
  <2>1. a + n \in Nat /\ a + n <= b
    OBVIOUS
  <2>2. s \in Seq(Nat) /\ Len(s) = b - a /\ \A i \in 1 .. b - a : s[i] = a + i
    BY StretchFacts
  <2> DEFINE m == a + n
  <2>3. m \in Nat /\ m <= b
    BY <2>1
  <2> HIDE DEF m
  <2>4. /\ Stretch(m, b) \in Seq(Nat) /\ Len(Stretch(m, b)) = b - m
        /\ \A i \in 1 .. b - m : Stretch(m, b)[i] = m + i
    BY <2>3, StretchFacts
  <2> QED
    BY <2>2, <2>4 DEF m
<1> HIDE DEF s, r
<1>2. \A i \in n + 1 .. b - a : s[i] \in Nat
  BY <1>1
<1>3. /\ u \in Seq(Nat)
      /\ Len(u) = IF n + 1 <= b - a THEN (b - a) - (n + 1) + 1 ELSE 0
      /\ \A i \in 1 .. (b - a) - (n + 1) + 1 : u[i] = s[n + 1 + i - 1]
  BY <1>2, SubSeqProperties
<1> HIDE DEF u
<1>4. Len(u) = Len(r) /\ \A i \in 1 .. Len(u) : u[i] = r[i]
  BY <1>1, <1>3
<1>5. u = r
  BY <1>1, <1>3, <1>4, SeqEqual
<1> QED
  BY <1>1, <1>5 DEF s, r, u

(* The first n bytes of a buffer that holds a stretch. *)
LEMMA BufferedStretch ==
  ASSUME NEW a \in Nat, NEW buf, NEW n \in Nat, \A i \in 1 .. n : buf[i] = a + i
  PROVE  SubSeq(buf, 1, n) = Stretch(a, a + n)
<1> DEFINE r == Stretch(a, a + n)
           u == SubSeq(buf, 1, n)
<1>1. r \in Seq(Nat) /\ Len(r) = n /\ \A i \in 1 .. n : r[i] = a + i
  <2> DEFINE m == a + n
  <2>1. m \in Nat /\ a <= m /\ m - a = n
    OBVIOUS
  <2> HIDE DEF m
  <2>2. /\ Stretch(a, m) \in Seq(Nat) /\ Len(Stretch(a, m)) = m - a
        /\ \A i \in 1 .. m - a : Stretch(a, m)[i] = a + i
    BY <2>1, StretchFacts
  <2> QED
    BY <2>1, <2>2 DEF m
<1>2. \A i \in 1 .. n : buf[i] \in Nat
  OBVIOUS
<1>3. /\ u \in Seq(Nat) /\ Len(u) = IF 1 <= n THEN n - 1 + 1 ELSE 0
      /\ \A i \in 1 .. n - 1 + 1 : u[i] = buf[1 + i - 1]
  BY <1>2, SubSeqProperties
<1> HIDE DEF r, u
<1>4. Len(u) = Len(r) /\ \A i \in 1 .. Len(u) : u[i] = r[i]
  BY <1>1, <1>3
<1>5. u = r
  BY <1>1, <1>3, <1>4, SeqEqual
<1> QED
  BY <1>5 DEF r, u

(* A concatenation falls apart where it was put together. *)
LEMMA ConcatParts ==
  ASSUME NEW s \in Seq(Nat), NEW t \in Seq(Nat)
  PROVE  /\ SubSeq(s \o t, 1, Len(s)) = s
         /\ SubSeq(s \o t, Len(s) + 1, Len(s \o t)) = t
         /\ Len(s \o t) = Len(s) + Len(t)
<1> DEFINE w == s \o t
           m == Len(s)
           n == Len(t)
           u == SubSeq(w, 1, m)
           v == SubSeq(w, m + 1, m + n)
<1>1. /\ w \in Seq(Nat) /\ Len(w) = m + n
      /\ \A i \in 1 .. m + n : w[i] = IF i <= m THEN s[i] ELSE t[i - m]
  BY ConcatProperties
<1>2. m \in Nat /\ n \in Nat
  BY LenProperties
<1>3. \A i \in 1 .. m + n : w[i] \in Nat
  BY <1>1, ElementOfSeq
<1> HIDE DEF w, m, n
<1>4. /\ u \in Seq(Nat) /\ Len(u) = IF 1 <= m THEN m - 1 + 1 ELSE 0
      /\ \A i \in 1 .. m - 1 + 1 : u[i] = w[1 + i - 1]
  <2>1. \A i \in 1 .. m : w[i] \in Nat
    BY <1>2, <1>3
  <2> QED
    BY <1>2, <2>1, SubSeqProperties
<1>5. /\ v \in Seq(Nat) /\ Len(v) = IF m + 1 <= m + n THEN (m + n) - (m + 1) + 1 ELSE 0
      /\ \A i \in 1 .. (m + n) - (m + 1) + 1 : v[i] = w[m + 1 + i - 1]
  <2>1. \A i \in m + 1 .. m + n : w[i] \in Nat
    BY <1>2, <1>3
  <2>2. m + 1 \in Int /\ m + n \in Int
    BY <1>2
  <2> QED
    BY <2>1, <2>2, SubSeqProperties
<1> HIDE DEF u, v
<1>6. Len(u) = m /\ \A i \in 1 .. m : u[i] = s[i]
  <2>1. \A i \in 1 .. m : w[i] = s[i]
    BY <1>1, <1>2
  <2>2. \A i \in 1 .. m : u[i] = w[i]
    BY <1>2, <1>4
  <2> QED
    BY <2>1, <2>2, <1>2, <1>4
<1>7. Len(v) = n /\ \A i \in 1 .. n : v[i] = t[i]
  BY <1>1, <1>2, <1>5, SMTT(30)
<1>8. u = s
  BY <1>4, <1>6, SeqEqual DEF m
<1>9. v = t
  BY <1>5, <1>7, SeqEqual DEF n
<1> QED
  BY <1>1, <1>8, <1>9 DEF u, v, w, m, n

-----------------------------------------------------------------------------
(* The inductive invariant *)

Writing == pc \in {"encode", "copy", "flush"}

(* While nothing was thrown: the sink has f bytes, in whole buffers, and    *)
(* the buffer and write()'s argument go on from there.                      *)
Continues(f) ==
  /\ f % BufferSize = 0 /\ received = Stretch(0, f)
  /\ \A i \in 1 .. pos : buffer[i] = f + i
  /\ f + pos <= encoded /\ bytes = Stretch(f + pos, encoded)
  /\ pc \in {"encode", "destroy"} => f + pos = encoded
  /\ pc = "copy" => f + pos < encoded

(* After a write of the buffer that begins at byte a has failed with k of   *)
(* its bytes taken: the buffer is as it was.                                *)
FailedAt(a, k) ==
  /\ a % BufferSize = 0 /\ a + BufferSize <= Total /\ pos = BufferSize
  /\ received = Stretch(0, a + k)
  /\ \A i \in 1 .. pos : buffer[i] = a + i

SinkInv ==
  /\ TypeOK
  /\ Writing => ~unwinding
  /\ Writing \/ (pc = "destroy" /\ ~unwinding) => \E f \in Nat : Continues(f)
  /\ pc \in {"encode", "copy"} => pos < BufferSize
  /\ pc = "flush" => pos = BufferSize
  /\ pc = "destroy" /\ ~unwinding => pos < BufferSize /\ encoded = Total
  /\ pc = "destroy" /\ unwinding =>
       \E a \in Nat : \E k \in 0 .. BufferSize : FailedAt(a, k)
  /\ CompleteOnReturn /\ AfterThrow

LEMMA SinkInvInit == Init => SinkInv
<1> SUFFICES ASSUME Init PROVE SinkInv
  OBVIOUS
<1> USE DEF Init
<1>1. TypeOK
  <2>1. << >> \in Seq(1 .. Total)
    BY EmptySeq
  <2>2. buffer \in [1 .. BufferSize -> 0 .. Total]
    BY SizeAssumption
  <2>3. encoded \in 0 .. Total /\ pos \in 0 .. BufferSize
    BY SizeAssumption
  <2>4. unwinding \in BOOLEAN
    OBVIOUS
  <2> QED
    BY <2>1, <2>2, <2>3, <2>4 DEF TypeOK
<1>2. Stretch(0, 0) = << >>
  BY DEF Stretch
<1>3. Continues(0)
  BY <1>2, SizeAssumption DEF Continues
<1> QED
  BY <1>1, <1>3, SizeAssumption DEF SinkInv, Writing, CompleteOnReturn, AfterThrow

(* The buffer's bytes, written after what the sink has. *)
LEMMA BufferedAfter ==
  ASSUME TypeOK, NEW a \in Nat, NEW b \in a .. Total, NEW n \in 0 .. pos,
         received = Stretch(0, b), a + n <= Total,
         \A i \in 1 .. pos : buffer[i] = a + i
  PROVE  /\ SubSeq(buffer, 1, n) = Stretch(a, a + n)
         /\ received \o SubSeq(buffer, 1, n) \in Seq(1 .. Total)
<1>1. n \in Nat /\ \A i \in 1 .. n : buffer[i] = a + i
  BY DEF TypeOK
<1>2. SubSeq(buffer, 1, n) = Stretch(a, a + n)
  BY <1>1, BufferedStretch
<1>3. a + n \in Nat /\ a <= a + n
  BY <1>1
<1>4. Stretch(a, a + n) \in Seq(1 .. Total)
  BY <1>3, StretchType
<1>5. received \in Seq(1 .. Total)
  BY DEF TypeOK
<1> QED
  BY <1>2, <1>4, <1>5, ConcatProperties

(* What an exception leaves behind when the destructor has written again.   *)
LEMMA WrittenTwice ==
  ASSUME NEW a \in Nat, NEW k \in 0 .. BufferSize, NEW n \in 0 .. BufferSize,
         a % BufferSize = 0, received = Stretch(0, a + k),
         received' = received \o Stretch(a, a + n), unwinding'
  PROVE  AfterThrow'
<1> DEFINE b == a + k
           c == a + n
           s == Stretch(0, b)
           t == Stretch(a, c)
<1>1. /\ BufferSize \in Nat /\ b \in Nat /\ c \in Nat /\ a <= c /\ 0 <= b /\ a <= b
      /\ b - a <= BufferSize /\ c \in a .. a + BufferSize
  BY SizeAssumption
<1>2. s \in Seq(Nat) /\ Len(s) = b
  <2> HIDE DEF b
  <2>0. 0 \in Nat /\ b \in Nat /\ 0 <= b
    BY <1>1
  <2>1. /\ Stretch(0, b) \in Seq(Nat) /\ Len(Stretch(0, b)) = b - 0
    BY <2>0, StretchFacts
  <2> QED
    BY <2>1, <1>1
<1>3. t \in Seq(Nat) /\ Len(t) = c - a
  <2> HIDE DEF c
  <2> QED
    BY <1>1, StretchFacts
<1> HIDE DEF s, t
<1>4. /\ SubSeq(s \o t, 1, b) = s /\ Len(s \o t) = b + (c - a)
      /\ SubSeq(s \o t, b + 1, Len(s \o t)) = t
  <2> HIDE DEF b, c
  <2>1. /\ SubSeq(s \o t, 1, Len(s)) = s /\ Len(s \o t) = Len(s) + Len(t)
        /\ SubSeq(s \o t, Len(s) + 1, Len(s \o t)) = t
    BY <1>2, <1>3, ConcatParts
  <2> QED
    BY <2>1, <1>2, <1>3
<1>5. received' = s \o t
  BY DEF s, t
<1> HIDE DEF b, c
<1>6. a \in 0 .. Len(received') /\ b \in 0 .. Len(received')
  BY <1>1, <1>4, <1>5
<1>7. Prefix(SubSeq(received', 1, b))
  BY <1>2, <1>4, <1>5 DEF Prefix, s
<1>8. SubSeq(received', b + 1, Len(received')) = Stretch(a, c)
  BY <1>4, <1>5 DEF t
<1> QED
  BY <1>1, <1>6, <1>7, <1>8 DEF AfterThrow

-----------------------------------------------------------------------------
(* The steps *)

LEMMA WriteKeeps ==
  ASSUME SinkInv, NEW n \in 0 .. Total, Write(n)
  PROVE  SinkInv'
<1> USE SizeAssumption DEF Write
<1>1. /\ pc = "encode" /\ ~unwinding /\ pos < BufferSize /\ TypeOK
      /\ encoded' = encoded + n /\ encoded' <= Total
      /\ UNCHANGED <<buffer, pos, unwinding, received>>
      /\ pc' = IF n = 0 THEN "encode" ELSE "copy"
  BY DEF SinkInv, Writing
<1>2. PICK f \in Nat : Continues(f)
  BY <1>1 DEF SinkInv, Writing
<1>3. /\ f + pos = encoded /\ encoded \in Nat /\ pos \in 0 .. BufferSize /\ n \in Nat
      /\ bytes' = Stretch(f + pos, encoded')
  <2>1. f + pos = encoded
    BY <1>1, <1>2 DEF Continues
  <2>2. encoded \in Nat /\ pos \in 0 .. BufferSize /\ n \in Nat
    BY <1>1 DEF TypeOK
  <2>3. bytes' = Stretch(encoded, encoded')
    BY <1>1
  <2> QED
    BY <2>1, <2>2, <2>3
<1>4. Continues(f)'
  BY <1>1, <1>2, <1>3 DEF Continues
<1>5. TypeOK'
  <2>1. encoded' \in 0 .. Total
    BY <1>1, <1>3
  <2>2. bytes' \in Seq(1 .. Total)
    BY <1>1, <1>3, <2>1, StretchType
  <2> QED
    BY <1>1, <2>1, <2>2 DEF TypeOK
<1> QED
  BY <1>1, <1>4, <1>5 DEF SinkInv, Writing, CompleteOnReturn, AfterThrow

LEMMA CopyKeeps ==
  ASSUME SinkInv, Copy
  PROVE  SinkInv'
<1> USE SizeAssumption
<1> DEFINE room == BufferSize - pos
           n == IF Len(bytes) < room THEN Len(bytes) ELSE room
<1>1. /\ pc = "copy" /\ ~unwinding /\ pos < BufferSize /\ TypeOK
      /\ CopyBytes(n) /\ pos' = pos + n
      /\ bytes' = SubSeq(bytes, n + 1, Len(bytes))
      /\ pc' = IF pos + n = BufferSize THEN "flush" ELSE "encode"
      /\ UNCHANGED <<encoded, unwinding, received>>
  BY DEF SinkInv, Writing, Copy
<1>2. PICK f \in Nat : Continues(f)
  BY <1>1 DEF SinkInv, Writing
<1> DEFINE a == f + pos
<1>3. /\ a \in Nat /\ encoded \in 0 .. Total /\ a < encoded /\ pos \in 0 .. BufferSize
      /\ bytes = Stretch(a, encoded) /\ \A i \in 1 .. pos : buffer[i] = f + i
  BY <1>1, <1>2 DEF Continues, TypeOK
<1>4. Len(bytes) = encoded - a /\ \A i \in 1 .. encoded - a : bytes[i] = a + i
  <2> HIDE DEF a
  <2>1. encoded \in Nat /\ a <= encoded /\ a \in Nat
    BY <1>3
  <2> QED
    BY <2>1, <1>3, StretchFacts
<1>5. n \in 1 .. encoded - a /\ pos + n <= BufferSize /\ (pos + n # BufferSize => n = encoded - a)
  BY <1>1, <1>3, <1>4
<1> HIDE DEF n
<1>6. buffer' = [i \in 1 .. BufferSize |->
                   IF i \in pos + 1 .. pos + n THEN bytes[i - pos] ELSE buffer[i]]
  BY <1>1 DEF CopyBytes
<1>7. ASSUME NEW i \in 1 .. pos + n
      PROVE  buffer'[i] = f + i
  <2>1. i \in 1 .. BufferSize
    BY <1>3, <1>5
  <2>2. CASE i <= pos
    <3>1. i \in 1 .. pos /\ i \notin pos + 1 .. pos + n
      BY <2>2, <1>3, <1>5
    <3> QED
      BY <2>1, <3>1, <1>3, <1>6
  <2>3. CASE ~(i <= pos)
    <3>1. i - pos \in 1 .. encoded - a /\ i \in pos + 1 .. pos + n
      BY <2>3, <1>3, <1>5
    <3>2. buffer'[i] = bytes[i - pos]
      BY <2>1, <3>1, <1>6
    <3> QED
      BY <3>1, <3>2, <1>3, <1>4
  <2> QED
    BY <2>2, <2>3
<1>8. bytes' = Stretch(a + n, encoded)
  <2> HIDE DEF a
  <2>1. encoded \in Nat /\ a <= encoded /\ a \in Nat /\ n \in 0 .. encoded - a
    BY <1>3, <1>5
  <2> QED
    BY <2>1, <1>1, <1>3, StretchRest
<1>9. a + n = f + pos' /\ f + pos' <= encoded /\ a + n \in Nat
  BY <1>1, <1>3, <1>5
<1>10. pc' = "encode" => f + pos' = encoded
  BY <1>1, <1>3, <1>5, <1>9
<1>11. Continues(f)'
  BY <1>1, <1>2, <1>7, <1>8, <1>9, <1>10 DEF Continues
<1>12. TypeOK'
  <2>1. pos' \in 0 .. BufferSize
    BY <1>1, <1>3, <1>5
  <2>2. bytes' \in Seq(1 .. Total)
    <3> DEFINE m == a + n
    <3>1. m \in Nat /\ m <= encoded /\ encoded \in Nat /\ encoded <= Total
      BY <1>3, <1>9
    <3> HIDE DEF m
    <3>2. Stretch(m, encoded) \in Seq(1 .. Total)
      BY <3>1, StretchType
    <3> QED
      BY <3>2, <1>8 DEF m
  <2>3. buffer' \in [1 .. BufferSize -> 0 .. Total]
    <3>1. ASSUME NEW i \in 1 .. BufferSize
          PROVE  buffer'[i] \in 0 .. Total
      <4>1. CASE i \in pos + 1 .. pos + n
        <5>1. i \in 1 .. pos + n /\ i - pos <= encoded - a
          BY <4>1, <1>3, <1>5
        <5>2. buffer'[i] = f + i
          BY <5>1, <1>7
        <5> QED
          BY <5>1, <5>2, <1>3
      <4>2. CASE i \notin pos + 1 .. pos + n
        BY <4>2, <1>1, <1>6 DEF TypeOK
      <4> QED
        BY <4>1, <4>2
    <3> QED
      BY <3>1, <1>6
  <2> QED
    BY <1>1, <2>1, <2>2, <2>3 DEF TypeOK
<1>13. pc' = "encode" => pos' < BufferSize
  BY <1>1, <1>5, <1>3
<1> QED
  BY <1>1, <1>11, <1>12, <1>13 DEF SinkInv, Writing, CompleteOnReturn, AfterThrow

LEMMA FlushKeeps ==
  ASSUME SinkInv, Flush
  PROVE  SinkInv'
<1> USE SizeAssumption
<1>1. /\ pc = "flush" /\ ~unwinding /\ pos = BufferSize /\ TypeOK
      /\ received' = received \o Pending /\ pos' = 0
      /\ pc' = IF bytes = << >> THEN "encode" ELSE "copy"
      /\ UNCHANGED <<encoded, bytes, buffer, unwinding>>
  BY DEF SinkInv, Writing, Flush
<1>2. PICK f \in Nat : Continues(f)
  BY <1>1 DEF SinkInv, Writing
<1>3. PICK g \in Nat : g = f + pos
  BY <1>1 DEF TypeOK
<1>4. /\ g \in Nat /\ f <= g /\ g <= encoded /\ encoded \in Nat /\ encoded <= Total
      /\ f \in f .. Total /\ pos \in 0 .. pos
      /\ received = Stretch(0, f) /\ bytes = Stretch(g, encoded)
      /\ \A i \in 1 .. pos : buffer[i] = f + i
  BY <1>3, <1>1, <1>2 DEF Continues, TypeOK
<1>5. Pending = Stretch(f, g) /\ received' \in Seq(1 .. Total)
  <2>1. SubSeq(buffer, 1, pos) = Stretch(f, f + pos)
        /\ received \o SubSeq(buffer, 1, pos) \in Seq(1 .. Total)
    <3>1. f + pos <= Total
      BY <1>3, <1>4
    <3> QED
      BY <3>1, <1>1, <1>4, BufferedAfter
  <2> QED
    BY <2>1, <1>3, <1>1 DEF Pending
<1>6. g % BufferSize = 0
  BY <1>3, <1>1, <1>2, OneMoreBuffer DEF Continues
<1>7. received' = Stretch(0, g)
  <2>1. 0 \in Nat /\ 0 <= f
    OBVIOUS
  <2> QED
    BY <2>1, <1>1, <1>4, <1>5, StretchesJoin
<1>8. Len(bytes) = encoded - g
  BY <1>4, StretchFacts
<1>9. IF bytes = << >> THEN g = encoded ELSE g < encoded
  <2>1. CASE bytes = << >>
    BY <2>1, <1>4, <1>8
  <2>2. CASE bytes # << >>
    <3>1. Len(bytes) # 0
      BY <2>2, <1>1, EmptySeq DEF TypeOK
    <3> QED
      BY <2>2, <3>1, <1>4, <1>8
  <2> QED
    BY <2>1, <2>2
<1>10. g + pos' = g /\ 1 .. pos' = {}
  BY <1>1, <1>4
<1>11. \/ pc' = "encode" /\ g = encoded
       \/ pc' = "copy" /\ g < encoded
  BY <1>1, <1>9
<1>12. Continues(g)'
  <2>1. \A i \in 1 .. pos' : buffer'[i] = g + i
    BY <1>10
  <2>2. /\ encoded' = encoded /\ bytes' = bytes /\ g + pos' <= encoded
        /\ bytes = Stretch(g + pos', encoded)
    BY <1>1, <1>4, <1>10
  <2>3. /\ pc' \in {"encode", "destroy"} => g + pos' = encoded
        /\ pc' = "copy" => g + pos' < encoded
    BY <1>10, <1>11
  <2> QED
    BY <2>1, <2>2, <2>3, <1>6, <1>7 DEF Continues
<1>13. TypeOK'
  BY <1>1, <1>5, <1>11 DEF TypeOK
<1>14. pc' \in {"encode", "copy"} /\ ~unwinding' /\ pos' < BufferSize
  BY <1>1, <1>11
<1> QED
  BY <1>4, <1>12, <1>13, <1>14 DEF SinkInv, Writing, CompleteOnReturn, AfterThrow

LEMMA FlushThrowsKeeps ==
  ASSUME SinkInv, NEW k \in 0 .. BufferSize, FlushThrows(k)
  PROVE  SinkInv'
<1> USE SizeAssumption
<1>1. /\ pc = "flush" /\ ~unwinding /\ pos = BufferSize /\ TypeOK
      /\ received' = received \o SubSeq(buffer, 1, k) /\ k \in 0 .. pos
      /\ pc' = "destroy" /\ unwinding' = TRUE
      /\ UNCHANGED <<encoded, bytes, buffer, pos>>
  BY DEF SinkInv, Writing, FlushThrows
<1>2. PICK f \in Nat : Continues(f)
  BY <1>1 DEF SinkInv, Writing
<1>3. /\ f + pos <= Total /\ f + k <= Total /\ f + k \in Nat /\ f <= f + k /\ f \in f .. Total
      /\ received = Stretch(0, f) /\ f % BufferSize = 0
      /\ \A i \in 1 .. pos : buffer[i] = f + i
  BY <1>1, <1>2 DEF Continues, TypeOK
<1>4. SubSeq(buffer, 1, k) = Stretch(f, f + k) /\ received' \in Seq(1 .. Total)
  BY <1>1, <1>3, BufferedAfter
<1>5. received' = Stretch(0, f + k)
  <2>1. PICK g \in Nat : g = f + k
    BY <1>3
  <2>2. 0 \in Nat /\ 0 <= f /\ f <= g
    BY <2>1, <1>3
  <2>3. Stretch(0, f) \o Stretch(f, g) = Stretch(0, g)
    BY <2>2, StretchesJoin
  <2> QED
    BY <2>1, <2>3, <1>1, <1>3, <1>4
<1>6. FailedAt(f, k)'
  BY <1>1, <1>3, <1>5 DEF FailedAt
<1>7. TypeOK'
  <2>1. unwinding' \in BOOLEAN
    BY <1>1
  <2> QED
    BY <2>1, <1>1, <1>4 DEF TypeOK
<1> QED
  BY <1>1, <1>6, <1>7 DEF SinkInv, Writing, CompleteOnReturn, AfterThrow

LEMMA EncodedKeeps ==
  ASSUME SinkInv, Encoded
  PROVE  SinkInv'
<1> USE SizeAssumption DEF Encoded
<1>1. /\ pc = "encode" /\ ~unwinding /\ pos < BufferSize /\ TypeOK
      /\ encoded = Total /\ pc' = "destroy"
      /\ UNCHANGED <<encoded, bytes, buffer, pos, unwinding, received>>
  BY DEF SinkInv, Writing
<1>2. PICK f \in Nat : Continues(f)
  BY <1>1 DEF SinkInv, Writing
<1>3. Continues(f)' /\ f + pos = Total /\ f % BufferSize = 0 /\ received = Stretch(0, f)
  BY <1>1, <1>2 DEF Continues
<1>4. TypeOK'
  BY <1>1 DEF TypeOK
<1> QED
  BY <1>1, <1>3, <1>4 DEF SinkInv, Writing, CompleteOnReturn, AfterThrow

(* The destructor's write, of the whole buffer or of k bytes before it      *)
(* throws.                                                                  *)
LEMMA DestructorWrites ==
  ASSUME SinkInv, pc = "destroy", NEW k \in 0 .. pos,
         received' = received \o SubSeq(buffer, 1, k)
  PROVE  /\ received' \in Seq(1 .. Total)
         /\ ~unwinding => \E f \in Nat : /\ f + pos = Total
                                       /\ received' = Stretch(0, f + k)
         /\ unwinding /\ unwinding' => AfterThrow'
<1> USE SizeAssumption
<1>1. TypeOK /\ pos \in 0 .. BufferSize
  BY DEF SinkInv, TypeOK
<1>2. CASE ~unwinding
  <2>1. PICK f \in Nat : Continues(f)
    BY <1>2 DEF SinkInv
  <2>2. /\ f + pos = Total /\ received = Stretch(0, f) /\ \A i \in 1 .. pos : buffer[i] = f + i
    BY <2>1, <1>2 DEF SinkInv, Continues
  <2>3. PICK g \in Nat : g = f + k
    BY <1>1
  <2>4. g <= Total /\ f <= g /\ f \in f .. Total /\ 0 <= f /\ 0 \in Nat
    BY <1>1, <2>2, <2>3
  <2>5. SubSeq(buffer, 1, k) = Stretch(f, g) /\ received' \in Seq(1 .. Total)
    BY <1>1, <2>2, <2>3, <2>4, BufferedAfter
  <2>6. Stretch(0, f) \o Stretch(f, g) = Stretch(0, g)
    BY <2>4, StretchesJoin
  <2> QED
    BY <1>2, <2>2, <2>3, <2>5, <2>6
<1>3. CASE unwinding
  <2>1. PICK a \in Nat, m \in 0 .. BufferSize : FailedAt(a, m)
    BY <1>3 DEF SinkInv
  <2>2. /\ a + m \in a .. Total /\ a + k <= Total /\ k \in 0 .. BufferSize
        /\ a % BufferSize = 0 /\ received = Stretch(0, a + m)
        /\ \A i \in 1 .. pos : buffer[i] = a + i
    BY <1>1, <2>1 DEF FailedAt
  <2>3. SubSeq(buffer, 1, k) = Stretch(a, a + k) /\ received' \in Seq(1 .. Total)
    BY <1>1, <2>2, BufferedAfter
  <2>4. unwinding' => AfterThrow'
    BY <2>2, <2>3, WrittenTwice
  <2> QED
    BY <1>3, <2>3, <2>4
<1> QED
  BY <1>2, <1>3

LEMMA DestroyKeeps ==
  ASSUME SinkInv, Destroy
  PROVE  SinkInv'
<1> USE SizeAssumption
<1>1. /\ pc = "destroy" /\ TypeOK /\ pos \in 0 .. BufferSize
      /\ pc' = IF unwinding THEN "thrown" ELSE "returned"
      /\ UNCHANGED <<encoded, bytes, buffer, pos, unwinding>>
      /\ \/ pos > 0 /\ received' = received \o Pending
         \/ pos = 0 /\ received' = received
  BY DEF SinkInv, Destroy, TypeOK
<1>2. received' = received \o SubSeq(buffer, 1, pos)
  <2>1. CASE pos = 0
    <3>1. SubSeq(buffer, 1, pos) = << >>
      BY <2>1, SubSeqEmpty
    <3>2. received \o << >> = received
      BY <1>1, ConcatEmptySeq DEF TypeOK
    <3>3. received' = received
      BY <2>1, <1>1
    <3> QED
      BY <3>1, <3>2, <3>3
  <2>2. CASE pos > 0
    BY <2>2, <1>1 DEF Pending
  <2> QED
    BY <2>1, <2>2, <1>1
<1>3. pos \in 0 .. pos
  BY <1>1
<1>4. /\ received' \in Seq(1 .. Total)
      /\ ~unwinding => \E f \in Nat : f + pos = Total /\ received' = Stretch(0, f + pos)
      /\ unwinding /\ unwinding' => AfterThrow'
  BY <1>1, <1>2, <1>3, DestructorWrites
<1>5. TypeOK'
  BY <1>1, <1>4 DEF TypeOK
<1>6. CASE unwinding
  BY <1>1, <1>4, <1>5, <1>6 DEF SinkInv, Writing, CompleteOnReturn
<1>7. CASE ~unwinding
  BY <1>1, <1>4, <1>5, <1>7 DEF SinkInv, Writing, CompleteOnReturn, AfterThrow
<1> QED
  BY <1>6, <1>7

LEMMA DestroyThrowsKeeps ==
  ASSUME SinkInv, NEW k \in 0 .. BufferSize, DestroyThrows(k)
  PROVE  SinkInv'
<1> USE SizeAssumption
<1>1. /\ pc = "destroy" /\ TypeOK /\ k \in 0 .. pos
      /\ pc' = IF unwinding THEN "terminated" ELSE "thrown"
      /\ UNCHANGED <<encoded, bytes, buffer, pos, unwinding>>
      /\ received' = received \o SubSeq(buffer, 1, k)
  BY DEF SinkInv, DestroyThrows, TypeOK
<1>2. /\ received' \in Seq(1 .. Total)
      /\ ~unwinding => \E f \in Nat : f + pos = Total /\ received' = Stretch(0, f + k)
      /\ unwinding /\ unwinding' => AfterThrow'
  BY <1>1, DestructorWrites
<1>3. TypeOK'
  BY <1>1, <1>2 DEF TypeOK
<1>4. CASE unwinding
  BY <1>1, <1>2, <1>3, <1>4 DEF SinkInv, Writing, CompleteOnReturn
<1>5. CASE ~unwinding
  <2>1. PICK f \in Nat : received' = Stretch(0, f + k)
    BY <1>2, <1>5
  <2>2. PICK g \in Nat : g = f + k
    BY <1>1
  <2>3. 0 \in Nat /\ 0 <= g
    BY <2>2
  <2>4. Len(Stretch(0, g)) = g - 0
    BY <2>3, StretchFacts
  <2>5. Prefix(received')
    BY <2>1, <2>2, <2>4 DEF Prefix
  <2> QED
    BY <1>1, <1>3, <1>5, <2>5 DEF SinkInv, Writing, CompleteOnReturn, AfterThrow
<1> QED
  BY <1>4, <1>5

LEMMA SinkInvStep == SinkInv /\ [Next]_vars => SinkInv'
<1> SUFFICES ASSUME SinkInv, [Next]_vars PROVE SinkInv'
  OBVIOUS
<1>1. CASE UNCHANGED vars
  BY <1>1 DEF vars, SinkInv, TypeOK, Writing, Continues, FailedAt, CompleteOnReturn,
     AfterThrow, Prefix
<1> QED
  BY <1>1, WriteKeeps, CopyKeeps, FlushKeeps, FlushThrowsKeeps, EncodedKeeps,
     DestroyKeeps, DestroyThrowsKeeps DEF Next, Over

LEMMA SinkInvAlways == Spec => []SinkInv
  BY SinkInvInit, SinkInvStep, PTL DEF Spec

-----------------------------------------------------------------------------
(* The theorems *)

(* The bytes are positions of the encoding, the buffer's and the sink's too. *)
THEOREM SinkTypes == Spec => []TypeOK
<1>1. SinkInv => TypeOK
  BY DEF SinkInv
<1> QED
  BY <1>1, SinkInvAlways, PTL

(* For any buffer and any cutting of the encoding into writes: sink, buffer *)
(* and the rest of the argument are the bytes encoded so far, in order.     *)
THEOREM NothingLostOrTwice == Spec => []InOrder
<1>1. SinkInv => InOrder
  <2> SUFFICES ASSUME SinkInv, Writing
               PROVE  received \o Pending \o bytes = Stretch(0, encoded)
    BY DEF InOrder, Writing
  <2>1. PICK f \in Nat : Continues(f)
    BY DEF SinkInv
  <2>2. PICK g \in Nat : g = f + pos
    BY SizeAssumption DEF SinkInv, TypeOK
  <2>3. /\ pos \in Nat /\ encoded \in Nat /\ f <= g /\ g <= encoded /\ 0 <= f /\ 0 <= g /\ 0 \in Nat
        /\ received = Stretch(0, f) /\ bytes = Stretch(g, encoded)
        /\ \A i \in 1 .. pos : buffer[i] = f + i
    BY <2>1, <2>2, SizeAssumption DEF SinkInv, TypeOK, Continues
  <2>4. Pending = Stretch(f, g)
    BY <2>2, <2>3, BufferedStretch DEF Pending
  <2>5. received \o Pending = Stretch(0, g)
    BY <2>3, <2>4, StretchesJoin
  <2>6. Stretch(0, g) \o Stretch(g, encoded) = Stretch(0, encoded)
    BY <2>3, StretchesJoin
  <2> QED
    BY <2>3, <2>5, <2>6
<1> QED
  BY <1>1, SinkInvAlways, PTL

(* serialize() has returned: the sink has the encoding, all of it.          *)
THEOREM ReturnsComplete == Spec => []CompleteOnReturn
<1>1. SinkInv => CompleteOnReturn
  BY DEF SinkInv
<1> QED
  BY <1>1, SinkInvAlways, PTL

(* serialize() has thrown: what the destructor wrote again is at most one   *)
(* buffer, and begins where the failed write began.                         *)
THEOREM ThrowsAfterPrefix == Spec => []AfterThrow
<1>1. SinkInv => AfterThrow
  BY DEF SinkInv
<1> QED
  BY <1>1, SinkInvAlways, PTL

=============================================================================
