---------------------------- MODULE SequenceFacts ---------------------------
(***************************************************************************)
(* Facts about natural numbers and sequences that the proofs about encoded *)
(* bytes share.                                                            *)
(*                                                                         *)
(* FlattenSeq, which joins the encodings of elements, is a recursive       *)
(* function.  What it does to a sequence that grows by one follows from    *)
(* the fact that every set of natural numbers has a least one.             *)
(***************************************************************************)
EXTENDS Integers, Sequences, SequencesExt, SequenceTheorems, WellFoundedInduction, TLAPS

LEMMA LeastNat ==
  ASSUME NEW T, T \subseteq Nat, T # {}
  PROVE  \E n \in T : \A m \in T : n <= m
<1>1. IsWellFoundedOn(OpToRel(<, Nat), Nat)
  BY NatLessThanWellFounded, Zenon
<1>2. PICK n \in T : \A m \in T : ~(<<m, n>> \in OpToRel(<, Nat))
  BY <1>1, WFMin, Zenon
<1>3. \A m \in T : ~(m < n)
  BY <1>2, Zenon DEF OpToRel
<1>. QED  BY <1>3

(* A function on 1 .. n is a sequence of n. *)
LEMMA MakeSeq ==
  ASSUME NEW S, NEW n \in Nat, NEW p, p = [i \in 1 .. n |-> p[i]],
         \A i \in 1 .. n : p[i] \in S
  PROVE  p \in Seq(S) /\ Len(p) = n /\ DOMAIN p = 1 .. n
<1>1. p \in [1 .. n -> S]
  OBVIOUS
<1>2. p \in Seq(S)
  BY <1>1, SeqDef
<1>3. DOMAIN p = 1 .. n
  BY <1>1
<1>4. Len(p) \in Nat /\ DOMAIN p = 1 .. Len(p)
  BY <1>2, LenProperties
<1>. QED  BY <1>2, <1>3, <1>4

-----------------------------------------------------------------------------
(* FlattenSeq *)

(* f joins the elements of s, one more at every index up to n. *)
Joins(f, s, n) == f = [i \in 1 .. n |-> IF i = 1 THEN s[i] ELSE f[i - 1] \o s[i]]

LEMMA JoinsElements ==
  ASSUME NEW f, NEW s, NEW n \in Nat, Joins(f, s, n), NEW i \in 1 .. n
  PROVE  f[i] = IF i = 1 THEN s[i] ELSE f[i - 1] \o s[i]
<1>. DEFINE g == [j \in 1 .. n |-> IF j = 1 THEN s[j] ELSE f[j - 1] \o s[j]]
<1>1. f = g
  BY DEF Joins
<1>2. g[i] = IF i = 1 THEN s[i] ELSE f[i - 1] \o s[i]
  OBVIOUS
<1>. QED  BY <1>1, <1>2

LEMMA JoinsExists ==
  ASSUME NEW s, NEW n \in Nat
  PROVE  \E f : Joins(f, s, n)
<1>. DEFINE T == {m \in Nat : ~ \E f : Joins(f, s, m)}
<1>. SUFFICES ASSUME T # {}
              PROVE  FALSE
  OBVIOUS
<1>1. T \subseteq Nat
  OBVIOUS
<1>2. PICK m \in T : \A k \in T : m <= k
  BY <1>1, LeastNat
<1>3. m \in Nat /\ ~ \E f : Joins(f, s, m)
  OBVIOUS
<1>4. m # 0
  <2>1. Joins([i \in 1 .. 0 |-> 0], s, 0)
    BY DEF Joins
  <2>. QED  BY <1>3, <2>1
<1>5. m - 1 \in Nat /\ m - 1 \notin T
  BY <1>2, <1>3, <1>4
<1>6. PICK f : Joins(f, s, m - 1)
  BY <1>5
<1>. DEFINE g == [i \in 1 .. m |-> IF i = 1 THEN s[i] ELSE f[i - 1] \o s[i]]
<1>7. \A i \in 1 .. m - 1 : g[i] = f[i]
  BY <1>5, <1>6, JoinsElements
<1>8. \A i \in 1 .. m : i # 1 => g[i - 1] = f[i - 1]
  <2>1. \A i \in 1 .. m : i # 1 => i - 1 \in 1 .. m - 1
    BY <1>3
  <2>. HIDE DEF g
  <2>. QED  BY <1>7, <2>1
<1>9. Joins(g, s, m)
  BY <1>8 DEF Joins
<1>. QED  BY <1>3, <1>9

(* What is joined depends on the elements that are joined only. *)
LEMMA JoinsAgree ==
  ASSUME NEW f, NEW g, NEW s, NEW t, NEW n \in Nat, NEW m \in Nat, n <= m,
         Joins(f, s, n), Joins(g, t, m),
         \A i \in 1 .. n : s[i] = t[i]
  PROVE  \A i \in 1 .. n : f[i] = g[i]
<1>. DEFINE T == {i \in 1 .. n : f[i] # g[i]}
<1>. SUFFICES ASSUME T # {}
              PROVE  FALSE
  OBVIOUS
<1>1. T \subseteq Nat
  OBVIOUS
<1>2. PICK i \in T : \A j \in T : i <= j
  BY <1>1, LeastNat
<1>3. i \in 1 .. n /\ i \in 1 .. m /\ f[i] # g[i] /\ s[i] = t[i]
  OBVIOUS
<1>4. f[i] = IF i = 1 THEN s[i] ELSE f[i - 1] \o s[i]
  BY <1>3, JoinsElements
<1>5. g[i] = IF i = 1 THEN t[i] ELSE g[i - 1] \o t[i]
  BY <1>3, JoinsElements
<1>6. i # 1
  BY <1>3, <1>4, <1>5
<1>7. i - 1 \in 1 .. n /\ i - 1 \notin T
  BY <1>2, <1>3, <1>6
<1>8. f[i - 1] = g[i - 1]
  BY <1>7
<1>. QED  BY <1>3, <1>4, <1>5, <1>8

LEMMA FlattenIsJoined ==
  ASSUME NEW S, NEW s \in Seq(S), s # << >>
  PROVE  \E f : Joins(f, s, Len(s)) /\ FlattenSeq(s) = f[Len(s)]
<1>1. Len(s) \in Nat /\ Len(s) # 0
  BY LenProperties, EmptySeq
<1>2. \E f : Joins(f, s, Len(s))
  BY <1>1, JoinsExists
<1>3. FlattenSeq(s) = (CHOOSE f : Joins(f, s, Len(s)))[Len(s)]
  BY <1>1 DEF FlattenSeq, Joins
<1>. QED  BY <1>2, <1>3

LEMMA FlattenEmpty == FlattenSeq(<< >>) = << >>
BY DEF FlattenSeq

(* A sequence of sequences is flattened to a sequence. *)
LEMMA FlattenType ==
  ASSUME NEW S, NEW s \in Seq(Seq(S))
  PROVE  FlattenSeq(s) \in Seq(S)
<1>1. CASE s = << >>
  <2>1. << >> \in Seq(S)
    BY EmptySeq
  <2>. QED  BY <1>1, <2>1, FlattenEmpty
<1>2. CASE s # << >>
  <2>. DEFINE n == Len(s)
  <2>1. n \in Nat /\ n # 0
    BY <1>2, LenProperties, EmptySeq
  <2>2. PICK f : Joins(f, s, n) /\ FlattenSeq(s) = f[n]
    BY <1>2, FlattenIsJoined
  <2>. DEFINE T == {i \in 1 .. n : f[i] \notin Seq(S)}
  <2>3. ASSUME T # {} PROVE FALSE
    <3>1. T \subseteq Nat
      OBVIOUS
    <3>2. PICK i \in T : \A j \in T : i <= j
      BY <2>3, <3>1, LeastNat
    <3>3. i \in 1 .. n /\ f[i] \notin Seq(S)
      OBVIOUS
    <3>4. f[i] = IF i = 1 THEN s[i] ELSE f[i - 1] \o s[i]
      BY <2>1, <2>2, <3>3, JoinsElements
    <3>5. s[i] \in Seq(S)
      BY <3>3, ElementOfSeq
    <3>6. i # 1
      BY <3>3, <3>4, <3>5
    <3>7. i - 1 \in 1 .. n /\ i - 1 \notin T
      BY <2>1, <3>2, <3>3, <3>6
    <3>8. f[i - 1] \in Seq(S)
      BY <3>7
    <3>9. f[i - 1] \o s[i] \in Seq(S)
      BY <3>5, <3>8, ConcatProperties
    <3>. QED  BY <3>3, <3>4, <3>6, <3>9
  <2>4. n \in 1 .. n
    BY <2>1
  <2>. QED  BY <2>2, <2>3, <2>4
<1>. QED  BY <1>1, <1>2

(* One more element is joined behind the others. *)
LEMMA FlattenAppend ==
  ASSUME NEW S, NEW s \in Seq(Seq(S)), NEW e \in Seq(S)
  PROVE  FlattenSeq(Append(s, e)) = FlattenSeq(s) \o e
<1>. DEFINE t == Append(s, e)
            n == Len(s)
<1>1. /\ n \in Nat /\ t \in Seq(Seq(S)) /\ t # << >> /\ Len(t) = n + 1
      /\ \A i \in 1 .. n : t[i] = s[i]
      /\ t[n + 1] = e
  BY LenProperties, AppendProperties
<1>. HIDE DEF t
<1>2. PICK g : Joins(g, t, n + 1) /\ FlattenSeq(t) = g[n + 1]
  BY <1>1, FlattenIsJoined
<1>3. g[n + 1] = IF n + 1 = 1 THEN e ELSE g[n] \o e
  <2>1. n + 1 \in 1 .. n + 1 /\ n + 1 \in Nat /\ (n + 1) - 1 = n
    BY <1>1
  <2>2. g[n + 1] = IF n + 1 = 1 THEN t[n + 1] ELSE g[(n + 1) - 1] \o t[n + 1]
    BY <1>2, <2>1, JoinsElements
  <2>. QED  BY <1>1, <2>1, <2>2
<1>4. CASE s = << >>
  <2>1. n = 0 /\ FlattenSeq(s) = << >>
    BY <1>4, FlattenEmpty
  <2>2. FlattenSeq(t) = e
    BY <1>2, <1>3, <2>1
  <2>3. << >> \o e = e
    BY ConcatEmptySeq
  <2>. QED  BY <2>1, <2>2, <2>3 DEF t
<1>5. CASE s # << >>
  <2>1. n # 0
    BY <1>5, EmptySeq, LenProperties
  <2>2. PICK f : Joins(f, s, n) /\ FlattenSeq(s) = f[n]
    BY <1>5, FlattenIsJoined
  <2>3. \A i \in 1 .. n : f[i] = g[i]
    <3>1. /\ n + 1 \in Nat /\ n <= n + 1
          /\ \A i \in 1 .. n : s[i] = t[i]
      BY <1>1
    <3>2. Joins(f, s, n) /\ Joins(g, t, n + 1)
      BY <1>2, <2>2
    <3>3. n \in Nat
      BY <1>1
    <3>. HIDE DEF n
    <3>. QED  BY ONLY <3>1, <3>2, <3>3, JoinsAgree
  <2>4. n \in 1 .. n /\ n + 1 # 1
    BY <1>1, <2>1
  <2>. QED  BY <1>2, <1>3, <2>2, <2>3, <2>4 DEF t
<1>. QED  BY <1>4, <1>5

(* The same, of two sequences that are alike but for the last of the second. *)
LEMMA FlattenGrows ==
  ASSUME NEW S, NEW p \in Seq(Seq(S)), NEW q \in Seq(Seq(S)),
         Len(q) = Len(p) + 1, \A i \in 1 .. Len(p) : q[i] = p[i]
  PROVE  FlattenSeq(q) = FlattenSeq(p) \o q[Len(p) + 1]
<1>. DEFINE n == Len(p)
            e == q[n + 1]
            r == Append(p, e)
<1>1. n \in Nat /\ n + 1 \in 1 .. Len(q)
  BY LenProperties
<1>2. e \in Seq(S)
  BY <1>1, ElementOfSeq
<1>. HIDE DEF e
<1>3. /\ r \in Seq(Seq(S)) /\ Len(r) = n + 1
      /\ \A i \in 1 .. n : r[i] = p[i]
      /\ r[n + 1] = e
  BY <1>2, AppendProperties
<1>4. \A i \in 1 .. Len(q) : q[i] = r[i]
  <2>. SUFFICES ASSUME NEW i \in 1 .. n + 1
                PROVE  q[i] = r[i]
    OBVIOUS
  <2>1. i \in 1 .. n \/ i = n + 1
    BY <1>1
  <2>. QED  BY <1>3, <2>1 DEF e
<1>5. q = r
  BY <1>3, <1>4, SeqEqual
<1>6. FlattenSeq(r) = FlattenSeq(p) \o e
  BY <1>2, FlattenAppend
<1>. QED  BY <1>5, <1>6 DEF e

=============================================================================
