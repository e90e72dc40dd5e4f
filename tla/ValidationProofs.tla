-------------------------- MODULE ValidationProofs --------------------------
(***************************************************************************)
(* Theorems about the two nodes that use the verifier: for every set of    *)
(* times, every width of a time on the wire, chains of every length and    *)
(* transactions of any number of inputs.                                   *)
(***************************************************************************)
EXTENDS Verifier, ScriptVerifier, SequenceFacts, SequenceTheorems, TLAPS

-----------------------------------------------------------------------------
(* The node that keeps a chain (Verifier) *)

(* A record with the three fields of a header, whatever its parent's hash.  *)
IsHeader(h) ==
  /\ h = [prev |-> h.prev, time |-> h.time, work |-> h.work]
  /\ h.time \in Int /\ h.work \in BOOLEAN

(* The shape of the chain and of what was accepted with it.  There is no    *)
(* set of all hashes, so the type of the chain is the set of what is in it. *)
ChainShape ==
  /\ chain \in Seq({chain[i] : i \in DOMAIN chain})
  /\ \A i \in DOMAIN chain : IsHeader(chain[i])
  /\ bodies \in Seq(Bodies \cup {"none"})
  /\ Len(bodies) = Len(chain)

(* The inductive invariant: every header and block would be accepted again  *)
(* by this node, which has the chain as it was given and not as it is sent. *)
ChainInv ==
  /\ ChainShape
  /\ now \in Int
  /\ \A i \in 2 .. Len(chain) : Accepts(chain[i], bodies[i], Below(i), now)

LEMMA HeaderIsHeader ==
  ASSUME NEW p, NEW t \in Int, NEW w \in BOOLEAN
  PROVE  IsHeader(Header(p, t, w))
  BY DEF IsHeader, Header

(* The candidates a node is given are headers. *)
LEMMA CandidateIsHeader ==
  ASSUME NEW c, NEW h \in Headers(c)
  PROVE  IsHeader(h)
<1>1. PICK p \in Parents(c), t \in Time, w \in BOOLEAN : h = Header(p, t, w)
  BY DEF Headers
<1>2. t \in Int
  BY VerifierAssumption
<1> QED
  BY <1>1, <1>2, HeaderIsHeader

(* What the kernel is given of a header. *)
LEMMA ConvertedFields ==
  ASSUME NEW h, IsHeader(h)
  PROVE  /\ ConvertHeader(h) = [prev |-> h.prev, time |-> h.time % W, work |-> h.work]
         /\ ConvertHeader(h).prev = h.prev
         /\ ConvertHeader(h).time = h.time % W
         /\ ConvertHeader(h).work = h.work
  BY DEF ConvertHeader, IsHeader

(* The hash and the kernel's header are those of what is sent.              *)
LEMMA SentHeader ==
  ASSUME NEW h, IsHeader(h)
  PROVE  /\ OnWire(h).prev = h.prev
         /\ ConvertHeader(OnWire(h)) = ConvertHeader(h)
         /\ BlockHash(OnWire(h)) = BlockHash(h)
<1>1. W \in Nat \ {0} /\ h.time \in Int
  BY VerifierAssumption DEF IsHeader
<1>2. (h.time % W) % W = h.time % W
  BY <1>1
<1>3. OnWire(h) = [prev |-> h.prev, time |-> h.time % W, work |-> h.work]
  BY DEF OnWire, IsHeader
<1> QED
  BY <1>2, <1>3, ConvertedFields DEF ConvertHeader, BlockHash

(* The verdicts about what is sent are those about what there is.           *)
LEMMA SentChain ==
  ASSUME NEW h, IsHeader(h), NEW c, NEW body, NEW t,
         Len(c) \in Nat, c = [i \in 1 .. Len(c) |-> c[i]],
         \A i \in 1 .. Len(c) : IsHeader(c[i])
  PROVE  Accepts(OnWire(h), body, Received(c), t) = Accepts(h, body, c, t)
<1> DEFINE n == Len(c)
           r == Received(c)
<1>1. n \in Nat /\ DOMAIN c = 1 .. n
  OBVIOUS
<1>2. r = [i \in 1 .. n |-> OnWire(c[i])]
  BY <1>1 DEF Received
<1>3. DOMAIN r = 1 .. n /\ Len(r) = n /\ \A i \in 1 .. n : r[i] = OnWire(c[i])
  BY <1>1, <1>2
<1>4. Converted(r) = Converted(c)
  <2>1. \A i \in 1 .. n : ConvertHeader(r[i]) = ConvertHeader(c[i])
    BY <1>3, SentHeader
  <2> QED
    BY <2>1, <1>1, <1>3 DEF Converted
<1>5. (c # << >>) = (n # 0) /\ (r # << >>) = (n # 0)
  BY <1>1, <1>3
<1>6. n # 0 => BlockHash(Last(r)) = BlockHash(Last(c))
  BY <1>1, <1>3, SentHeader DEF Last
<1>7. Extends(OnWire(h), r) = Extends(h, c)
  BY <1>5, <1>6, SentHeader DEF Extends
<1>8. ConvertHeader(OnWire(h)) = ConvertHeader(h)
  BY SentHeader
<1> HIDE DEF r, n
<1>9. HeaderAlone(OnWire(h)) = HeaderAlone(h)
  BY <1>8 DEF HeaderAlone
<1>10. HeaderInChain(OnWire(h), r, t) = HeaderInChain(h, c, t)
  BY <1>4, <1>7, <1>8, Zenon DEF HeaderInChain
<1>11. BlockAlone(OnWire(h), body) = BlockAlone(h, body)
  BY <1>8, <1>9, Zenon DEF BlockAlone
<1>12. BlockInChain(OnWire(h), body, r, t) = BlockInChain(h, body, c, t)
  BY <1>10, Zenon DEF BlockInChain
<1> QED
  BY <1>9, <1>10, <1>11, <1>12, Zenon DEF Accepts, r

(* The clock goes on, and what was accepted stays acceptable.               *)
LEMMA AcceptedLater ==
  ASSUME NEW h, IsHeader(h), NEW c, NEW body, NEW t \in Int, NEW u \in Int, t <= u,
         Accepts(h, body, c, t)
  PROVE  Accepts(h, body, c, u)
<1>1. ConvertHeader(h).time \in Int
  BY ConvertedFields, VerifierAssumption DEF IsHeader
<1>2. Extends(h, c) /\ ContextualCheckBlockHeader(ConvertHeader(h), Converted(c), t)
  BY DEF Accepts, HeaderInChain, Verdict, Without, Ok, NotFound
<1>3. ContextualCheckBlockHeader(ConvertHeader(h), Converted(c), u)
  BY <1>1, <1>2 DEF ContextualCheckBlockHeader
<1>4. HeaderInChain(h, c, u) = HeaderInChain(h, c, t)
  BY <1>2, <1>3 DEF HeaderInChain, Verdict
<1>5. BlockInChain(h, body, c, u) = BlockInChain(h, body, c, t)
  BY <1>4 DEF BlockInChain
<1> QED
  BY <1>4, <1>5 DEF Accepts

(* Two sequences that begin alike.                                          *)
LEMMA SamePrefix ==
  ASSUME NEW S, NEW s \in Seq(S), NEW T, NEW u \in Seq(T), NEW m \in Nat,
         m <= Len(s), m <= Len(u), \A k \in 1 .. m : s[k] = u[k]
  PROVE  SubSeq(s, 1, m) = SubSeq(u, 1, m)
<1>1. \A k \in 1 .. m : s[k] \in S /\ u[k] \in T
  BY ElementOfSeq
<1>2. /\ SubSeq(s, 1, m) = [k \in 1 .. m |-> s[k]]
      /\ SubSeq(u, 1, m) = [k \in 1 .. m |-> u[k]]
  BY <1>1
<1> QED
  BY <1>2

LEMMA WholePrefix ==
  ASSUME NEW S, NEW s \in Seq(S)
  PROVE  SubSeq(s, 1, Len(s)) = s
<1>1. Len(s) \in Nat /\ s = [k \in 1 .. Len(s) |-> s[k]]
  BY LenProperties
<1>2. SubSeq(s, 1, Len(s)) = [k \in 1 .. Len(s) |-> s[k]]
  BY <1>1
<1> QED
  BY <1>1, <1>2

(* Every call is about a candidate, which is a header.                      *)
LEMMA CallIsAboutHeader ==
  ASSUME NEW o, NEW h, IsHeader(h), NEW b, NEW a
  PROVE  IsHeader(Call(o, h, b, a).header)
  BY DEF Call

LEMMA NoCallIsAboutHeader == IsHeader(NoCall.header)
<1>1. 0 \in Int /\ FALSE \in BOOLEAN
  OBVIOUS
<1>2. IsHeader(Header(Zero, 0, FALSE))
  <2> DEFINE w == FALSE
  <2>1. w \in BOOLEAN
    OBVIOUS
  <2> HIDE DEF w
  <2>2. IsHeader(Header(Zero, 0, w))
    BY <1>1, <2>1, HeaderIsHeader
  <2> QED
    BY <2>2 DEF w
<1> QED
  BY <1>2, CallIsAboutHeader DEF NoCall

(* The sets of headers in the types of the chain follow the chain.          *)
LEMMA HeadersOfAppend ==
  ASSUME chain \in Seq({chain[i] : i \in DOMAIN chain}), NEW h,
         chain' = Append(chain, h)
  PROVE  /\ chain' \in Seq({chain'[i] : i \in DOMAIN chain'})
         /\ Len(chain') = Len(chain) + 1
         /\ DOMAIN chain' = 1 .. Len(chain) + 1
         /\ \A i \in 1 .. Len(chain) : chain'[i] = chain[i]
         /\ chain'[Len(chain) + 1] = h
<1> DEFINE S == {chain[i] : i \in DOMAIN chain}
           T == S \cup {h}
<1>1. chain \in Seq(T) /\ h \in T
  BY SeqMonotonic
<1> HIDE DEF S, T
<1>2. /\ chain' \in Seq(T) /\ Len(chain') = Len(chain) + 1
      /\ \A i \in 1 .. Len(chain) : chain'[i] = chain[i]
      /\ chain'[Len(chain) + 1] = h
  BY <1>1, AppendProperties
<1>3. DOMAIN chain' = 1 .. Len(chain') /\ Len(chain') \in Nat
  BY <1>2, LenProperties
<1>4. chain' \in Seq({chain'[i] : i \in DOMAIN chain'})
  BY <1>3
<1> QED
  BY <1>2, <1>3, <1>4

LEMMA HeadersOfFront ==
  ASSUME chain \in Seq({chain[i] : i \in DOMAIN chain}), Len(chain) > 1,
         chain' = Front(chain)
  PROVE  /\ chain' \in Seq({chain'[i] : i \in DOMAIN chain'})
         /\ Len(chain') = Len(chain) - 1
         /\ DOMAIN chain' = 1 .. Len(chain) - 1
         /\ \A i \in 1 .. Len(chain) - 1 : chain'[i] = chain[i]
<1> DEFINE S == {chain[i] : i \in DOMAIN chain}
<1>1. Len(chain) \in Nat /\ \A i \in 1 .. Len(chain) - 1 : chain[i] \in S
  BY LenProperties
<1> HIDE DEF S
<1>2. /\ chain' \in Seq(S) /\ Len(chain') = Len(chain) - 1
      /\ \A i \in 1 .. Len(chain) - 1 : chain'[i] = chain[i]
  BY <1>1, SubSeqProperties DEF Front
<1>3. DOMAIN chain' = 1 .. Len(chain') /\ Len(chain') \in Nat
  BY <1>2, LenProperties
<1>4. chain' = [i \in 1 .. Len(chain') |-> chain'[i]]
  BY <1>1, <1>2, <1>3, SeqDef, LenProperties
<1>5. chain' \in Seq({chain'[i] : i \in DOMAIN chain'})
  <2> DEFINE m == Len(chain')
  <2> DEFINE T == {chain'[i] : i \in DOMAIN chain'}
  <2>1. \A i \in 1 .. m : chain'[i] \in T
    BY <1>3
  <2>2. m \in Nat
    BY <1>3
  <2> HIDE DEF T, m
  <2>3. [i \in 1 .. m |-> chain'[i]] \in Seq(T)
    BY <2>1, <2>2, IsASeq
  <2> QED
    BY <2>3, <1>4 DEF T, m
<1> QED
  BY <1>2, <1>3, <1>5

(* A header that both overloads have accepted may be appended, with its     *)
(* block if the ones for blocks have accepted that.                         *)
LEMMA AppendKeeps ==
  ASSUME ChainInv, NEW h, IsHeader(h), NEW body \in Bodies \cup {"none"},
         Accepts(h, body, chain, now), now' = now,
         chain' = Append(chain, h), bodies' = Append(bodies, body)
  PROVE  ChainInv'
<1> DEFINE n == Len(chain)
           S == {chain[i] : i \in DOMAIN chain}
           T == {chain'[i] : i \in DOMAIN chain'}
<1>1. /\ chain \in Seq(S) /\ n \in Nat /\ DOMAIN chain = 1 .. n
      /\ bodies \in Seq(Bodies \cup {"none"}) /\ Len(bodies) = n
      /\ \A i \in 1 .. n : IsHeader(chain[i])
  BY LenProperties DEF ChainInv, ChainShape
<1>2. /\ chain' \in Seq(T)
      /\ Len(chain') = n + 1 /\ DOMAIN chain' = 1 .. n + 1
      /\ \A i \in 1 .. n : chain'[i] = chain[i]
      /\ chain'[n + 1] = h
  BY HeadersOfAppend DEF ChainInv, ChainShape
<1>3. /\ bodies' \in Seq(Bodies \cup {"none"}) /\ Len(bodies') = n + 1
      /\ \A i \in 1 .. n : bodies'[i] = bodies[i]
      /\ bodies'[n + 1] = body
  BY <1>1, AppendProperties
<1>4. ChainShape'
  BY <1>1, <1>2, <1>3 DEF ChainShape
<1> HIDE DEF S, T, n
<1>5. \A m \in 0 .. n : SubSeq(chain', 1, m) = SubSeq(chain, 1, m)
  <2> TAKE m \in 0 .. n
  <2>1. m \in Nat /\ m <= Len(chain) /\ m <= Len(chain')
        /\ \A k \in 1 .. m : chain'[k] = chain[k]
    BY <1>1, <1>2 DEF n
  <2> QED
    BY ONLY <2>1, <1>1, <1>2, SamePrefix
<1>6. SubSeq(chain, 1, n) = chain
  BY <1>1, WholePrefix DEF n
<1>7. ASSUME NEW i \in 2 .. n + 1
      PROVE  Accepts(chain'[i], bodies'[i], SubSeq(chain', 1, i - 1), now)
  <2>1. i - 1 \in 0 .. n
    BY <1>1
  <2>2. CASE i = n + 1
    <3>1. i - 1 = n
      BY <2>2, <1>1
    <3>2. SubSeq(chain', 1, i - 1) = chain
      BY <3>1, <2>1, <1>5, <1>6
    <3>3. chain'[i] = h /\ bodies'[i] = body
      BY <2>2, <1>2, <1>3
    <3> QED
      BY <3>2, <3>3
  <2>3. CASE i # n + 1
    <3>1. i \in 2 .. n /\ i \in 1 .. n
      BY <2>3, <1>1
    <3>2. Accepts(chain[i], bodies[i], SubSeq(chain, 1, i - 1), now)
      BY <3>1 DEF ChainInv, Below, n
    <3>3. /\ chain'[i] = chain[i] /\ bodies'[i] = bodies[i]
          /\ SubSeq(chain', 1, i - 1) = SubSeq(chain, 1, i - 1)
      BY <3>1, <2>1, <1>2, <1>3, <1>5
    <3> QED
      BY <3>2, <3>3
  <2> QED
    BY <2>2, <2>3
<1>8. \A i \in 2 .. Len(chain') :
        Accepts(chain'[i], bodies'[i], SubSeq(chain', 1, i - 1), now')
  BY <1>2, <1>7
<1>9. now' \in Int
  BY DEF ChainInv
<1> QED
  BY <1>4, <1>8, <1>9 DEF ChainInv, Below

LEMMA ChainInvInit == Init => ChainInv
<1> SUFFICES ASSUME Init PROVE ChainInv
  OBVIOUS
<1>1. PICK t \in Time : chain \in {<<>>, <<Header(Zero, t, TRUE)>>}
  BY DEF Init
<1>2. IsHeader(Header(Zero, t, TRUE))
  BY VerifierAssumption, HeaderIsHeader
<1>3. /\ Len(chain) \in {0, 1} /\ DOMAIN chain = 1 .. Len(chain)
      /\ \A i \in DOMAIN chain : IsHeader(chain[i])
      /\ chain \in Seq({chain[i] : i \in DOMAIN chain})
  <2>1. CASE chain = <<>>
    BY <2>1
  <2>2. CASE chain = <<Header(Zero, t, TRUE)>>
    <3> DEFINE h == Header(Zero, t, TRUE)
    <3> HIDE DEF h
    <3>1. chain = <<h>> /\ IsHeader(h)
      BY <2>2, <1>2 DEF h
    <3>2. DOMAIN chain = {1} /\ Len(chain) = 1 /\ chain[1] = h
      BY <3>1
    <3>3. {chain[i] : i \in DOMAIN chain} = {h}
      BY <3>2
    <3>4. chain \in Seq({h})
      BY <3>1
    <3> QED
      BY <3>1, <3>2, <3>3, <3>4
  <2> QED
    BY <1>1, <2>1, <2>2
<1>4. /\ bodies \in Seq({"none"}) /\ Len(bodies) = Len(chain)
      /\ \A i \in DOMAIN chain : bodies[i] = "none"
  BY <1>3 DEF Init
<1>5. bodies \in Seq(Bodies \cup {"none"})
  BY <1>4, SeqMonotonic
<1>6. now \in Int
  BY VerifierAssumption DEF Init
<1>7. 2 .. Len(chain) = {}
  BY <1>3
<1> QED
  BY <1>3, <1>4, <1>5, <1>6, <1>7 DEF ChainInv, ChainShape

LEMMA ChainInvStep == ChainInv /\ [Next]_vars => ChainInv'
<1> SUFFICES ASSUME ChainInv, [Next]_vars PROVE ChainInv'
  OBVIOUS
<1>1. CASE UNCHANGED <<chain, bodies, now>>
  BY <1>1 DEF ChainInv, ChainShape, Below
<1>2. ASSUME NEW h \in Headers(chain), NEW body \in Bodies, Ask(h, body)
      PROVE  ChainInv'
  BY <1>1, <1>2 DEF Ask
<1>3. CASE Returned
  BY <1>1, <1>3 DEF Returned
<1>4. ASSUME NEW h \in Headers(chain), AcceptHeader(h)
      PROVE  ChainInv'
  BY <1>4, CandidateIsHeader, AppendKeeps DEF AcceptHeader, Accepts
<1>5. ASSUME NEW h \in Headers(chain), NEW body \in Bodies, AcceptBlock(h, body)
      PROVE  ChainInv'
  <2>1. BlockAlone(h, body).status = Ok /\ BlockInChain(h, body, chain, now).status = Ok
    BY <1>5 DEF AcceptBlock
  <2>2. HeaderAlone(h).status = Ok
    BY <2>1 DEF BlockAlone
  <2>3. HeaderInChain(h, chain, now).status = Ok
    BY <2>1 DEF BlockInChain
  <2>4. Accepts(h, body, chain, now)
    BY <2>1, <2>2, <2>3 DEF Accepts
  <2> QED
    BY <1>5, <2>4, CandidateIsHeader, AppendKeeps DEF AcceptBlock
<1>6. CASE Rewind
  <2> DEFINE n == Len(chain)
             S == {chain[i] : i \in DOMAIN chain}
             T == {chain'[i] : i \in DOMAIN chain'}
  <2>1. /\ n \in Nat /\ n > 1 /\ DOMAIN chain = 1 .. n
        /\ bodies \in Seq(Bodies \cup {"none"}) /\ Len(bodies) = n
        /\ chain \in Seq(S)
    BY <1>6, LenProperties, SMTT(30) DEF ChainInv, ChainShape, Rewind
  <2>2. /\ chain' \in Seq(T)
        /\ Len(chain') = n - 1 /\ DOMAIN chain' = 1 .. n - 1
        /\ \A i \in 1 .. n - 1 : chain'[i] = chain[i]
    BY <1>6, <2>1, HeadersOfFront, Zenon DEF Rewind
  <2>3. \A i \in 1 .. n - 1 : bodies[i] \in Bodies \cup {"none"}
    BY <2>1, ElementOfSeq
  <2>4. /\ bodies' \in Seq(Bodies \cup {"none"}) /\ Len(bodies') = n - 1
        /\ \A i \in 1 .. n - 1 : bodies'[i] = bodies[i]
    BY <1>6, <2>1, <2>3, SubSeqProperties DEF Rewind, Front
  <2> HIDE DEF S, T, n
  <2>5. \A i \in 1 .. n - 1 : i \in 1 .. n
    BY <2>1
  <2>6. \A i \in 1 .. n - 1 : IsHeader(chain'[i])
    <3>1. \A i \in 1 .. n : IsHeader(chain[i])
      BY <2>1 DEF ChainInv, ChainShape
    <3> QED
      BY <3>1, <2>2, <2>5
  <2>7. ChainShape'
    BY <2>2, <2>4, <2>6 DEF ChainShape, T
  <2>8. ASSUME NEW i \in 2 .. n - 1
        PROVE  Accepts(chain'[i], bodies'[i], SubSeq(chain', 1, i - 1), now)
    <3> DEFINE m == i - 1
    <3>1. i \in 2 .. n /\ i \in 1 .. n - 1
      BY <2>1
    <3>2. /\ m \in Nat /\ m <= Len(chain) /\ m <= Len(chain')
          /\ \A k \in 1 .. m : chain'[k] = chain[k]
      BY <2>1, <2>2 DEF n
    <3> HIDE DEF m
    <3>3. SubSeq(chain', 1, m) = SubSeq(chain, 1, m)
      BY ONLY <3>2, <2>1, <2>2, SamePrefix
    <3>4. Accepts(chain[i], bodies[i], SubSeq(chain, 1, m), now)
      BY <3>1 DEF ChainInv, Below, n, m
    <3>5. chain'[i] = chain[i] /\ bodies'[i] = bodies[i]
      BY <3>1, <2>2, <2>4
    <3> QED
      BY <3>3, <3>4, <3>5 DEF m
  <2>9. now' = now /\ now' \in Int
    BY <1>6 DEF Rewind, ChainInv
  <2>10. \A i \in 2 .. Len(chain') :
           Accepts(chain'[i], bodies'[i], SubSeq(chain', 1, i - 1), now')
    BY <2>2, <2>8, <2>9
  <2> QED
    BY <2>7, <2>9, <2>10 DEF ChainInv, Below
<1>7. CASE Tick
  <2>1. PICK t \in Time : t > now /\ now' = t
    BY <1>7 DEF Tick
  <2>2. chain' = chain /\ bodies' = bodies /\ now \in Int /\ now' \in Int /\ now <= now'
    BY <1>7, <2>1, VerifierAssumption DEF Tick, ChainInv
  <2>3. ASSUME NEW i \in 2 .. Len(chain)
        PROVE  Accepts(chain[i], bodies[i], Below(i), now')
    <3>1. Accepts(chain[i], bodies[i], Below(i), now)
      BY DEF ChainInv
    <3>2. i \in DOMAIN chain
      <4>1. DOMAIN chain = 1 .. Len(chain) /\ Len(chain) \in Nat
        BY LenProperties DEF ChainInv, ChainShape
      <4> QED
        BY <4>1
    <3>3. IsHeader(chain[i])
      BY <3>2 DEF ChainInv, ChainShape
    <3> QED
      BY <3>1, <3>3, <2>2, AcceptedLater
  <2>4. ChainShape'
    BY <2>2 DEF ChainInv, ChainShape
  <2> QED
    BY <2>2, <2>3, <2>4 DEF ChainInv, Below
<1> QED
  BY <1>1, <1>2, <1>3, <1>4, <1>5, <1>6, <1>7 DEF Next, vars

(* Whatever chain a node has accepted, a node that receives it accepts it,  *)
(* however long it is, whatever times its headers carry, and whether or not *)
(* a later header has an earlier time.                                      *)
THEOREM ChainAcceptedAgain == Spec => []AcceptedAgain
<1>1. ChainInv => AcceptedAgain
  <2> SUFFICES ASSUME ChainInv, NEW i \in 2 .. Len(chain)
               PROVE  Accepts(OnWire(chain[i]), bodies[i], Received(Below(i)), now)
    BY DEF AcceptedAgain
  <2> DEFINE n == Len(chain)
             S == {chain[j] : j \in DOMAIN chain}
             b == Below(i)
  <2>1. /\ chain \in Seq(S) /\ n \in Nat
        /\ \A j \in 1 .. n : IsHeader(chain[j]) /\ chain[j] \in S
    <3>1. chain \in Seq(S)
      BY DEF ChainInv, ChainShape
    <3>2. n \in Nat /\ DOMAIN chain = 1 .. n
      BY <3>1, LenProperties
    <3> QED
      BY <3>1, <3>2 DEF ChainInv, ChainShape
  <2>2. i - 1 \in 0 .. n /\ i \in 1 .. n /\ \A k \in 1 .. i - 1 : k \in 1 .. n
    BY <2>1
  <2> HIDE DEF S, n
  <2>3. b = [k \in 1 .. i - 1 |-> chain[k]]
    BY <2>1, <2>2 DEF Below
  <2>4. Len(b) = i - 1 /\ Len(b) \in Nat /\ b = [k \in 1 .. Len(b) |-> b[k]]
    BY <2>2, <2>3
  <2>5. \A k \in 1 .. Len(b) : IsHeader(b[k])
    BY <2>1, <2>2, <2>3, <2>4
  <2>6. Accepts(chain[i], bodies[i], b, now) /\ IsHeader(chain[i])
    BY <2>1, <2>2 DEF ChainInv
  <2> HIDE DEF b
  <2>7. Accepts(OnWire(chain[i]), bodies[i], Received(b), now)
          = Accepts(chain[i], bodies[i], b, now)
    BY <2>4, <2>5, <2>6, SentChain
  <2> QED
    BY <2>6, <2>7, Zenon DEF b
<1> QED
  BY <1>1, ChainInvInit, ChainInvStep, PTL DEF Spec

(* The genesis has no parent; it is never replaced, and nothing is appended *)
(* to no chain.                                                             *)
Rooted == chain # << >> => chain[1].prev = Zero

LEMMA SameHashSameParent ==
  ASSUME NEW h, NEW k, BlockHash(h) = BlockHash(k)
  PROVE  h.prev = k.prev
  BY DEF BlockHash

LEMMA HashNotZero ==
  ASSUME NEW h
  PROVE  BlockHash(h) # Zero
<1>1. Len(BlockHash(h)) = 3 /\ Len(Zero) = 0
  BY DEF BlockHash, Zero
<1> QED
  BY <1>1

LEMMA LastOfPrefix ==
  ASSUME NEW S, NEW s \in Seq(S), NEW m \in 1 .. Len(s)
  PROVE  SubSeq(s, 1, m) # << >> /\ Last(SubSeq(s, 1, m)) = s[m]
<1>1. Len(s) \in Nat /\ m \in Nat
  BY LenProperties
<1>2. Len(SubSeq(s, 1, m)) = m /\ SubSeq(s, 1, m)[m] = s[m]
  BY <1>1
<1> QED
  BY <1>1, <1>2 DEF Last

(* In a chain whose headers hold the hashes of their parents, down to one   *)
(* that has none, no two have one hash.                                     *)
LEMMA HashesDiffer ==
  ASSUME NEW c, NEW n \in Nat, c[1].prev = Zero,
         \A i \in 2 .. n : c[i].prev = BlockHash(c[i - 1]),
         NEW k \in 1 .. n, NEW l \in 1 .. n, k < l
  PROVE  BlockHash(c[k]) # BlockHash(c[l])
<1> DEFINE Twin(i, j) == i < j /\ BlockHash(c[i]) = BlockHash(c[j])
           T == {i \in 1 .. n : \E j \in 1 .. n : Twin(i, j)}
<1>1. SUFFICES ASSUME T # {} PROVE FALSE
  OBVIOUS
<1>2. T \subseteq Nat
  OBVIOUS
<1>3. PICK i \in T : \A m \in T : i <= m
  BY <1>1, <1>2, LeastNat
<1>4. PICK j \in 1 .. n : Twin(i, j)
  BY <1>3
<1>5. i \in 1 .. n /\ j \in 2 .. n /\ i < j /\ BlockHash(c[i]) = BlockHash(c[j])
  BY <1>3, <1>4
<1>6. c[i].prev = c[j].prev
  BY <1>5, SameHashSameParent
<1>7. c[j].prev = BlockHash(c[j - 1])
  BY <1>5
<1>8. CASE i = 1
  BY <1>6, <1>7, <1>8, HashNotZero
<1>9. CASE i # 1
  <2>1. i \in 2 .. n /\ i - 1 \in 1 .. n /\ j - 1 \in 1 .. n /\ i - 1 < j - 1
    BY <1>5, <1>9
  <2>2. BlockHash(c[i - 1]) = BlockHash(c[j - 1])
    BY <2>1, <1>6, <1>7
  <2>3. i - 1 \in T
    BY <2>1, <2>2
  <2> QED
    BY <2>1, <2>3, <1>3
<1> QED
  BY <1>8, <1>9

LEMMA RootedAlways == Spec => []Rooted
<1>1. Init => Rooted
  BY DEF Init, Rooted, Header
<1>2. ChainInv /\ Rooted /\ [Next]_vars => Rooted'
  <2> SUFFICES ASSUME ChainInv, Rooted, [Next]_vars, chain' # << >>
               PROVE  chain'[1].prev = Zero
    BY DEF Rooted
  <2>1. /\ chain \in Seq({chain[j] : j \in DOMAIN chain})
        /\ Len(chain) \in Nat /\ (chain # << >> <=> Len(chain) > 0)
    BY EmptySeq, LenProperties DEF ChainInv, ChainShape
  <2>2. ASSUME NEW h, HeaderInChain(h, chain, now).status = Ok, chain' = Append(chain, h)
        PROVE  chain'[1].prev = Zero
    <3>1. chain # << >>
      BY <2>2 DEF HeaderInChain, Extends, Without, Ok, NotFound
    <3>2. Append(chain, h)[1] = chain[1]
      BY <2>1, <3>1
    <3> QED
      BY <2>2, <3>1, <3>2 DEF Rooted
  <2>3. CASE chain' = chain
    BY <2>3 DEF Rooted
  <2>4. CASE \E h \in Headers(chain) : AcceptHeader(h)
    BY <2>4, <2>2 DEF AcceptHeader
  <2>5. CASE \E h \in Headers(chain), body \in Bodies : AcceptBlock(h, body)
    <3>1. PICK h \in Headers(chain), body \in Bodies : AcceptBlock(h, body)
      BY <2>5
    <3>2. BlockInChain(h, body, chain, now).status = Ok /\ chain' = Append(chain, h)
      BY <3>1 DEF AcceptBlock
    <3>3. HeaderInChain(h, chain, now).status = Ok
      BY <3>2 DEF BlockInChain
    <3> QED
      BY <2>2, <3>2, <3>3
  <2>6. CASE Rewind
    <3>1. Len(chain) > 1 /\ chain' = Front(chain)
      BY <2>6 DEF Rewind
    <3>2. Front(chain)[1] = chain[1]
      BY <2>1, <3>1 DEF Front
    <3> QED
      BY <2>1, <3>1, <3>2 DEF Rooted
  <2> QED
    BY <2>3, <2>4, <2>5, <2>6 DEF Next, vars, Ask, Returned, Tick
<1> QED
  BY <1>1, <1>2, ChainInvInit, ChainInvStep, PTL DEF Spec

(* In a chain of any length, with any times, a header is accepted where it  *)
(* stands and is answered "parent not found" everywhere else.               *)
THEOREM EachInItsPlace == Spec => []OnePlace
<1>1. ChainInv /\ Rooted => OnePlace
  <2> SUFFICES ASSUME ChainInv, Rooted, NEW i \in 2 .. Len(chain),
                      NEW m \in 0 .. Len(chain), m # i - 1,
                      Extends(chain[i], SubSeq(chain, 1, m))
               PROVE  FALSE
    BY DEF OnePlace, HeaderInChain, Without
  <2>1. /\ chain \in Seq({chain[j] : j \in DOMAIN chain})
        /\ Len(chain) \in Nat
    BY LenProperties DEF ChainInv, ChainShape
  <2>2. ASSUME NEW j \in 1 .. Len(chain)
        PROVE  Last(SubSeq(chain, 1, j)) = chain[j]
    BY <2>1, <2>2, LastOfPrefix
  <2>3. ASSUME NEW j \in 2 .. Len(chain)
        PROVE  chain[j].prev = BlockHash(chain[j - 1])
    <3>1. Accepts(chain[j], bodies[j], Below(j), now) /\ j - 1 \in 1 .. Len(chain)
      BY <2>1 DEF ChainInv
    <3>2. Extends(chain[j], Below(j))
      BY <3>1 DEF Accepts, HeaderInChain, Without, Ok, NotFound
    <3> QED
      BY <3>1, <3>2, <2>2 DEF Extends, Below
  <2>4. chain # << >> /\ chain[1].prev = Zero
    BY <2>1, EmptySeq DEF Rooted
  <2>5. m \in 1 .. Len(chain)
    <3>1. SubSeq(chain, 1, m) # << >>
      BY DEF Extends
    <3>2. m = 0 => SubSeq(chain, 1, m) = << >>
      BY <2>1
    <3> QED
      BY <3>1, <3>2
  <2>6. chain[i].prev = BlockHash(chain[m])
    BY <2>2, <2>5 DEF Extends
  <2>7. chain[i].prev = BlockHash(chain[i - 1]) /\ i - 1 \in 1 .. Len(chain)
    BY <2>1, <2>3
  <2>8. CASE m < i - 1
    BY <2>1, <2>3, <2>4, <2>5, <2>6, <2>7, <2>8, HashesDiffer
  <2>9. CASE m > i - 1
    BY <2>1, <2>3, <2>4, <2>5, <2>6, <2>7, <2>9, HashesDiffer
  <2> QED
    BY <2>1, <2>5, <2>8, <2>9
<1> QED
  BY <1>1, ChainInvInit, ChainInvStep, RootedAlways, PTL DEF Spec

-----------------------------------------------------------------------------
(* Verdicts *)

LEMMA TwinsConvertAlike ==
  ASSUME NEW h, IsHeader(h), NEW t \in Int,
         BlockHash([h EXCEPT !.time = t]) = BlockHash(h)
  PROVE  LET twin == [h EXCEPT !.time = t] IN
         ConvertHeader(twin) = ConvertHeader(h) /\ twin.prev = h.prev
<1> DEFINE twin == [h EXCEPT !.time = t]
<1>1. IsHeader(twin) /\ twin.prev = h.prev /\ twin.work = h.work /\ twin.time = t
  BY DEF IsHeader
<1>2. twin.time % W = h.time % W
  BY DEF BlockHash
<1> QED
  BY <1>1, <1>2, ConvertedFields

LEMMA CallsAreAboutHeaders == Spec => []IsHeader(last.header)
<1>1. Init => IsHeader(last.header)
  BY NoCallIsAboutHeader DEF Init
<1>2. IsHeader(last.header) /\ [Next]_vars => IsHeader(last.header)'
  <2> SUFFICES ASSUME IsHeader(last.header), [Next]_vars PROVE IsHeader(last'.header)
    OBVIOUS
  <2>1. CASE UNCHANGED last
    BY <2>1
  <2>2. ASSUME NEW h \in Headers(chain), NEW body \in Bodies, Ask(h, body)
        PROVE  IsHeader(last'.header)
    BY <2>2, CandidateIsHeader, CallIsAboutHeader DEF Ask
  <2>3. CASE Returned
    BY <2>3, NoCallIsAboutHeader DEF Returned
  <2> QED
    BY <2>1, <2>2, <2>3 DEF Next, vars, AcceptHeader, AcceptBlock, Rewind, Tick
<1> QED
  BY <1>1, <1>2, PTL DEF Spec

(* Headers that are the same bytes on the wire are the same to the          *)
(* verifier: the conversion keeps no bit of a time that the hash leaves out. *)
THEOREM VerdictsFollowHashes == Spec => []VerdictByHash
<1>1. IsHeader(last.header) => VerdictByHash
  <2> SUFFICES ASSUME IsHeader(last.header), NEW t \in Time,
                      BlockHash([last.header EXCEPT !.time = t]) = BlockHash(last.header)
               PROVE  LET twin == [last.header EXCEPT !.time = t] IN
                      /\ HeaderAlone(twin) = HeaderAlone(last.header)
                      /\ HeaderInChain(twin, chain, now)
                           = HeaderInChain(last.header, chain, now)
    BY DEF VerdictByHash
  <2> DEFINE twin == [last.header EXCEPT !.time = t]
  <2>1. ConvertHeader(twin) = ConvertHeader(last.header) /\ twin.prev = last.header.prev
    BY TwinsConvertAlike, VerifierAssumption
  <2> QED
    BY <2>1 DEF HeaderAlone, HeaderInChain, Extends
<1> QED
  BY <1>1, CallsAreAboutHeaders, PTL

-----------------------------------------------------------------------------
(* The node that verifies a transaction input by input (ScriptVerifier) *)

(* While a call is to be made, the scripts of the inputs before the next    *)
(* were all accepted, in this attempt, and the transaction if any were.     *)
TxInv ==
  /\ inputs \in Nat \ {0} /\ next \in 0 .. inputs
  /\ valid \subseteq 0 .. inputs - 1
  /\ 0 .. next - 1 \subseteq valid
  /\ outcome \in {"asked", "checked"} => next < inputs
  /\ outcome = "asked" => next = 0
  /\ outcome = "checked" => sound
  /\ VerdictIsTheKernels

LEMMA TxInvInit == TxInit => TxInv
<1> SUFFICES ASSUME TxInit PROVE TxInv
  OBVIOUS
<1>1. inputs \in Nat \ {0} /\ next = 0 /\ outcome = "asked"
  BY ScriptVerifierAssumption DEF TxInit
<1>2. valid \subseteq 0 .. inputs - 1
  BY DEF TxInit
<1> QED
  BY <1>1, <1>2 DEF TxInv, VerdictIsTheKernels

LEMMA TxInvStep == TxInv /\ [TxNext]_txVars => TxInv'
<1> SUFFICES ASSUME TxInv, [TxNext]_txVars PROVE TxInv'
  OBVIOUS
<1> USE DEF TxInv, VerdictIsTheKernels, args
<1>1. CASE VerifyTransaction
  BY <1>1 DEF VerifyTransaction, Stop
<1>2. CASE Abort
  BY <1>2 DEF Abort, Stop
<1>3. CASE Throw
  BY <1>3 DEF Throw, Stop
<1>4. CASE EvaluateScript
  <2>1. CASE next \notin valid /\ Stop("rejected")
    <3>1. next \in 0 .. inputs - 1
      BY <1>4 DEF EvaluateScript
    <3> QED
      BY <2>1, <3>1 DEF Stop
  <2>2. CASE /\ next \in valid
             /\ next' = next + 1
             /\ outcome' = IF next + 1 = inputs THEN "accepted" ELSE "checked"
             /\ UNCHANGED args
    <3>1. sound /\ next < inputs /\ next \in Nat
      BY <1>4 DEF EvaluateScript
    <3>2. 0 .. next' - 1 \subseteq valid
      BY <2>2, <3>1
    <3>3. next + 1 = inputs => valid = 0 .. inputs - 1
      BY <2>2, <3>2
    <3> QED
      BY <2>2, <3>1, <3>2, <3>3
  <2> QED
    BY <1>4, <2>1, <2>2 DEF EvaluateScript
<1>5. CASE Interrupted
  BY <1>5 DEF Interrupted, Stop
<1>6. CASE AskAgain
  BY <1>6 DEF AskAgain
<1>7. CASE UNCHANGED txVars
  BY <1>7 DEF txVars
<1> QED
  BY <1>1, <1>2, <1>3, <1>4, <1>5, <1>6, <1>7 DEF TxNext

(* For any number of inputs, with and without assertions, and however often *)
(* a call ends in an exception: accepted is what the kernel accepts, and    *)
(* rejected what it does not.                                               *)
THEOREM VerdictsAreTheKernels == TxSpec => []VerdictIsTheKernels
<1>1. TxInv => VerdictIsTheKernels
  BY DEF TxInv
<1> QED
  BY <1>1, TxInvInit, TxInvStep, PTL DEF TxSpec
=============================================================================
