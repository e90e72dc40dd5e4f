---------------------------- MODULE WidthsProofs ----------------------------
(***************************************************************************)
(* What Vocabulary and CompactSize promise about numbers whose widths      *)
(* differ between memory and wire.                                         *)
(*                                                                         *)
(* Objects, for every width of an index and of an amount, and any number   *)
(* of variables and transactions.  Most of it is about one transaction and *)
(* what a receiver makes of its encoding.  Lemma RoundTrip says what that  *)
(* is, field by field, for any transaction of the right shape; the         *)
(* invariant says that every object of a program is moved-from, default or *)
(* of that shape, and what the keys of the index are.                      *)
(*                                                                         *)
(* Sizes, whatever the number of values a byte has and whatever MAX_SIZE   *)
(* between its bounds: the arithmetic of little-endian numbers, the        *)
(* invariant of the decoder, and the theorems.                             *)
(***************************************************************************)
EXTENDS Vocabulary, CompactSize, SequenceTheorems, TLAPS

-----------------------------------------------------------------------------
(* Objects *)

Amount == -(A \div 2) .. (A \div 2) - 1
InputsOver(H) ==
  [prevout : [txid : {ZeroHash} \cup H, index : Nat], witness : BOOLEAN]

(* A transaction with inputs, as the constructor makes it. *)
Shaped(tx, H) ==
  /\ tx.ins \in Seq(InputsOver(H)) /\ tx.ins # << >>
  /\ tx.outs \in Seq(Amount) /\ Len(tx.outs) <= W
  /\ tx = Transaction(tx.ins, tx.outs)

ObjectsShaped ==
  /\ obj = [v \in Var |-> obj[v]]
  /\ \A v \in Var : \/ obj[v] \in {Moved, DefaultTransaction}
                    \/ Shaped(obj[v], confirmed)

(* A coin's key fits in 32 bits, and a coinbase is known by its txid. *)
KeysFit ==
  \A p \in DOMAIN coins :
    /\ p.index \in 0 .. W - 1
    /\ coins[p][2] => p.txid.ins = <<Outpoint(ZeroHash, AllOnes)>>

VocabularyInv == ObjectsShaped /\ KeysFit

-----------------------------------------------------------------------------
(* Indices and amounts *)

(* An index is cut once: what was cut stays as it is. *)
LEMMA CutOnce ==
  ASSUME NEW n \in Nat
  PROVE  /\ Cut(n) \in 0 .. W - 1 /\ Cut(Cut(n)) = Cut(n)
         /\ n < W <=> Cut(n) = n
BY VocabularyAssumption DEF Cut

(* An amount, negative or not, is decoded from its encoding. *)
LEMMA AmountBack ==
  ASSUME NEW a \in Amount
  PROVE  DecodeAmount(EncodeAmount(a)) = a
<1>. DEFINE H == A \div 2
<1>1. A \in Nat /\ A > 0 /\ H \in Nat /\ A = 2 * H
  BY VocabularyAssumption
<1>2. a \in Int /\ -H <= a /\ a < H
  BY <1>1 DEF Amount
<1>3. CASE a >= 0
  <2>1. a % A = a
    BY <1>1, <1>2, <1>3
  <2>. QED  BY <1>1, <1>2, <1>3, <2>1 DEF DecodeAmount, EncodeAmount
<1>4. CASE a < 0
  <2>1. a % A = a + A
    BY <1>1, <1>2, <1>4
  <2>. QED  BY <1>1, <1>2, <1>4, <2>1 DEF DecodeAmount, EncodeAmount
<1>. QED  BY <1>2, <1>3, <1>4

(* An input has these fields. *)
LEMMA InputFields ==
  ASSUME NEW H, NEW in \in InputsOver(H)
  PROVE  /\ in = Input(in.prevout, in.witness)
         /\ in.prevout = Outpoint(in.prevout.txid, in.prevout.index)
         /\ in.prevout.index \in Nat
         /\ in.prevout.txid \in {ZeroHash} \cup H
         /\ in.witness \in BOOLEAN
BY DEF InputsOver, Input, Outpoint

(* The fields of what the constructors of records make. *)
LEMMA Fields ==
  /\ \A h, n : Outpoint(h, n).txid = h /\ Outpoint(h, n).index = n
  /\ \A ins, outs :
       /\ Transaction(ins, outs).ins = ins /\ Transaction(ins, outs).outs = outs
       /\ Transaction(ins, outs).hash = Hash(EncodeTxData(ins, outs, FALSE))
       /\ Transaction(ins, outs).witnessHash
            = Hash(EncodeTxData(ins, outs, AnyWitness(ins)))
BY DEF Outpoint, Transaction

-----------------------------------------------------------------------------
(* What a receiver makes of the encoding of one transaction *)

Sent(tx) == Parsed(Serialized(tx))

(* A receiver gets the inputs with their indices cut, witnesses included,   *)
(* the outputs as they were, and makes an object of the same shape.         *)
LEMMA RoundTrip ==
  ASSUME NEW H, NEW tx, Shaped(tx, H)
  PROVE  /\ Sent(tx).ins = [i \in DOMAIN tx.ins |->
                              Input(EncodeTxin(tx.ins[i]), tx.ins[i].witness)]
         /\ Sent(tx).outs = tx.outs
         /\ Sent(tx) = Transaction(Sent(tx).ins, Sent(tx).outs)
<1>. DEFINE ins == tx.ins
            outs == tx.outs
            bytes == Serialized(tx)
            wits == bytes.wits
<1>1. /\ ins \in Seq(InputsOver(H)) /\ ins # << >> /\ outs \in Seq(Amount)
      /\ tx.isSegwit = AnyWitness(ins)
  BY DEF Shaped, Transaction
<1>2. /\ DOMAIN ins = 1 .. Len(ins) /\ Len(ins) \in Nat \ {0}
      /\ \A i \in DOMAIN ins : ins[i] \in InputsOver(H)
  BY <1>1, LenProperties, EmptySeq, ElementOfSeq
<1>3. /\ outs = [i \in DOMAIN outs |-> outs[i]]
      /\ \A i \in DOMAIN outs : outs[i] \in Amount
  BY <1>1, LenProperties, ElementOfSeq
<1>4. /\ bytes.ins = [i \in DOMAIN ins |-> EncodeTxin(ins[i])]
      /\ bytes.outs = [i \in DOMAIN outs |-> EncodeAmount(outs[i])]
      /\ wits = IF AnyWitness(ins) THEN [i \in DOMAIN ins |-> ins[i].witness] ELSE << >>
  BY <1>1 DEF Serialized, EncodeTxData
<1>5. \A i \in DOMAIN ins : (wits # << >> /\ wits[i]) = ins[i].witness
  <2>. SUFFICES ASSUME NEW i \in DOMAIN ins
                PROVE  (wits # << >> /\ wits[i]) = ins[i].witness
    OBVIOUS
  <2>1. ins[i].witness \in BOOLEAN
    BY <1>2, InputFields
  <2>2. CASE AnyWitness(ins)
    <3>1. wits = [j \in DOMAIN ins |-> ins[j].witness]
      BY <1>4, <2>2
    <3>2. DOMAIN wits = DOMAIN ins /\ wits[i] = ins[i].witness
      BY <3>1
    <3>3. wits # << >>
      BY <3>2, EmptySeq
    <3>. QED  BY <2>1, <3>2, <3>3
  <2>3. CASE ~AnyWitness(ins)
    <3>1. wits = << >>
      BY <1>4, <2>3
    <3>2. ~ins[i].witness
      BY <2>3 DEF AnyWitness
    <3>. QED  BY <2>1, <3>1, <3>2
  <2>. QED  BY <2>2, <2>3
<1>. DEFINE ins2 == [i \in DOMAIN bytes.ins |->
                       Input(bytes.ins[i], bytes.wits # << >> /\ bytes.wits[i])]
            outs2 == [i \in DOMAIN bytes.outs |-> DecodeAmount(bytes.outs[i])]
<1>6. Sent(tx) = Transaction(ins2, outs2)
  BY DEF Sent, Parsed
<1>7. ins2 = [i \in DOMAIN ins |-> Input(EncodeTxin(ins[i]), ins[i].witness)]
  BY <1>4, <1>5
<1>8. outs2 = outs
  BY <1>3, <1>4, AmountBack
<1>9. Sent(tx).ins = ins2 /\ Sent(tx).outs = outs2
  BY <1>6 DEF Transaction
<1>. QED  BY <1>6, <1>7, <1>8, <1>9

(* The same, input by input; what is received has the shape again.          *)
LEMMA SentInputs ==
  ASSUME NEW H, NEW tx, Shaped(tx, H)
  PROVE  /\ DOMAIN Sent(tx).ins = DOMAIN tx.ins
         /\ Len(Sent(tx).ins) = Len(tx.ins) /\ Len(tx.ins) \in Nat \ {0}
         /\ DOMAIN tx.ins = 1 .. Len(tx.ins)
         /\ \A i \in DOMAIN tx.ins :
              /\ tx.ins[i] \in InputsOver(H)
              /\ Sent(tx).ins[i].witness = tx.ins[i].witness
              /\ Sent(tx).ins[i].prevout
                   = Outpoint(tx.ins[i].prevout.txid, Cut(tx.ins[i].prevout.index))
         /\ Shaped(Sent(tx), H)
<1>. DEFINE ins == tx.ins
            new == Sent(tx).ins
            item(i) == Input(EncodeTxin(ins[i]), ins[i].witness)
<1>1. /\ new = [i \in DOMAIN ins |-> item(i)]
      /\ Sent(tx).outs = tx.outs /\ Sent(tx) = Transaction(new, Sent(tx).outs)
  BY RoundTrip
<1>2. /\ ins \in Seq(InputsOver(H)) /\ ins # << >>
      /\ tx.outs \in Seq(Amount) /\ Len(tx.outs) <= W
  BY DEF Shaped
<1>3. /\ DOMAIN ins = 1 .. Len(ins) /\ Len(ins) \in Nat \ {0}
      /\ \A i \in DOMAIN ins : ins[i] \in InputsOver(H)
  BY <1>2, LenProperties, EmptySeq, ElementOfSeq
<1>4. \A i \in DOMAIN ins : item(i) \in InputsOver(H)
  <2>. SUFFICES ASSUME NEW i \in DOMAIN ins
                PROVE  item(i) \in InputsOver(H)
    OBVIOUS
  <2>1. /\ ins[i].prevout.index \in Nat /\ ins[i].witness \in BOOLEAN
        /\ ins[i].prevout.txid \in {ZeroHash} \cup H
    BY <1>3, InputFields
  <2>2. Cut(ins[i].prevout.index) \in Nat
    BY <2>1, CutOnce, VocabularyAssumption
  <2>. QED  BY <2>1, <2>2 DEF InputsOver, Input, EncodeTxin, Outpoint
<1>5. new \in Seq(InputsOver(H)) /\ DOMAIN new = DOMAIN ins
  <2>. HIDE DEF item
  <2>1. [i \in 1 .. Len(ins) |-> item(i)] \in Seq(InputsOver(H))
    BY <1>3, <1>4, IsASeq
  <2>. QED  BY <1>1, <1>3, <2>1
<1>6. Len(new) = Len(ins)
  BY <1>3, <1>5, LenProperties
<1>7. new # << >>
  BY <1>3, <1>6, EmptySeq
<1>8. Shaped(Sent(tx), H)
  BY <1>1, <1>2, <1>5, <1>7 DEF Shaped
<1>9. \A i \in DOMAIN ins :
        /\ new[i].witness = ins[i].witness
        /\ new[i].prevout = Outpoint(ins[i].prevout.txid, Cut(ins[i].prevout.index))
  BY <1>1 DEF Input, EncodeTxin
<1>. QED  BY <1>3, <1>5, <1>6, <1>8, <1>9

(* Either way, legacy or extended, both have the same encoding, and the     *)
(* same one of the two is in use: so they have the same identifiers.        *)
LEMMA SameEncoding ==
  ASSUME NEW H, NEW tx, Shaped(tx, H)
  PROVE  /\ AnyWitness(Sent(tx).ins) = AnyWitness(tx.ins)
         /\ Sent(tx).hash = tx.hash /\ Sent(tx).witnessHash = tx.witnessHash
<1>. DEFINE ins == tx.ins
            new == Sent(tx).ins
<1>1. /\ DOMAIN new = DOMAIN ins /\ DOMAIN ins = 1 .. Len(ins)
      /\ \A i \in DOMAIN ins :
           /\ ins[i] \in InputsOver(H)
           /\ new[i].witness = ins[i].witness
           /\ new[i].prevout = Outpoint(ins[i].prevout.txid, Cut(ins[i].prevout.index))
  BY SentInputs
<1>2. /\ Sent(tx).outs = tx.outs /\ Sent(tx) = Transaction(new, tx.outs)
      /\ tx = Transaction(ins, tx.outs)
  BY RoundTrip DEF Shaped
<1>3. AnyWitness(new) = AnyWitness(ins)
  BY <1>1 DEF AnyWitness
<1>4. \A i \in DOMAIN ins : EncodeTxin(new[i]) = EncodeTxin(ins[i])
  <2>. SUFFICES ASSUME NEW i \in DOMAIN ins
                PROVE  EncodeTxin(new[i]) = EncodeTxin(ins[i])
    OBVIOUS
  <2>1. ins[i].prevout.index \in Nat
    BY <1>1, InputFields
  <2>2. Cut(Cut(ins[i].prevout.index)) = Cut(ins[i].prevout.index)
    BY <2>1, CutOnce
  <2>3. new[i].prevout.txid = ins[i].prevout.txid
        /\ new[i].prevout.index = Cut(ins[i].prevout.index)
    BY <1>1, Fields
  <2>. QED  BY <2>2, <2>3 DEF EncodeTxin
<1>5. \A s \in BOOLEAN : EncodeTxData(new, tx.outs, s) = EncodeTxData(ins, tx.outs, s)
  <2>. SUFFICES ASSUME NEW s \in BOOLEAN
                PROVE  EncodeTxData(new, tx.outs, s) = EncodeTxData(ins, tx.outs, s)
    OBVIOUS
  <2>1. [i \in DOMAIN new |-> EncodeTxin(new[i])] = [i \in DOMAIN ins |-> EncodeTxin(ins[i])]
    BY <1>1, <1>4
  <2>2. [i \in DOMAIN new |-> new[i].witness] = [i \in DOMAIN ins |-> ins[i].witness]
    BY <1>1
  <2>. QED  BY <2>1, <2>2 DEF EncodeTxData
<1>6. AnyWitness(ins) \in BOOLEAN /\ FALSE \in BOOLEAN
  BY DEF AnyWitness
<1>7. /\ EncodeTxData(new, tx.outs, FALSE) = EncodeTxData(ins, tx.outs, FALSE)
      /\ EncodeTxData(new, tx.outs, AnyWitness(ins))
           = EncodeTxData(ins, tx.outs, AnyWitness(ins))
  BY <1>5, <1>6
<1>8. /\ Sent(tx).hash = Hash(EncodeTxData(new, tx.outs, FALSE))
      /\ Sent(tx).witnessHash = Hash(EncodeTxData(new, tx.outs, AnyWitness(new)))
      /\ tx.hash = Hash(EncodeTxData(ins, tx.outs, FALSE))
      /\ tx.witnessHash = Hash(EncodeTxData(ins, tx.outs, AnyWitness(ins)))
  BY <1>2, Fields
<1>. QED  BY <1>3, <1>7, <1>8

(* No transaction with inputs is a moved-from or a default object.          *)
LEMMA ShapedIsLive ==
  ASSUME NEW H, NEW tx, Shaped(tx, H)
  PROVE  tx # Moved /\ tx # DefaultTransaction
BY DEF Shaped, Moved, DefaultTransaction

(* It is the same object exactly if no index had to be cut.                 *)
LEMMA SameIfFits ==
  ASSUME NEW H, NEW tx, Shaped(tx, H)
  PROVE  Sent(tx) = tx <=> Fits(tx)
<1>. DEFINE ins == tx.ins
            new == Sent(tx).ins
<1>1. /\ DOMAIN new = DOMAIN ins /\ DOMAIN ins = 1 .. Len(ins)
      /\ \A i \in DOMAIN ins :
           /\ ins[i] \in InputsOver(H)
           /\ new[i].witness = ins[i].witness
           /\ new[i].prevout = Outpoint(ins[i].prevout.txid, Cut(ins[i].prevout.index))
      /\ Shaped(Sent(tx), H)
  BY SentInputs
<1>2. ASSUME Sent(tx) = tx PROVE Fits(tx)
  <2>. SUFFICES ASSUME NEW i \in DOMAIN ins
                PROVE  ins[i].prevout.index < W
    BY DEF Fits
  <2>1. ins[i].prevout.index \in Nat
    BY <1>1, InputFields
  <2>2. ins[i].prevout.index = Cut(ins[i].prevout.index)
    BY <1>1, <1>2, Fields
  <2>. QED  BY <2>1, <2>2, CutOnce
<1>3. ASSUME Fits(tx) PROVE Sent(tx) = tx
  <2>1. \A i \in DOMAIN ins : new[i] = ins[i]
    <3>. SUFFICES ASSUME NEW i \in DOMAIN ins
                  PROVE  new[i] = ins[i]
      OBVIOUS
    <3>1. /\ ins[i].prevout.index \in Nat
          /\ ins[i] = Input(ins[i].prevout, ins[i].witness)
          /\ ins[i].prevout = Outpoint(ins[i].prevout.txid, ins[i].prevout.index)
      BY <1>1, InputFields
    <3>2. Cut(ins[i].prevout.index) = ins[i].prevout.index
      BY <1>3, <3>1, CutOnce DEF Fits
    <3>3. new[i].prevout = ins[i].prevout /\ new[i].witness = ins[i].witness
      BY <1>1, <3>1, <3>2
    <3>4. new \in Seq(InputsOver(H)) /\ i \in 1 .. Len(new)
      BY <1>1, LenProperties DEF Shaped
    <3>5. new[i] = Input(new[i].prevout, new[i].witness)
      BY <3>4, ElementOfSeq, InputFields
    <3>. QED  BY <3>1, <3>3, <3>5
  <2>2. new = ins
    <3>1. new \in Seq(InputsOver(H)) /\ ins \in Seq(InputsOver(H))
      BY <1>1 DEF Shaped
    <3>2. new = [i \in DOMAIN new |-> new[i]] /\ ins = [i \in DOMAIN ins |-> ins[i]]
      BY <3>1, LenProperties
    <3>. QED  BY <1>1, <2>1, <3>2
  <2>3. Sent(tx) = Transaction(new, tx.outs) /\ tx = Transaction(ins, tx.outs)
    BY RoundTrip DEF Shaped
  <2>. QED  BY <2>2, <2>3
<1>. QED  BY <1>2, <1>3

(* The kernel is given the same transaction by the sender and the receiver. *)
LEMMA SameConverted ==
  ASSUME NEW H, NEW tx, Shaped(tx, H)
  PROVE  ConvertTx(Sent(tx)) = ConvertTx(tx)
<1>. DEFINE ins == tx.ins
            new == Sent(tx).ins
<1>1. /\ DOMAIN new = DOMAIN ins
      /\ \A i \in DOMAIN ins :
           /\ ins[i] \in InputsOver(H)
           /\ new[i].witness = ins[i].witness
           /\ new[i].prevout = Outpoint(ins[i].prevout.txid, Cut(ins[i].prevout.index))
      /\ Sent(tx).outs = tx.outs
  BY SentInputs, RoundTrip
<1>2. \A i \in DOMAIN ins : ConvertOutpoint(new[i].prevout) = ConvertOutpoint(ins[i].prevout)
  <2>. SUFFICES ASSUME NEW i \in DOMAIN ins
                PROVE  ConvertOutpoint(new[i].prevout) = ConvertOutpoint(ins[i].prevout)
    OBVIOUS
  <2>. DEFINE h == ins[i].prevout.txid
              n == ins[i].prevout.index
  <2>1. n \in Nat /\ ins[i].prevout = Outpoint(h, n)
    BY <1>1, InputFields
  <2>2. new[i].prevout = Outpoint(h, Cut(n)) /\ Cut(Cut(n)) = Cut(n)
    BY <1>1, <2>1, CutOnce
  <2>. HIDE DEF h, n
  <2>3. \A m : ConvertOutpoint(Outpoint(h, m)) = Outpoint(h, Cut(m))
    BY DEF ConvertOutpoint, Outpoint, Cut
  <2>. QED  BY <2>1, <2>2, <2>3
<1>. QED  BY <1>1, <1>2 DEF ConvertTx

(* Coinbase for the receiver, coinbase unless cut for the sender.           *)
LEMMA SameCoinbase ==
  ASSUME NEW H, NEW tx, Shaped(tx, H)
  PROVE  /\ IsCoinbase(tx) => IsCoinbase(Sent(tx))
         /\ IsCoinbase(Sent(tx)) /\ ~IsCoinbase(tx) => ~Fits(tx)
         /\ IsCoinbase(tx) => tx.hash.ins = <<Outpoint(ZeroHash, AllOnes)>>
<1>1. IsCoinbase(Sent(tx)) /\ ~IsCoinbase(tx) => ~Fits(tx)
  BY SameIfFits
<1>. SUFFICES ASSUME IsCoinbase(tx)
              PROVE  /\ IsCoinbase(Sent(tx))
                     /\ tx.hash.ins = <<Outpoint(ZeroHash, AllOnes)>>
  BY <1>1
<1>. DEFINE ins == tx.ins
            new == Sent(tx).ins
<1>2. /\ Len(ins) = 1
      /\ ins[1].prevout.txid = ZeroHash /\ ins[1].prevout.index = AllOnes
  BY DEF IsCoinbase
<1>3. Len(new) = 1 /\ DOMAIN ins = 1 .. 1
  BY <1>2, SentInputs
<1>4. 1 \in DOMAIN ins
  BY <1>3
<1>5. /\ Len(new) = 1 /\ Len(ins) = 1 /\ DOMAIN ins = 1 .. 1
      /\ ins[1].prevout.txid = ZeroHash /\ ins[1].prevout.index = AllOnes
      /\ new[1].prevout = Outpoint(ins[1].prevout.txid, Cut(ins[1].prevout.index))
  BY <1>2, <1>3, <1>4, SentInputs
<1>6. AllOnes \in Nat /\ Cut(AllOnes) = AllOnes
  BY VocabularyAssumption DEF AllOnes, Cut
<1>7. IsCoinbase(Sent(tx))
  BY <1>5, <1>6 DEF IsCoinbase, Outpoint
<1>8. tx.hash.ins = [i \in DOMAIN ins |-> EncodeTxin(ins[i])]
  BY DEF Shaped, Transaction, Hash, EncodeTxData
<1>9. EncodeTxin(ins[1]) = Outpoint(ZeroHash, AllOnes)
  BY <1>5, <1>6 DEF EncodeTxin
<1>10. tx.hash.ins = [i \in 1 .. 1 |-> Outpoint(ZeroHash, AllOnes)]
  BY <1>5, <1>8, <1>9
<1>11. [i \in 1 .. 1 |-> Outpoint(ZeroHash, AllOnes)] = <<Outpoint(ZeroHash, AllOnes)>>
  OBVIOUS
<1>. QED  BY <1>7, <1>10, <1>11

-----------------------------------------------------------------------------
(* The invariant *)

(* The index may come to know more transactions. *)
LEMMA MoreConfirmed ==
  ASSUME NEW H, NEW G, H \subseteq G, NEW tx, Shaped(tx, H)
  PROVE  Shaped(tx, G)
<1>1. InputsOver(H) \subseteq InputsOver(G)
  BY DEF InputsOver
<1>2. tx.ins \in Seq(InputsOver(G))
  <2>1. tx.ins \in Seq(InputsOver(H))
    BY DEF Shaped
  <2>2. \A i \in 1 .. Len(tx.ins) : tx.ins[i] \in InputsOver(G)
    BY <1>1, <2>1, ElementOfSeq
  <2>. QED  BY <2>1, <2>2, SeqDef, LenProperties
<1>. QED  BY <1>2 DEF Shaped

(* Sequences of one and of two. *)
LEMMA OneSeq ==
  ASSUME NEW S, NEW a \in S
  PROVE  <<a>> \in Seq(S) /\ <<a>> # << >>
OBVIOUS

LEMMA TwoSeq ==
  ASSUME NEW S, NEW a \in S, NEW b \in S
  PROVE  <<a, b>> \in Seq(S) /\ <<a, b>> # << >>
OBVIOUS

(* What a program makes has the shape. *)
LEMMA MadeShaped ==
  ASSUME NEW ins \in InputLists, NEW outs \in Amounts
  PROVE  Shaped(Transaction(ins, outs), confirmed)
<1>1. Index \subseteq Nat
  BY VocabularyAssumption DEF Index
<1>2. \A p \in Prevouts, w \in BOOLEAN : Input(p, w) \in InputsOver(confirmed)
  <2>. SUFFICES ASSUME NEW h \in {ZeroHash} \cup confirmed, NEW n \in Index,
                       NEW w \in BOOLEAN
                PROVE  Input(Outpoint(h, n), w) \in InputsOver(confirmed)
    BY DEF Prevouts
  <2>. QED  BY <1>1 DEF Outpoint, Input, InputsOver
<1>3. \A h \in confirmed, w \in BOOLEAN :
        Input(Outpoint(h, 0), w) \in InputsOver(confirmed)
  BY DEF Outpoint, Input, InputsOver
<1>4. ins \in Seq(InputsOver(confirmed)) /\ ins # << >>
  <2>1. ASSUME NEW p \in Prevouts, NEW w \in BOOLEAN, ins = <<Input(p, w)>>
        PROVE  ins \in Seq(InputsOver(confirmed)) /\ ins # << >>
    <3>1. Input(p, w) \in InputsOver(confirmed)
      BY <1>2
    <3>. QED  BY ONLY <2>1, <3>1, OneSeq
  <2>2. ASSUME NEW p \in Prevouts, NEW h \in confirmed, NEW w \in BOOLEAN,
               ins = <<Unwitnessed(p), Input(Outpoint(h, 0), w)>>
        PROVE  ins \in Seq(InputsOver(confirmed)) /\ ins # << >>
    <3>1. FALSE \in BOOLEAN
      OBVIOUS
    <3>2. /\ Unwitnessed(p) \in InputsOver(confirmed)
          /\ Input(Outpoint(h, 0), w) \in InputsOver(confirmed)
      BY <1>2, <1>3, <3>1 DEF Unwitnessed
    <3>. QED  BY ONLY <2>2, <3>2, TwoSeq
  <2>. QED  BY <2>1, <2>2 DEF InputLists
<1>5. outs \in Seq(Amount) /\ Len(outs) <= W
  BY VocabularyAssumption DEF Amount
<1>. QED  BY <1>4, <1>5, Fields DEF Shaped

(* An object with inputs that is not moved-from has the shape. *)
LEMMA MadeIsShaped ==
  ASSUME VocabularyInv, NEW v \in Var, Made(v)
  PROVE  Shaped(obj[v], confirmed)
<1>1. obj[v] # Moved /\ obj[v].ins # << >>
  BY DEF Made, Live
<1>2. DefaultTransaction.ins = << >>
  BY DEF DefaultTransaction
<1>. QED  BY <1>1, <1>2 DEF VocabularyInv, ObjectsShaped

(* Objects stay shaped when the one of v is replaced by one that is.        *)
LEMMA ReplaceShaped ==
  ASSUME ObjectsShaped, NEW v \in Var, NEW made, confirmed' = confirmed,
         made \in {Moved, DefaultTransaction} \/ Shaped(made, confirmed),
         obj' = [obj EXCEPT ![v] = made]
  PROVE  ObjectsShaped'
<1>1. DOMAIN obj = Var
  BY DEF ObjectsShaped
<1>2. \A u \in Var : obj'[u] = IF u = v THEN made ELSE obj[u]
  BY <1>1
<1>3. obj' = [u \in Var |-> obj'[u]]
  BY <1>1
<1>. QED  BY <1>2, <1>3 DEF ObjectsShaped

LEMMA KeysStay ==
  ASSUME KeysFit, coins' = coins
  PROVE  KeysFit'
BY DEF KeysFit

(* An object that takes the place of another leaves the index alone. *)
LEMMA Replaced ==
  ASSUME VocabularyInv, NEW v \in Var, NEW made, UNCHANGED <<coins, confirmed>>,
         made \in {Moved, DefaultTransaction} \/ Shaped(made, confirmed),
         obj' = [obj EXCEPT ![v] = made]
  PROVE  VocabularyInv'
BY ReplaceShaped, KeysStay DEF VocabularyInv

(* The coins of a transaction have its txid and their place for a key.      *)
LEMMA ConfirmKeepsInv ==
  ASSUME VocabularyInv, NEW v \in Var, Confirm(v)
  PROVE  VocabularyInv'
<1>. DEFINE tx == obj[v]
            new == {Outpoint(tx.hash, i - 1) : i \in DOMAIN tx.outs}
<1>1. Shaped(tx, confirmed)
  BY MadeIsShaped DEF Confirm, Made
<1>2. tx.outs \in Seq(Amount) /\ DOMAIN tx.outs = 1 .. Len(tx.outs)
      /\ Len(tx.outs) \in Nat /\ Len(tx.outs) <= W
  BY <1>1, LenProperties DEF Shaped
<1>3. /\ coins' = [p \in DOMAIN coins \cup new |->
                     IF p \in new THEN Coin(tx, p.index + 1) ELSE coins[p]]
      /\ obj' = obj /\ confirmed \subseteq confirmed'
  BY DEF Confirm
<1>4. ObjectsShaped'
  <2>1. \A u \in Var : Shaped(obj[u], confirmed) => Shaped(obj[u], confirmed')
    BY <1>3, MoreConfirmed
  <2>. QED  BY <1>3, <2>1 DEF VocabularyInv, ObjectsShaped
<1>5. KeysFit'
  <2>. SUFFICES ASSUME NEW p \in DOMAIN coins'
                PROVE  /\ p.index \in 0 .. W - 1
                       /\ coins'[p][2] => p.txid.ins = <<Outpoint(ZeroHash, AllOnes)>>
    BY DEF KeysFit
  <2>1. CASE p \in new
    <3>1. PICK i \in DOMAIN tx.outs : p = Outpoint(tx.hash, i - 1)
      BY <2>1
    <3>2. p.index = i - 1 /\ p.txid = tx.hash
      BY <3>1, Fields
    <3>3. p.index \in 0 .. W - 1
      BY <1>2, <3>2, VocabularyAssumption
    <3>4. coins'[p] = Coin(tx, p.index + 1)
      BY <1>3, <2>1
    <3>5. coins'[p][2] = IsCoinbase(tx)
      BY <3>4 DEF Coin
    <3>. QED  BY <1>1, <3>2, <3>3, <3>5, SameCoinbase
  <2>2. CASE p \notin new
    <3>1. p \in DOMAIN coins /\ coins'[p] = coins[p]
      BY <1>3, <2>2
    <3>. QED  BY <3>1 DEF VocabularyInv, KeysFit
  <2>. QED  BY <2>1, <2>2
<1>. QED  BY <1>4, <1>5 DEF VocabularyInv

THEOREM VocabularyInductive == Spec => []VocabularyInv
<1>1. Init => VocabularyInv
  BY DEF Init, VocabularyInv, ObjectsShaped, KeysFit
<1>2. VocabularyInv /\ [Next]_vars => VocabularyInv'
  <2>. SUFFICES ASSUME VocabularyInv, [Next]_vars
                PROVE  VocabularyInv'
    OBVIOUS
  <2>1. ASSUME NEW v \in Var, Make(v) PROVE VocabularyInv'
    <3>1. PICK ins \in InputLists, outs \in Amounts :
                 obj' = [obj EXCEPT ![v] = Transaction(ins, outs)]
      BY <2>1 DEF Make
    <3>2. Shaped(Transaction(ins, outs), confirmed)
      BY MadeShaped
    <3>3. UNCHANGED <<coins, confirmed>>
      BY <2>1 DEF Make
    <3>. HIDE DEF VocabularyInv
    <3>. DEFINE made == Transaction(ins, outs)
    <3>4. obj' = [obj EXCEPT ![v] = made] /\ Shaped(made, confirmed)
      BY <3>1, <3>2
    <3>. HIDE DEF made
    <3>. QED  BY <3>3, <3>4, Replaced
  <2>2. ASSUME NEW v \in Var, NEW u \in Var, Copy(v, u) PROVE VocabularyInv'
    <3>1. obj[u] \in {Moved, DefaultTransaction} \/ Shaped(obj[u], confirmed)
      BY DEF VocabularyInv, ObjectsShaped
    <3>. QED  BY <2>2, <3>1, Replaced DEF Copy
  <2>3. ASSUME NEW v \in Var, NEW u \in Var, Move(v, u) PROVE VocabularyInv'
    <3>1. obj[u] \in {Moved, DefaultTransaction} \/ Shaped(obj[u], confirmed)
      BY DEF VocabularyInv, ObjectsShaped
    <3>2. DOMAIN obj = Var /\ v # u /\ UNCHANGED <<coins, confirmed>>
          /\ obj' = [obj EXCEPT ![v] = obj[u], ![u] = Moved]
      BY <2>3 DEF Move, VocabularyInv, ObjectsShaped
    <3>3. \A w \in Var : obj'[w] = IF w = u THEN Moved ELSE IF w = v THEN obj[u] ELSE obj[w]
      BY <3>2
    <3>4. obj' = [w \in Var |-> obj'[w]]
      BY <3>2
    <3>5. ObjectsShaped'
      BY <3>1, <3>2, <3>3, <3>4 DEF VocabularyInv, ObjectsShaped
    <3>6. KeysFit'
      BY <3>2, KeysStay DEF VocabularyInv
    <3>. QED  BY <3>5, <3>6 DEF VocabularyInv
  <2>4. ASSUME NEW v \in Var, NEW u \in Var, Relay(v, u) PROVE VocabularyInv'
    <3>1. Shaped(obj[u], confirmed)
      BY <2>4, MadeIsShaped DEF Relay, Made
    <3>2. Shaped(Sent(obj[u]), confirmed)
      BY <3>1, SentInputs
    <3>3. obj' = [obj EXCEPT ![v] = Sent(obj[u])] /\ UNCHANGED <<coins, confirmed>>
      BY <2>4 DEF Relay, Sent
    <3>. QED  BY <3>2, <3>3, Replaced
  <2>5. CASE UNCHANGED vars
    BY <2>5 DEF vars, VocabularyInv, ObjectsShaped, KeysFit
  <2>. QED  BY <2>1, <2>2, <2>3, <2>4, <2>5, ConfirmKeepsInv DEF Next
<1>. QED  BY <1>1, <1>2, PTL DEF Spec

-----------------------------------------------------------------------------
(* What it promises *)

(* A receiver gets an equal object, the very same one if no index was cut   *)
(* (parse_transaction of what serialize wrote, operator==).                 *)
THEOREM ReceivesWhatWasSent == Spec => []ReceivedIsSent
<1>1. VocabularyInv => ReceivedIsSent
  <2>. SUFFICES ASSUME VocabularyInv, NEW v \in Var, Made(v)
                PROVE  /\ Equal(Received(v), obj[v])
                       /\ Received(v) = obj[v] <=> Fits(obj[v])
    BY DEF ReceivedIsSent
  <2>1. Shaped(obj[v], confirmed) /\ Received(v) = Sent(obj[v])
    BY MadeIsShaped DEF Received, Sent
  <2>2. obj[v] # Moved /\ Sent(obj[v]) # Moved
    BY <2>1, SentInputs, ShapedIsLive
  <2>3. Sent(obj[v]).witnessHash = obj[v].witnessHash
    BY <2>1, SameEncoding
  <2>4. Sent(obj[v]) = obj[v] <=> Fits(obj[v])
    BY <2>1, SameIfFits
  <2>. QED  BY <2>1, <2>2, <2>3, <2>4 DEF Equal
<1>. QED  BY <1>1, VocabularyInductive, PTL

(* A coin that the sender finds the receiver finds, and no other one unless *)
(* the index was cut (coin_index_ref::lookup, encode_outpoint).             *)
THEOREM SameCoinsForReceivers == Spec => []SameCoins
<1>1. VocabularyInv => SameCoins
  <2>. SUFFICES ASSUME VocabularyInv, NEW v \in Var, Made(v), NEW i \in DOMAIN obj[v].ins
                PROVE  LET p == obj[v].ins[i].prevout
                           q == Received(v).ins[i].prevout IN
                       /\ Lookup(p) # NoCoin => Lookup(q) = Lookup(p)
                       /\ Lookup(q) # Lookup(p) => p.index >= W
    BY DEF SameCoins
  <2>. DEFINE p == obj[v].ins[i].prevout
              q == Received(v).ins[i].prevout
  <2>1. Shaped(obj[v], confirmed) /\ Received(v) = Sent(obj[v])
    BY MadeIsShaped DEF Received, Sent
  <2>2. obj[v].ins[i] \in InputsOver(confirmed) /\ q = Outpoint(p.txid, Cut(p.index))
    <3>1. /\ obj[v].ins[i] \in InputsOver(confirmed)
          /\ Sent(obj[v]).ins[i].prevout
               = Outpoint(obj[v].ins[i].prevout.txid, Cut(obj[v].ins[i].prevout.index))
      <4>1. \A tx : Shaped(tx, confirmed) =>
              \A j \in DOMAIN tx.ins :
                /\ tx.ins[j] \in InputsOver(confirmed)
                /\ Sent(tx).ins[j].prevout
                     = Outpoint(tx.ins[j].prevout.txid, Cut(tx.ins[j].prevout.index))
        BY SentInputs
      <4>. QED  BY <2>1, <4>1
    <3>. QED  BY <2>1, <3>1
  <2>3. p = Outpoint(p.txid, p.index) /\ p.index \in Nat
    BY <2>2, InputFields
  <2>. HIDE DEF p, q
  <2>4. p.index < W => q = p
    BY <2>2, <2>3, CutOnce
  <2>5. Lookup(p) # NoCoin => p \in DOMAIN coins
    BY DEF Lookup
  <2>6. p \in DOMAIN coins => p.index < W
    BY <2>3, VocabularyAssumption DEF VocabularyInv, KeysFit
  <2>7. p.index >= W \/ p.index < W
    BY <2>3, VocabularyAssumption
  <2>8. /\ Lookup(p) # NoCoin => Lookup(q) = Lookup(p)
        /\ Lookup(q) # Lookup(p) => p.index >= W
    BY <2>4, <2>5, <2>6, <2>7
  <2>. QED  BY <2>8 DEF p, q
<1>. QED  BY <1>1, VocabularyInductive, PTL

(* All agree on what a coinbase is (is_coinbase, coin_index_ref::lookup).   *)
THEOREM CoinbaseAgreed == Spec => []CoinbaseForAll
<1>1. VocabularyInv => CoinbaseForAll
  <2>. SUFFICES ASSUME VocabularyInv
                PROVE  CoinbaseForAll
    OBVIOUS
  <2>1. ASSUME NEW v \in Var, Made(v)
        PROVE  /\ IsCoinbase(obj[v]) => IsCoinbase(Received(v))
               /\ IsCoinbase(Received(v)) /\ ~IsCoinbase(obj[v]) => ~Fits(obj[v])
    <3>1. Shaped(obj[v], confirmed) /\ Received(v) = Sent(obj[v])
      BY <2>1, MadeIsShaped DEF Received, Sent
    <3>. QED  BY <3>1, SameCoinbase
  <2>. QED  BY <2>1 DEF CoinbaseForAll, VocabularyInv, KeysFit
<1>. QED  BY <1>1, VocabularyInductive, PTL

(* The kernel is given, of an object, what it is given of its bytes         *)
(* (legacy::convert_tx after parse_transaction).                            *)
THEOREM KernelGetsTheWire == Spec => []KernelSeesTheWire
<1>1. VocabularyInv => KernelSeesTheWire
  <2>. SUFFICES ASSUME VocabularyInv, NEW v \in Var, Made(v)
                PROVE  ConvertTx(obj[v]) = ConvertTx(Received(v))
    BY DEF KernelSeesTheWire
  <2>1. Shaped(obj[v], confirmed) /\ Received(v) = Sent(obj[v])
    BY MadeIsShaped DEF Received, Sent
  <2>. QED  BY <2>1, SameConverted
<1>. QED  BY <1>1, VocabularyInductive, PTL

-----------------------------------------------------------------------------
(* Sizes *)

(* What the byte at place i counts for; one place beyond the longest number. *)
Place(i) == IF i = 9 THEN EightBytes ELSE Weight[i]

(* x is the number with these bytes at its first places, and no others.     *)
Digits(n, x_, bytes) ==
  /\ x_ < Place(n + 1)
  /\ \A i \in 1 .. n : (x_ \div Place(i)) % R = bytes[i + 1]

-----------------------------------------------------------------------------
(* Places *)

LEMMA RFacts == R \in Nat /\ R >= 4 /\ R > 0
BY CompactSizeAssumption

LEMMA TimesR == \A a \in Nat \ {0} : a * R \in Nat \ {0} /\ a * R > a
BY RFacts

LEMMA PlaceFacts ==
  /\ Place(1) = 1 /\ Place(2) = R /\ Place(3) = TwoBytes
  /\ Place(5) = FourBytes /\ Place(9) = EightBytes
  /\ \A i \in 1 .. 8 : Place(i) = Weight[i]
  /\ \A i \in 1 .. 8 : Place(i + 1) = Place(i) * R
<1>1. R \in Nat
  BY RFacts
<1>2. /\ Place(1) = 1 /\ Place(2) = R /\ Place(3) = TwoBytes /\ Place(4) = TwoBytes * R
      /\ Place(5) = FourBytes /\ Place(6) = FourBytes * R
      /\ Place(7) = FourBytes * TwoBytes /\ Place(8) = FourBytes * TwoBytes * R
      /\ Place(9) = EightBytes
  BY DEF Place, Weight
<1>3. TwoBytes = R * R /\ TwoBytes \in Nat
  BY <1>1 DEF TwoBytes
<1>4. FourBytes = (TwoBytes * R) * R /\ FourBytes \in Nat
  BY <1>1, <1>3 DEF FourBytes
<1>5. FourBytes * TwoBytes = (FourBytes * R) * R
  BY <1>1, <1>3, <1>4
<1>6. EightBytes = (FourBytes * TwoBytes * R) * R
  <2>1. FourBytes = TwoBytes * TwoBytes
    BY DEF FourBytes
  <2>2. EightBytes = FourBytes * (TwoBytes * TwoBytes)
    BY <2>1 DEF EightBytes
  <2>3. \A a, b \in Nat : a * (b * b) = (a * b) * b
    OBVIOUS
  <2>4. EightBytes = (FourBytes * TwoBytes) * TwoBytes
    BY <1>3, <1>4, <2>2, <2>3
  <2>5. \A a \in Nat : a * (R * R) = (a * R) * R
    BY <1>1
  <2>6. FourBytes * TwoBytes \in Nat
    BY <1>3, <1>4
  <2>. QED  BY <1>3, <2>4, <2>5, <2>6
<1>7. \A i \in 1 .. 8 : Place(i) = Weight[i]
  BY DEF Place
<1>8. \A i \in 1 .. 8 : Place(i + 1) = Place(i) * R
  <2>. SUFFICES ASSUME NEW i \in 1 .. 8
                PROVE  Place(i + 1) = Place(i) * R
    OBVIOUS
  <2>1. \/ i = 1 \/ i = 2 \/ i = 3 \/ i = 4 \/ i = 5 \/ i = 6 \/ i = 7 \/ i = 8
    OBVIOUS
  <2>2. R = 1 * R
    BY <1>1
  <2>. QED  BY <1>2, <1>3, <1>4, <1>5, <1>6, <2>1, <2>2
<1>. QED  BY <1>2, <1>7, <1>8

LEMMA PlacesPositive == \A i \in 1 .. 9 : Place(i) \in Nat \ {0}
<1>1. Place(1) \in Nat \ {0}
  BY PlaceFacts
<1>2. \A i \in 1 .. 8 : Place(i) \in Nat \ {0} => Place(i + 1) \in Nat \ {0}
  BY PlaceFacts, TimesR
<1>3. Place(2) \in Nat \ {0} /\ Place(3) \in Nat \ {0} /\ Place(4) \in Nat \ {0}
  BY <1>1, <1>2
<1>4. Place(5) \in Nat \ {0} /\ Place(6) \in Nat \ {0} /\ Place(7) \in Nat \ {0}
  BY <1>2, <1>3
<1>5. Place(8) \in Nat \ {0} /\ Place(9) \in Nat \ {0}
  BY <1>2, <1>4
<1>. QED  BY <1>1, <1>3, <1>4, <1>5

(* A later place is a multiple of R times an earlier one. *)
LEMMA LaterPlace ==
  ASSUME NEW i \in 1 .. 8, NEW j \in 1 .. 9, i < j
  PROVE  \E k \in Nat : Place(j) = (Place(i) * R) * k
<1>. DEFINE M(d) == i + d <= 9 => \E k \in Nat : Place(i + d) = (Place(i) * R) * k
<1>1. Place(i) * R \in Nat /\ R \in Nat
  BY PlacesPositive, RFacts
<1>2. M(1)
  <2>1. Place(i + 1) = (Place(i) * R) * 1
    BY <1>1, PlaceFacts
  <2>. QED  BY <2>1
<1>3. ASSUME NEW d \in 1 .. 7, M(d) PROVE M(d + 1)
  <2>. SUFFICES ASSUME i + (d + 1) <= 9
                PROVE  \E k \in Nat : Place(i + (d + 1)) = (Place(i) * R) * k
    OBVIOUS
  <2>1. PICK k \in Nat : Place(i + d) = (Place(i) * R) * k
    BY <1>3
  <2>2. i + d \in 1 .. 8 /\ i + (d + 1) = (i + d) + 1
    OBVIOUS
  <2>3. Place(i + (d + 1)) = Place(i + d) * R
    BY <2>2, PlaceFacts
  <2>4. \A a, b, c \in Nat : (a * b) * c = a * (b * c)
    OBVIOUS
  <2>5. Place(i + (d + 1)) = (Place(i) * R) * (k * R)
    BY <1>1, <2>1, <2>3, <2>4
  <2>6. k * R \in Nat
    BY <1>1
  <2>. QED  BY <2>5, <2>6
<1>. HIDE DEF M
<1>4. M(2) /\ M(3) /\ M(4)
  <2>1. M(1 + 1)
    BY <1>2, <1>3
  <2>2. M(2 + 1)
    BY <1>3, <2>1
  <2>3. M(3 + 1)
    BY <1>3, <2>2
  <2>. QED  BY <2>1, <2>2, <2>3
<1>5. M(5) /\ M(6) /\ M(7) /\ M(8)
  <2>1. M(4 + 1)
    BY <1>3, <1>4
  <2>2. M(5 + 1)
    BY <1>3, <2>1
  <2>3. M(6 + 1)
    BY <1>3, <2>2
  <2>4. M(7 + 1)
    BY <1>3, <2>3
  <2>. QED  BY <2>1, <2>2, <2>3, <2>4
<1>6. j - i \in 1 .. 8 /\ i + (j - i) = j
  OBVIOUS
<1>7. M(j - i)
  BY <1>2, <1>4, <1>5, <1>6
<1>. QED  BY <1>6, <1>7 DEF M

-----------------------------------------------------------------------------
(* Digits *)

LEMMA Quotient ==
  ASSUME NEW q \in Nat \ {0}, NEW a \in Nat, NEW r \in Nat, r < q
  PROVE  (q * a + r) \div q = a /\ (q * a + r) % q = r
OBVIOUS

LEMMA DivMod ==
  ASSUME NEW q \in Nat \ {0}, NEW n \in Nat
  PROVE  /\ n \div q \in Nat /\ n % q \in Nat /\ n % q < q
         /\ n = q * (n \div q) + (n % q)
OBVIOUS

(* A byte put behind a number at its place leaves the bytes before it.      *)
LEMMA NextDigit ==
  ASSUME NEW n \in 1 .. 8, NEW x_ \in Nat, x_ < Place(n), NEW b \in Byte
  PROVE  /\ x_ + b * Place(n) \in Nat
         /\ x_ + b * Place(n) < Place(n + 1)
         /\ ((x_ + b * Place(n)) \div Place(n)) % R = b
         /\ \A i \in 1 .. n - 1 :
              ((x_ + b * Place(n)) \div Place(i)) % R = (x_ \div Place(i)) % R
<1>. DEFINE q == Place(n)
            y == x_ + b * Place(n)
<1>1. q \in Nat \ {0} /\ b \in Nat /\ b <= R - 1 /\ R \in Nat \ {0} /\ Place(n + 1) = q * R
  BY PlacesPositive, PlaceFacts, RFacts DEF Byte
<1>2. y = q * b + x_ /\ y \in Nat
  <2>1. b * q = q * b /\ q * b \in Nat
    BY <1>1
  <2>. QED  BY <2>1
<1>3. y < Place(n + 1)
  <2>1. q * b <= q * (R - 1)
    BY <1>1
  <2>2. q * (R - 1) = q * R - q
    BY <1>1
  <2>3. q * b \in Nat /\ q * R \in Nat /\ x_ < q
    BY <1>1
  <2>. HIDE DEF q, y
  <2>. QED  BY <1>1, <1>2, <2>1, <2>2, <2>3
<1>4. (y \div q) % R = b
  <2>. HIDE DEF q, y
  <2>1. y \div q = b
    BY <1>1, <1>2, Quotient DEF q
  <2>2. b % R = b
    BY <1>1
  <2>. QED  BY <2>1, <2>2
<1>5. ASSUME NEW i \in 1 .. n - 1
      PROVE  (y \div Place(i)) % R = (x_ \div Place(i)) % R
  <2>. DEFINE p == Place(i)
              a == x_ \div p
              r == x_ % p
  <2>1. p \in Nat \ {0}
    BY PlacesPositive
  <2>2. PICK k \in Nat : q = (p * R) * k
    BY LaterPlace
  <2>3. a \in Nat /\ r \in Nat /\ r < p /\ x_ = p * a + r
    BY <2>1, DivMod
  <2>. HIDE DEF p, q, a, r, y
  <2>4. y = p * (a + R * (k * b)) + r
    <3>1. \A s, t, u, w \in Nat : ((s * t) * u) * w = s * (t * (u * w))
      OBVIOUS
    <3>2. q * b = p * (R * (k * b))
      BY <1>1, <2>1, <2>2, <3>1
    <3>3. k * b \in Nat /\ R * (k * b) \in Nat
      BY <1>1
    <3>4. p * (a + R * (k * b)) = p * a + p * (R * (k * b))
      BY <2>1, <2>3, <3>3
    <3>5. p * a \in Nat /\ p * (R * (k * b)) \in Nat
      BY <2>1, <2>3, <3>3
    <3>. QED  BY <1>2, <2>3, <3>2, <3>4, <3>5
  <2>5. k * b \in Nat /\ R * (k * b) \in Nat /\ a + R * (k * b) \in Nat
    BY <1>1, <2>3
  <2>6. y \div p = a + R * (k * b)
    BY <2>1, <2>3, <2>4, <2>5, Quotient
  <2>7. (a + R * (k * b)) % R = a % R
    <3>1. a = R * (a \div R) + (a % R) /\ a \div R \in Nat /\ a % R \in Nat /\ a % R < R
      BY <1>1, <2>3, DivMod
    <3>2. a + R * (k * b) = R * ((a \div R) + k * b) + (a % R)
      BY <1>1, <2>5, <3>1
    <3>3. (a \div R) + k * b \in Nat
      BY <2>5, <3>1
    <3>4. (R * ((a \div R) + k * b) + (a % R)) % R = a % R
      BY <1>1, <3>1, <3>3, Quotient
    <3>. QED  BY <3>2, <3>4
  <2>8. (y \div p) % R = a % R
    BY <2>6, <2>7
  <2>. QED  BY <2>8 DEF p, a
<1>. QED  BY <1>2, <1>3, <1>4, <1>5

(* The lower part of a number, one digit at a time. *)
LEMMA LowerPart ==
  ASSUME NEW q \in Nat \ {0}, NEW n \in Nat
  PROVE  n % (q * R) = q * ((n \div q) % R) + (n % q)
<1>. DEFINE a == n \div q
            r == n % q
            d == a % R
            c == a \div R
<1>1. R \in Nat \ {0} /\ a \in Nat /\ r \in Nat /\ r < q /\ n = q * a + r
  BY RFacts, DivMod
<1>2. a = R * c + d /\ c \in Nat /\ d \in Nat /\ d < R
  BY <1>1, DivMod
<1>. HIDE DEF a, r, c, d
<1>3. n = (q * R) * c + (q * d + r)
  <2>1. q * (R * c + d) = (q * R) * c + q * d
    BY <1>1, <1>2
  <2>2. q * d \in Nat /\ (q * R) * c \in Nat
    BY <1>1, <1>2
  <2>. QED  BY <1>1, <1>2, <2>1, <2>2
<1>4. q * d + r \in Nat /\ q * d + r < q * R
  <2>1. q * d <= q * (R - 1)
    BY <1>1, <1>2
  <2>2. q * (R - 1) = q * R - q
    BY <1>1
  <2>3. q * d \in Nat /\ q * R \in Nat
    BY <1>1, <1>2
  <2>. QED  BY <1>1, <2>1, <2>2, <2>3
<1>5. q * R \in Nat \ {0}
  BY <1>1, TimesR
<1>6. n % (q * R) = q * d + r
  BY <1>2, <1>3, <1>4, <1>5, Quotient
<1>. QED  BY <1>6 DEF a, r, d

(* Numbers with the same bytes are equal. *)
LEMMA SameDigits ==
  ASSUME NEW n \in {2, 4}, NEW a \in Nat, NEW b \in Nat,
         a < Place(n + 1), b < Place(n + 1),
         \A i \in 1 .. n : (a \div Place(i)) % R = (b \div Place(i)) % R
  PROVE  a = b
<1>. DEFINE Same(i) == a % Place(i) = b % Place(i)
<1>1. Same(1)
  <2>1. a % 1 = 0 /\ b % 1 = 0
    OBVIOUS
  <2>. QED  BY <2>1, PlaceFacts
<1>2. ASSUME NEW i \in 1 .. n, Same(i) PROVE Same(i + 1)
  <2>1. Place(i) \in Nat \ {0} /\ Place(i + 1) = Place(i) * R
    <3>1. i \in 1 .. 8 /\ i \in 1 .. 9
      OBVIOUS
    <3>. QED  BY <3>1, PlacesPositive, PlaceFacts
  <2>2. /\ a % Place(i + 1) = Place(i) * ((a \div Place(i)) % R) + (a % Place(i))
        /\ b % Place(i + 1) = Place(i) * ((b \div Place(i)) % R) + (b % Place(i))
    BY <2>1, LowerPart
  <2>. QED  BY <1>2, <2>2
<1>3. Same(n + 1)
  <2>. HIDE DEF Same
  <2>1. Same(1 + 1)
    BY <1>1, <1>2
  <2>2. Same(2 + 1)
    BY <1>2, <2>1
  <2>3. n = 4 => Same(3 + 1)
    BY <1>2, <2>2
  <2>4. n = 4 => Same(4 + 1)
    BY <1>2, <2>3
  <2>. QED  BY <2>2, <2>4
<1>4. Place(n + 1) \in Nat \ {0}
  BY PlacesPositive
<1>5. a % Place(n + 1) = a /\ b % Place(n + 1) = b
  BY <1>4
<1>. QED  BY <1>3, <1>5

-----------------------------------------------------------------------------
(* The invariant *)

Tags == {R - 3, R - 2, R - 1}
Behind == Len(read) - 1     \* the bytes read behind the tag

Types ==
  /\ read \in Seq(Byte) /\ x \in Nat /\ pc \in Pc /\ size \in Nat /\ buffer \in Nat

(* x is the number the bytes behind the tag make so far. *)
NumberRead ==
  /\ pc = "tag" => x = 0
  /\ pc \in {"number", "refused"} =>
       /\ read # << >> /\ Head(read) \in Tags
       /\ Behind <= Width(Head(read))
       /\ Digits(Behind, x, read)
  /\ pc = "refused" =>
       /\ Behind = Width(Head(read))
       /\ x \notin Lowest(Head(read)) .. Highest(Head(read))

(* A size that was returned is below 2^32, and has no third tag.            *)
SizeReturned ==
  /\ size < FourBytes /\ buffer <= size
  /\ size > 0 => Head(read) # R - 1
  /\ pc \in {"tag", "number", "refused"} => size = 0

CompactSizeInv == Types /\ NumberRead /\ SizeReturned /\ OneForm

-----------------------------------------------------------------------------

LEMMA TagFacts ==
  /\ Tags \subseteq Byte
  /\ \A t \in Tags : Width(t) \in {2, 4, 8}
  /\ Width(R - 3) = 2 /\ Width(R - 2) = 4
  /\ TwoBytes \in Nat /\ FourBytes \in Nat /\ R - 3 < TwoBytes /\ TwoBytes < FourBytes
  /\ MaxSize \in Int /\ MaxSize < FourBytes
<1>1. Tags \subseteq Byte
  BY RFacts DEF Tags, Byte
<1>2. \A t \in Tags : Width(t) \in {2, 4, 8}
  BY DEF Width
<1>3. Width(R - 3) = 2 /\ Width(R - 2) = 4
  BY RFacts DEF Width
<1>4. TwoBytes \in Nat \ {0} /\ R < TwoBytes
  BY RFacts, TimesR DEF TwoBytes
<1>5. FourBytes \in Nat /\ TwoBytes < FourBytes
  <2>1. FourBytes = (TwoBytes * R) * R
    BY <1>4, RFacts DEF FourBytes, TwoBytes
  <2>2. TwoBytes * R \in Nat \ {0} /\ TwoBytes < TwoBytes * R
    BY <1>4, TimesR
  <2>3. (TwoBytes * R) * R \in Nat \ {0} /\ TwoBytes * R < (TwoBytes * R) * R
    BY <2>2, TimesR
  <2>. QED  BY <1>4, <2>1, <2>2, <2>3
<1>6. MaxSize \in Int /\ MaxSize < FourBytes
  BY <1>5, CompactSizeAssumption
<1>. QED  BY <1>1, <1>2, <1>3, <1>4, <1>5, <1>6, RFacts

(* What encode_size writes, by its bytes. *)
LEMMA EncodeSizeIs ==
  ASSUME NEW v \in Nat, v < FourBytes, R - 3 <= v
  PROVE  LET t == TagFor(v) IN
         /\ t \in {R - 3, R - 2} /\ Width(t) \in {2, 4}
         /\ v < Place(Width(t) + 1)
         /\ EncodeSize(v) \in Seq(Nat)
         /\ Len(EncodeSize(v)) = Width(t) + 1
         /\ EncodeSize(v)[1] = t
         /\ \A i \in 1 .. Width(t) : EncodeSize(v)[i + 1] = (v \div Place(i)) % R
<1>. DEFINE t == TagFor(v)
            w == Width(t)
            digit(i) == (v \div Weight[i]) % R
            le == LittleEndian(v, w)
            one == <<t>>
<1>1. /\ t \in {R - 3, R - 2} /\ w \in {2, 4} /\ v < Place(w + 1) /\ t \in Nat
      /\ EncodeSize(v) = one \o le
  <2>1. ~(v < R - 3)
    BY RFacts
  <2>2. EncodeSize(v) = one \o le
    BY <2>1 DEF EncodeSize
  <2>3. R - 3 \in Nat /\ R - 2 \in Nat
    BY RFacts
  <2>4. CASE v < TwoBytes
    <3>1. t = R - 3
      BY <2>4 DEF TagFor
    <3>2. w = 2
      BY <3>1, TagFacts
    <3>3. w + 1 = 3
      BY <3>2
    <3>. QED  BY <2>2, <2>3, <2>4, <3>1, <3>2, <3>3, PlaceFacts
  <2>5. CASE ~(v < TwoBytes)
    <3>1. t = R - 2
      BY <2>5 DEF TagFor
    <3>2. w = 4
      BY <3>1, TagFacts
    <3>3. w + 1 = 5
      BY <3>2
    <3>. QED  BY <2>2, <2>3, <3>1, <3>2, <3>3, PlaceFacts
  <2>. QED  BY <2>4, <2>5
<1>. HIDE DEF t, w, one
<1>2. \A i \in 1 .. w : digit(i) \in Nat /\ digit(i) = (v \div Place(i)) % R
  <2>. SUFFICES ASSUME NEW i \in 1 .. w
                PROVE  digit(i) \in Nat /\ digit(i) = (v \div Place(i)) % R
    OBVIOUS
  <2>1. i \in 1 .. 8 /\ i \in 1 .. 9
    BY <1>1
  <2>2. Place(i) = Weight[i] /\ Place(i) \in Nat \ {0} /\ R \in Nat \ {0}
    BY <2>1, PlaceFacts, PlacesPositive, RFacts
  <2>3. v \div Place(i) \in Nat
    BY <2>2, DivMod
  <2>4. (v \div Place(i)) % R \in Nat
    BY <2>2, <2>3, DivMod
  <2>. QED  BY <2>2, <2>4
<1>3. le = [i \in 1 .. w |-> digit(i)]
  BY DEF LittleEndian
<1>. HIDE DEF digit, le
<1>4. le \in Seq(Nat)
  BY <1>1, <1>2, <1>3, IsASeq
<1>5. Len(le) = w
  <2>1. DOMAIN le = 1 .. w
    BY <1>3
  <2>2. Len(le) \in Nat /\ DOMAIN le = 1 .. Len(le)
    BY <1>4, LenProperties
  <2>. QED  BY <1>1, <2>1, <2>2
<1>6. one \in Seq(Nat) /\ Len(one) = 1 /\ one[1] = t
  BY <1>1 DEF one
<1>7. /\ one \o le \in Seq(Nat) /\ Len(one \o le) = w + 1
      /\ \A i \in 1 .. w + 1 : (one \o le)[i] = IF i <= 1 THEN one[i] ELSE le[i - 1]
  <2>1. w \in Nat /\ 1 + w = w + 1
    BY <1>1
  <2>2. /\ one \o le \in Seq(Nat) /\ Len(one \o le) = Len(one) + Len(le)
        /\ \A i \in 1 .. Len(one) + Len(le) :
             (one \o le)[i] = IF i <= Len(one) THEN one[i] ELSE le[i - Len(one)]
    BY <1>4, <1>6, ConcatProperties
  <2>. QED  BY <1>5, <1>6, <2>1, <2>2
<1>8. (one \o le)[1] = t
  BY <1>1, <1>6, <1>7
<1>9. \A i \in 1 .. w : (one \o le)[i + 1] = digit(i)
  <2>. SUFFICES ASSUME NEW i \in 1 .. w
                PROVE  (one \o le)[i + 1] = digit(i)
    OBVIOUS
  <2>1. i + 1 \in 1 .. w + 1 /\ ~(i + 1 <= 1) /\ (i + 1) - 1 = i
    BY <1>1
  <2>2. (one \o le)[i + 1] = le[i]
    BY <1>7, <2>1
  <2>. QED  BY <1>3, <2>2
<1>10. \A i \in 1 .. w : (one \o le)[i + 1] = (v \div Place(i)) % R
  BY <1>2, <1>9
<1>. QED  BY <1>1, <1>7, <1>8, <1>10 DEF t, w

(* A tag and the bytes of a number of its form are the encoding of the      *)
(* number, and of no other below 2^32.                                      *)
LEMMA OneEncoding ==
  ASSUME NEW bytes \in Seq(Byte), NEW n \in Nat, bytes # << >>,
         Head(bytes) \in Tags, Len(bytes) = Width(Head(bytes)) + 1,
         Digits(Width(Head(bytes)), n, bytes)
  PROVE  /\ n \in Lowest(Head(bytes)) .. Highest(Head(bytes)) =>
              n < FourBytes /\ Head(bytes) # R - 1 /\ bytes = EncodeSize(n)
         /\ n \notin Lowest(Head(bytes)) .. Highest(Head(bytes)) =>
              \A v \in 0 .. FourBytes - 1 : bytes # EncodeSize(v)
<1>. DEFINE t == Head(bytes)
            w == Width(t)
<1>1. /\ t = bytes[1] /\ t \in Tags /\ w \in {2, 4, 8} /\ Len(bytes) = w + 1
      /\ n < Place(w + 1) /\ \A i \in 1 .. w : (n \div Place(i)) % R = bytes[i + 1]
  <2>1. t = bytes[1]
    BY HeadTailProperties
  <2>2. w \in {2, 4, 8}
    BY TagFacts
  <2>. QED  BY <2>1, <2>2 DEF Digits
<1>2. t \in {R - 3, R - 2, R - 1} /\ R \in Nat /\ R >= 4
  BY <1>1, RFacts DEF Tags
<1>. HIDE DEF t, w
<1>3. ASSUME n \in Lowest(t) .. Highest(t)
      PROVE  n < FourBytes /\ t # R - 1 /\ bytes = EncodeSize(n)
  <2>1. t # R - 1
    <3>1. Lowest(R - 1) = FourBytes /\ Highest(R - 1) = MaxSize
      BY <1>2 DEF Lowest, Highest
    <3>. QED  BY <1>3, <3>1, TagFacts
  <2>2. n < FourBytes /\ R - 3 <= n /\ t = TagFor(n)
    <3>1. CASE t = R - 3
      <4>1. Lowest(t) = R - 3 /\ Highest(t) = TwoBytes - 1
        BY <1>2, <3>1 DEF Lowest, Highest
      <4>2. R - 3 <= n /\ n < TwoBytes
        BY <1>2, <1>3, <4>1, TagFacts
      <4>. QED  BY <3>1, <4>2, TagFacts DEF TagFor
    <3>2. CASE t = R - 2
      <4>1. Lowest(t) = TwoBytes /\ Highest(t) = FourBytes - 1
        BY <1>2, <3>2 DEF Lowest, Highest
      <4>2. TwoBytes <= n /\ n < FourBytes
        BY <1>3, <4>1, TagFacts
      <4>. QED  BY <1>2, <3>2, <4>2, TagFacts DEF TagFor
    <3>. QED  BY <1>2, <2>1, <3>1, <3>2
  <2>. DEFINE e == EncodeSize(n)
  <2>3. /\ e \in Seq(Nat) /\ Len(e) = w + 1 /\ e[1] = t /\ w \in {2, 4}
        /\ \A i \in 1 .. w : e[i + 1] = (n \div Place(i)) % R
    BY <2>2, EncodeSizeIs DEF w
  <2>. HIDE DEF e
  <2>4. \A i \in 1 .. w + 1 : e[i] = bytes[i]
    <3>. SUFFICES ASSUME NEW i \in 1 .. w + 1
                  PROVE  e[i] = bytes[i]
      OBVIOUS
    <3>1. CASE i = 1
      BY <1>1, <2>3, <3>1
    <3>2. CASE i # 1
      <4>1. i - 1 \in 1 .. w /\ (i - 1) + 1 = i
        BY <2>3, <3>2
      <4>2. e[(i - 1) + 1] = bytes[(i - 1) + 1]
        BY <1>1, <2>3, <4>1
      <4>. QED  BY <4>1, <4>2
    <3>. QED  BY <3>1, <3>2
  <2>5. e = bytes
    <3>1. bytes \in Seq(Nat)
      <4>1. Byte \subseteq Nat
        BY <1>2 DEF Byte
      <4>2. \A i \in 1 .. Len(bytes) : bytes[i] \in Nat
        BY <4>1, ElementOfSeq
      <4>. QED  BY <4>2, SeqDef, LenProperties
    <3>2. Len(e) = Len(bytes) /\ \A i \in 1 .. Len(e) : e[i] = bytes[i]
      BY <1>1, <2>3, <2>4
    <3>. QED  BY <2>3, <3>1, <3>2, SeqEqual
  <2>. QED  BY <2>1, <2>2, <2>5 DEF e
<1>4. ASSUME NEW v \in 0 .. FourBytes - 1, bytes = EncodeSize(v)
      PROVE  n \in Lowest(t) .. Highest(t)
  <2>1. v \in Nat /\ v < FourBytes
    BY TagFacts
  <2>2. R - 3 <= v
    <3>. SUFFICES ASSUME v < R - 3
                  PROVE  FALSE
      BY <1>2, <2>1
    <3>1. bytes = <<v>>
      BY <1>4 DEF EncodeSize
    <3>2. Len(bytes) = 1
      BY <3>1
    <3>3. w \in {2, 4, 8} /\ Len(bytes) = w + 1
      BY <1>1
    <3>4. \A k \in {2, 4, 8} : k + 1 # 1
      OBVIOUS
    <3>. QED  BY ONLY <3>2, <3>3, <3>4
  <2>3. /\ Len(bytes) = Width(TagFor(v)) + 1 /\ bytes[1] = TagFor(v)
        /\ TagFor(v) \in {R - 3, R - 2} /\ Width(TagFor(v)) \in {2, 4}
        /\ v < Place(Width(TagFor(v)) + 1)
        /\ \A i \in 1 .. Width(TagFor(v)) : bytes[i + 1] = (v \div Place(i)) % R
    BY <1>4, <2>1, <2>2, EncodeSizeIs
  <2>4. t = TagFor(v) /\ w = Width(TagFor(v)) /\ w \in {2, 4}
    BY <1>1, <2>3 DEF w
  <2>5. \A i \in 1 .. w : (n \div Place(i)) % R = (v \div Place(i)) % R
    BY <1>1, <2>3, <2>4
  <2>6. n = v
    BY <1>1, <2>1, <2>3, <2>4, <2>5, SameDigits
  <2>7. CASE v < TwoBytes
    <3>1. t = R - 3
      BY <2>4, <2>7 DEF TagFor
    <3>2. Lowest(t) = R - 3 /\ Highest(t) = TwoBytes - 1
      BY <1>2, <3>1 DEF Lowest, Highest
    <3>. QED  BY <1>2, <2>1, <2>2, <2>6, <2>7, <3>2, TagFacts
  <2>8. CASE ~(v < TwoBytes)
    <3>1. t = R - 2
      BY <2>1, <2>4, <2>8 DEF TagFor
    <3>2. Lowest(t) = TwoBytes /\ Highest(t) = FourBytes - 1
      BY <1>2, <3>1 DEF Lowest, Highest
    <3>. QED  BY <2>1, <2>6, <2>8, <3>2, TagFacts
  <2>. QED  BY <2>7, <2>8
<1>. QED  BY <1>3, <1>4 DEF t

-----------------------------------------------------------------------------
(* The steps *)

LEMMA InitSizeInv == SizeInit => CompactSizeInv
BY TagFacts DEF SizeInit, CompactSizeInv, Types, NumberRead, SizeReturned, OneForm, Pc

(* Fact of every state: what the tag of a number is. *)
LEMMA AtNumber ==
  ASSUME CompactSizeInv, pc = "number"
  PROVE  /\ read \in Seq(Byte) /\ read # << >> /\ x \in Nat
         /\ Head(read) \in Tags /\ Width(Head(read)) \in {2, 4, 8}
         /\ Len(read) \in 1 .. 9 /\ Behind \in Nat /\ Behind <= Width(Head(read))
         /\ Digits(Behind, x, read) /\ size = 0 /\ buffer = 0
<1>1. /\ read \in Seq(Byte) /\ read # << >> /\ x \in Nat /\ Head(read) \in Tags
      /\ Behind <= Width(Head(read)) /\ Digits(Behind, x, read)
      /\ size = 0 /\ buffer \in Nat /\ buffer <= size
  BY DEF CompactSizeInv, Types, NumberRead, SizeReturned
<1>2. Width(Head(read)) \in {2, 4, 8}
  BY <1>1, TagFacts
<1>3. Len(read) \in Nat /\ Len(read) # 0
  BY <1>1, LenProperties, EmptySeq
<1>. DEFINE w == Width(Head(read))
            n == Len(read)
<1>4. w \in {2, 4, 8} /\ n \in Nat /\ n # 0 /\ n - 1 <= w
  BY <1>1, <1>2, <1>3 DEF Behind
<1>. HIDE DEF w, n
<1>5. n \in 1 .. 9 /\ n - 1 \in Nat
  <2>1. w = 2 \/ w = 4 \/ w = 8
    BY <1>4
  <2>. QED  BY <1>4, <2>1
<1>6. Len(read) \in 1 .. 9 /\ Behind \in Nat
  BY <1>5 DEF n, Behind
<1>. QED  BY <1>1, <1>2, <1>6

LEMMA ReadTagStep ==
  ASSUME CompactSizeInv, ReadTag
  PROVE  CompactSizeInv'
<1>1. PICK tag \in Byte :
        /\ read' = <<tag>>
        /\ IF tag < R - 3 THEN size' = tag /\ pc' = "allocate"
                          ELSE pc' = "number" /\ UNCHANGED size
  BY DEF ReadTag
<1>2. /\ x = 0 /\ x' = 0 /\ size = 0 /\ buffer = 0 /\ buffer' = 0 /\ pc = "tag"
  BY DEF ReadTag, CompactSizeInv, Types, NumberRead, SizeReturned
<1>3. tag \in Nat /\ tag <= R - 1 /\ R \in Nat /\ R >= 4
  BY RFacts DEF Byte
<1>4. read' \in Seq(Byte) /\ read' # << >> /\ Head(read') = tag /\ Len(read') = 1
  BY <1>1
<1>5. CASE tag < R - 3
  <2>1. size' = tag /\ pc' = "allocate" /\ tag < FourBytes /\ tag # R - 1
    BY <1>1, <1>3, <1>5, TagFacts
  <2>2. EncodeSize(tag) = <<tag>>
    BY <1>5 DEF EncodeSize
  <2>. QED  BY <1>1, <1>2, <1>3, <1>4, <2>1, <2>2
            DEF CompactSizeInv, Types, NumberRead, SizeReturned, OneForm, Pc
<1>6. CASE ~(tag < R - 3)
  <2>1. size' = 0 /\ pc' = "number" /\ tag \in Tags
    BY <1>1, <1>2, <1>3, <1>6 DEF Tags
  <2>2. Digits(0, 0, read')
    BY PlaceFacts DEF Digits
  <2>3. Behind' = 0 /\ 0 <= Width(tag)
    BY <1>4, <2>1, TagFacts DEF Behind
  <2>4. NumberRead'
    BY <1>2, <1>4, <2>1, <2>2, <2>3 DEF NumberRead
  <2>5. SizeReturned'
    BY <1>2, <2>1, TagFacts DEF SizeReturned
  <2>. QED  BY <1>2, <1>4, <2>1, <2>4, <2>5 DEF CompactSizeInv, Types, OneForm, Pc
<1>. QED  BY <1>5, <1>6

LEMMA ReadNumberStep ==
  ASSUME CompactSizeInv, ReadNumber
  PROVE  CompactSizeInv'
<1>1. PICK b \in Byte : read' = Append(read, b) /\ x' = x + b * Weight[Len(read)]
  BY DEF ReadNumber
<1>2. /\ pc = "number" /\ pc' = "number" /\ size' = size /\ buffer' = buffer
      /\ Len(read) <= Width(Head(read))
  BY DEF ReadNumber
<1>. DEFINE n == Len(read)
<1>3. /\ read \in Seq(Byte) /\ read # << >> /\ x \in Nat
      /\ Head(read) \in Tags /\ Width(Head(read)) \in {2, 4, 8}
      /\ n \in 1 .. 8 /\ Digits(n - 1, x, read) /\ size = 0 /\ buffer = 0
  <2>1. /\ read \in Seq(Byte) /\ read # << >> /\ x \in Nat
        /\ Head(read) \in Tags /\ Width(Head(read)) \in {2, 4, 8}
        /\ n \in 1 .. 9 /\ Digits(n - 1, x, read) /\ size = 0 /\ buffer = 0
    BY <1>2, AtNumber DEF Behind
  <2>2. \A w \in {2, 4, 8}, k \in 1 .. 9 : k <= w => k \in 1 .. 8
    OBVIOUS
  <2>3. n <= Width(Head(read))
    BY <1>2
  <2>. QED  BY <2>1, <2>2, <2>3
<1>4. /\ read' \in Seq(Byte) /\ read' # << >> /\ Len(read') = n + 1
      /\ \A i \in 1 .. n : read'[i] = read[i]
      /\ read'[n + 1] = b /\ Head(read') = Head(read)
  BY <1>1, <1>3, AppendProperties, HeadTailAppend
<1>5. x' = x + b * Place(n)
  BY <1>1, <1>3, PlaceFacts
<1>6. x < Place(n) /\ \A i \in 1 .. n - 1 : (x \div Place(i)) % R = read[i + 1]
  <2>1. (n - 1) + 1 = n
    BY <1>3
  <2>. QED  BY <1>3, <2>1 DEF Digits
<1>7. /\ x' \in Nat /\ x' < Place(n + 1) /\ (x' \div Place(n)) % R = b
      /\ \A i \in 1 .. n - 1 : (x' \div Place(i)) % R = (x \div Place(i)) % R
  BY <1>3, <1>5, <1>6, NextDigit
<1>8. \A i \in 1 .. n : (x' \div Place(i)) % R = read'[i + 1]
  <2>. SUFFICES ASSUME NEW i \in 1 .. n
                PROVE  (x' \div Place(i)) % R = read'[i + 1]
    OBVIOUS
  <2>1. CASE i = n
    BY <1>4, <1>7, <2>1
  <2>2. CASE i # n
    <3>1. i \in 1 .. n - 1 /\ i + 1 \in 1 .. n
      BY <1>3, <2>2
    <3>. QED  BY <1>4, <1>6, <1>7, <3>1
  <2>. QED  BY <2>1, <2>2
<1>9. Digits(n, x', read')
  BY <1>7, <1>8 DEF Digits
<1>10. Behind' = n /\ n <= Width(Head(read'))
  BY <1>2, <1>3, <1>4 DEF Behind
<1>11. NumberRead'
  BY <1>2, <1>3, <1>4, <1>9, <1>10 DEF NumberRead
<1>12. SizeReturned'
  BY <1>2, <1>3, TagFacts DEF SizeReturned
<1>. QED  BY <1>2, <1>3, <1>4, <1>7, <1>11, <1>12 DEF CompactSizeInv, Types, OneForm, Pc

LEMMA CheckNumberStep ==
  ASSUME CompactSizeInv, CheckNumber
  PROVE  CompactSizeInv'
<1>. DEFINE t == Head(read)
            w == Width(t)
<1>1. /\ pc = "number" /\ Len(read) > w
      /\ read' = read /\ x' = x /\ buffer' = buffer
      /\ IF x \in Lowest(t) .. Highest(t)
           THEN size' = x /\ pc' = "allocate"
           ELSE pc' = "refused" /\ size' = size
  BY DEF CheckNumber
<1>2. /\ read \in Seq(Byte) /\ read # << >> /\ x \in Nat
      /\ t \in Tags /\ w \in {2, 4, 8}
      /\ Len(read) \in 1 .. 9 /\ Behind = Len(read) - 1 /\ Behind <= w
      /\ Digits(Behind, x, read) /\ size = 0 /\ buffer = 0
  BY <1>1, AtNumber DEF Behind
<1>3. Len(read) = w + 1 /\ Behind = w
  BY <1>1, <1>2
<1>4. Digits(w, x, read)
  BY <1>2, <1>3
<1>. HIDE DEF w
<1>5. CASE x \in Lowest(t) .. Highest(t)
  <2>1. size' = x /\ pc' = "allocate"
    BY <1>1, <1>5
  <2>2. x < FourBytes /\ t # R - 1 /\ read = EncodeSize(x)
    BY <1>2, <1>3, <1>4, <1>5, OneEncoding DEF w
  <2>3. SizeReturned'
    BY <1>1, <1>2, <2>1, <2>2 DEF SizeReturned
  <2>. QED  BY <1>1, <1>2, <2>1, <2>2, <2>3
            DEF CompactSizeInv, Types, NumberRead, OneForm, Pc
<1>6. CASE x \notin Lowest(t) .. Highest(t)
  <2>1. size' = 0 /\ pc' = "refused"
    BY <1>1, <1>2, <1>6
  <2>2. Behind' = w /\ Digits(Behind', x', read')
    BY <1>1, <1>2, <1>3, <1>4 DEF Behind
  <2>3. NumberRead'
    BY <1>1, <1>2, <1>3, <1>6, <2>1, <2>2 DEF NumberRead, w
  <2>4. SizeReturned'
    BY <1>1, <1>2, <2>1, TagFacts DEF SizeReturned
  <2>. QED  BY <1>1, <1>2, <2>1, <2>3, <2>4 DEF CompactSizeInv, Types, OneForm, Pc
<1>. QED  BY <1>5, <1>6

LEMMA ContentSteps ==
  ASSUME CompactSizeInv, Allocate \/ ReadContent \/ SourceEnds
  PROVE  CompactSizeInv'
<1>1. CASE Allocate
  BY <1>1 DEF Allocate, CompactSizeInv, Types, NumberRead, SizeReturned, OneForm, Pc
<1>2. CASE ReadContent
  BY <1>2 DEF ReadContent, CompactSizeInv, Types, NumberRead, SizeReturned, OneForm, Pc
<1>3. CASE SourceEnds
  BY <1>3 DEF SourceEnds, CompactSizeInv, Types, NumberRead, SizeReturned, OneForm, Pc
<1>. QED  BY <1>1, <1>2, <1>3

(* The invariant is inductive. *)
THEOREM SizesInductive == SizeSpec => []CompactSizeInv
<1>1. CompactSizeInv /\ [SizeNext]_sizeVars => CompactSizeInv'
  <2>1. CompactSizeInv /\ UNCHANGED sizeVars => CompactSizeInv'
    BY DEF sizeVars, CompactSizeInv, Types, NumberRead, SizeReturned, OneForm, Behind, Digits
  <2>. QED  BY <2>1, ReadTagStep, ReadNumberStep, CheckNumberStep, ContentSteps DEF SizeNext
<1>. QED  BY <1>1, InitSizeInv, PTL DEF SizeSpec

-----------------------------------------------------------------------------
(* What it promises *)

(* A size is accepted in one form only, that of encode_size (decode_size). *)
THEOREM AcceptsOneForm == SizeSpec => []OneForm
<1>1. CompactSizeInv => OneForm
  BY DEF CompactSizeInv
<1>. QED  BY <1>1, SizesInductive, PTL

(* decode_size refuses nothing encode_size writes for a size below 2^32.    *)
THEOREM RefusesNoSize == SizeSpec => []NothingLost
<1>1. CompactSizeInv => NothingLost
  <2>. SUFFICES ASSUME CompactSizeInv, pc = "refused"
                PROVE  \A v \in 0 .. FourBytes - 1 : read # EncodeSize(v)
    BY DEF NothingLost
  <2>1. /\ read \in Seq(Byte) /\ read # << >> /\ x \in Nat /\ Head(read) \in Tags
        /\ Behind = Width(Head(read)) /\ Digits(Behind, x, read)
        /\ x \notin Lowest(Head(read)) .. Highest(Head(read))
    BY DEF CompactSizeInv, Types, NumberRead
  <2>2. Len(read) = Width(Head(read)) + 1
    BY <2>1, LenProperties DEF Behind
  <2>. QED  BY <2>1, <2>2, OneEncoding
<1>. QED  BY <1>1, SizesInductive, PTL

(* decode_bytes never allocates 2^32 bytes or more for a promise.           *)
THEOREM AllocatesBelow == SizeSpec => []AllocatesLess
<1>1. CompactSizeInv => AllocatesLess
  BY TagFacts DEF CompactSizeInv, Types, SizeReturned, AllocatesLess
<1>. QED  BY <1>1, SizesInductive, PTL

=============================================================================
