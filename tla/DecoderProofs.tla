---------------------------- MODULE DecoderProofs ---------------------------
(***************************************************************************)
(* What Decoder promises, for inputs of any length over any alphabet:      *)
(* how encodings grow when an element is read, the invariant that relates  *)
(* what was read to what was made of it, and the theorems.                 *)
(***************************************************************************)
EXTENDS Decoder, SequenceFacts

-----------------------------------------------------------------------------
(* Sequences of symbols *)

LEMMA Cat ==
  ASSUME NEW a \in Symbols, NEW b \in Symbols
  PROVE  a \o b \in Symbols
BY ConcatProperties DEF Symbols

LEMMA CatCat ==
  ASSUME NEW a \in Symbols, NEW b \in Symbols, NEW c \in Symbols
  PROVE  (a \o b) \o c = a \o (b \o c)
BY ConcatAssociative DEF Symbols

LEMMA CatEmpty ==
  ASSUME NEW a \in Symbols
  PROVE  a \o << >> = a /\ << >> \o a = a
BY ConcatEmptySeq DEF Symbols

LEMMA EmptySymbols == << >> \in Symbols
BY DEF Symbols

LEMMA OneSymbol ==
  ASSUME NEW a \in Nat
  PROVE  <<a>> \in Symbols
BY DEF Symbols

LEMMA ZeroOne == <<0, 1>> = <<0>> \o <<1>>
<1>. DEFINE a == <<0>>
            b == <<1>>
            c == <<0, 1>>
<1>1. /\ a \in Seq(Nat) /\ b \in Seq(Nat) /\ c \in Seq(Nat)
      /\ Len(a) = 1 /\ Len(b) = 1 /\ Len(c) = 2
      /\ a[1] = 0 /\ b[1] = 1 /\ c[1] = 0 /\ c[2] = 1
  OBVIOUS
<1>. HIDE DEF a, b, c
<1>2. /\ a \o b \in Seq(Nat) /\ Len(a \o b) = Len(a) + Len(b)
      /\ \A i \in 1 .. Len(a) + Len(b) :
           (a \o b)[i] = IF i <= Len(a) THEN a[i] ELSE b[i - Len(a)]
  BY ONLY <1>1, ConcatProperties
<1>3. Len(a) + Len(b) = 2 /\ \A i \in 1 .. 2 : i = 1 \/ i = 2
  BY <1>1
<1>4. \A i \in 1 .. 2 : (a \o b)[i] = c[i]
  BY <1>1, <1>2, <1>3
<1>5. a \o b = c
  BY <1>1, <1>2, <1>3, <1>4, SeqEqual
<1>. QED  BY <1>5 DEF a, b, c

-----------------------------------------------------------------------------
(* Encodings *)

Stacks == Seq(Symbols)

InParts(ins) == [i \in DOMAIN ins |-> EncodeTxin(ins[i])]
OutParts(outs) == [i \in DOMAIN outs |-> EncodeTxout(outs[i])]
ItemParts(stack) == [i \in DOMAIN stack |-> EncodeBytes(stack[i])]
StackParts(items) == [i \in DOMAIN items |-> EncodeRange(ItemParts(items[i]))]

LEMMA EncodeBytesType ==
  ASSUME NEW s \in Symbols
  PROVE  EncodeBytes(s) \in Symbols
<1>1. Len(s) \in Nat
  BY LenProperties DEF Symbols
<1>. QED  BY <1>1, OneSymbol, Cat DEF EncodeBytes

LEMMA EncodeTxinType ==
  ASSUME NEW in \in Inputs
  PROVE  EncodeTxin(in) \in Symbols
<1>1. in.prevout \in Nat /\ in.script \in Symbols /\ in.sequence \in Nat
  BY DEF Inputs
<1>2. <<in.prevout>> \in Symbols /\ EncodeBytes(in.script) \in Symbols
      /\ <<in.sequence>> \in Symbols
  BY <1>1, OneSymbol, EncodeBytesType
<1>3. <<in.prevout>> \o EncodeBytes(in.script) \in Symbols
  BY <1>2, Cat
<1>. QED  BY <1>2, <1>3, Cat DEF EncodeTxin

LEMMA EncodeTxoutType ==
  ASSUME NEW out \in Outputs
  PROVE  EncodeTxout(out) \in Symbols
<1>1. out.value \in Nat /\ out.script \in Symbols
  BY DEF Outputs
<1>2. <<out.value>> \in Symbols /\ EncodeBytes(out.script) \in Symbols
  BY <1>1, OneSymbol, EncodeBytesType
<1>. QED  BY <1>2, Cat DEF EncodeTxout

LEMMA EncodeRangeType ==
  ASSUME NEW parts \in Seq(Symbols)
  PROVE  /\ FlattenSeq(parts) \in Symbols
         /\ EncodeRange(parts) \in Symbols
         /\ EncodeRange(parts) = <<Len(parts)>> \o FlattenSeq(parts)
         /\ <<Len(parts)>> \in Symbols
<1>1. Len(parts) \in Nat
  BY LenProperties
<1>2. FlattenSeq(parts) \in Symbols
  BY FlattenType DEF Symbols
<1>3. <<Len(parts)>> \in Symbols
  BY <1>1, OneSymbol
<1>. QED  BY <1>2, <1>3, Cat DEF EncodeRange

LEMMA InPartsType ==
  ASSUME NEW ins \in Seq(Inputs)
  PROVE  InParts(ins) \in Seq(Symbols) /\ Len(InParts(ins)) = Len(ins)
         /\ \A i \in 1 .. Len(ins) : InParts(ins)[i] = EncodeTxin(ins[i])
<1>1. Len(ins) \in Nat /\ DOMAIN ins = 1 .. Len(ins)
      /\ \A i \in 1 .. Len(ins) : ins[i] \in Inputs
  BY LenProperties, ElementOfSeq
<1>2. /\ InParts(ins) = [i \in 1 .. Len(ins) |-> InParts(ins)[i]]
      /\ \A i \in 1 .. Len(ins) : InParts(ins)[i] = EncodeTxin(ins[i])
  BY <1>1 DEF InParts
<1>3. \A i \in 1 .. Len(ins) : InParts(ins)[i] \in Symbols
  BY <1>1, <1>2, EncodeTxinType
<1>. QED  BY <1>1, <1>2, <1>3, MakeSeq

LEMMA OutPartsType ==
  ASSUME NEW outs \in Seq(Outputs)
  PROVE  OutParts(outs) \in Seq(Symbols) /\ Len(OutParts(outs)) = Len(outs)
         /\ \A i \in 1 .. Len(outs) : OutParts(outs)[i] = EncodeTxout(outs[i])
<1>1. Len(outs) \in Nat /\ DOMAIN outs = 1 .. Len(outs)
      /\ \A i \in 1 .. Len(outs) : outs[i] \in Outputs
  BY LenProperties, ElementOfSeq
<1>2. /\ OutParts(outs) = [i \in 1 .. Len(outs) |-> OutParts(outs)[i]]
      /\ \A i \in 1 .. Len(outs) : OutParts(outs)[i] = EncodeTxout(outs[i])
  BY <1>1 DEF OutParts
<1>3. \A i \in 1 .. Len(outs) : OutParts(outs)[i] \in Symbols
  BY <1>1, <1>2, EncodeTxoutType
<1>. QED  BY <1>1, <1>2, <1>3, MakeSeq

LEMMA ItemPartsType ==
  ASSUME NEW stack \in Stacks
  PROVE  ItemParts(stack) \in Seq(Symbols) /\ Len(ItemParts(stack)) = Len(stack)
         /\ \A i \in 1 .. Len(stack) : ItemParts(stack)[i] = EncodeBytes(stack[i])
<1>1. Len(stack) \in Nat /\ DOMAIN stack = 1 .. Len(stack)
      /\ \A i \in 1 .. Len(stack) : stack[i] \in Symbols
  BY LenProperties, ElementOfSeq DEF Stacks
<1>2. /\ ItemParts(stack) = [i \in 1 .. Len(stack) |-> ItemParts(stack)[i]]
      /\ \A i \in 1 .. Len(stack) : ItemParts(stack)[i] = EncodeBytes(stack[i])
  BY <1>1 DEF ItemParts
<1>3. \A i \in 1 .. Len(stack) : ItemParts(stack)[i] \in Symbols
  BY <1>1, <1>2, EncodeBytesType
<1>. QED  BY <1>1, <1>2, <1>3, MakeSeq

LEMMA StackPartsType ==
  ASSUME NEW items \in Seq(Stacks)
  PROVE  StackParts(items) \in Seq(Symbols) /\ Len(StackParts(items)) = Len(items)
         /\ \A i \in 1 .. Len(items) :
              StackParts(items)[i] = EncodeRange(ItemParts(items[i]))
<1>1. Len(items) \in Nat /\ DOMAIN items = 1 .. Len(items)
      /\ \A i \in 1 .. Len(items) : items[i] \in Stacks
  BY LenProperties, ElementOfSeq
<1>2. /\ StackParts(items) = [i \in 1 .. Len(items) |-> StackParts(items)[i]]
      /\ \A i \in 1 .. Len(items) : StackParts(items)[i] = EncodeRange(ItemParts(items[i]))
  BY <1>1 DEF StackParts
<1>3. \A i \in 1 .. Len(items) : StackParts(items)[i] \in Symbols
  BY <1>1, <1>2, ItemPartsType, EncodeRangeType
<1>. QED  BY <1>1, <1>2, <1>3, MakeSeq

-----------------------------------------------------------------------------
(* One more input, output, item, stack, transaction. *)

LEMMA InPartsGrow ==
  ASSUME NEW s \in Seq(Inputs), NEW x \in Inputs
  PROVE  FlattenSeq(InParts(Append(s, x))) = FlattenSeq(InParts(s)) \o EncodeTxin(x)
<1>. DEFINE t == Append(s, x)
            n == Len(s)
<1>1. /\ t \in Seq(Inputs) /\ Len(t) = n + 1 /\ n \in Nat
      /\ \A i \in 1 .. n : t[i] = s[i]
      /\ t[n + 1] = x
  BY AppendProperties, LenProperties
<1>. HIDE DEF t
<1>2. /\ InParts(s) \in Seq(Symbols) /\ Len(InParts(s)) = n
      /\ InParts(t) \in Seq(Symbols) /\ Len(InParts(t)) = n + 1
  BY <1>1, InPartsType
<1>3. \A i \in 1 .. n : InParts(t)[i] = InParts(s)[i]
  <2>. SUFFICES ASSUME NEW i \in 1 .. n
                PROVE  InParts(t)[i] = InParts(s)[i]
    OBVIOUS
  <2>1. i \in 1 .. Len(s) /\ i \in 1 .. Len(t)
    BY <1>1
  <2>. QED  BY <1>1, <2>1, InPartsType
<1>4. InParts(t)[n + 1] = EncodeTxin(x)
  <2>1. n + 1 \in 1 .. Len(t)
    BY <1>1
  <2>. QED  BY <1>1, <2>1, InPartsType
<1>5. FlattenSeq(InParts(t)) = FlattenSeq(InParts(s)) \o InParts(t)[n + 1]
  BY <1>2, <1>3, FlattenGrows DEF Symbols
<1>. QED  BY <1>4, <1>5 DEF t

LEMMA OutPartsGrow ==
  ASSUME NEW s \in Seq(Outputs), NEW x \in Outputs
  PROVE  FlattenSeq(OutParts(Append(s, x))) = FlattenSeq(OutParts(s)) \o EncodeTxout(x)
<1>. DEFINE t == Append(s, x)
            n == Len(s)
<1>1. /\ t \in Seq(Outputs) /\ Len(t) = n + 1 /\ n \in Nat
      /\ \A i \in 1 .. n : t[i] = s[i]
      /\ t[n + 1] = x
  BY AppendProperties, LenProperties
<1>. HIDE DEF t
<1>2. /\ OutParts(s) \in Seq(Symbols) /\ Len(OutParts(s)) = n
      /\ OutParts(t) \in Seq(Symbols) /\ Len(OutParts(t)) = n + 1
  BY <1>1, OutPartsType
<1>3. \A i \in 1 .. n : OutParts(t)[i] = OutParts(s)[i]
  <2>. SUFFICES ASSUME NEW i \in 1 .. n
                PROVE  OutParts(t)[i] = OutParts(s)[i]
    OBVIOUS
  <2>1. i \in 1 .. Len(s) /\ i \in 1 .. Len(t)
    BY <1>1
  <2>. QED  BY <1>1, <2>1, OutPartsType
<1>4. OutParts(t)[n + 1] = EncodeTxout(x)
  <2>1. n + 1 \in 1 .. Len(t)
    BY <1>1
  <2>. QED  BY <1>1, <2>1, OutPartsType
<1>5. FlattenSeq(OutParts(t)) = FlattenSeq(OutParts(s)) \o OutParts(t)[n + 1]
  BY <1>2, <1>3, FlattenGrows DEF Symbols
<1>. QED  BY <1>4, <1>5 DEF t

LEMMA ItemPartsGrow ==
  ASSUME NEW s \in Seq(Symbols), NEW x \in Symbols
  PROVE  FlattenSeq(ItemParts(Append(s, x))) = FlattenSeq(ItemParts(s)) \o EncodeBytes(x)
<1>. DEFINE t == Append(s, x)
            n == Len(s)
<1>1. /\ t \in Seq(Symbols) /\ Len(t) = n + 1 /\ n \in Nat
      /\ \A i \in 1 .. n : t[i] = s[i]
      /\ t[n + 1] = x
  BY AppendProperties, LenProperties
<1>. HIDE DEF t
<1>2. /\ ItemParts(s) \in Seq(Symbols) /\ Len(ItemParts(s)) = n
      /\ ItemParts(t) \in Seq(Symbols) /\ Len(ItemParts(t)) = n + 1
  BY <1>1, ItemPartsType DEF Stacks
<1>3. \A i \in 1 .. n : ItemParts(t)[i] = ItemParts(s)[i]
  <2>. SUFFICES ASSUME NEW i \in 1 .. n
                PROVE  ItemParts(t)[i] = ItemParts(s)[i]
    OBVIOUS
  <2>1. i \in 1 .. Len(s) /\ i \in 1 .. Len(t)
    BY <1>1
  <2>. QED  BY <1>1, <2>1, ItemPartsType DEF Stacks
<1>4. ItemParts(t)[n + 1] = EncodeBytes(x)
  <2>1. n + 1 \in 1 .. Len(t)
    BY <1>1
  <2>. QED  BY <1>1, <2>1, ItemPartsType DEF Stacks
<1>5. FlattenSeq(ItemParts(t)) = FlattenSeq(ItemParts(s)) \o ItemParts(t)[n + 1]
  BY <1>2, <1>3, FlattenGrows DEF Symbols
<1>. QED  BY <1>4, <1>5 DEF t

LEMMA StackPartsGrow ==
  ASSUME NEW s \in Seq(Stacks), NEW x \in Stacks
  PROVE  FlattenSeq(StackParts(Append(s, x))) = FlattenSeq(StackParts(s)) \o EncodeRange(ItemParts(x))
<1>. DEFINE t == Append(s, x)
            n == Len(s)
<1>1. /\ t \in Seq(Stacks) /\ Len(t) = n + 1 /\ n \in Nat
      /\ \A i \in 1 .. n : t[i] = s[i]
      /\ t[n + 1] = x
  BY AppendProperties, LenProperties
<1>. HIDE DEF t
<1>2. /\ StackParts(s) \in Seq(Symbols) /\ Len(StackParts(s)) = n
      /\ StackParts(t) \in Seq(Symbols) /\ Len(StackParts(t)) = n + 1
  BY <1>1, StackPartsType
<1>3. \A i \in 1 .. n : StackParts(t)[i] = StackParts(s)[i]
  <2>. SUFFICES ASSUME NEW i \in 1 .. n
                PROVE  StackParts(t)[i] = StackParts(s)[i]
    OBVIOUS
  <2>1. i \in 1 .. Len(s) /\ i \in 1 .. Len(t)
    BY <1>1
  <2>. QED  BY <1>1, <2>1, StackPartsType
<1>4. StackParts(t)[n + 1] = EncodeRange(ItemParts(x))
  <2>1. n + 1 \in 1 .. Len(t)
    BY <1>1
  <2>. QED  BY <1>1, <2>1, StackPartsType
<1>5. FlattenSeq(StackParts(t)) = FlattenSeq(StackParts(s)) \o StackParts(t)[n + 1]
  BY <1>2, <1>3, FlattenGrows DEF Symbols
<1>. QED  BY <1>4, <1>5 DEF t

(* Nothing is flattened to nothing. *)
LEMMA NoParts ==
  /\ InParts(<< >>) = << >> /\ OutParts(<< >>) = << >>
  /\ ItemParts(<< >>) = << >> /\ StackParts(<< >>) = << >>
BY DEF InParts, OutParts, ItemParts, StackParts

-----------------------------------------------------------------------------
(* Transactions *)

(* An encoding up to the inputs, the outputs, the witnesses. *)
UpToFlags(v, segwit) == <<v>> \o (IF segwit THEN <<0, 1>> ELSE << >>)
UpToInputs(v, ins, segwit) == UpToFlags(v, segwit) \o EncodeRange(InParts(ins))
UpToOutputs(v, ins, outs, segwit) ==
  UpToInputs(v, ins, segwit) \o EncodeRange(OutParts(outs))
Witnesses(ins) == [i \in DOMAIN ins |-> EncodeWitness(ins[i])]
UpToWitnesses(v, ins, outs, segwit) ==
  UpToOutputs(v, ins, outs, segwit)
    \o (IF segwit THEN FlattenSeq(Witnesses(ins)) ELSE << >>)

LEMMA EncodeTxDataIs ==
  ASSUME NEW v, NEW ins, NEW outs, NEW l, NEW segwit
  PROVE  EncodeTxData(v, ins, outs, l, segwit)
           = UpToWitnesses(v, ins, outs, segwit) \o <<l>>
BY DEF EncodeTxData, UpToWitnesses, UpToOutputs, UpToInputs, UpToFlags, Witnesses,
       InParts, OutParts

LEMMA WitnessesType ==
  ASSUME NEW ins \in Seq(Inputs)
  PROVE  Witnesses(ins) \in Seq(Symbols) /\ Len(Witnesses(ins)) = Len(ins)
<1>1. Len(ins) \in Nat /\ DOMAIN ins = 1 .. Len(ins)
      /\ \A i \in 1 .. Len(ins) : ins[i] \in Inputs
  BY LenProperties, ElementOfSeq
<1>2. /\ Witnesses(ins) = [i \in 1 .. Len(ins) |-> Witnesses(ins)[i]]
      /\ \A i \in 1 .. Len(ins) :
           Witnesses(ins)[i] = EncodeRange(ItemParts(ins[i].witness))
  BY <1>1 DEF Witnesses, EncodeWitness, ItemParts
<1>3. \A i \in 1 .. Len(ins) : ins[i].witness \in Stacks
  BY <1>1 DEF Inputs, Stacks
<1>4. \A i \in 1 .. Len(ins) : Witnesses(ins)[i] \in Symbols
  BY <1>2, <1>3, ItemPartsType, EncodeRangeType
<1>. QED  BY <1>1, <1>2, <1>4, MakeSeq

LEMMA UpToType ==
  ASSUME NEW v \in Nat, NEW ins \in Seq(Inputs), NEW outs \in Seq(Outputs),
         NEW segwit \in BOOLEAN
  PROVE  /\ <<v>> \in Symbols
         /\ UpToFlags(v, segwit) \in Symbols
         /\ UpToInputs(v, ins, segwit) \in Symbols
         /\ UpToOutputs(v, ins, outs, segwit) \in Symbols
         /\ UpToWitnesses(v, ins, outs, segwit) \in Symbols
<1>1. <<v>> \in Symbols /\ <<0, 1>> \in Symbols /\ << >> \in Symbols
  BY DEF Symbols
<1>2. UpToFlags(v, segwit) \in Symbols
  BY <1>1, Cat DEF UpToFlags
<1>3. EncodeRange(InParts(ins)) \in Symbols /\ EncodeRange(OutParts(outs)) \in Symbols
      /\ FlattenSeq(Witnesses(ins)) \in Symbols
  BY InPartsType, OutPartsType, WitnessesType, EncodeRangeType
<1>4. UpToInputs(v, ins, segwit) \in Symbols
  BY <1>2, <1>3, Cat DEF UpToInputs
<1>5. UpToOutputs(v, ins, outs, segwit) \in Symbols
  BY <1>3, <1>4, Cat DEF UpToOutputs
<1>6. UpToWitnesses(v, ins, outs, segwit) \in Symbols
  BY <1>1, <1>3, <1>5, Cat DEF UpToWitnesses
<1>. QED  BY <1>1, <1>2, <1>4, <1>5, <1>6

LEMMA EncodeTxDataType ==
  ASSUME NEW v \in Nat, NEW ins \in Seq(Inputs), NEW outs \in Seq(Outputs),
         NEW l \in Nat, NEW segwit \in BOOLEAN
  PROVE  EncodeTxData(v, ins, outs, l, segwit) \in Symbols
BY UpToType, EncodeTxDataIs, OneSymbol, Cat

LEMMA MakesMade ==
  ASSUME NEW v \in Nat, NEW ins \in Seq(Inputs), NEW outs \in Seq(Outputs), NEW l \in Nat
  PROVE  /\ Made(Transaction(v, ins, outs, l))
         /\ EncodeTx(Transaction(v, ins, outs, l))
              = EncodeTxData(v, ins, outs, l, AnyWitness(ins))
<1>. DEFINE x == Transaction(v, ins, outs, l)
<1>1. /\ x.version = v /\ x.ins = ins /\ x.outs = outs /\ x.locktime = l
      /\ x.isSegwit = AnyWitness(ins)
  BY DEF Transaction
<1>. HIDE DEF x
<1>2. Made(x)
  BY <1>1 DEF Made, x
<1>3. EncodeTx(x) = EncodeTxData(v, ins, outs, l, AnyWitness(ins))
  BY <1>1 DEF EncodeTx
<1>. QED  BY <1>2, <1>3 DEF x

LEMMA MadeFields ==
  ASSUME NEW x, Made(x)
  PROVE  /\ x.isSegwit = AnyWitness(x.ins) /\ x.isSegwit \in BOOLEAN
         /\ x.hash = Hash(EncodeTxData(x.version, x.ins, x.outs, x.locktime, FALSE))
         /\ x.witnessHash = Hash(EncodeTx(x))
         /\ EncodeTx(x) \in Symbols
<1>. DEFINE y == Transaction(x.version, x.ins, x.outs, x.locktime)
<1>1. x = y /\ x.version \in Nat /\ x.ins \in Seq(Inputs) /\ x.outs \in Seq(Outputs)
      /\ x.locktime \in Nat
  BY DEF Made
<1>2. /\ y.isSegwit = AnyWitness(x.ins)
      /\ y.hash = Hash(EncodeTxData(x.version, x.ins, x.outs, x.locktime, FALSE))
      /\ y.witnessHash
           = Hash(EncodeTxData(x.version, x.ins, x.outs, x.locktime, AnyWitness(x.ins)))
  BY DEF Transaction
<1>3. AnyWitness(x.ins) \in BOOLEAN
  BY DEF AnyWitness
<1>. HIDE DEF y
<1>4. /\ x.isSegwit = AnyWitness(x.ins) /\ x.isSegwit \in BOOLEAN
      /\ x.hash = Hash(EncodeTxData(x.version, x.ins, x.outs, x.locktime, FALSE))
      /\ x.witnessHash
           = Hash(EncodeTxData(x.version, x.ins, x.outs, x.locktime, AnyWitness(x.ins)))
  BY <1>1, <1>2, <1>3
<1>5. EncodeTx(x) = EncodeTxData(x.version, x.ins, x.outs, x.locktime, AnyWitness(x.ins))
  BY <1>4 DEF EncodeTx
<1>6. EncodeTx(x) \in Symbols
  BY <1>1, <1>3, <1>5, EncodeTxDataType
<1>. QED  BY <1>4, <1>5, <1>6

TxParts(list) == [i \in DOMAIN list |-> EncodeTx(list[i])]

LEMMA MadeType ==
  ASSUME NEW v \in Nat, NEW ins \in Seq(Inputs), NEW outs \in Seq(Outputs), NEW l \in Nat
  PROVE  Transaction(v, ins, outs, l) \in Transactions
<1>1. AnyWitness(ins) \in BOOLEAN /\ FALSE \in BOOLEAN
  BY DEF AnyWitness
<1>2. /\ EncodeTxData(v, ins, outs, l, FALSE) \in Symbols
      /\ EncodeTxData(v, ins, outs, l, AnyWitness(ins)) \in Symbols
  BY <1>1, EncodeTxDataType
<1>. QED  BY <1>1, <1>2 DEF Transaction, Transactions, Hash

LEMMA TxPartsType ==
  ASSUME NEW list, AllMade(list)
  PROVE  TxParts(list) \in Seq(Symbols) /\ Len(TxParts(list)) = Len(list)
         /\ \A i \in 1 .. Len(list) : TxParts(list)[i] = EncodeTx(list[i])
<1>1. Len(list) \in Nat /\ DOMAIN list = 1 .. Len(list)
      /\ \A i \in 1 .. Len(list) : Made(list[i])
  BY LenProperties DEF AllMade
<1>2. /\ TxParts(list) = [i \in 1 .. Len(list) |-> TxParts(list)[i]]
      /\ \A i \in 1 .. Len(list) : TxParts(list)[i] = EncodeTx(list[i])
  BY <1>1 DEF TxParts
<1>3. \A i \in 1 .. Len(list) : TxParts(list)[i] \in Symbols
  BY <1>1, <1>2, MadeFields
<1>. QED  BY <1>1, <1>2, <1>3, MakeSeq

LEMMA TxPartsGrow ==
  ASSUME NEW s, AllMade(s), NEW x \in Transactions, Made(x)
  PROVE  /\ AllMade(Append(s, x)) /\ Len(Append(s, x)) = Len(s) + 1
         /\ FlattenSeq(TxParts(Append(s, x))) = FlattenSeq(TxParts(s)) \o EncodeTx(x)
<1>. DEFINE t == Append(s, x)
            n == Len(s)
<1>1. /\ t \in Seq(Transactions) /\ Len(t) = n + 1 /\ n \in Nat
      /\ \A i \in 1 .. n : t[i] = s[i]
      /\ t[n + 1] = x
  BY AppendProperties, LenProperties DEF AllMade
<1>. HIDE DEF t
<1>2. AllMade(t)
  <2>. SUFFICES ASSUME NEW i \in 1 .. n + 1
                PROVE  Made(t[i])
    BY <1>1 DEF AllMade
  <2>1. i \in 1 .. n \/ i = n + 1
    BY <1>1
  <2>. QED  BY <1>1, <2>1 DEF AllMade
<1>3. /\ TxParts(s) \in Seq(Symbols) /\ Len(TxParts(s)) = n
      /\ TxParts(t) \in Seq(Symbols) /\ Len(TxParts(t)) = n + 1
  BY <1>1, <1>2, TxPartsType
<1>4. \A i \in 1 .. n : TxParts(t)[i] = TxParts(s)[i]
  <2>. SUFFICES ASSUME NEW i \in 1 .. n
                PROVE  TxParts(t)[i] = TxParts(s)[i]
    OBVIOUS
  <2>1. i \in 1 .. Len(s) /\ i \in 1 .. Len(t)
    BY <1>1
  <2>. QED  BY <1>1, <1>2, <2>1, TxPartsType
<1>5. TxParts(t)[n + 1] = EncodeTx(x)
  <2>1. n + 1 \in 1 .. Len(t)
    BY <1>1
  <2>. QED  BY <1>1, <1>2, <2>1, TxPartsType
<1>6. FlattenSeq(TxParts(t)) = FlattenSeq(TxParts(s)) \o TxParts(t)[n + 1]
  BY <1>3, <1>4, FlattenGrows DEF Symbols
<1>. QED  BY <1>1, <1>2, <1>5, <1>6 DEF t

LEMMA InFront ==
  ASSUME NEW a \in Symbols, NEW b \in Symbols, NEW i \in 1 .. Len(a)
  PROVE  (a \o b)[i] = a[i] /\ i \in 1 .. Len(a \o b)
<1>1. /\ Len(a) \in Nat /\ Len(b) \in Nat /\ Len(a \o b) = Len(a) + Len(b)
      /\ \A j \in 1 .. Len(a) + Len(b) :
           (a \o b)[j] = IF j <= Len(a) THEN a[j] ELSE b[j - Len(a)]
  BY ConcatProperties, LenProperties DEF Symbols
<1>2. i \in 1 .. Len(a) + Len(b) /\ i <= Len(a)
  BY <1>1
<1>. QED  BY <1>1, <1>2

-----------------------------------------------------------------------------
(* What has been read of a transaction, by what is read next: of its        *)
(* locals x, of the range r that is being filled, of the symbols t.         *)

Locals ==
  [version : Nat, ins : Seq(Inputs), outs : Seq(Outputs), segwit : BOOLEAN,
   items : Seq(Stacks)]
Ranges == [size : Nat, got : Nat, cap : Nat]

NoWitness(ins) == \A i \in DOMAIN ins : ins[i].witness = << >>
Outs(x) == UpToOutputs(x.version, x.ins, x.outs, x.segwit)

(* Before the inputs; all else is still as NoTx has it. *)
AtInCount(x, t) ==
  /\ x.ins = << >> /\ x.outs = << >> /\ x.items = << >>
  /\ t = UpToFlags(x.version, x.segwit)

AtFlags(x, t) ==
  /\ x.ins = << >> /\ x.outs = << >> /\ x.items = << >> /\ ~x.segwit
  /\ t = <<x.version>> \o <<0>>

AtIn(x, r, t) ==
  /\ x.outs = << >> /\ x.items = << >> /\ NoWitness(x.ins)
  /\ Len(x.ins) = r.got /\ r.got < r.size
  /\ t = UpToFlags(x.version, x.segwit) \o (<<r.size>> \o FlattenSeq(InParts(x.ins)))

AtOutCount(x, t) ==
  /\ x.outs = << >> /\ x.items = << >> /\ NoWitness(x.ins)
  /\ t = UpToInputs(x.version, x.ins, x.segwit)

AtOut(x, r, t) ==
  /\ x.items = << >> /\ NoWitness(x.ins)
  /\ Len(x.outs) = r.got /\ r.got < r.size
  /\ t = UpToInputs(x.version, x.ins, x.segwit)
          \o (<<r.size>> \o FlattenSeq(OutParts(x.outs)))

(* Every input so far has its stack, and more have to come. *)
AtWitCount(x, t) ==
  /\ x.segwit /\ NoWitness(x.ins) /\ Len(x.items) < Len(x.ins)
  /\ t = Outs(x) \o FlattenSeq(StackParts(x.items))

(* The last stack still grows. *)
AtItem(x, r, t) ==
  /\ x.segwit /\ NoWitness(x.ins) /\ r.got < r.size
  /\ \E done \in Seq(Stacks), cur \in Stacks :
       /\ x.items = Append(done, cur) /\ Len(done) < Len(x.ins) /\ Len(cur) = r.got
       /\ t = Outs(x) \o (FlattenSeq(StackParts(done))
                            \o (<<r.size>> \o FlattenSeq(ItemParts(cur))))

AtLocktime(x, t) ==
  /\ x.segwit = AnyWitness(x.ins)
  /\ t = UpToWitnesses(x.version, x.ins, x.outs, x.segwit)

Behind(a, b, c, d) == (a \o (b \o c)) \o d = a \o (b \o (c \o d))

LEMMA PutBehind ==
  ASSUME NEW a \in Symbols, NEW b \in Symbols, NEW c \in Symbols, NEW d \in Symbols
  PROVE  Behind(a, b, c, d)
<1>1. b \o c \in Symbols
  BY Cat
<1>2. (a \o (b \o c)) \o d = a \o ((b \o c) \o d)
  BY <1>1, CatCat, SMTT(30)
<1>3. (b \o c) \o d = b \o (c \o d)
  BY CatCat
<1>. QED  BY <1>2, <1>3 DEF Behind

(* A string with its size is what EncodeBytes writes. *)
LEMMA StringIs ==
  ASSUME NEW s \in Strings
  PROVE  s \in Symbols /\ Tail(s) \in Symbols /\ EncodeBytes(Tail(s)) = s
<1>0. PICK n \in Byte : s \in {<<n>> \o u : u \in [1 .. n -> Byte]}
  BY DEF Strings
<1>1. PICK u \in [1 .. n -> Byte] : s = <<n>> \o u
  BY <1>0
<1>2. n \in Nat /\ Byte \subseteq Nat
  BY DecoderAssumption
<1>3. u = [i \in 1 .. n |-> u[i]] /\ \A i \in 1 .. n : u[i] \in Nat
  BY <1>2
<1>4. u \in Seq(Nat) /\ Len(u) = n
  BY <1>2, <1>3, MakeSeq
<1>5. /\ s \in Seq(Nat) /\ Len(s) = n + 1
      /\ \A i \in 1 .. n + 1 : s[i] = IF i <= 1 THEN <<n>>[i] ELSE u[i - 1]
  <2>1. <<n>> \in Seq(Nat) /\ Len(<<n>>) = 1 /\ 1 + n = n + 1
    BY <1>2
  <2>2. /\ <<n>> \o u \in Seq(Nat) /\ Len(<<n>> \o u) = Len(<<n>>) + Len(u)
        /\ \A i \in 1 .. Len(<<n>>) + Len(u) :
             (<<n>> \o u)[i] = IF i <= Len(<<n>>) THEN <<n>>[i] ELSE u[i - Len(<<n>>)]
    BY <1>4, <2>1, ConcatProperties
  <2>. QED  BY <1>1, <1>4, <2>1, <2>2
<1>6. s # << >>
  BY <1>2, <1>5, EmptySeq
<1>7. /\ Tail(s) \in Seq(Nat) /\ Len(Tail(s)) = n
      /\ \A i \in 1 .. n : Tail(s)[i] = s[i + 1]
  BY <1>2, <1>5, <1>6, HeadTailProperties
<1>8. \A i \in 1 .. n : Tail(s)[i] = u[i]
  <2>. SUFFICES ASSUME NEW i \in 1 .. n
                PROVE  Tail(s)[i] = u[i]
    OBVIOUS
  <2>1. i + 1 \in 1 .. n + 1 /\ ~(i + 1 <= 1) /\ (i + 1) - 1 = i
    BY <1>2
  <2>. QED  BY <1>5, <1>7, <2>1
<1>9. Tail(s) = u
  BY <1>4, <1>7, <1>8, SeqEqual
<1>. QED  BY <1>1, <1>4, <1>5, <1>7, <1>9 DEF EncodeBytes, Symbols

(* After the outputs of a transaction: decode_witness, or the lock time.    *)
LEMMA OutputsDone ==
  ASSUME NEW x \in Locals, NEW t, x.items = << >>, NoWitness(x.ins), t = Outs(x)
  PROVE  /\ ~x.segwit => AtLocktime(x, t)
         /\ x.segwit /\ x.ins # << >> => AtWitCount(x, t)
<1>1. /\ x.version \in Nat /\ x.ins \in Seq(Inputs) /\ x.outs \in Seq(Outputs)
      /\ x.segwit \in BOOLEAN
  BY DEF Locals
<1>2. Outs(x) \in Symbols
  BY <1>1, UpToType DEF Outs
<1>3. Outs(x) \o << >> = Outs(x)
  BY <1>2, CatEmpty
<1>4. ASSUME ~x.segwit PROVE AtLocktime(x, t)
  <2>1. AnyWitness(x.ins) = FALSE
    BY DEF NoWitness, AnyWitness, HasWitness
  <2>2. x.segwit = FALSE
    BY <1>1, <1>4
  <2>3. UpToWitnesses(x.version, x.ins, x.outs, x.segwit) = Outs(x) \o << >>
    BY <1>4 DEF UpToWitnesses, Outs
  <2>. QED  BY <1>3, <2>1, <2>2, <2>3 DEF AtLocktime
<1>5. ASSUME x.segwit, x.ins # << >> PROVE AtWitCount(x, t)
  <2>1. Len(x.ins) \in Nat /\ Len(x.ins) # 0 /\ Len(x.items) = 0
    BY <1>1, <1>5, LenProperties, EmptySeq
  <2>2. FlattenSeq(StackParts(x.items)) = << >>
    BY NoParts, FlattenEmpty
  <2>3. t = Outs(x) \o FlattenSeq(StackParts(x.items))
    BY <1>3, <2>2
  <2>. QED  BY <1>5, <2>1, <2>3 DEF AtWitCount
<1>. QED  BY <1>4, <1>5

LEMMA WithWitnessIs ==
  ASSUME NEW ins \in Seq(Inputs), NEW items \in Seq(Stacks), Len(items) = Len(ins)
  PROVE  /\ WithWitness(ins, items) \in Seq(Inputs)
         /\ InParts(WithWitness(ins, items)) = InParts(ins)
         /\ Witnesses(WithWitness(ins, items)) = StackParts(items)
<1>. DEFINE new == WithWitness(ins, items)
            n == Len(ins)
            with(i) == [ins[i] EXCEPT !.witness = items[i]]
<1>1. /\ n \in Nat /\ DOMAIN ins = 1 .. n /\ DOMAIN items = 1 .. n
      /\ \A i \in 1 .. n : ins[i] \in Inputs /\ items[i] \in Stacks
  BY LenProperties, ElementOfSeq
<1>2. new = [i \in 1 .. n |-> with(i)]
  BY <1>1 DEF WithWitness
<1>3. \A i \in 1 .. n : /\ with(i) \in Inputs
                        /\ with(i).witness = items[i]
                        /\ EncodeTxin(with(i)) = EncodeTxin(ins[i])
  <2>. SUFFICES ASSUME NEW i \in 1 .. n
                PROVE  /\ with(i) \in Inputs
                       /\ with(i).witness = items[i]
                       /\ EncodeTxin(with(i)) = EncodeTxin(ins[i])
    OBVIOUS
  <2>1. ins[i] \in Inputs /\ items[i] \in Seq(Symbols)
    BY <1>1 DEF Stacks
  <2>2. /\ with(i) \in Inputs /\ with(i).witness = items[i]
        /\ with(i).prevout = ins[i].prevout /\ with(i).script = ins[i].script
        /\ with(i).sequence = ins[i].sequence
    BY <2>1 DEF Inputs
  <2>. HIDE DEF with
  <2>. QED  BY <2>2 DEF EncodeTxin
<1>. HIDE DEF with
<1>4. \A i \in 1 .. n : new[i] = with(i)
  BY <1>2
<1>5. DOMAIN new = 1 .. n /\ new = [i \in 1 .. n |-> new[i]]
  BY <1>2
<1>. HIDE DEF new
<1>6. new \in Seq(Inputs)
  BY <1>1, <1>3, <1>4, <1>5, MakeSeq
<1>7. InParts(new) = InParts(ins)
  BY <1>1, <1>3, <1>4, <1>5 DEF InParts
<1>8. \A i \in 1 .. n : EncodeWitness(new[i]) = EncodeRange(ItemParts(items[i]))
  BY <1>3, <1>4 DEF EncodeWitness, ItemParts
<1>9. Witnesses(new) = StackParts(items)
  BY <1>1, <1>5, <1>8 DEF Witnesses, StackParts
<1>. QED  BY <1>6, <1>7, <1>9 DEF new

(* A stack is complete: the next input's, or the lock time.                 *)
LEMMA StackDone ==
  ASSUME NEW x \in Locals, NEW t, x.segwit, NoWitness(x.ins),
         NEW items \in Seq(Stacks), Len(items) <= Len(x.ins),
         t = Outs(x) \o FlattenSeq(StackParts(items))
  PROVE  LET more == [x EXCEPT !.items = items]
             last == [x EXCEPT !.ins = WithWitness(@, items), !.items = << >>] IN
         /\ Len(items) < Len(x.ins) => more \in Locals /\ AtWitCount(more, t)
         /\ ~(Len(items) < Len(x.ins)) =>
              /\ last \in Locals
              /\ AnyWitness(last.ins) => AtLocktime(last, t)
<1>. DEFINE more == [x EXCEPT !.items = items]
            last == [x EXCEPT !.ins = WithWitness(@, items), !.items = << >>]
<1>1. /\ x.version \in Nat /\ x.ins \in Seq(Inputs) /\ x.outs \in Seq(Outputs)
      /\ x.segwit \in BOOLEAN
  BY DEF Locals
<1>2. /\ more \in Locals /\ more.version = x.version /\ more.ins = x.ins
      /\ more.outs = x.outs /\ more.segwit = x.segwit /\ more.items = items
  BY DEF Locals
<1>3. Len(items) < Len(x.ins) => AtWitCount(more, t)
  <2>. HIDE DEF more
  <2>1. Outs(more) = Outs(x)
    BY <1>2 DEF Outs
  <2>. QED  BY <1>2, <2>1 DEF AtWitCount
<1>4. ASSUME ~(Len(items) < Len(x.ins))
      PROVE  last \in Locals /\ (AnyWitness(last.ins) => AtLocktime(last, t))
  <2>. DEFINE new == WithWitness(x.ins, items)
  <2>1. Len(items) = Len(x.ins)
    <3>1. Len(items) \in Nat /\ Len(x.ins) \in Nat
      BY <1>1, LenProperties
    <3>. QED  BY <1>4, <3>1
  <2>2. /\ new \in Seq(Inputs) /\ InParts(new) = InParts(x.ins)
        /\ Witnesses(new) = StackParts(items)
    BY <1>1, <2>1, WithWitnessIs
  <2>. HIDE DEF new
  <2>3. << >> \in Seq(Stacks)
    OBVIOUS
  <2>4. /\ last \in Locals /\ last.version = x.version /\ last.ins = new
        /\ last.outs = x.outs /\ last.segwit = x.segwit
    <3>1. last = [x EXCEPT !.ins = new, !.items = << >>]
      BY DEF new
    <3>. HIDE DEF last
    <3>. QED  BY <2>2, <2>3, <3>1 DEF Locals
  <2>. HIDE DEF last
  <2>5. UpToOutputs(x.version, new, x.outs, x.segwit) = Outs(x)
    BY <2>2 DEF UpToOutputs, UpToInputs, Outs
  <2>6. UpToWitnesses(x.version, new, x.outs, x.segwit) = t
    BY <2>2, <2>5 DEF UpToWitnesses
  <2>7. AnyWitness(new) => x.segwit = AnyWitness(new)
    BY <1>1 DEF AnyWitness
  <2>. QED  BY <2>4, <2>6, <2>7 DEF AtLocktime
<1>. QED  BY <1>2, <1>3, <1>4

-----------------------------------------------------------------------------
(* One field more *)

(* At most a batch more is reserved than is there. *)
Complete(r) == r.got = r.size

(* What a range has reserved; and while it is filled there is room for the  *)
(* next element.                                                            *)
WithinBatch(r) == r.got <= r.cap /\ r.cap <= r.got + Batch
Reserved(r) == WithinBatch(r) /\ (r.got < r.size => r.got < r.cap)

(* Push, of an element that was read without a failure. *)
Pushed(r) ==
  LET more == [r EXCEPT !.got = @ + 1] IN
  IF more.got < r.size /\ more.got = r.cap
    THEN [more EXCEPT !.cap = Smaller(r.size, more.got + Batch)]
    ELSE more

LEMMA NewRangeFacts ==
  ASSUME NEW n \in Nat
  PROVE  /\ NewRange(n) \in Ranges /\ Reserved(NewRange(n))
         /\ NewRange(n).size = n /\ NewRange(n).got = 0
BY DecoderAssumption DEF NewRange, Ranges, Reserved, WithinBatch, Smaller

LEMMA PushFacts ==
  ASSUME NEW r \in Ranges, r.got < r.size, Reserved(r)
  PROVE  /\ Pushed(r) \in Ranges /\ Reserved(Pushed(r))
         /\ Pushed(r).size = r.size /\ Pushed(r).got = r.got + 1
         /\ Complete(Pushed(r)) \/ Pushed(r).got < Pushed(r).size
<1>. DEFINE cap == IF r.got + 1 < r.size /\ r.got + 1 = r.cap
                     THEN Smaller(r.size, r.got + 1 + Batch) ELSE r.cap
            g == r.got + 1
<1>1. /\ r.size \in Nat /\ r.got \in Nat /\ r.cap \in Nat /\ Batch \in Nat \ {0}
      /\ r.got < r.cap /\ r.cap <= r.got + Batch
  BY DecoderAssumption DEF Ranges, Reserved, WithinBatch
<1>2. Pushed(r) = [r EXCEPT !.got = g, !.cap = cap]
  BY DEF Pushed, Ranges
<1>3. cap \in Nat /\ g <= cap /\ cap <= g + Batch /\ (g < r.size => g < cap)
  BY <1>1 DEF Smaller
<1>4. g \in Nat /\ (g = r.size \/ g < r.size)
  BY <1>1
<1>. HIDE DEF cap, g
<1>5. /\ Pushed(r).size = r.size /\ Pushed(r).got = g /\ Pushed(r).cap = cap
      /\ Pushed(r) \in Ranges
  BY ONLY <1>2, <1>3, <1>4, r \in Ranges DEF Ranges
<1>. QED  BY <1>3, <1>4, <1>5 DEF Reserved, WithinBatch, Complete, g

(* Without a failure an element is pushed, and the loop ends by its count.  *)
LEMMA GoodPush ==
  ASSUME NEW r \in Ranges, r.got < r.size, Reserved(r), ~failed'
  PROVE  Push(r) = Pushed(r) /\ (GoesOn(Pushed(r)) <=> ~Complete(Pushed(r)))
<1>1. Push(r) = Pushed(r)
  BY DEF Push, Pushed, GoesOn, Ranges
<1>2. Pushed(r).got \in Nat /\ Pushed(r).size \in Nat
  BY PushFacts DEF Ranges
<1>. QED  BY <1>1, <1>2, PushFacts DEF GoesOn, Complete

(* With a failure the loop ends, and nothing is reserved any more.          *)
LEMMA LastPush ==
  ASSUME NEW r \in Ranges, failed', WithinBatch(r), r.got < r.cap
  PROVE  /\ Push(r) \in Ranges /\ WithinBatch(Push(r)) /\ Push(r).cap = r.cap
         /\ ~GoesOn(Push(r))
<1>1. Push(r) = [r EXCEPT !.got = @ + 1]
  BY DEF Push, GoesOn
<1>2. r.got \in Nat /\ r.cap \in Nat /\ Batch \in Nat
  BY DecoderAssumption DEF Ranges
<1>3. Push(r) \in Ranges /\ Push(r).got = r.got + 1 /\ Push(r).cap = r.cap
  BY <1>1, <1>2 DEF Ranges
<1>. QED  BY <1>2, <1>3 DEF WithinBatch, GoesOn

LEMMA InCountRead ==
  ASSUME NEW x \in Locals, NEW t \in Symbols, AtInCount(x, t), NEW n \in Nat
  PROVE  /\ n > 0 => AtIn(x, NewRange(n), t \o <<n>>)
         /\ n = 0 /\ x.segwit => AtOutCount(x, t \o <<n>>)
         /\ n = 0 /\ ~x.segwit => AtFlags(x, t \o <<n>>)
<1>. DEFINE one == <<n>>
<1>1. /\ x.ins = << >> /\ x.outs = << >> /\ x.items = << >>
      /\ t = UpToFlags(x.version, x.segwit) /\ x.version \in Nat
  BY DEF AtInCount, Locals
<1>2. NoWitness(x.ins) /\ Len(x.ins) = 0 /\ InParts(x.ins) = << >>
      /\ FlattenSeq(InParts(x.ins)) = << >>
  BY <1>1, NoParts, FlattenEmpty DEF NoWitness
<1>3. one \in Symbols /\ one \o << >> = one
  BY OneSymbol, CatEmpty
<1>4. NewRange(n).size = n /\ NewRange(n).got = 0
  BY NewRangeFacts
<1>. HIDE DEF one
<1>5. n > 0 => AtIn(x, NewRange(n), t \o one)
  BY <1>1, <1>2, <1>3, <1>4 DEF AtIn, one
<1>6. n = 0 => EncodeRange(InParts(x.ins)) = one
  <2>1. Len(<< >>) = 0
    OBVIOUS
  <2>. QED  BY <1>2, <1>3, <2>1 DEF EncodeRange, one
<1>7. n = 0 /\ x.segwit => AtOutCount(x, t \o one)
  BY <1>1, <1>2, <1>6 DEF AtOutCount, UpToInputs
<1>8. ASSUME n = 0, ~x.segwit PROVE AtFlags(x, t \o one)
  <2>1. <<x.version>> \in Symbols
    BY <1>1, OneSymbol
  <2>2. UpToFlags(x.version, x.segwit) = <<x.version>>
    BY <1>8, <2>1, CatEmpty DEF UpToFlags
  <2>. QED  BY <1>1, <1>8, <2>2 DEF AtFlags, one
<1>. QED  BY <1>5, <1>7, <1>8 DEF one

LEMMA FlagsRead ==
  ASSUME NEW x \in Locals, NEW t \in Symbols, AtFlags(x, t)
  PROVE  /\ [x EXCEPT !.segwit = TRUE] \in Locals
         /\ AtInCount([x EXCEPT !.segwit = TRUE], t \o <<1>>)
<1>. DEFINE y == [x EXCEPT !.segwit = TRUE]
<1>1. /\ y \in Locals /\ y.version = x.version /\ y.segwit = TRUE
      /\ y.ins = x.ins /\ y.outs = x.outs /\ y.items = x.items
  BY DEF Locals
<1>2. /\ x.ins = << >> /\ x.outs = << >> /\ x.items = << >>
      /\ t = <<x.version>> \o <<0>> /\ x.version \in Nat
  BY DEF AtFlags, Locals
<1>. HIDE DEF y
<1>3. t \o <<1>> = <<x.version>> \o (<<0>> \o <<1>>)
  BY <1>2, OneSymbol, CatCat
<1>4. <<0>> \o <<1>> = <<0, 1>>
  BY ZeroOne
<1>5. t \o <<1>> = UpToFlags(y.version, y.segwit)
  BY <1>1, <1>3, <1>4 DEF UpToFlags
<1>. QED  BY <1>1, <1>2, <1>5 DEF AtInCount, y

LEMMA InputRead ==
  ASSUME NEW x \in Locals, NEW r \in Ranges, Reserved(r), NEW t \in Symbols, AtIn(x, r, t),
         NEW p \in Nat, NEW q \in Nat, NEW s \in Strings
  PROVE  LET y == [x EXCEPT !.ins = Append(@, Input(p, Tail(s), q, << >>))]
             u == t \o (<<p>> \o s \o <<q>>) IN
         /\ y \in Locals /\ u \in Symbols
         /\ Complete(Pushed(r)) => AtOutCount(y, u)
         /\ ~Complete(Pushed(r)) => AtIn(y, Pushed(r), u)
<1>. DEFINE in == Input(p, Tail(s), q, << >>)
            y == [x EXCEPT !.ins = Append(@, in)]
            sym == <<p>> \o s \o <<q>>
            u == t \o sym
            flags == UpToFlags(x.version, x.segwit)
            len == <<r.size>>
            old == FlattenSeq(InParts(x.ins))
            new == Append(x.ins, in)
<1>1. /\ x.outs = << >> /\ x.items = << >> /\ NoWitness(x.ins)
      /\ Len(x.ins) = r.got /\ r.got < r.size
      /\ t = flags \o (len \o old)
      /\ x.version \in Nat /\ x.segwit \in BOOLEAN /\ x.ins \in Seq(Inputs)
      /\ r.size \in Nat /\ r.got \in Nat
  BY DEF AtIn, Locals, Ranges
<1>2. /\ in \in Inputs /\ in.witness = << >> /\ EncodeTxin(in) = sym
  <2>1. << >> \in Seq(Symbols)
    OBVIOUS
  <2>2. /\ in.prevout = p /\ in.script = Tail(s) /\ in.sequence = q /\ in.witness = << >>
        /\ in \in Inputs
    BY <2>1, StringIs DEF Input, Inputs
  <2>. HIDE DEF in
  <2>. QED  BY <2>2, StringIs DEF EncodeTxin
<1>. HIDE DEF in
<1>3. sym \in Symbols
  BY <1>2, EncodeTxinType
<1>4. /\ flags \in Symbols /\ len \in Symbols /\ old \in Symbols
  BY <1>1, UpToType, OneSymbol, InPartsType, EncodeRangeType DEF Locals
<1>5. FlattenSeq(InParts(new)) = old \o sym
  BY <1>1, <1>2, InPartsGrow
<1>6. /\ new \in Seq(Inputs) /\ Len(new) = r.got + 1 /\ NoWitness(new)
  <2>. DEFINE old1 == x.ins
  <2>0. old1 \in Seq(Inputs) /\ in \in Inputs
    BY <1>1, <1>2
  <2>. HIDE DEF old1
  <2>1. /\ new \in Seq(Inputs) /\ Len(new) = Len(x.ins) + 1
        /\ \A i \in 1 .. Len(x.ins) : new[i] = x.ins[i]
        /\ new[Len(x.ins) + 1] = in
    <3>1. /\ Append(old1, in) \in Seq(Inputs) /\ Len(Append(old1, in)) = Len(old1) + 1
          /\ \A i \in 1 .. Len(old1) : Append(old1, in)[i] = old1[i]
          /\ Append(old1, in)[Len(old1) + 1] = in
      BY <2>0, AppendProperties
    <3>. QED  BY <3>1 DEF old1
  <2>2. DOMAIN new = 1 .. Len(x.ins) + 1 /\ DOMAIN x.ins = 1 .. Len(x.ins)
        /\ Len(x.ins) \in Nat
    BY <1>1, <2>1, LenProperties
  <2>. HIDE DEF new
  <2>3. ASSUME NEW i \in DOMAIN new PROVE new[i].witness = << >>
    <3>1. i \in 1 .. Len(x.ins) \/ i = Len(x.ins) + 1
      BY <2>2
    <3>. QED  BY <1>1, <1>2, <2>1, <2>2, <3>1 DEF NoWitness
  <2>. QED  BY <1>1, <2>1, <2>3 DEF NoWitness
<1>7. /\ y \in Locals /\ y.version = x.version /\ y.segwit = x.segwit
      /\ y.ins = new /\ y.outs = x.outs /\ y.items = x.items
  <2>1. y = [x EXCEPT !.ins = new]
    BY DEF Locals
  <2>. HIDE DEF new, y
  <2>. QED  BY <1>6, <2>1 DEF Locals
<1>8. /\ Pushed(r).size = r.size /\ Pushed(r).got = r.got + 1
      /\ Complete(Pushed(r)) \/ Pushed(r).got < Pushed(r).size
  BY <1>1, PushFacts
<1>. HIDE DEF sym, flags, len, old, new, y
<1>9. u = flags \o (len \o (old \o sym)) /\ u \in Symbols
  <2>0. Behind(flags, len, old, sym)
    BY ONLY <1>3, <1>4, PutBehind
  <2>1. (flags \o (len \o old)) \o sym = flags \o (len \o (old \o sym))
    BY <2>0 DEF Behind
  <2>2. t = flags \o (len \o old)
    BY <1>1
  <2>3. u = flags \o (len \o (old \o sym))
    BY <2>1, <2>2
  <2>4. u \in Symbols
    BY <1>3, Cat
  <2>. QED  BY <2>3, <2>4
<1>10. ASSUME Complete(Pushed(r)) PROVE AtOutCount(y, u)
  <2>1. Len(new) = r.size
    BY <1>6, <1>8, <1>10 DEF Complete
  <2>2. EncodeRange(InParts(new)) = len \o (old \o sym)
    BY <1>5, <1>6, <2>1, InPartsType, EncodeRangeType DEF len
  <2>3. u = UpToInputs(x.version, new, x.segwit)
    BY <1>9, <2>2 DEF UpToInputs, flags
  <2>. QED  BY <1>1, <1>6, <1>7, <2>3 DEF AtOutCount
<1>11. ASSUME ~Complete(Pushed(r)) PROVE AtIn(y, Pushed(r), u)
  BY <1>1, <1>5, <1>6, <1>7, <1>8, <1>9, <1>11 DEF AtIn, flags, len
<1>. QED  BY <1>7, <1>9, <1>10, <1>11 DEF y, in, sym

(* The output that was read is one of y's. *)
WithOutput(x, v, s) == [x EXCEPT !.outs = Append(@, Output(v, Tail(s)))]
OutputIn(y, r, u) ==
  /\ y \in Locals /\ u \in Symbols
  /\ Complete(Pushed(r)) => y.items = << >> /\ NoWitness(y.ins) /\ u = Outs(y)
  /\ ~Complete(Pushed(r)) => AtOut(y, Pushed(r), u)

LEMMA OutputRead ==
  ASSUME NEW x \in Locals, NEW r \in Ranges, Reserved(r), NEW t \in Symbols, AtOut(x, r, t),
         NEW v \in Nat, NEW s \in Strings
  PROVE  OutputIn(WithOutput(x, v, s), r, t \o (<<v>> \o s))
<1>. DEFINE out == Output(v, Tail(s))
            y == WithOutput(x, v, s)
            sym == <<v>> \o s
            u == t \o sym
            upto == UpToInputs(x.version, x.ins, x.segwit)
            len == <<r.size>>
            old == FlattenSeq(OutParts(x.outs))
            new == Append(x.outs, out)
<1>0. y = [x EXCEPT !.outs = new] /\ u = t \o sym
  BY DEF WithOutput
<1>. HIDE DEF y
<1>1. /\ x.items = << >> /\ NoWitness(x.ins)
      /\ Len(x.outs) = r.got /\ r.got < r.size
      /\ t = upto \o (len \o old)
      /\ x.version \in Nat /\ x.segwit \in BOOLEAN /\ x.ins \in Seq(Inputs)
      /\ x.outs \in Seq(Outputs)
      /\ r.size \in Nat /\ r.got \in Nat
  BY DEF AtOut, Locals, Ranges
<1>2. out \in Outputs /\ EncodeTxout(out) = sym
  <2>1. out.value = v /\ out.script = Tail(s) /\ out \in Outputs
    BY StringIs DEF Output, Outputs
  <2>. HIDE DEF out
  <2>. QED  BY <2>1, StringIs DEF EncodeTxout
<1>. HIDE DEF out
<1>3. sym \in Symbols
  BY <1>2, EncodeTxoutType
<1>4. /\ upto \in Symbols /\ len \in Symbols /\ old \in Symbols
  BY <1>1, UpToType, OneSymbol, OutPartsType, EncodeRangeType
<1>5. FlattenSeq(OutParts(new)) = old \o sym
  BY <1>1, <1>2, OutPartsGrow
<1>6. /\ new \in Seq(Outputs) /\ Len(new) = r.got + 1
  BY <1>1, <1>2, AppendProperties
<1>7. /\ y \in Locals /\ y.version = x.version /\ y.segwit = x.segwit
      /\ y.ins = x.ins /\ y.outs = new /\ y.items = x.items
  <2>. HIDE DEF new
  <2>. QED  BY <1>0, <1>6 DEF Locals
<1>8. /\ Pushed(r).size = r.size /\ Pushed(r).got = r.got + 1
      /\ Complete(Pushed(r)) \/ Pushed(r).got < Pushed(r).size
  BY <1>1, PushFacts
<1>. HIDE DEF sym, upto, len, old, new, u
<1>9. u = upto \o (len \o (old \o sym)) /\ u \in Symbols
  <2>0. Behind(upto, len, old, sym)
    BY ONLY <1>3, <1>4, PutBehind
  <2>1. (upto \o (len \o old)) \o sym = upto \o (len \o (old \o sym))
    BY <2>0 DEF Behind
  <2>2. t = upto \o (len \o old)
    BY <1>1
  <2>3. u = upto \o (len \o (old \o sym))
    BY <1>0, <2>1, <2>2
  <2>4. u \in Symbols
    BY <1>0, <1>3, Cat
  <2>. QED  BY <2>3, <2>4
<1>10. ASSUME Complete(Pushed(r)) PROVE u = Outs(y)
  <2>1. Len(new) = r.size
    BY <1>6, <1>8, <1>10 DEF Complete
  <2>2. EncodeRange(OutParts(new)) = len \o (old \o sym)
    BY <1>5, <1>6, <2>1, OutPartsType, EncodeRangeType DEF len
  <2>3. u = UpToOutputs(x.version, x.ins, new, x.segwit)
    BY <1>9, <2>2 DEF UpToOutputs, upto
  <2>. QED  BY <1>7, <2>3 DEF Outs
<1>11. ASSUME ~Complete(Pushed(r)) PROVE AtOut(y, Pushed(r), u)
  BY <1>1, <1>5, <1>6, <1>7, <1>8, <1>9, <1>11 DEF AtOut, upto, len
<1>. QED  BY <1>1, <1>7, <1>9, <1>10, <1>11 DEF OutputIn, y, u, sym

LEMMA OutCountRead ==
  ASSUME NEW x \in Locals, NEW t \in Symbols, AtOutCount(x, t), NEW n \in Nat
  PROVE  /\ n > 0 => AtOut(x, NewRange(n), t \o <<n>>)
         /\ n = 0 => x.items = << >> /\ NoWitness(x.ins) /\ t \o <<n>> = Outs(x)
<1>. DEFINE one == <<n>>
<1>1. /\ x.outs = << >> /\ x.items = << >> /\ NoWitness(x.ins)
      /\ t = UpToInputs(x.version, x.ins, x.segwit)
  BY DEF AtOutCount
<1>2. Len(x.outs) = 0 /\ OutParts(x.outs) = << >> /\ FlattenSeq(OutParts(x.outs)) = << >>
  BY <1>1, NoParts, FlattenEmpty
<1>3. one \in Symbols /\ one \o << >> = one
  BY OneSymbol, CatEmpty
<1>4. NewRange(n).size = n /\ NewRange(n).got = 0
  BY NewRangeFacts
<1>. HIDE DEF one
<1>5. n > 0 => AtOut(x, NewRange(n), t \o one)
  BY <1>1, <1>2, <1>3, <1>4 DEF AtOut, one
<1>6. n = 0 => EncodeRange(OutParts(x.outs)) = one
  <2>1. Len(<< >>) = 0
    OBVIOUS
  <2>. QED  BY <1>2, <1>3, <2>1 DEF EncodeRange, one
<1>7. n = 0 => t \o one = Outs(x)
  BY <1>1, <1>6 DEF Outs, UpToOutputs
<1>. QED  BY <1>1, <1>5, <1>7 DEF one

(* One more witness count: the stack of the next input is empty so far.     *)
LEMMA WitCountRead ==
  ASSUME NEW x \in Locals, NEW t \in Symbols, AtWitCount(x, t), NEW n \in Nat
  PROVE  LET items == Append(x.items, << >>)
             y == [x EXCEPT !.items = items]
             u == t \o <<n>> IN
         /\ items \in Seq(Stacks) /\ Len(items) <= Len(x.ins)
         /\ n = 0 => u = Outs(x) \o FlattenSeq(StackParts(items))
         /\ n > 0 => y \in Locals /\ AtItem(y, NewRange(n), u)
<1>. DEFINE one == <<n>>
            none == << >>
            done == x.items
            items == Append(done, none)
            y == [x EXCEPT !.items = items]
            outs == Outs(x)
            flat == FlattenSeq(StackParts(done))
<1>1. /\ x.segwit /\ NoWitness(x.ins) /\ Len(done) < Len(x.ins)
      /\ t = outs \o flat
      /\ x.version \in Nat /\ x.segwit \in BOOLEAN /\ x.ins \in Seq(Inputs)
      /\ x.outs \in Seq(Outputs) /\ done \in Seq(Stacks)
  BY DEF AtWitCount, Locals
<1>2. none \in Stacks /\ Len(none) = 0 /\ FlattenSeq(ItemParts(none)) = none
  BY NoParts, FlattenEmpty DEF Stacks
<1>3. one \in Symbols /\ one \o << >> = one
  BY OneSymbol, CatEmpty
<1>4. NewRange(n).size = n /\ NewRange(n).got = 0
  BY NewRangeFacts
<1>5. outs \in Symbols /\ flat \in Symbols
  BY <1>1, UpToType, StackPartsType, EncodeRangeType DEF Outs
<1>6. (outs \o flat) \o one = outs \o (flat \o one)
  BY <1>3, <1>5, CatCat
<1>7. items \in Seq(Stacks) /\ Len(items) = Len(done) + 1
  <2>. HIDE DEF none, done
  <2>. QED  BY <1>1, <1>2, AppendProperties
<1>8. Len(items) <= Len(x.ins)
  <2>1. Len(done) \in Nat /\ Len(x.ins) \in Nat
    BY <1>1, LenProperties
  <2>. HIDE DEF items, done
  <2>. QED  BY <1>1, <1>7, <2>1
<1>9. ASSUME n = 0 PROVE t \o one = outs \o FlattenSeq(StackParts(items))
  <2>1. FlattenSeq(StackParts(items)) = flat \o EncodeRange(ItemParts(none))
    <3>. HIDE DEF none, done
    <3>. QED  BY <1>1, <1>2, StackPartsGrow
  <2>2. EncodeRange(ItemParts(none)) = one
    <3>1. ItemParts(none) = none /\ Len(none) = 0
      BY NoParts
    <3>. HIDE DEF one, none
    <3>. QED  BY <1>2, <1>3, <1>9, <3>1, NoParts DEF EncodeRange, one, none
  <2>. HIDE DEF one, outs, flat, items, none
  <2>. QED  BY <1>1, <1>6, <2>1, <2>2
<1>10. ASSUME n > 0 PROVE y \in Locals /\ AtItem(y, NewRange(n), t \o one)
  <2>. HIDE DEF items, done, none, one
  <2>1. /\ y \in Locals /\ y.version = x.version /\ y.ins = x.ins
        /\ y.outs = x.outs /\ y.segwit = x.segwit /\ y.items = items
    BY <1>7 DEF Locals
  <2>. HIDE DEF y
  <2>2. Outs(y) = outs
    BY <2>1 DEF Outs
  <2>3. t \o one = Outs(y) \o (flat \o (<<n>> \o FlattenSeq(ItemParts(none))))
    <3>1. <<n>> \o FlattenSeq(ItemParts(none)) = one
      BY <1>2, <1>3 DEF none, one
    <3>. QED  BY <1>1, <1>6, <2>2, <3>1
  <2>4. items = Append(done, none) /\ Len(done) < Len(y.ins) /\ Len(none) = NewRange(n).got
    BY <1>1, <1>2, <1>4, <2>1 DEF items
  <2>. QED  BY <1>1, <1>2, <1>4, <1>10, <2>1, <2>3, <2>4 DEF AtItem
<1>. QED  BY <1>7, <1>8, <1>9, <1>10 DEF one, y, outs, items, done

LEMMA ItemRead ==
  ASSUME NEW x \in Locals, NEW r \in Ranges, Reserved(r), NEW t \in Symbols, AtItem(x, r, t),
         NEW s \in Strings
  PROVE  LET items == [x.items EXCEPT ![Len(x.items)] = Append(@, Tail(s))]
             y == [x EXCEPT !.items = items]
             u == t \o s IN
         /\ items \in Seq(Stacks) /\ Len(items) <= Len(x.ins) /\ u \in Symbols
         /\ Complete(Pushed(r)) => u = Outs(x) \o FlattenSeq(StackParts(items))
         /\ ~Complete(Pushed(r)) => y \in Locals /\ AtItem(y, Pushed(r), u)
<1>. DEFINE e == Tail(s)
            items == [x.items EXCEPT ![Len(x.items)] = Append(@, e)]
            y == [x EXCEPT !.items = items]
            outs == Outs(x)
            len == <<r.size>>
<1>1. /\ x.segwit /\ NoWitness(x.ins) /\ r.got < r.size
      /\ x.version \in Nat /\ x.segwit \in BOOLEAN /\ x.ins \in Seq(Inputs)
      /\ x.outs \in Seq(Outputs) /\ r.size \in Nat /\ r.got \in Nat
  BY DEF AtItem, Locals, Ranges
<1>2. PICK done \in Seq(Stacks), cur \in Stacks :
        /\ x.items = Append(done, cur) /\ Len(done) < Len(x.ins) /\ Len(cur) = r.got
        /\ t = outs \o (FlattenSeq(StackParts(done))
                          \o (len \o FlattenSeq(ItemParts(cur))))
  BY DEF AtItem
<1>. DEFINE now == Append(cur, e)
            flat == FlattenSeq(StackParts(done))
            old == FlattenSeq(ItemParts(cur))
<1>3. e \in Symbols /\ s \in Symbols /\ EncodeBytes(e) = s
  BY StringIs
<1>. HIDE DEF e
<1>4. /\ now \in Stacks /\ Len(now) = r.got + 1
      /\ FlattenSeq(ItemParts(now)) = old \o s
  <2>1. cur \in Seq(Symbols)
    BY DEF Stacks
  <2>2. now \in Seq(Symbols) /\ Len(now) = r.got + 1
    BY <1>2, <1>3, <2>1, AppendProperties
  <2>. QED  BY <1>3, <2>1, <2>2, ItemPartsGrow DEF Stacks
<1>. HIDE DEF now
<1>5. items = Append(done, now)
  <2>. DEFINE n == Len(done)
              a == Append(done, cur)
              b == Append(done, now)
              c == [a EXCEPT ![n + 1] = now]
  <2>1. /\ n \in Nat
        /\ a \in Seq(Stacks) /\ Len(a) = n + 1 /\ a[n + 1] = cur
        /\ \A i \in 1 .. n : a[i] = done[i]
    BY AppendProperties, LenProperties
  <2>2. /\ b \in Seq(Stacks) /\ Len(b) = n + 1 /\ b[n + 1] = now
        /\ \A i \in 1 .. n : b[i] = done[i]
    BY <1>4, AppendProperties
  <2>3. x.items = a
    BY <1>2
  <2>. HIDE DEF a, b, n
  <2>4. DOMAIN a = 1 .. n + 1 /\ DOMAIN b = 1 .. n + 1 /\ n + 1 \in 1 .. n + 1
    BY <2>1, <2>2, LenProperties
  <2>5. items = c
    <3>1. items = [a EXCEPT ![n + 1] = Append(a[n + 1], e)]
      BY <2>1, <2>3
    <3>. QED  BY <2>1, <3>1 DEF now
  <2>6. c \in Seq(Stacks) /\ Len(c) = n + 1
    <3>1. c = [i \in 1 .. n + 1 |-> c[i]]
      BY <2>4
    <3>2. \A i \in 1 .. n + 1 : a[i] \in Stacks
      BY <2>1, ElementOfSeq
    <3>3. \A i \in 1 .. n + 1 : c[i] \in Stacks
      BY <1>4, <2>4, <3>2
    <3>4. n + 1 \in Nat
      BY <2>1
    <3>. HIDE DEF c
    <3>. QED  BY <3>1, <3>3, <3>4, MakeSeq
  <2>7. \A i \in 1 .. n + 1 : c[i] = b[i]
    <3>. SUFFICES ASSUME NEW i \in 1 .. n + 1
                  PROVE  c[i] = b[i]
      OBVIOUS
    <3>1. CASE i = n + 1
      BY <2>2, <2>4, <3>1
    <3>2. CASE i # n + 1
      <4>1. i \in 1 .. n
        BY <2>1, <3>2
      <4>. QED  BY <2>1, <2>2, <2>4, <3>2, <4>1
    <3>. QED  BY <3>1, <3>2
  <2>. HIDE DEF c
  <2>8. c = b
    BY <2>2, <2>6, <2>7, SeqEqual
  <2>. QED  BY <2>5, <2>8 DEF b
<1>. HIDE DEF items
<1>6. items \in Seq(Stacks) /\ Len(items) = Len(done) + 1
  BY <1>4, <1>5, AppendProperties
<1>7. Len(items) <= Len(x.ins)
  <2>1. Len(done) \in Nat /\ Len(x.ins) \in Nat
    BY <1>1, LenProperties
  <2>. QED  BY <1>2, <1>6, <2>1
<1>8. /\ outs \in Symbols /\ len \in Symbols /\ flat \in Symbols /\ old \in Symbols
  BY <1>1, UpToType, OneSymbol, StackPartsType, ItemPartsType, EncodeRangeType DEF Outs
<1>. HIDE DEF outs, len, flat, old
<1>9. t \o s = outs \o (flat \o (len \o (old \o s))) /\ t \o s \in Symbols
  <2>1. len \o old \in Symbols
    BY <1>8, Cat
  <2>2. (outs \o (flat \o (len \o old))) \o s = outs \o (flat \o ((len \o old) \o s))
    <3>1. outs \in Symbols /\ flat \in Symbols /\ s \in Symbols
      BY <1>3, <1>8
    <3>2. Behind(outs, flat, len \o old, s)
      BY ONLY <2>1, <3>1, PutBehind
    <3>. QED  BY <3>2 DEF Behind
  <2>3. (len \o old) \o s = len \o (old \o s)
    <3>1. len \in Symbols /\ old \in Symbols /\ s \in Symbols
      BY <1>3, <1>8
    <3>. QED  BY ONLY <3>1, CatCat
  <2>4. t = outs \o (flat \o (len \o old))
    BY <1>2 DEF outs, flat, len, old
  <2>5. t \o s = outs \o (flat \o (len \o (old \o s)))
    BY <2>2, <2>3, <2>4
  <2>6. t \o s \in Symbols
    BY <1>3, Cat
  <2>. QED  BY <2>5, <2>6
<1>10. /\ Pushed(r).size = r.size /\ Pushed(r).got = r.got + 1
       /\ Complete(Pushed(r)) \/ Pushed(r).got < Pushed(r).size
  BY <1>1, PushFacts
<1>11. ASSUME Complete(Pushed(r)) PROVE t \o s = outs \o FlattenSeq(StackParts(items))
  <2>1. Len(now) = r.size
    BY <1>4, <1>10, <1>11 DEF Complete
  <2>2. EncodeRange(ItemParts(now)) = len \o (old \o s)
    BY <1>4, <2>1, ItemPartsType, EncodeRangeType DEF len
  <2>3. FlattenSeq(StackParts(items)) = flat \o EncodeRange(ItemParts(now))
    BY <1>4, <1>5, StackPartsGrow DEF flat
  <2>. QED  BY <1>9, <2>2, <2>3
<1>12. ASSUME ~Complete(Pushed(r)) PROVE y \in Locals /\ AtItem(y, Pushed(r), t \o s)
  <2>1. /\ y \in Locals /\ y.version = x.version /\ y.ins = x.ins
        /\ y.outs = x.outs /\ y.segwit = x.segwit /\ y.items = items
    BY <1>6 DEF Locals
  <2>. HIDE DEF y
  <2>2. Outs(y) = outs
    BY <2>1 DEF Outs, outs
  <2>3. t \o s = Outs(y) \o (FlattenSeq(StackParts(done))
                     \o (<<Pushed(r).size>> \o FlattenSeq(ItemParts(now))))
    BY <1>4, <1>9, <1>10, <2>2 DEF flat, len, old
  <2>4. Pushed(r).got < Pushed(r).size /\ Len(now) = Pushed(r).got
    BY <1>4, <1>10, <1>12
  <2>. QED  BY <1>1, <1>2, <1>4, <1>5, <2>1, <2>3, <2>4 DEF AtItem
<1>. QED  BY <1>6, <1>7, <1>9, <1>11, <1>12 DEF e, items, y, outs

(* The lock time ends the encoding of the transaction that is made.         *)
LEMMA LocktimeRead ==
  ASSUME NEW x \in Locals, NEW t \in Symbols, AtLocktime(x, t), NEW b \in Nat
  PROVE  LET made == Transaction(x.version, x.ins, x.outs, b) IN
         made \in Transactions /\ Made(made) /\ EncodeTx(made) = t \o <<b>>
<1>1. /\ x.version \in Nat /\ x.ins \in Seq(Inputs) /\ x.outs \in Seq(Outputs)
      /\ x.segwit = AnyWitness(x.ins)
      /\ t = UpToWitnesses(x.version, x.ins, x.outs, x.segwit)
  BY DEF Locals, AtLocktime
<1>. DEFINE made == Transaction(x.version, x.ins, x.outs, b)
<1>2. /\ made \in Transactions /\ Made(made)
      /\ EncodeTx(made) = EncodeTxData(x.version, x.ins, x.outs, b, AnyWitness(x.ins))
  BY <1>1, MadeType, MakesMade
<1>3. EncodeTxData(x.version, x.ins, x.outs, b, AnyWitness(x.ins)) = t \o <<b>>
  BY <1>1, EncodeTxDataIs
<1>. HIDE DEF made
<1>. QED  BY <1>2, <1>3 DEF made

-----------------------------------------------------------------------------
(* The invariant *)

InTx == {"version", "incount", "flags", "in", "outcount", "out", "witcount", "item",
         "locktime"}

(* t is what has been read of the current transaction, and no more. *)
TxRead(p, x, r, t) ==
  /\ p = "version" => t = << >>
  /\ p = "incount" => AtInCount(x, t)
  /\ p = "flags" => AtFlags(x, t)
  /\ p = "in" => AtIn(x, r, t)
  /\ p = "outcount" => AtOutCount(x, t)
  /\ p = "out" => AtOut(x, r, t)
  /\ p = "witcount" => AtWitCount(x, t)
  /\ p = "item" => AtItem(x, r, t)
  /\ p = "locktime" => AtLocktime(x, t)

(* What was read before it. *)
Before ==
  IF kind = "block" THEN <<header>> \o (<<outer.size>> \o FlattenSeq(TxParts(txs)))
  ELSE << >>

Types ==
  /\ kind \in Kinds /\ taken \in Symbols /\ header \in Nat
  /\ outer \in Ranges /\ range \in Ranges /\ tx \in Locals /\ AllMade(txs)

InsideTx ==
  /\ \/ kind = "tx" /\ txs = << >>
     \/ kind = "block" /\ Len(txs) = outer.got /\ outer.got < outer.size
  /\ \E t \in Symbols : taken = Before \o t /\ TxRead(pc, tx, range, t)

(* As long as nothing has failed. *)
GoodInv ==
  /\ Types
  /\ Reserved(outer) /\ Reserved(range)
  /\ pc = "header" => kind # "tx" /\ taken = << >> /\ txs = << >>
  /\ pc = "txcount" => kind = "block" /\ taken = <<header>> /\ txs = << >>
  /\ pc \in InTx => InsideTx
  /\ pc = "end" => Encode(kind, Object) = taken
  /\ pc # "done" => result = None
  /\ Canonical

(* Failed or not: there is room for the element that is being decoded.      *)
Room ==
  /\ outer \in Ranges /\ range \in Ranges /\ WithinBatch(outer) /\ WithinBatch(range)
  /\ pc \in {"in", "out", "item"} => range.got < range.cap
  /\ kind = "block" /\ pc \in InTx => outer.got < outer.cap
  /\ pc # "done" => result = None

(* Once it has failed, decoding is at no element of a range.                *)
Stopped ==
  result = None /\ pc \notin {"header", "version", "in", "out", "item"}

DecoderInv ==
  /\ failed \in BOOLEAN /\ Room
  /\ failed => Stopped
  /\ ~failed => GoodInv

-----------------------------------------------------------------------------
(* Initial states and steps *)

LEMMA StartGood == Init => GoodInv
<1>. SUFFICES ASSUME Init
              PROVE  GoodInv
  OBVIOUS
<1>1. /\ taken = << >> /\ pc = Start(kind) /\ header = 0
      /\ outer = NewRange(0) /\ txs = << >> /\ tx = NoTx /\ range = NewRange(0)
      /\ result = None
  BY DEF Init
<1>2. kind \in Kinds
  BY DecoderAssumption DEF Init
<1>3. Types
  <2>1. tx \in Locals
    BY <1>1 DEF Locals, NoTx
  <2>2. AllMade(txs)
    BY <1>1 DEF AllMade
  <2>3. outer \in Ranges /\ range \in Ranges
    BY <1>1, NewRangeFacts
  <2>. QED  BY <1>1, <1>2, <2>1, <2>2, <2>3, EmptySymbols DEF Types
<1>4. Reserved(outer) /\ Reserved(range)
  BY <1>1, NewRangeFacts
<1>5. pc \in InTx => InsideTx
  <2>. SUFFICES ASSUME pc \in InTx
                PROVE  InsideTx
    OBVIOUS
  <2>1. kind = "tx" /\ pc = "version"
    BY <1>1 DEF Start, InTx
  <2>2. taken = Before \o << >>
    BY <1>1, <2>1, EmptySymbols, CatEmpty DEF Before
  <2>3. TxRead(pc, tx, range, << >>)
    BY <2>1 DEF TxRead
  <2>. QED  BY <1>1, <2>1, <2>2, <2>3, EmptySymbols DEF InsideTx
<1>. QED  BY <1>1, <1>3, <1>4, <1>5 DEF GoodInv, Start, Canonical

(* A step from a field of a transaction to another of it. *)
LEMMA FieldStep ==
  ASSUME GoodInv, pc \in InTx, pc' \in InTx, NEW sym \in Symbols,
         taken' = taken \o sym, tx' \in Locals, range' \in Ranges, Reserved(range)',
         UNCHANGED <<kind, header, outer, txs, result>>,
         \A t \in Symbols :
           TxRead(pc, tx, range, t) => TxRead(pc', tx', range', t \o sym)
  PROVE  GoodInv'
<1>1. Types /\ Reserved(outer) /\ InsideTx /\ result = None
  BY DEF GoodInv, InTx
<1>2. PICK t \in Symbols : taken = Before \o t /\ TxRead(pc, tx, range, t)
  BY <1>1 DEF InsideTx
<1>3. Before \in Symbols
  <2>1. CASE kind = "block"
    <3>1. <<header>> \in Symbols /\ <<outer.size>> \in Symbols
      BY <1>1, OneSymbol DEF Types, Ranges
    <3>2. FlattenSeq(TxParts(txs)) \in Symbols
      BY <1>1, TxPartsType, EncodeRangeType DEF Types
    <3>3. <<outer.size>> \o FlattenSeq(TxParts(txs)) \in Symbols
      BY ONLY <3>1, <3>2, Cat
    <3>4. Before = <<header>> \o (<<outer.size>> \o FlattenSeq(TxParts(txs)))
      BY <2>1 DEF Before
    <3>. QED  BY ONLY <3>1, <3>3, <3>4, Cat
  <2>2. CASE kind # "block"
    BY <2>2, EmptySymbols DEF Before
  <2>. QED  BY <2>1, <2>2
<1>4. Before' = Before
  BY DEF Before
<1>5. taken' = Before \o (t \o sym) /\ t \o sym \in Symbols /\ taken' \in Symbols
  <2>1. (Before \o t) \o sym = Before \o (t \o sym)
    BY <1>3, CatCat
  <2>2. taken \in Symbols
    BY <1>1 DEF Types
  <2>. QED  BY <1>2, <2>1, <2>2, Cat
<1>6. TxRead(pc', tx', range', t \o sym)
  BY <1>2
<1>7. InsideTx'
  <2>1. \/ kind = "tx" /\ txs = << >>
        \/ kind = "block" /\ Len(txs) = outer.got /\ outer.got < outer.size
    BY <1>1 DEF InsideTx
  <2>2. \/ kind' = "tx" /\ txs' = << >>
        \/ kind' = "block" /\ Len(txs') = outer'.got /\ outer'.got < outer'.size
    BY <2>1
  <2>. QED  BY <1>4, <1>5, <1>6, <2>2 DEF InsideTx
<1>8. Types'
  BY <1>1, <1>5 DEF Types
<1>9. Reserved(outer)'
  BY <1>1 DEF Reserved
<1>10. pc' \notin {"header", "txcount", "end"}
  BY DEF InTx
<1>. QED  BY <1>1, <1>7, <1>8, <1>9, <1>10 DEF GoodInv, Canonical

(* A field is read, and there is no failure. *)
Take(s) == CanTake(s) /\ taken' = taken \o s

LEMMA GoodRead ==
  ASSUME NEW s, NEW zero, NEW ok, Read(s, zero, ok), ~failed'
  PROVE  ~failed /\ Take(s) /\ ok
BY DEF Read, Take

(* What Take says of types. *)
LEMMA TakeOne ==
  ASSUME GoodInv, NEW b \in Byte, Take(<<b>>)
  PROVE  /\ b \in Nat /\ <<b>> \in Symbols
         /\ taken' = taken \o <<b>> /\ taken' \in Symbols
<1>1. b \in Nat
  BY DecoderAssumption
<1>2. taken \in Symbols /\ taken' = taken \o <<b>>
  BY DEF GoodInv, Types, Take
<1>3. <<b>> \in Symbols
  BY <1>1, OneSymbol
<1>. QED  BY <1>1, <1>2, <1>3, Cat

LEMMA HeaderStep ==
  ASSUME GoodInv, NEW b \in Byte, Header(b), ~failed'
  PROVE  GoodInv'
<1>1. /\ pc = "header" /\ kind # "tx" /\ taken = << >> /\ txs = << >> /\ header' = b
      /\ pc' = IF kind = "header" THEN "end" ELSE "txcount"
      /\ Types /\ Reserved(outer) /\ Reserved(range) /\ result = None
      /\ UNCHANGED <<kind, outer, txs, tx, range, result>>
  BY DEF Header, GoodInv
<1>2. b \in Nat /\ taken' = <<b>> /\ taken' \in Symbols
  <2>1. Take(<<b>>)
    BY GoodRead DEF Header
  <2>. QED  BY <1>1, <2>1, TakeOne, CatEmpty
<1>3. Types'
  BY <1>1, <1>2 DEF Types
<1>4. Reserved(outer)' /\ Reserved(range)'
  BY <1>1 DEF Reserved
<1>5. pc' \notin InTx /\ pc' # "header"
  BY <1>1 DEF InTx
<1>6. pc' = "txcount" => kind' = "block" /\ taken' = <<header'>> /\ txs' = << >>
  BY <1>1, <1>2 DEF Types, Kinds
<1>7. pc' = "end" => (Encode(kind, Object) = taken)'
  BY <1>1, <1>2 DEF Encode, Object
<1>. QED  BY <1>1, <1>3, <1>4, <1>5, <1>6, <1>7 DEF GoodInv, Canonical

LEMMA NoTxs ==
  /\ TxParts(<< >>) = << >> /\ FlattenSeq(TxParts(<< >>)) = << >>
  /\ Len(TxParts(<< >>)) = 0
<1>1. TxParts(<< >>) = << >>
  BY DEF TxParts
<1>. QED  BY <1>1, FlattenEmpty

LEMMA TxCountStep ==
  ASSUME GoodInv, NEW n \in Byte, TxCount(n), ~failed'
  PROVE  GoodInv'
<1>1. /\ pc = "txcount" /\ kind = "block" /\ taken = <<header>> /\ txs = << >>
      /\ outer' = NewRange(n)
      /\ pc' = IF n = 0 THEN "end" ELSE "version"
      /\ Types /\ Reserved(range) /\ result = None
      /\ UNCHANGED <<kind, header, txs, tx, range, result>>
  BY DEF TxCount, GoodInv
<1>2. n \in Nat /\ <<n>> \in Symbols /\ taken' = <<header>> \o <<n>> /\ taken' \in Symbols
  <2>1. Take(<<n>>)
    BY GoodRead DEF TxCount
  <2>. QED  BY <1>1, <2>1, TakeOne
<1>3. /\ outer' \in Ranges /\ Reserved(outer)' /\ outer'.size = n /\ outer'.got = 0
  BY <1>1, <1>2, NewRangeFacts DEF Reserved
<1>4. Types'
  BY <1>1, <1>2, <1>3 DEF Types
<1>5. Reserved(range)'
  BY <1>1 DEF Reserved
<1>6. <<n>> \o << >> = <<n>> /\ taken' \o << >> = taken'
  BY <1>2, CatEmpty
<1>7. pc' = "end" => (Encode(kind, Object) = taken)'
  <2>. SUFFICES ASSUME pc' = "end"
                PROVE  (Encode(kind, Object) = taken)'
    OBVIOUS
  <2>1. n = 0
    BY <1>1
  <2>2. EncodeBlock(Block(header, << >>))
          = <<header>> \o (<<Len(TxParts(<< >>))>> \o FlattenSeq(TxParts(<< >>)))
    BY DEF EncodeBlock, EncodeRange, Block, TxParts
  <2>3. EncodeBlock(Block(header, << >>)) = <<header>> \o <<n>>
    BY <1>6, <2>1, <2>2, NoTxs
  <2>4. Encode(kind, Object)' = EncodeBlock(Block(header, << >>))
    BY <1>1 DEF Encode, Object
  <2>. QED  BY <1>2, <2>3, <2>4
<1>8. pc' \in InTx => InsideTx'
  <2>. SUFFICES ASSUME pc' \in InTx
                PROVE  InsideTx'
    OBVIOUS
  <2>1. pc' = "version" /\ n # 0
    BY <1>1 DEF InTx
  <2>2. Before' = <<header>> \o (<<n>> \o << >>)
    BY <1>1, <1>3, NoTxs DEF Before
  <2>3. taken' = Before' \o << >>
    BY <1>2, <1>6, <2>2
  <2>4. TxRead(pc', tx', range', << >>)
    BY <2>1 DEF TxRead
  <2>5. Len(txs') = outer'.got /\ outer'.got < outer'.size
    <3>1. Len(txs') = 0
      BY <1>1
    <3>. QED  BY <1>2, <1>3, <2>1, <3>1
  <2>. QED  BY <1>1, <2>3, <2>4, <2>5, EmptySymbols DEF InsideTx
<1>. QED  BY <1>1, <1>3, <1>4, <1>5, <1>7, <1>8 DEF GoodInv, Canonical

LEMMA VersionStep ==
  ASSUME GoodInv, NEW b \in Byte, Version(b), ~failed'
  PROVE  GoodInv'
<1>1. /\ pc = "version" /\ tx' = [NoTx EXCEPT !.version = b] /\ pc' = "incount"
      /\ Take(<<b>>) /\ Types /\ Reserved(range)
      /\ UNCHANGED <<kind, header, outer, txs, range, result>>
  BY GoodRead DEF Version, GoodInv
<1>2. b \in Nat /\ <<b>> \in Symbols /\ taken' = taken \o <<b>>
  BY <1>1, TakeOne
<1>3. /\ tx' \in Locals /\ tx'.version = b /\ tx'.ins = << >> /\ tx'.outs = << >>
      /\ tx'.items = << >> /\ tx'.segwit = FALSE
  <2>1. NoTx \in Locals
    BY DEF NoTx, Locals
  <2>2. /\ NoTx.ins = << >> /\ NoTx.outs = << >> /\ NoTx.items = << >>
        /\ NoTx.segwit = FALSE
    BY DEF NoTx
  <2>. QED  BY <1>1, <1>2, <2>1, <2>2 DEF Locals
<1>4. ASSUME NEW t \in Symbols, TxRead(pc, tx, range, t)
      PROVE  TxRead(pc', tx', range', t \o <<b>>)
  <2>1. t = << >>
    BY <1>1, <1>4 DEF TxRead
  <2>2. <<b>> \o << >> = <<b>> /\ << >> \o <<b>> = <<b>>
    BY <1>2, CatEmpty
  <2>3. UpToFlags(tx'.version, tx'.segwit) = <<b>>
    BY <1>3, <2>2 DEF UpToFlags
  <2>4. AtInCount(tx', t \o <<b>>)
    BY <1>3, <2>1, <2>2, <2>3 DEF AtInCount
  <2>. QED  BY <1>1, <2>4 DEF TxRead
<1>5. pc \in InTx /\ pc' \in InTx
  BY <1>1 DEF InTx
<1>6. range' \in Ranges /\ Reserved(range)'
  BY <1>1 DEF Types, Reserved
<1>. QED  BY <1>1, <1>2, <1>3, <1>4, <1>5, <1>6, FieldStep

LEMMA InCountStep ==
  ASSUME GoodInv, NEW n \in Byte, InCount(n), ~failed'
  PROVE  GoodInv'
<1>1. /\ pc = "incount" /\ range' = NewRange(n)
      /\ pc' = IF n > 0 THEN "in" ELSE IF tx.segwit THEN "outcount" ELSE "flags"
      /\ Take(<<n>>) /\ Types
      /\ UNCHANGED <<kind, header, outer, txs, tx, result>>
  BY GoodRead DEF InCount, GoodInv
<1>2. n \in Nat /\ <<n>> \in Symbols /\ taken' = taken \o <<n>>
  BY <1>1, TakeOne
<1>3. tx \in Locals /\ tx' = tx /\ range' \in Ranges /\ Reserved(range)'
  BY <1>1, <1>2, NewRangeFacts DEF Types, Reserved
<1>4. ASSUME NEW t \in Symbols, TxRead(pc, tx, range, t)
      PROVE  TxRead(pc', tx', range', t \o <<n>>)
  <2>1. AtInCount(tx, t)
    BY <1>1, <1>4 DEF TxRead
  <2>2. /\ n > 0 => AtIn(tx, NewRange(n), t \o <<n>>)
        /\ n = 0 /\ tx.segwit => AtOutCount(tx, t \o <<n>>)
        /\ n = 0 /\ ~tx.segwit => AtFlags(tx, t \o <<n>>)
    BY <1>2, <1>3, <2>1, InCountRead
  <2>. QED  BY <1>1, <1>2, <2>2 DEF TxRead
<1>5. pc \in InTx /\ pc' \in InTx
  BY <1>1 DEF InTx
<1>. QED  BY <1>1, <1>2, <1>3, <1>4, <1>5, FieldStep

LEMMA FlagsStep ==
  ASSUME GoodInv, NEW b \in Byte, Flags(b), ~failed'
  PROVE  GoodInv'
<1>1. /\ pc = "flags" /\ Take(<<b>>) /\ b = 1 /\ Types /\ Reserved(range)
      /\ UNCHANGED <<kind, header, range, result>>
  BY GoodRead DEF Flags, GoodInv
<1>2. b \in Nat /\ <<b>> \in Symbols /\ taken' = taken \o <<b>> /\ taken' \in Symbols
  BY <1>1, TakeOne
<1>3. range' \in Ranges /\ Reserved(range)' /\ tx \in Locals
  BY <1>1 DEF Types, Reserved, WithinBatch
<1>4. tx' = [tx EXCEPT !.segwit = TRUE] /\ pc' = "incount" /\ UNCHANGED <<outer, txs>>
  BY <1>1 DEF Flags
<1>5. tx' \in Locals
  BY <1>3, <1>4 DEF Locals
<1>6. ASSUME NEW t \in Symbols, TxRead(pc, tx, range, t)
      PROVE  TxRead(pc', tx', range', t \o <<b>>)
  <2>1. AtFlags(tx, t)
    BY <1>1, <1>6 DEF TxRead
  <2>2. AtInCount(tx', t \o <<b>>)
    BY <1>1, <1>3, <1>4, <2>1, FlagsRead
  <2>. QED  BY <1>4, <2>2 DEF TxRead
<1>7. pc \in InTx /\ pc' \in InTx
  BY <1>1, <1>4 DEF InTx
<1>. QED  BY <1>1, <1>2, <1>3, <1>4, <1>5, <1>6, <1>7, FieldStep

LEMMA RangeFilling ==
  ASSUME GoodInv, pc \in {"in", "out", "item"}
  PROVE  range \in Ranges /\ Reserved(range) /\ range.got < range.size
<1>1. Types /\ Reserved(range) /\ InsideTx
  BY DEF GoodInv, InTx
<1>2. PICK t \in Symbols : TxRead(pc, tx, range, t)
  BY <1>1 DEF InsideTx
<1>. QED  BY <1>1, <1>2 DEF Types, TxRead, AtIn, AtOut, AtItem

LEMMA RangeFilled ==
  ASSUME GoodInv, pc \in {"in", "out", "item"}, range' = Push(range), ~failed'
  PROVE  /\ range' = Pushed(range) /\ (GoesOn(range') <=> ~Complete(Pushed(range)))
         /\ AtLast(range) <=> Complete(Pushed(range))
<1>1. range \in Ranges /\ Reserved(range) /\ range.got < range.size
  BY RangeFilling
<1>2. Push(range) = Pushed(range) /\ (GoesOn(Pushed(range)) <=> ~Complete(Pushed(range)))
  BY <1>1, GoodPush
<1>3. Pushed(range).size = range.size /\ Pushed(range).got = range.got + 1
  BY <1>1, PushFacts
<1>. QED  BY <1>2, <1>3 DEF AtLast, Complete

LEMMA TxinStep ==
  ASSUME GoodInv, NEW p \in Byte, NEW q \in Byte, NEW s \in Strings, Txin(p, s, q), ~failed'
  PROVE  GoodInv'
<1>. DEFINE sym == <<p>> \o s \o <<q>>
<1>1. /\ pc = "in" /\ taken' = taken \o sym
      /\ tx' = [tx EXCEPT !.ins = Append(@, Input(p, Tail(s), q, << >>))]
      /\ range' = Pushed(range)
      /\ pc' = IF Complete(Pushed(range)) THEN "outcount" ELSE "in"
      /\ Types
      /\ UNCHANGED <<kind, header, outer, txs, result>>
  <2>1. /\ pc = "in" /\ Take(sym) /\ range' = Push(range) /\ Types
        /\ pc' = IF GoesOn(range') THEN "in" ELSE "outcount"
        /\ tx' = [tx EXCEPT !.ins = Append(@, Input(p, Tail(s), q, << >>))]
        /\ UNCHANGED <<kind, header, outer, txs, result>>
    BY GoodRead DEF Txin, GoodInv
  <2>2. range' = Pushed(range) /\ (GoesOn(range') <=> ~Complete(Pushed(range)))
    BY <2>1, RangeFilled
  <2>. QED  BY <2>1, <2>2 DEF Take
<1>2. p \in Nat /\ q \in Nat /\ sym \in Symbols
  <2>1. p \in Nat /\ q \in Nat
    BY DecoderAssumption
  <2>2. <<p>> \in Symbols /\ <<q>> \in Symbols /\ s \in Symbols
    BY <2>1, OneSymbol, StringIs
  <2>3. <<p>> \o s \in Symbols
    BY ONLY <2>2, Cat
  <2>4. sym \in Symbols
    BY ONLY <2>2, <2>3, Cat
  <2>. QED  BY <2>1, <2>4
<1>3. range \in Ranges /\ Reserved(range) /\ range.got < range.size /\ tx \in Locals
  BY <1>1, RangeFilling DEF Types
<1>4. range' \in Ranges /\ Reserved(range)'
  <2>1. Pushed(range) \in Ranges /\ Reserved(Pushed(range))
    BY <1>3, PushFacts
  <2>. QED  BY <1>1, <2>1 DEF Reserved
<1>5. ASSUME NEW t \in Symbols, TxRead(pc, tx, range, t)
      PROVE  TxRead(pc', tx', range', t \o sym) /\ tx' \in Locals
  <2>1. AtIn(tx, range, t)
    BY <1>1, <1>5 DEF TxRead
  <2>2. /\ tx' \in Locals
        /\ Complete(Pushed(range)) => AtOutCount(tx', t \o sym)
        /\ ~Complete(Pushed(range)) => AtIn(tx', Pushed(range), t \o sym)
    BY <1>1, <1>2, <1>3, <2>1, InputRead
  <2>. QED  BY <1>1, <2>2 DEF TxRead
<1>6. pc \in InTx /\ pc' \in InTx
  BY <1>1 DEF InTx
<1>7. tx' \in Locals
  <2>1. \E t \in Symbols : TxRead(pc, tx, range, t)
    BY <1>6 DEF GoodInv, InsideTx
  <2>. QED  BY <1>5, <2>1
<1>. HIDE DEF sym
<1>. QED  BY <1>1, <1>2, <1>4, <1>5, <1>6, <1>7, FieldStep

(* After the outputs.  y: the locals, now that they are complete.           *)
LEMMA AfterOutputsStep ==
  ASSUME GoodInv, pc \in InTx, AfterOutputs, Witnessable,
         NEW sym \in Symbols, taken' = taken \o sym,
         tx' \in Locals, tx'.segwit = tx.segwit, tx'.ins = tx.ins,
         range' \in Ranges, Reserved(range)',
         UNCHANGED <<kind, header, outer, txs, result>>,
         \A t \in Symbols :
           TxRead(pc, tx, range, t)
             => tx'.items = << >> /\ NoWitness(tx'.ins) /\ t \o sym = Outs(tx')
  PROVE  GoodInv'
<1>1. /\ pc' = IF tx.segwit THEN "witcount" ELSE "locktime"
      /\ tx.segwit => tx.ins # << >>
  BY DEF AfterOutputs, Witnessable
<1>2. ASSUME NEW t \in Symbols, TxRead(pc, tx, range, t)
      PROVE  TxRead(pc', tx', range', t \o sym)
  <2>1. tx'.items = << >> /\ NoWitness(tx'.ins) /\ t \o sym = Outs(tx')
    BY <1>2
  <2>2. PICK y \in Locals : y = tx'
    OBVIOUS
  <2>3. /\ ~y.segwit => AtLocktime(y, t \o sym)
        /\ y.segwit /\ y.ins # << >> => AtWitCount(y, t \o sym)
    BY <2>1, <2>2, OutputsDone
  <2>4. y.segwit = tx.segwit /\ y.ins = tx.ins
    BY <2>2
  <2>5. /\ pc' = "locktime" => AtLocktime(y, t \o sym)
        /\ pc' = "witcount" => AtWitCount(y, t \o sym)
    BY <1>1, <2>3, <2>4
  <2>6. pc' = "locktime" \/ pc' = "witcount"
    BY <1>1
  <2>. QED  BY <2>2, <2>5, <2>6 DEF TxRead
<1>3. pc' \in InTx
  BY <1>1 DEF InTx
<1>. QED  BY <1>2, <1>3, FieldStep

LEMMA OutCountStep ==
  ASSUME GoodInv, NEW n \in Byte, OutCount(n), ~failed'
  PROVE  GoodInv'
<1>1. /\ pc = "outcount" /\ range' = NewRange(n) /\ Take(<<n>>) /\ Types
      /\ IF n = 0 THEN AfterOutputs ELSE pc' = "out"
      /\ n = 0 => Witnessable
      /\ UNCHANGED <<kind, header, outer, txs, tx, result>>
  BY GoodRead DEF OutCount, GoodInv
<1>2. n \in Nat /\ <<n>> \in Symbols /\ taken' = taken \o <<n>>
  BY <1>1, TakeOne
<1>3. tx \in Locals /\ tx' = tx /\ range' \in Ranges /\ Reserved(range)'
  BY <1>1, <1>2, NewRangeFacts DEF Types, Reserved
<1>4. pc \in InTx
  BY <1>1 DEF InTx
<1>5. ASSUME NEW t \in Symbols, TxRead(pc, tx, range, t)
      PROVE  /\ n > 0 => AtOut(tx, NewRange(n), t \o <<n>>)
             /\ n = 0 => tx.items = << >> /\ NoWitness(tx.ins) /\ t \o <<n>> = Outs(tx)
  <2>1. AtOutCount(tx, t)
    BY <1>1, <1>5 DEF TxRead
  <2>. QED  BY <1>2, <1>3, <2>1, OutCountRead
<1>6. CASE n = 0
  <2>1. tx' \in Locals /\ tx'.segwit = tx.segwit /\ tx'.ins = tx.ins /\ AfterOutputs /\ Witnessable
    BY <1>1, <1>3, <1>6
  <2>2. \A t \in Symbols :
          TxRead(pc, tx, range, t)
            => tx'.items = << >> /\ NoWitness(tx'.ins) /\ t \o <<n>> = Outs(tx')
    BY <1>3, <1>5, <1>6
  <2>. QED  BY <1>1, <1>2, <1>3, <1>4, <2>1, <2>2, AfterOutputsStep
<1>7. CASE n # 0
  <2>1. pc' = "out" /\ result' = result
    BY <1>1, <1>7
  <2>2. ASSUME NEW t \in Symbols, TxRead(pc, tx, range, t)
        PROVE  TxRead(pc', tx', range', t \o <<n>>)
    <3>1. n > 0
      BY <1>2, <1>7
    <3>2. AtOut(tx, NewRange(n), t \o <<n>>)
      BY <1>5, <2>2, <3>1
    <3>. QED  BY <1>1, <2>1, <3>2 DEF TxRead
  <2>3. pc' \in InTx
    BY <2>1 DEF InTx
  <2>. QED  BY <1>1, <1>2, <1>3, <1>4, <2>1, <2>2, <2>3, FieldStep
<1>. QED  BY <1>6, <1>7

LEMMA TxoutStep ==
  ASSUME GoodInv, NEW v \in Byte, NEW s \in Strings, Txout(v, s), ~failed'
  PROVE  GoodInv'
<1>. DEFINE sym == <<v>> \o s
<1>1. /\ pc = "out" /\ taken' = taken \o sym
      /\ tx' = [tx EXCEPT !.outs = Append(@, Output(v, Tail(s)))]
      /\ range' = Pushed(range)
      /\ IF Complete(Pushed(range)) THEN AfterOutputs ELSE pc' = "out"
      /\ Complete(Pushed(range)) => Witnessable
      /\ Types
      /\ UNCHANGED <<kind, header, outer, txs, result>>
  <2>1. /\ pc = "out" /\ Take(sym) /\ range' = Push(range) /\ Types
        /\ IF GoesOn(range') THEN pc' = "out" ELSE AfterOutputs
        /\ AtLast(range) => Witnessable
        /\ tx' = [tx EXCEPT !.outs = Append(@, Output(v, Tail(s)))]
        /\ UNCHANGED <<kind, header, outer, txs, result>>
    BY GoodRead DEF Txout, GoodInv
  <2>2. /\ range' = Pushed(range) /\ (GoesOn(range') <=> ~Complete(Pushed(range)))
        /\ AtLast(range) <=> Complete(Pushed(range))
    BY <2>1, RangeFilled
  <2>. QED  BY <2>1, <2>2 DEF Take
<1>2. v \in Nat /\ sym \in Symbols
  <2>1. v \in Nat
    BY DecoderAssumption
  <2>2. <<v>> \in Symbols /\ s \in Symbols
    BY <2>1, OneSymbol, StringIs
  <2>3. sym \in Symbols
    BY ONLY <2>2, Cat
  <2>. QED  BY <2>1, <2>3
<1>3. range \in Ranges /\ Reserved(range) /\ range.got < range.size /\ tx \in Locals
  BY <1>1, RangeFilling DEF Types
<1>4. range' \in Ranges /\ Reserved(range)'
  <2>1. Pushed(range) \in Ranges /\ Reserved(Pushed(range))
    BY <1>3, PushFacts
  <2>. QED  BY <1>1, <2>1 DEF Reserved
<1>5. ASSUME NEW t \in Symbols, TxRead(pc, tx, range, t)
      PROVE  /\ tx' \in Locals
             /\ Complete(Pushed(range)) =>
                  tx'.items = << >> /\ NoWitness(tx'.ins) /\ t \o sym = Outs(tx')
             /\ ~Complete(Pushed(range)) => AtOut(tx', Pushed(range), t \o sym)
  <2>1. AtOut(tx, range, t)
    BY <1>1, <1>5 DEF TxRead
  <2>2. /\ v \in Nat /\ s \in Strings /\ t \in Symbols
        /\ range \in Ranges /\ Reserved(range) /\ tx \in Locals
    BY <1>2, <1>3
  <2>3. OutputIn(WithOutput(tx, v, s), range, t \o (<<v>> \o s))
    BY ONLY <2>1, <2>2, OutputRead
  <2>4. tx' = WithOutput(tx, v, s)
    BY <1>1 DEF WithOutput
  <2>. QED  BY <1>1, <2>3, <2>4 DEF OutputIn
<1>6. pc \in InTx
  BY <1>1 DEF InTx
<1>7. tx' \in Locals /\ tx'.segwit = tx.segwit /\ tx'.ins = tx.ins
  <2>1. \E t \in Symbols : TxRead(pc, tx, range, t)
    BY <1>6 DEF GoodInv, InsideTx
  <2>2. tx' \in Locals
    BY <1>5, <2>1
  <2>3. tx'.segwit = tx.segwit /\ tx'.ins = tx.ins
    BY <1>1, <1>3 DEF Locals
  <2>. QED  BY <2>2, <2>3
<1>. HIDE DEF sym
<1>8. CASE Complete(Pushed(range))
  BY <1>1, <1>2, <1>4, <1>5, <1>6, <1>7, <1>8, AfterOutputsStep
<1>9. CASE ~Complete(Pushed(range))
  <2>1. pc' = "out" /\ pc' \in InTx
    BY <1>1, <1>9 DEF InTx
  <2>2. \A t \in Symbols :
          TxRead(pc, tx, range, t) => TxRead(pc', tx', range', t \o sym)
    BY <1>1, <1>5, <1>9, <2>1 DEF TxRead
  <2>. QED  BY <1>1, <1>2, <1>4, <1>6, <1>7, <2>1, <2>2, FieldStep
<1>. QED  BY <1>8, <1>9

(* A stack is complete. *)
LEMMA WitnessedStep ==
  ASSUME GoodInv, pc \in InTx, NEW items, Witnessed(items), SomeWitness(items),
         NEW sym \in Symbols, taken' = taken \o sym,
         range' \in Ranges, Reserved(range)',
         UNCHANGED <<kind, header, outer, txs, result>>,
         \A t \in Symbols :
           TxRead(pc, tx, range, t)
             => /\ tx.segwit /\ NoWitness(tx.ins)
                /\ items \in Seq(Stacks) /\ Len(items) <= Len(tx.ins)
                /\ t \o sym = Outs(tx) \o FlattenSeq(StackParts(items))
  PROVE  GoodInv'
<1>1. Types /\ InsideTx
  BY DEF GoodInv
<1>2. taken' \in Symbols
  BY <1>1, Cat DEF Types
<1>3. PICK x \in Locals : x = tx
  BY <1>1 DEF Types
<1>4. PICK t0 \in Symbols : TxRead(pc, tx, range, t0)
  BY <1>1 DEF InsideTx
<1>. DEFINE more == [x EXCEPT !.items = items]
            last == [x EXCEPT !.ins = WithWitness(@, items), !.items = << >>]
<1>5. ASSUME NEW t \in Symbols, TxRead(pc, tx, range, t)
      PROVE  /\ Len(items) < Len(x.ins) => more \in Locals /\ AtWitCount(more, t \o sym)
             /\ ~(Len(items) < Len(x.ins)) =>
                  /\ last \in Locals
                  /\ AnyWitness(last.ins) => AtLocktime(last, t \o sym)
  <2>1. /\ x.segwit /\ NoWitness(x.ins)
        /\ items \in Seq(Stacks) /\ Len(items) <= Len(x.ins)
        /\ t \o sym = Outs(x) \o FlattenSeq(StackParts(items))
    BY <1>3, <1>5
  <2>. QED  BY <2>1, StackDone
<1>. HIDE DEF more, last
<1>6. CASE Len(items) < Len(x.ins)
  <2>1. tx' = more /\ pc' = "witcount"
    BY <1>3, <1>6 DEF Witnessed, more
  <2>2. tx' \in Locals
    BY <1>4, <1>5, <1>6, <2>1
  <2>3. \A t \in Symbols : TxRead(pc, tx, range, t) => TxRead(pc', tx', range', t \o sym)
    BY <1>5, <1>6, <2>1 DEF TxRead
  <2>4. pc' \in InTx
    BY <2>1 DEF InTx
  <2>. QED  BY <2>1, <2>2, <2>3, <2>4, FieldStep
<1>7. CASE ~(Len(items) < Len(x.ins))
  <2>1. Len(items) = Len(x.ins)
    <3>1. items \in Seq(Stacks) /\ Len(items) <= Len(x.ins)
      BY <1>3, <1>4
    <3>2. Len(items) \in Nat /\ Len(x.ins) \in Nat
      BY <1>3, <3>1, LenProperties DEF Locals
    <3>. QED  BY <1>7, <3>1, <3>2
  <2>2. AnyWitness(WithWitness(x.ins, items))
    BY <1>3, <2>1 DEF SomeWitness
  <2>3. tx' = last /\ pc' = "locktime" /\ pc' \in InTx
    BY <1>3, <1>7, <2>2 DEF Witnessed, last, InTx
  <2>4. last.ins = WithWitness(x.ins, items)
    BY DEF last, Locals
  <2>5. tx' \in Locals
    BY <1>4, <1>5, <1>7, <2>3
  <2>6. \A t \in Symbols : TxRead(pc, tx, range, t) => TxRead(pc', tx', range', t \o sym)
    BY <1>5, <1>7, <2>2, <2>3, <2>4 DEF TxRead
  <2>. QED  BY <2>3, <2>5, <2>6, FieldStep
<1>. QED  BY <1>6, <1>7

LEMMA WitnessCountStep ==
  ASSUME GoodInv, NEW n \in Byte, WitnessCount(n), ~failed'
  PROVE  GoodInv'
<1>0. PICK items : items = Append(tx.items, << >>)
  OBVIOUS
<1>1. /\ pc = "witcount" /\ range' = NewRange(n) /\ Take(<<n>>) /\ Types
      /\ IF n = 0 THEN Witnessed(items)
         ELSE pc' = "item" /\ tx' = [tx EXCEPT !.items = items]
      /\ n = 0 => SomeWitness(items)
      /\ UNCHANGED <<kind, header, outer, txs, result>>
  BY <1>0, GoodRead DEF WitnessCount, GoodInv
<1>2. n \in Nat /\ <<n>> \in Symbols /\ taken' = taken \o <<n>>
  BY <1>1, TakeOne
<1>3. tx \in Locals /\ range' \in Ranges /\ Reserved(range)'
  BY <1>1, <1>2, NewRangeFacts DEF Types, Reserved
<1>4. pc \in InTx
  BY <1>1 DEF InTx
<1>5. ASSUME NEW t \in Symbols, TxRead(pc, tx, range, t)
      PROVE  /\ tx.segwit /\ NoWitness(tx.ins)
             /\ items \in Seq(Stacks) /\ Len(items) <= Len(tx.ins)
             /\ n = 0 => t \o <<n>> = Outs(tx) \o FlattenSeq(StackParts(items))
             /\ n > 0 => /\ [tx EXCEPT !.items = items] \in Locals
                         /\ AtItem([tx EXCEPT !.items = items], NewRange(n), t \o <<n>>)
  <2>1. AtWitCount(tx, t)
    BY <1>1, <1>5 DEF TxRead
  <2>2. tx.segwit /\ NoWitness(tx.ins)
    BY <2>1 DEF AtWitCount
  <2>. QED  BY <1>0, <1>2, <1>3, <2>1, <2>2, WitCountRead
<1>6. CASE n = 0
  <2>1. Witnessed(items) /\ SomeWitness(items)
    BY <1>1, <1>6
  <2>2. \A t \in Symbols :
          TxRead(pc, tx, range, t)
            => /\ tx.segwit /\ NoWitness(tx.ins)
               /\ items \in Seq(Stacks) /\ Len(items) <= Len(tx.ins)
               /\ t \o <<n>> = Outs(tx) \o FlattenSeq(StackParts(items))
    BY <1>5, <1>6
  <2>. QED  BY <1>1, <1>2, <1>3, <1>4, <2>1, <2>2, WitnessedStep
<1>7. CASE n # 0
  <2>1. /\ pc' = "item" /\ tx' = [tx EXCEPT !.items = items]
        /\ pc' \in InTx /\ n > 0
    BY <1>1, <1>2, <1>7 DEF InTx
  <2>2. ASSUME NEW t \in Symbols, TxRead(pc, tx, range, t)
        PROVE  tx' \in Locals /\ TxRead(pc', tx', range', t \o <<n>>)
    BY <1>1, <1>5, <2>1, <2>2 DEF TxRead
  <2>3. tx' \in Locals
    <3>1. \E t \in Symbols : TxRead(pc, tx, range, t)
      BY <1>4 DEF GoodInv, InsideTx
    <3>. QED  BY <2>2, <3>1
  <2>. QED  BY <1>1, <1>2, <1>3, <1>4, <2>1, <2>2, <2>3, FieldStep
<1>. QED  BY <1>6, <1>7

LEMMA ItemStep ==
  ASSUME GoodInv, NEW s \in Strings, Item(s), ~failed'
  PROVE  GoodInv'
<1>0. PICK items : items = [tx.items EXCEPT ![Len(tx.items)] = Append(@, Tail(s))]
  OBVIOUS
<1>1. /\ pc = "item" /\ range' = Pushed(range) /\ taken' = taken \o s /\ Types
      /\ IF Complete(Pushed(range)) THEN Witnessed(items)
         ELSE pc' = "item" /\ tx' = [tx EXCEPT !.items = items]
      /\ Complete(Pushed(range)) => SomeWitness(items)
      /\ UNCHANGED <<kind, header, outer, txs, result>>
  <2>1. /\ pc = "item" /\ range' = Push(range) /\ Take(s) /\ Types
        /\ IF GoesOn(range') THEN tx' = [tx EXCEPT !.items = items] /\ pc' = "item"
           ELSE Witnessed(items)
        /\ AtLast(range) => SomeWitness(items)
        /\ UNCHANGED <<kind, header, outer, txs, result>>
    BY <1>0, GoodRead DEF Item, GoodInv
  <2>2. /\ range' = Pushed(range) /\ (GoesOn(range') <=> ~Complete(Pushed(range)))
        /\ AtLast(range) <=> Complete(Pushed(range))
    BY <2>1, RangeFilled
  <2>. QED  BY <2>1, <2>2 DEF Take
<1>2. s \in Symbols
  BY StringIs
<1>3. range \in Ranges /\ Reserved(range) /\ range.got < range.size /\ tx \in Locals
  BY <1>1, RangeFilling DEF Types
<1>4. range' \in Ranges /\ Reserved(range)'
  <2>1. Pushed(range) \in Ranges /\ Reserved(Pushed(range))
    BY <1>3, PushFacts
  <2>. QED  BY <1>1, <2>1 DEF Reserved
<1>5. pc \in InTx
  BY <1>1 DEF InTx
<1>6. ASSUME NEW t \in Symbols, TxRead(pc, tx, range, t)
      PROVE  /\ tx.segwit /\ NoWitness(tx.ins)
             /\ items \in Seq(Stacks) /\ Len(items) <= Len(tx.ins)
             /\ Complete(Pushed(range)) =>
                  t \o s = Outs(tx) \o FlattenSeq(StackParts(items))
             /\ ~Complete(Pushed(range)) =>
                  /\ [tx EXCEPT !.items = items] \in Locals
                  /\ AtItem([tx EXCEPT !.items = items], Pushed(range), t \o s)
  <2>1. AtItem(tx, range, t)
    BY <1>1, <1>6 DEF TxRead
  <2>2. tx.segwit /\ NoWitness(tx.ins)
    BY <2>1 DEF AtItem
  <2>. QED  BY <1>0, <1>3, <2>1, <2>2, ItemRead
<1>7. CASE Complete(Pushed(range))
  <2>1. Witnessed(items) /\ SomeWitness(items)
    BY <1>1, <1>7
  <2>2. \A t \in Symbols :
          TxRead(pc, tx, range, t)
            => /\ tx.segwit /\ NoWitness(tx.ins)
               /\ items \in Seq(Stacks) /\ Len(items) <= Len(tx.ins)
               /\ t \o s = Outs(tx) \o FlattenSeq(StackParts(items))
    BY <1>6, <1>7
  <2>. QED  BY <1>1, <1>2, <1>4, <1>5, <2>1, <2>2, WitnessedStep
<1>8. CASE ~Complete(Pushed(range))
  <2>1. /\ pc' = "item" /\ tx' = [tx EXCEPT !.items = items]
        /\ pc' \in InTx
    BY <1>1, <1>8 DEF InTx
  <2>2. ASSUME NEW t \in Symbols, TxRead(pc, tx, range, t)
        PROVE  tx' \in Locals /\ TxRead(pc', tx', range', t \o s)
    BY <1>1, <1>6, <1>8, <2>1, <2>2 DEF TxRead
  <2>3. tx' \in Locals
    <3>1. \E t \in Symbols : TxRead(pc, tx, range, t)
      BY <1>5 DEF GoodInv, InsideTx
    <3>. QED  BY <2>2, <3>1
  <2>. QED  BY <1>1, <1>2, <1>4, <1>5, <2>1, <2>2, <2>3, FieldStep
<1>. QED  BY <1>7, <1>8

LEMMA LocktimeStep ==
  ASSUME GoodInv, NEW b \in Byte, Locktime(b), ~failed'
  PROVE  GoodInv'
<1>0. PICK made : made = Transaction(tx.version, tx.ins, tx.outs, b)
  OBVIOUS
<1>1. /\ pc = "locktime" /\ Take(<<b>>)
      /\ txs' = Append(txs, made)
      /\ outer' = IF kind = "block" THEN Pushed(outer) ELSE outer
      /\ pc' = IF kind = "tx" \/ Complete(outer') THEN "end" ELSE "version"
      /\ tx' = NoTx
      /\ Types /\ Reserved(outer) /\ Reserved(range) /\ result = None
      /\ UNCHANGED <<kind, header, range, result>>
  <2>1. /\ pc = "locktime" /\ Take(<<b>>) /\ Return(made)
        /\ Types /\ Reserved(outer) /\ Reserved(range) /\ result = None /\ InsideTx
        /\ UNCHANGED <<kind, header, range, result>>
    BY <1>0, GoodRead DEF Locktime, GoodInv, InTx
  <2>2. CASE kind = "tx"
    BY <2>1, <2>2 DEF Return
  <2>3. CASE kind = "block"
    <3>1. outer \in Ranges /\ outer.got < outer.size
      BY <2>1, <2>3 DEF Types, InsideTx
    <3>2. Push(outer) = Pushed(outer) /\ (GoesOn(Pushed(outer)) <=> ~Complete(Pushed(outer)))
      BY <2>1, <3>1, GoodPush
    <3>3. outer' = Pushed(outer) /\ (GoesOn(outer') <=> ~Complete(outer'))
      BY <2>1, <2>3, <3>2 DEF Return
    <3>. QED  BY <2>1, <2>3, <3>3 DEF Return
  <2>. QED  BY <2>1, <2>2, <2>3 DEF InsideTx
<1>2. b \in Nat /\ <<b>> \in Symbols /\ taken' = taken \o <<b>> /\ taken' \in Symbols
  BY <1>1, TakeOne
<1>3. InsideTx
  BY <1>1 DEF GoodInv, InTx
<1>4. PICK t \in Symbols : taken = Before \o t /\ AtLocktime(tx, t)
  BY <1>1, <1>3 DEF InsideTx, TxRead
<1>5. made \in Transactions /\ Made(made) /\ EncodeTx(made) = t \o <<b>>
  <2>1. tx \in Locals
    BY <1>1 DEF Types
  <2>. QED  BY <1>0, <1>2, <1>4, <2>1, LocktimeRead
<1>6. /\ AllMade(txs') /\ Len(txs') = Len(txs) + 1
      /\ FlattenSeq(TxParts(txs')) = FlattenSeq(TxParts(txs)) \o (t \o <<b>>)
  BY <1>1, <1>5, TxPartsGrow DEF Types
<1>7. tx' \in Locals /\ header \in Nat
  BY <1>1 DEF Locals, NoTx, Types
<1>8. Reserved(range)' /\ range' \in Ranges /\ kind' \in Kinds
  BY <1>1 DEF Reserved, Types
<1>9. CASE kind = "tx"
  <2>1. txs = << >> /\ Before = << >>
    BY <1>3, <1>9 DEF InsideTx, Before
  <2>2. taken = t
    BY <1>4, <2>1, CatEmpty
  <2>3. pc' = "end" /\ kind' = "tx" /\ outer' = outer
    BY <1>1, <1>9
  <2>4. txs'[1] = made
    BY <1>1, <2>1
  <2>5. (Encode(kind, Object) = taken)'
    BY <1>2, <1>5, <2>2, <2>3, <2>4 DEF Encode, Object
  <2>6. Reserved(outer)' /\ outer' \in Ranges
    BY <1>1, <2>3 DEF Reserved, Types
  <2>7. Types'
    BY <1>1, <1>2, <1>6, <1>7, <1>8, <2>6 DEF Types
  <2>. QED  BY <1>1, <1>8, <2>3, <2>5, <2>6, <2>7 DEF GoodInv, Canonical, InTx
<1>10. CASE kind = "block"
  <2>1. Len(txs) = outer.got /\ outer.got < outer.size
    BY <1>3, <1>10 DEF InsideTx
  <2>2. outer \in Ranges
    BY <1>1 DEF Types
  <2>3. /\ outer' \in Ranges /\ Reserved(outer)' /\ outer'.size = outer.size
        /\ outer'.got = outer.got + 1
        /\ Complete(outer') \/ outer'.got < outer'.size
    <3>1. outer' = Pushed(outer)
      BY <1>1, <1>10
    <3>2. /\ Pushed(outer) \in Ranges /\ Reserved(Pushed(outer))
          /\ Pushed(outer).size = outer.size /\ Pushed(outer).got = outer.got + 1
          /\ Complete(Pushed(outer)) \/ Pushed(outer).got < Pushed(outer).size
      BY <1>1, <2>1, <2>2, PushFacts
    <3>. QED  BY <3>1, <3>2 DEF Reserved
  <2>4. Types'
    BY <1>1, <1>2, <1>6, <1>7, <1>8, <2>3 DEF Types
  <2>. DEFINE head == <<header>>
              len == <<outer.size>>
              flat == FlattenSeq(TxParts(txs))
              one == <<b>>
  <2>5. /\ head \in Symbols /\ len \in Symbols /\ flat \in Symbols /\ one \in Symbols
    <3>1. outer.size \in Nat
      BY <2>2 DEF Ranges
    <3>. QED  BY <1>1, <1>2, <1>7, <3>1, OneSymbol, TxPartsType, EncodeRangeType DEF Types
  <2>6. taken' = head \o (len \o (flat \o (t \o one)))
    <3>1. taken = (head \o (len \o flat)) \o t
      BY <1>4, <1>10 DEF Before
    <3>2. taken' = ((head \o (len \o flat)) \o t) \o one
      BY <1>2, <3>1
    <3>. HIDE DEF head, len, flat, one
    <3>3. flat \o t \in Symbols
      BY <2>5, Cat
    <3>4. (head \o (len \o flat)) \o t = head \o (len \o (flat \o t))
      <4>1. head \in Symbols /\ len \in Symbols /\ flat \in Symbols /\ t \in Symbols
        BY <2>5
      <4>2. Behind(head, len, flat, t)
        BY ONLY <4>1, PutBehind
      <4>. QED  BY <4>2 DEF Behind
    <3>5. (head \o (len \o (flat \o t))) \o one = head \o (len \o ((flat \o t) \o one))
      <4>1. head \in Symbols /\ len \in Symbols /\ flat \o t \in Symbols /\ one \in Symbols
        BY <2>5, <3>3
      <4>2. Behind(head, len, flat \o t, one)
        BY ONLY <4>1, PutBehind
      <4>. QED  BY <4>2 DEF Behind
    <3>6. (flat \o t) \o one = flat \o (t \o one)
      <4>1. flat \in Symbols /\ t \in Symbols /\ one \in Symbols
        BY <2>5
      <4>. QED  BY ONLY <4>1, CatCat
    <3>. QED  BY <3>2, <3>4, <3>5, <3>6
  <2>7. taken' = head \o (len \o FlattenSeq(TxParts(txs')))
    BY <1>6, <2>6
  <2>8. pc' = "end" => (Encode(kind, Object) = taken)'
    <3>. SUFFICES ASSUME pc' = "end"
                  PROVE  (Encode(kind, Object) = taken)'
      OBVIOUS
    <3>1. Complete(outer')
      BY <1>1, <1>10
    <3>2. Len(txs') = outer.size
      BY <1>6, <2>1, <2>3, <3>1 DEF Complete
    <3>3. Encode(kind, Object)' = EncodeBlock(Block(header, txs'))
      BY <1>1, <1>10 DEF Encode, Object
    <3>4. EncodeBlock(Block(header, txs'))
            = head \o (<<Len(TxParts(txs'))>> \o FlattenSeq(TxParts(txs')))
      BY DEF EncodeBlock, EncodeRange, Block, TxParts
    <3>5. Len(TxParts(txs')) = Len(txs')
      <4>1. PICK list : list = txs'
        OBVIOUS
      <4>. QED  BY <1>6, <4>1, TxPartsType
    <3>. QED  BY <2>7, <3>2, <3>3, <3>4, <3>5
  <2>9. pc' \in InTx => InsideTx'
    <3>. SUFFICES ASSUME pc' \in InTx
                  PROVE  InsideTx'
      OBVIOUS
    <3>1. pc' = "version" /\ ~Complete(outer')
      BY <1>1 DEF InTx
    <3>2. Len(txs') = outer'.got /\ outer'.got < outer'.size /\ kind' = "block"
      BY <1>1, <1>6, <1>10, <2>1, <2>3, <3>1
    <3>3. Before' = taken'
      BY <1>1, <1>10, <2>3, <2>7 DEF Before
    <3>4. taken' = Before' \o << >>
      <4>1. taken' \o << >> = taken'
        BY <1>2, ConcatEmptySeq DEF Symbols
      <4>. QED  BY <3>3, <4>1
    <3>5. TxRead(pc', tx', range', << >>)
      BY <3>1 DEF TxRead
    <3>. QED  BY <3>2, <3>4, <3>5, EmptySymbols DEF InsideTx
  <2>10. pc' \notin {"header", "txcount"}
    BY <1>1
  <2>. QED  BY <1>1, <1>8, <2>3, <2>4, <2>8, <2>9, <2>10 DEF GoodInv, Canonical
<1>. QED  BY <1>3, <1>9, <1>10 DEF InsideTx

LEMMA EndStep ==
  ASSUME GoodInv, End
  PROVE  GoodInv'
<1>1. /\ pc = "end" /\ pc' = "done" /\ (result' = Object \/ result' = None)
      /\ UNCHANGED <<kind, taken, failed, header, outer, txs, tx, range>>
      /\ Encode(kind, Object) = taken
      /\ Types /\ Reserved(outer) /\ Reserved(range)
  BY DEF End, GoodInv
<1>2. Types' /\ Reserved(outer)' /\ Reserved(range)'
  BY <1>1 DEF Types, Reserved
<1>3. Canonical'
  BY <1>1 DEF Canonical
<1>4. pc' \notin InTx
  BY <1>1 DEF InTx
<1>. QED  BY <1>1, <1>2, <1>3, <1>4 DEF GoodInv

LEMMA StutterStep ==
  ASSUME GoodInv, UNCHANGED vars
  PROVE  GoodInv'
<1>1. Before' = Before /\ Object' = Object
  BY DEF vars, Before, Object
<1>2. InsideTx => InsideTx'
  BY <1>1 DEF vars, InsideTx
<1>3. Types' /\ Canonical'
  BY DEF GoodInv, vars, Types, Canonical
<1>. QED  BY <1>1, <1>2, <1>3 DEF GoodInv, vars, Reserved

(* A step after which nothing has failed. *)
LEMMA GoodStep ==
  ASSUME GoodInv, Next, ~failed'
  PROVE  GoodInv'
<1>1. ASSUME NEW b \in Byte, Header(b) PROVE GoodInv'
  BY <1>1, HeaderStep
<1>2. ASSUME NEW b \in Byte, TxCount(b) PROVE GoodInv'
  BY <1>2, TxCountStep
<1>3. ASSUME NEW b \in Byte, Version(b) PROVE GoodInv'
  BY <1>3, VersionStep
<1>4. ASSUME NEW b \in Byte, InCount(b) PROVE GoodInv'
  BY <1>4, InCountStep
<1>5. ASSUME NEW b \in Byte, Flags(b) PROVE GoodInv'
  BY <1>5, FlagsStep
<1>6. ASSUME NEW b \in Byte, OutCount(b) PROVE GoodInv'
  BY <1>6, OutCountStep
<1>7. ASSUME NEW b \in Byte, WitnessCount(b) PROVE GoodInv'
  BY <1>7, WitnessCountStep
<1>8. ASSUME NEW b \in Byte, Locktime(b) PROVE GoodInv'
  BY <1>8, LocktimeStep
<1>9. ASSUME NEW p \in Byte, NEW q \in Byte, NEW s \in Strings, Txin(p, s, q)
      PROVE  GoodInv'
  BY <1>9, TxinStep
<1>10. ASSUME NEW v \in Byte, NEW s \in Strings, Txout(v, s) PROVE GoodInv'
  BY <1>10, TxoutStep
<1>11. ASSUME NEW s \in Strings, Item(s) PROVE GoodInv'
  BY <1>11, ItemStep
<1>12. CASE End
  BY <1>12, EndStep
<1>13. CASE Done
  BY <1>13, StutterStep DEF Done
<1>. QED
  BY <1>1, <1>2, <1>3, <1>4, <1>5, <1>6, <1>7, <1>8, <1>9, <1>10, <1>11, <1>12,
     <1>13 DEF Next

-----------------------------------------------------------------------------
(* Failures *)

(* What is left of decoding after a failure: fields that are zero, at most  *)
(* the end of a range, and nothing that is reserved or returned.            *)
Halts ==
  /\ range' \in Ranges /\ WithinBatch(range') /\ range'.cap <= range.cap
  /\ outer' \in Ranges /\ WithinBatch(outer') /\ outer'.cap <= outer.cap
  /\ pc' \in {"txcount", "incount", "flags", "outcount", "witcount", "locktime", "end",
              "done"}
  /\ kind' = "block" /\ pc' \in InTx => outer'.got < outer'.cap
  /\ result' = None
  /\ failed => /\ taken' = taken /\ range'.got <= range.got
               /\ txs' # txs => pc' = "end"

(* The step of a failure, and the steps after it. *)
LEMMA FailedRead ==
  ASSUME NEW s, NEW zero, NEW ok, Read(s, zero, ok), failed'
  PROVE  (s = zero \/ ~ok) /\ (failed => s = zero /\ taken' = taken)
BY DEF Read

LEMMA NoRoom ==
  /\ NewRange(0) \in Ranges /\ WithinBatch(NewRange(0))
  /\ NewRange(0).cap = 0 /\ NewRange(0).got = 0
BY DecoderAssumption DEF NewRange, Ranges, WithinBatch, Smaller

LEMMA HaltingRange ==
  ASSUME Room, range' = range \/ range' = NewRange(0)
  PROVE  /\ range' \in Ranges /\ WithinBatch(range') /\ range'.cap <= range.cap
         /\ range'.got <= range.got
<1>1. CASE range' = range
  BY <1>1 DEF Room, Ranges
<1>2. CASE range' = NewRange(0)
  BY <1>2, NoRoom DEF Room, Ranges
<1>. QED  BY <1>1, <1>2

LEMMA HaltingFilling ==
  ASSUME Room, pc \in {"in", "out", "item"}, range' = Push(range), failed'
  PROVE  /\ range' \in Ranges /\ WithinBatch(range') /\ range'.cap <= range.cap
         /\ ~GoesOn(range')
<1>1. range \in Ranges /\ WithinBatch(range) /\ range.got < range.cap
  BY DEF Room
<1>2. /\ Push(range) \in Ranges /\ WithinBatch(Push(range)) /\ Push(range).cap = range.cap
      /\ ~GoesOn(Push(range))
  BY <1>1, LastPush
<1>. QED  BY <1>1, <1>2 DEF Ranges

(* The transactions' range, where the transaction goes on. *)
LEMMA HaltingOuter ==
  ASSUME Room, pc \in InTx, outer' = outer, kind' = kind
  PROVE  /\ outer' \in Ranges /\ WithinBatch(outer') /\ outer'.cap <= outer.cap
         /\ kind' = "block" => outer'.got < outer'.cap
BY DEF Room, Ranges

LEMMA HaltingReturn ==
  ASSUME Room, pc \in InTx, NEW x, Return(x), failed'
  PROVE  /\ outer' \in Ranges /\ WithinBatch(outer') /\ outer'.cap <= outer.cap
         /\ pc' = "end"
<1>1. CASE kind = "block"
  <2>1. outer \in Ranges /\ WithinBatch(outer) /\ outer.got < outer.cap
    BY <1>1 DEF Room
  <2>2. /\ Push(outer) \in Ranges /\ WithinBatch(Push(outer)) /\ Push(outer).cap = outer.cap
        /\ ~GoesOn(Push(outer))
    BY <2>1, LastPush
  <2>3. outer' = Push(outer) /\ pc' = IF GoesOn(outer') THEN "version" ELSE "end"
    BY <1>1 DEF Return
  <2>. QED  BY <2>1, <2>2, <2>3 DEF Ranges
<1>2. CASE kind # "block"
  BY <1>2 DEF Return, Room, Ranges
<1>. QED  BY <1>1, <1>2

LEMMA HeaderHalts ==
  ASSUME DecoderInv, NEW b \in Byte, Header(b), failed'
  PROVE  Halts
<1>1. /\ pc = "header" /\ ~failed /\ Room /\ result' = None
      /\ UNCHANGED <<kind, outer, txs, tx, range>>
      /\ pc' = IF kind = "header" THEN "end" ELSE "txcount"
  BY DEF Header, DecoderInv, Stopped, Room
<1>. QED  BY <1>1, HaltingRange DEF Halts, Room, Ranges, InTx

LEMMA TxCountHalts ==
  ASSUME DecoderInv, NEW n \in Byte, TxCount(n), failed'
  PROVE  Halts
<1>1. /\ pc = "txcount" /\ Room /\ result' = None /\ outer' = NewRange(n)
      /\ pc' = IF n = 0 THEN "end" ELSE "version"
      /\ UNCHANGED <<txs, range>>
  BY DEF TxCount, DecoderInv, Room
<1>2. <<n>> = <<0>> /\ (failed => taken' = taken)
  BY FailedRead DEF TxCount
<1>3. n = 0
  BY <1>2
<1>. QED  BY <1>1, <1>2, <1>3, NoRoom, HaltingRange DEF Halts, Room, Ranges, InTx

LEMMA VersionHalts ==
  ASSUME DecoderInv, NEW b \in Byte, Version(b), failed'
  PROVE  Halts
<1>1. /\ pc = "version" /\ pc' = "incount" /\ ~failed /\ Room /\ result' = None
      /\ UNCHANGED <<kind, outer, txs, range>>
  BY DEF Version, DecoderInv, Stopped, Room
<1>. QED  BY <1>1, HaltingRange, HaltingOuter DEF Halts, InTx

LEMMA InCountHalts ==
  ASSUME DecoderInv, NEW n \in Byte, InCount(n), failed'
  PROVE  Halts
<1>1. /\ pc = "incount" /\ Room /\ result' = None /\ range' = NewRange(n)
      /\ pc' = IF n > 0 THEN "in" ELSE IF tx.segwit THEN "outcount" ELSE "flags"
      /\ UNCHANGED <<kind, outer, txs>>
  BY DEF InCount, DecoderInv, Room
<1>2. <<n>> = <<0>> /\ (failed => taken' = taken)
  BY FailedRead DEF InCount
<1>3. n = 0
  BY <1>2
<1>. QED  BY <1>1, <1>2, <1>3, HaltingRange, HaltingOuter DEF Halts, InTx

LEMMA FlagsHalts ==
  ASSUME DecoderInv, NEW b \in Byte, Flags(b), failed'
  PROVE  Halts
<1>1. /\ pc = "flags" /\ Room /\ result' = None /\ UNCHANGED <<kind, range>>
  BY DEF Flags, DecoderInv, Room
<1>2. (<<b>> = <<0>> \/ b # 1) /\ (failed => <<b>> = <<0>> /\ taken' = taken)
  BY FailedRead DEF Flags
<1>3. CASE b = 0
  <2>1. pc' = "locktime" /\ UNCHANGED <<outer, txs>>
    BY <1>3 DEF Flags
  <2>. QED  BY <1>1, <1>2, <2>1, HaltingRange, HaltingOuter DEF Halts, InTx
<1>4. CASE b # 0
  <2>1. ~failed /\ b # 1 /\ Return(DefaultTransaction)
    BY <1>2, <1>4 DEF Flags
  <2>2. /\ outer' \in Ranges /\ WithinBatch(outer') /\ outer'.cap <= outer.cap
        /\ pc' = "end"
    BY <1>1, <2>1, HaltingReturn DEF InTx
  <2>. QED  BY <1>1, <2>1, <2>2, HaltingRange DEF Halts, InTx
<1>. QED  BY <1>3, <1>4

LEMMA TxinHalts ==
  ASSUME DecoderInv, NEW p \in Byte, NEW q \in Byte, NEW s \in Strings, Txin(p, s, q), failed'
  PROVE  Halts
<1>1. /\ pc = "in" /\ ~failed /\ Room /\ result' = None /\ range' = Push(range)
      /\ pc' = IF GoesOn(range') THEN "in" ELSE "outcount"
      /\ UNCHANGED <<kind, outer, txs>>
  BY DEF Txin, DecoderInv, Stopped, Room
<1>. QED  BY <1>1, HaltingFilling, HaltingOuter DEF Halts, InTx

LEMMA OutCountHalts ==
  ASSUME DecoderInv, NEW n \in Byte, OutCount(n), failed'
  PROVE  Halts
<1>1. /\ pc = "outcount" /\ Room /\ result' = None /\ range' = NewRange(n)
      /\ IF n = 0 THEN AfterOutputs ELSE pc' = "out"
      /\ UNCHANGED <<kind, outer, txs>>
  BY DEF OutCount, DecoderInv, Room
<1>2. (<<n>> = <<0>> \/ n = 0) /\ (failed => taken' = taken)
  BY FailedRead DEF OutCount
<1>3. n = 0
  BY <1>2
<1>4. pc' \in {"witcount", "locktime"}
  BY <1>1, <1>3 DEF AfterOutputs
<1>. QED  BY <1>1, <1>2, <1>3, <1>4, HaltingRange, HaltingOuter DEF Halts, InTx

LEMMA TxoutHalts ==
  ASSUME DecoderInv, NEW v \in Byte, NEW s \in Strings, Txout(v, s), failed'
  PROVE  Halts
<1>1. /\ pc = "out" /\ ~failed /\ Room /\ result' = None /\ range' = Push(range)
      /\ IF GoesOn(range') THEN pc' = "out" ELSE AfterOutputs
      /\ UNCHANGED <<kind, outer, txs>>
  BY DEF Txout, DecoderInv, Stopped, Room
<1>2. /\ range' \in Ranges /\ WithinBatch(range') /\ range'.cap <= range.cap
      /\ ~GoesOn(range')
  BY <1>1, HaltingFilling
<1>3. pc' \in {"witcount", "locktime"}
  BY <1>1, <1>2 DEF AfterOutputs
<1>. QED  BY <1>1, <1>2, <1>3, HaltingOuter DEF Halts, InTx

LEMMA WitnessCountHalts ==
  ASSUME DecoderInv, NEW n \in Byte, WitnessCount(n), failed'
  PROVE  Halts
<1>1. PICK items, ok : /\ Read(<<n>>, <<0>>, n = 0 => ok)
                       /\ n = 0 => Witnessed(items)
  BY DEF WitnessCount
<1>2. /\ pc = "witcount" /\ Room /\ result' = None /\ range' = NewRange(n)
      /\ UNCHANGED <<kind, outer, txs>>
  BY DEF WitnessCount, DecoderInv, Room
<1>3. (<<n>> = <<0>> \/ n = 0) /\ (failed => taken' = taken)
  BY <1>1, FailedRead
<1>4. n = 0
  BY <1>3
<1>5. pc' \in {"witcount", "locktime"}
  BY <1>1, <1>4 DEF Witnessed
<1>. QED  BY <1>2, <1>3, <1>4, <1>5, HaltingRange, HaltingOuter DEF Halts, InTx

LEMMA ItemHalts ==
  ASSUME DecoderInv, NEW s \in Strings, Item(s), failed'
  PROVE  Halts
<1>1. PICK items : ~GoesOn(range') => Witnessed(items)
  BY DEF Item
<1>2. /\ pc = "item" /\ ~failed /\ Room /\ result' = None /\ range' = Push(range)
      /\ UNCHANGED <<kind, outer, txs>>
  BY DEF Item, DecoderInv, Stopped, Room
<1>3. /\ range' \in Ranges /\ WithinBatch(range') /\ range'.cap <= range.cap
      /\ ~GoesOn(range')
  BY <1>2, HaltingFilling
<1>4. pc' \in {"witcount", "locktime"}
  BY <1>1, <1>3 DEF Witnessed
<1>. QED  BY <1>2, <1>3, <1>4, HaltingOuter DEF Halts, InTx

LEMMA LocktimeHalts ==
  ASSUME DecoderInv, NEW b \in Byte, Locktime(b), failed'
  PROVE  Halts
<1>1. PICK made : Return(made)
  BY DEF Locktime
<1>2. /\ pc = "locktime" /\ pc \in InTx /\ Room /\ result' = None /\ range' = range
      /\ failed => taken' = taken
  BY FailedRead DEF Locktime, DecoderInv, Room, InTx
<1>3. /\ outer' \in Ranges /\ WithinBatch(outer') /\ outer'.cap <= outer.cap
      /\ pc' = "end"
  BY <1>1, <1>2, HaltingReturn
<1>. QED  BY <1>2, <1>3, HaltingRange DEF Halts, InTx

LEMMA EndHalts ==
  ASSUME DecoderInv, End \/ Done, failed'
  PROVE  Halts
<1>1. /\ failed /\ Room /\ result' = None /\ pc' = "done"
      /\ UNCHANGED <<kind, taken, outer, txs, range>>
  BY DEF End, Done, DecoderInv, Stopped, vars
<1>. QED  BY <1>1, HaltingRange DEF Halts, Room, Ranges, InTx

LEMMA FailedStep ==
  ASSUME DecoderInv, Next, failed'
  PROVE  Halts
<1>1. ASSUME NEW b \in Byte, Header(b) PROVE Halts
  BY <1>1, HeaderHalts
<1>2. ASSUME NEW b \in Byte, TxCount(b) PROVE Halts
  BY <1>2, TxCountHalts
<1>3. ASSUME NEW b \in Byte, Version(b) PROVE Halts
  BY <1>3, VersionHalts
<1>4. ASSUME NEW b \in Byte, InCount(b) PROVE Halts
  BY <1>4, InCountHalts
<1>5. ASSUME NEW b \in Byte, Flags(b) PROVE Halts
  BY <1>5, FlagsHalts
<1>6. ASSUME NEW b \in Byte, OutCount(b) PROVE Halts
  BY <1>6, OutCountHalts
<1>7. ASSUME NEW b \in Byte, WitnessCount(b) PROVE Halts
  BY <1>7, WitnessCountHalts
<1>8. ASSUME NEW b \in Byte, Locktime(b) PROVE Halts
  BY <1>8, LocktimeHalts
<1>9. ASSUME NEW p \in Byte, NEW q \in Byte, NEW s \in Strings, Txin(p, s, q)
      PROVE  Halts
  BY <1>9, TxinHalts
<1>10. ASSUME NEW v \in Byte, NEW s \in Strings, Txout(v, s) PROVE Halts
  BY <1>10, TxoutHalts
<1>11. ASSUME NEW s \in Strings, Item(s) PROVE Halts
  BY <1>11, ItemHalts
<1>12. CASE End \/ Done
  BY <1>12, EndHalts
<1>. QED
  BY <1>1, <1>2, <1>3, <1>4, <1>5, <1>6, <1>7, <1>8, <1>9, <1>10, <1>11, <1>12 DEF Next

(* While nothing has failed, what the ranges have reserved follows from the *)
(* counts.                                                                  *)
LEMMA GoodRoom == GoodInv => Room
<1>. SUFFICES ASSUME GoodInv PROVE Room
  OBVIOUS
<1>1. Types /\ Reserved(outer) /\ Reserved(range) /\ (pc # "done" => result = None)
  BY DEF GoodInv
<1>2. pc \in {"in", "out", "item"} => range.got < range.cap
  BY RangeFilling DEF Reserved
<1>3. kind = "block" /\ pc \in InTx => outer.got < outer.cap
  <2>1. kind = "block" /\ pc \in InTx => outer.got < outer.size
    BY DEF GoodInv, InsideTx
  <2>. QED  BY <1>1, <2>1 DEF Reserved
<1>. QED  BY <1>1, <1>2, <1>3 DEF Room, Types, Reserved

LEMMA StartInv == Init => DecoderInv
BY StartGood, GoodRoom DEF DecoderInv, Init

LEMMA FailedIsBoolean ==
  ASSUME failed \in BOOLEAN, Next
  PROVE  failed' \in BOOLEAN
<1>1. ASSUME NEW s, NEW zero, NEW ok, Read(s, zero, ok)
      PROVE  failed' \in BOOLEAN
  BY <1>1 DEF Read
<1>2. CASE End \/ Done
  BY <1>2 DEF End, Done, vars
<1>3. CASE ~(End \/ Done)
  <2>1. \E s, zero, ok : Read(s, zero, ok)
    BY <1>3, Zenon DEF Next, Header, TxCount, Version, InCount, Flags, Txin, OutCount, Txout,
             WitnessCount, Item, Locktime
  <2>. QED  BY <1>1, <2>1
<1>. QED  BY <1>2, <1>3

LEMMA FailureStays ==
  ASSUME Next, failed
  PROVE  failed'
<1>1. ASSUME NEW s, NEW zero, NEW ok, Read(s, zero, ok)
      PROVE  failed'
  BY <1>1 DEF Read
<1>2. CASE End \/ Done
  BY <1>2 DEF End, Done, vars
<1>3. CASE ~(End \/ Done)
  <2>1. \E s, zero, ok : Read(s, zero, ok)
    BY <1>3, Zenon DEF Next, Header, TxCount, Version, InCount, Flags, Txin, OutCount, Txout,
             WitnessCount, Item, Locktime
  <2>. QED  BY <1>1, <2>1
<1>. QED  BY <1>2, <1>3

(* What has been read without a failure is, at every field, the encoding of *)
(* what was made of it, for inputs of any length, counts of any size and    *)
(* any batch; and whether or not there was a failure, the ranges keep       *)
(* within a batch.                                                          *)
THEOREM DecoderInductive == Spec => []DecoderInv
<1>1. DecoderInv /\ [Next]_vars => DecoderInv'
  <2>. SUFFICES ASSUME DecoderInv, [Next]_vars
                PROVE  DecoderInv'
    OBVIOUS
  <2>1. CASE UNCHANGED vars
    <3>1. GoodInv => GoodInv'
      BY <2>1, StutterStep
    <3>. QED  BY <2>1, <3>1 DEF DecoderInv, vars, Room, WithinBatch, Stopped
  <2>2. CASE Next /\ ~failed'
    <3>1. ~failed
      BY <2>2, FailureStays
    <3>2. GoodInv' /\ Room'
      <4>1. GoodInv'
        BY <2>2, <3>1, GoodStep DEF DecoderInv
      <4>2. GoodInv' => Room'
        BY GoodRoom, PTL
      <4>. QED  BY <4>1, <4>2
    <3>3. failed' \in BOOLEAN
      BY <2>2, FailedIsBoolean DEF DecoderInv
    <3>. QED  BY <2>2, <3>2, <3>3 DEF DecoderInv
  <2>3. CASE Next /\ failed'
    <3>1. Halts
      BY <2>3, FailedStep
    <3>2. failed' \in BOOLEAN
      BY <2>3, FailedIsBoolean DEF DecoderInv
    <3>. QED  BY <2>3, <3>1, <3>2 DEF DecoderInv, Halts, Room, WithinBatch, Stopped
  <2>. QED  BY <2>1, <2>2, <2>3
<1>. QED  BY <1>1, StartInv, PTL DEF Spec

(* serialize() of what a parser returns is, symbol for symbol, the input    *)
(* that it accepted: decode_tx, decode_witness and decode_block accept one  *)
(* encoding of an object and drop nothing, and what was decoded after a     *)
(* failure is not returned.                                                 *)
THEOREM AcceptsOnlyEncodings == Spec => []Canonical
<1>1. DecoderInv => Canonical
  BY DEF DecoderInv, GoodInv, Stopped, Canonical
<1>. QED  BY <1>1, DecoderInductive, PTL

(* decode_range never has room for more than a batch beyond the elements    *)
(* that were there, whatever the count promised.                            *)
THEOREM ReservesWhatIsThere == Spec => []ReservesByBatch
<1>1. DecoderInv => ReservesByBatch
  BY DEF DecoderInv, Room, ReservesByBatch, WithinBatch
<1>. QED  BY <1>1, DecoderInductive, PTL

(* However the loops are nested and whatever the counts promised: after a   *)
(* failure nothing is read or reserved, no range starts another element,    *)
(* the transactions end, and nothing is returned.                           *)
THEOREM FailureStops == Spec => StopsOnFailure
<1>1. DecoderInv /\ [Next]_vars
        => [/\ failed' => range'.cap <= range.cap /\ outer'.cap <= outer.cap
            /\ failed => /\ taken' = taken /\ result' = None
                         /\ range'.got <= range.got
                         /\ txs' # txs => pc' = "end"]_vars
  <2>. SUFFICES ASSUME DecoderInv, Next
                PROVE  /\ failed' => range'.cap <= range.cap /\ outer'.cap <= outer.cap
                       /\ failed => /\ taken' = taken /\ result' = None
                                    /\ range'.got <= range.got
                                    /\ txs' # txs => pc' = "end"
    OBVIOUS
  <2>1. failed' => Halts
    BY FailedStep
  <2>2. failed => failed'
    BY FailureStays
  <2>. QED  BY <2>1, <2>2 DEF Halts
<1>. QED  BY <1>1, DecoderInductive, PTL DEF Spec, StopsOnFailure

-----------------------------------------------------------------------------
(* What was read is the front of what was written.                          *)

(* Two sequences that start with as many symbols start with the same ones.  *)
LEMMA SameFront ==
  ASSUME NEW a \in Symbols, NEW b \in Symbols, NEW c \in Symbols, NEW d \in Symbols,
         a \o b = c \o d, Len(a) = Len(c)
  PROVE  a = c /\ b = d
<1>1. /\ Len(a) \in Nat /\ Len(b) \in Nat /\ Len(c) \in Nat /\ Len(d) \in Nat
      /\ Len(a \o b) = Len(a) + Len(b) /\ Len(c \o d) = Len(c) + Len(d)
  BY ConcatProperties, LenProperties DEF Symbols
<1>2. \A i \in 1 .. Len(a) : a[i] = c[i]
  <2>. SUFFICES ASSUME NEW i \in 1 .. Len(a)
                PROVE  a[i] = c[i]
    OBVIOUS
  <2>1. (a \o b)[i] = a[i]
    BY InFront
  <2>2. i \in 1 .. Len(c)
    OBVIOUS
  <2>3. (c \o d)[i] = c[i]
    BY <2>2, InFront
  <2>. QED  BY <2>1, <2>3
<1>3. a = c
  BY <1>2, SeqEqual DEF Symbols
<1>4. Len(b) = Len(d)
  BY <1>1
<1>5. \A i \in 1 .. Len(b) : b[i] = d[i]
  <2>. SUFFICES ASSUME NEW i \in 1 .. Len(b)
                PROVE  b[i] = d[i]
    OBVIOUS
  <2>1. ASSUME NEW e \in Symbols, NEW f \in Symbols, i \in 1 .. Len(f)
        PROVE  (e \o f)[Len(e) + i] = f[i]
    <3>1. /\ Len(e) \in Nat /\ Len(f) \in Nat
          /\ \A j \in 1 .. Len(e) + Len(f) :
               (e \o f)[j] = IF j <= Len(e) THEN e[j] ELSE f[j - Len(e)]
      BY ConcatProperties, LenProperties DEF Symbols
    <3>2. /\ Len(e) + i \in 1 .. Len(e) + Len(f) /\ ~(Len(e) + i <= Len(e))
          /\ (Len(e) + i) - Len(e) = i
      BY <2>1, <3>1
    <3>. QED  BY <3>1, <3>2
  <2>2. (a \o b)[Len(a) + i] = b[i]
    BY <2>1
  <2>3. i \in 1 .. Len(d)
    BY <1>4
  <2>4. (c \o d)[Len(c) + i] = d[i]
    BY <2>1, <2>3
  <2>. QED  BY <2>2, <2>4
<1>6. b = d
  BY <1>4, <1>5, SeqEqual DEF Symbols
<1>. QED  BY <1>3, <1>6

(* Behind t stands w; s, read behind t, is a front of w. *)
LEMMA ReadFront ==
  ASSUME NEW t \in Symbols, NEW s \in Symbols, NEW w \in Symbols,
         IsPrefix(t \o s, t \o w)
  PROVE  \E v \in Symbols : w = s \o v
<1>. DEFINE a == t \o s
            b == t \o w
            n == Len(a)
            v == SubSeq(b, n + 1, Len(b))
<1>1. a \in Symbols /\ b \in Symbols
  BY Cat
<1>2. n \in Nat /\ Len(b) \in Nat /\ n <= Len(b) /\ SubSeq(b, 1, n) = a
  <2>. HIDE DEF a, b
  <2>1. IsPrefix(a, b)
    BY DEF a, b
  <2>2. a \in Seq(Nat) /\ b \in Seq(Nat)
    BY <1>1 DEF Symbols
  <2>3. Len(a) \in Nat /\ Len(b) \in Nat /\ SubSeq(a, 1, Len(a)) = a
    BY <2>2, LenProperties, SubSeqFull
  <2>. QED  BY <2>1, <2>3 DEF IsPrefix
<1>. HIDE DEF a, b, n
<1>3. b = SubSeq(b, 1, n) \o v /\ v \in Symbols
  <2>1. b \in Seq(Nat) /\ n \in 0 .. Len(b)
    BY <1>1, <1>2 DEF Symbols
  <2>2. /\ SubSeq(b, 1, n) \in Seq(Nat) /\ Len(SubSeq(b, 1, n)) = n
        /\ \A i \in 1 .. n : SubSeq(b, 1, n)[i] = b[i]
    <3>1. \A i \in 1 .. n : b[i] \in Nat
      BY <2>1, <1>2, ElementOfSeq
    <3>. QED  BY <1>2, <2>1, <1>1 DEF Symbols
  <2>3. /\ v \in Seq(Nat) /\ Len(v) = Len(b) - n
        /\ \A i \in 1 .. Len(b) - n : v[i] = b[n + i]
    <3>1. \A i \in n + 1 .. Len(b) : b[i] \in Nat
      BY <2>1, <1>2, ElementOfSeq
    <3>. QED  BY <1>2, <2>1, <3>1, SubSeqProperties
  <2>. DEFINE p == SubSeq(b, 1, n)
  <2>. HIDE DEF p, v
  <2>4. /\ p \o v \in Seq(Nat) /\ Len(p \o v) = Len(b)
        /\ \A i \in 1 .. Len(b) : (p \o v)[i] = IF i <= n THEN p[i] ELSE v[i - n]
    <3>1. p \in Seq(Nat) /\ Len(p) = n /\ v \in Seq(Nat)
      BY <2>2, <2>3 DEF p
    <3>2. Len(p) + Len(v) = Len(b)
      BY <1>2, <2>3, <3>1
    <3>. QED  BY <3>1, <3>2, ConcatProperties
  <2>5. \A i \in 1 .. Len(b) : b[i] = (p \o v)[i]
    <3>. SUFFICES ASSUME NEW i \in 1 .. Len(b)
                  PROVE  b[i] = (p \o v)[i]
      OBVIOUS
    <3>1. CASE i <= n
      BY <1>2, <2>2, <2>4, <3>1 DEF p
    <3>2. CASE ~(i <= n)
      <4>1. i - n \in 1 .. Len(b) - n /\ n + (i - n) = i
        BY <1>2, <3>2
      <4>. QED  BY <2>3, <2>4, <3>2, <4>1
    <3>. QED  BY <3>1, <3>2
  <2>6. b = p \o v
    BY <2>1, <2>4, <2>5, SeqEqual
  <2>. QED  BY <2>3, <2>6 DEF p, Symbols
<1>. HIDE DEF v
<1>4. b = (t \o s) \o v
  BY <1>2, <1>3 DEF a
<1>5. (t \o s) \o v = t \o (s \o v) /\ s \o v \in Symbols
  <2>1. t \in Symbols /\ s \in Symbols /\ v \in Symbols
    BY <1>3
  <2>2. (t \o s) \o v = t \o (s \o v)
    BY ONLY <2>1, CatCat
  <2>3. s \o v \in Symbols
    BY ONLY <2>1, Cat
  <2>. QED  BY <2>2, <2>3
<1>6. t \o w = t \o (s \o v)
  BY <1>4, <1>5 DEF b
<1>7. w = s \o v
  BY <1>5, <1>6, SameFront
<1>. QED  BY <1>3, <1>7

LEMMA FrontIsPrefix ==
  ASSUME NEW t \in Symbols, NEW h \in Symbols, NEW r \in Symbols
  PROVE  IsPrefix(t \o h, t \o (h \o r))
<1>. DEFINE a == t \o h
            b == a \o r
<1>1. t \o (h \o r) = b
  BY CatCat
<1>2. a \in Symbols /\ b \in Symbols
  BY Cat
<1>. HIDE DEF a
<1>3. /\ Len(a) \in Nat /\ Len(r) \in Nat /\ Len(b) = Len(a) + Len(r)
  BY <1>2, ConcatProperties, LenProperties DEF Symbols
<1>4. \A i \in 1 .. Len(a) : b[i] = a[i]
  BY <1>2, InFront
<1>. HIDE DEF b
<1>5. SubSeq(b, 1, Len(a)) = a
  <2>1. \A i \in 1 .. Len(a) : b[i] \in Nat
    BY <1>2, <1>4, ElementOfSeq DEF Symbols
  <2>2. /\ SubSeq(b, 1, Len(a)) \in Seq(Nat) /\ Len(SubSeq(b, 1, Len(a))) = Len(a)
        /\ \A i \in 1 .. Len(a) : SubSeq(b, 1, Len(a))[i] = b[i]
    BY <1>2, <1>3, <2>1 DEF Symbols
  <2>. QED  BY <1>2, <1>4, <2>2, SeqEqual DEF Symbols
<1>6. IsPrefix(a, b)
  <2>1. SubSeq(a, 1, Len(a)) = a
    BY <1>2, SubSeqFull DEF Symbols
  <2>. QED  BY <1>3, <1>5, <2>1 DEF IsPrefix
<1>. QED  BY <1>1, <1>6 DEF a

-----------------------------------------------------------------------------
(* What is left of the encoding of an object that was serialized.           *)

(* Of parts that are joined, those after the first k. *)
Left(parts, k) == FlattenSeq(SubSeq(parts, k + 1, Len(parts)))

(* Of a transaction x with the symbols t behind it, by what is read next. *)
FromLocktime(x, t) == <<x.locktime>> \o t
FromStack(x, k, t) == Left(Witnesses(x.ins), k) \o FromLocktime(x, t)
FromItem(x, k, j, t) == Left(ItemParts(x.ins[k].witness), j) \o FromStack(x, k, t)
FromWitness(x, t) == IF x.isSegwit THEN FromStack(x, 0, t) ELSE FromLocktime(x, t)
FromOut(x, k, t) == Left(OutParts(x.outs), k) \o FromWitness(x, t)
FromOutCount(x, t) == <<Len(x.outs)>> \o FromOut(x, 0, t)
FromIn(x, k, t) == Left(InParts(x.ins), k) \o FromOutCount(x, t)
FromInCount(x, t) == <<Len(x.ins)>> \o FromIn(x, 0, t)
FromFlags(x, t) == <<1>> \o FromInCount(x, t)
FromMarker(x, t) == IF x.isSegwit THEN <<0>> \o FromFlags(x, t) ELSE FromInCount(x, t)
FromVersion(x, t) == <<x.version>> \o FromMarker(x, t)

(* The locals l and the range r agree with x as far as x was read. *)
Bare(in) == Input(in.prevout, in.script, in.sequence, << >>)
SameVersion(l, x) == l.version = x.version /\ l.segwit = x.isSegwit
InsRead(l, x, k) == Len(l.ins) = k /\ \A i \in 1 .. k : l.ins[i] = Bare(x.ins[i])
OutsRead(l, x, k) == Len(l.outs) = k /\ \A i \in 1 .. k : l.outs[i] = x.outs[i]
StacksRead(l, x, k) == \A i \in 1 .. k : l.items[i] = x.ins[i].witness
ItemsRead(l, x, k, j) ==
  Len(l.items[k]) = j /\ \A i \in 1 .. j : l.items[k][i] = x.ins[k].witness[i]

OnInCount(l, x, t, u) ==
  /\ l.version = x.version /\ l.ins = << >> /\ l.outs = << >> /\ l.items = << >>
  /\ l.segwit => x.isSegwit
  /\ u = IF l.segwit THEN FromInCount(x, t) ELSE FromMarker(x, t)

OnFlags(l, x, t, u) ==
  /\ l.version = x.version /\ l.ins = << >> /\ l.outs = << >> /\ l.items = << >>
  /\ x.isSegwit /\ u = FromFlags(x, t)

OnIn(l, r, x, t, u) ==
  /\ SameVersion(l, x) /\ l.outs = << >> /\ l.items = << >>
  /\ r.size = Len(x.ins) /\ r.got < r.size /\ InsRead(l, x, r.got)
  /\ u = FromIn(x, r.got, t)

OnOutCount(l, x, t, u) ==
  /\ SameVersion(l, x) /\ l.outs = << >> /\ l.items = << >>
  /\ InsRead(l, x, Len(x.ins))
  /\ u = FromOutCount(x, t)

OnOut(l, r, x, t, u) ==
  /\ SameVersion(l, x) /\ l.items = << >>
  /\ InsRead(l, x, Len(x.ins))
  /\ r.size = Len(x.outs) /\ r.got < r.size /\ OutsRead(l, x, r.got)
  /\ u = FromOut(x, r.got, t)

OnWitCount(l, x, t, u) ==
  /\ SameVersion(l, x) /\ x.isSegwit /\ InsRead(l, x, Len(x.ins)) /\ l.outs = x.outs
  /\ Len(l.items) < Len(x.ins) /\ StacksRead(l, x, Len(l.items))
  /\ u = FromStack(x, Len(l.items), t)

OnItem(l, r, x, t, u) ==
  /\ SameVersion(l, x) /\ x.isSegwit /\ InsRead(l, x, Len(x.ins)) /\ l.outs = x.outs
  /\ Len(l.items) \in 1 .. Len(x.ins) /\ StacksRead(l, x, Len(l.items) - 1)
  /\ r.size = Len(x.ins[Len(l.items)].witness) /\ r.got < r.size
  /\ ItemsRead(l, x, Len(l.items), r.got)
  /\ u = FromItem(x, Len(l.items), r.got, t)

OnLocktime(l, x, t, u) ==
  /\ l.version = x.version /\ l.ins = x.ins /\ l.outs = x.outs
  /\ u = FromLocktime(x, t)

OnTx(p, l, r, x, t, u) ==
  /\ p = "version" => u = FromVersion(x, t)
  /\ p = "incount" => OnInCount(l, x, t, u)
  /\ p = "flags" => OnFlags(l, x, t, u)
  /\ p = "in" => OnIn(l, r, x, t, u)
  /\ p = "outcount" => OnOutCount(l, x, t, u)
  /\ p = "out" => OnOut(l, r, x, t, u)
  /\ p = "witcount" => OnWitCount(l, x, t, u)
  /\ p = "item" => OnItem(l, r, x, t, u)
  /\ p = "locktime" => OnLocktime(l, x, t, u)

(* The transaction that is read, and what stands behind it. *)
Current == IF kind = "tx" THEN given ELSE given.txs[Len(txs) + 1]
BehindTx == IF kind = "tx" THEN << >> ELSE Left(TxParts(given.txs), Len(txs) + 1)

FromTxCount == <<Len(given.txs)>> \o FlattenSeq(TxParts(given.txs))
FromHeader ==
  IF kind = "header" THEN <<given>> \o << >> ELSE <<given.header>> \o FromTxCount

TxsRead ==
  IF kind = "tx" THEN txs = << >>
  ELSE /\ kind = "block" /\ header = given.header
       /\ outer.size = Len(given.txs) /\ outer.got = Len(txs) /\ outer.got < outer.size
       /\ \A i \in 1 .. Len(txs) : txs[i] = given.txs[i]

(* The parse of an encoding is on the way to the object. *)
Tracked ==
  /\ Fits(kind, given) /\ pc \in InTx \cup {"header", "txcount", "end", "done"}
  /\ pc = "header" => kind # "tx" /\ txs = << >> /\ Raw = taken \o FromHeader
  /\ pc = "txcount" =>
       kind = "block" /\ header = given.header /\ txs = << >> /\ Raw = taken \o FromTxCount
  /\ pc \in InTx =>
       /\ TxsRead
       /\ \E u \in Symbols : Raw = taken \o u /\ OnTx(pc, tx, range, Current, BehindTx, u)
  /\ pc = "end" => Object = given /\ Raw = taken
  /\ pc = "done" => result = given

OnTrack == given # None /\ HasInputs(kind, given) => ~failed /\ Tracked

-----------------------------------------------------------------------------
(* What is left of parts that are joined.                                   *)

LEMMA CatParts ==
  ASSUME NEW p \in Seq(Symbols), NEW q \in Seq(Symbols), NEW r \in Seq(Symbols)
  PROVE  (p \o q) \o r = p \o (q \o r)
BY ConcatAssociative

LEMMA FlattenFirst ==
  ASSUME NEW e \in Symbols, NEW parts \in Seq(Symbols)
  PROVE  FlattenSeq(<<e>> \o parts) = e \o FlattenSeq(parts)
<1>. DEFINE one == <<e>>
            P(p) == FlattenSeq(one \o p) = e \o FlattenSeq(p)
            T == {n \in Nat : \E p \in Seq(Symbols) : Len(p) = n /\ ~P(p)}
<1>. SUFFICES ASSUME T # {}
              PROVE  FALSE
  BY LenProperties
<1>1. one \in Seq(Symbols) /\ one = Append(<< >>, e) /\ << >> \in Seq(Symbols)
  OBVIOUS
<1>2. PICK n \in T : \A m \in T : n <= m
  BY LeastNat
<1>3. PICK p \in Seq(Symbols) : Len(p) = n /\ ~P(p)
  OBVIOUS
<1>4. CASE p = << >>
  <2>1. one \o p = one
    BY <1>1, <1>4, ConcatEmptySeq
  <2>2. FlattenSeq(Append(<< >>, e)) = FlattenSeq(<< >>) \o e
    BY <1>1, FlattenAppend DEF Symbols
  <2>3. FlattenSeq(one) = << >> \o e
    BY <1>1, <2>2, FlattenEmpty
  <2>4. << >> \o e = e /\ e \o << >> = e
    BY CatEmpty
  <2>. QED  BY <1>3, <1>4, <2>1, <2>3, <2>4, FlattenEmpty
<1>5. CASE p # << >>
  <2>. HIDE DEF one
  <2>1. PICK q \in Seq(Symbols), x \in Symbols : p = Append(q, x)
    BY <1>5, SequenceEmptyOrAppend
  <2>2. Len(q) \in Nat /\ Len(q) < n
    <3>1. Len(Append(q, x)) = Len(q) + 1 /\ Len(q) \in Nat
      BY AppendProperties, LenProperties
    <3>. QED  BY <1>3, <2>1, <3>1
  <2>3. P(q)
    <3>1. Len(q) \notin T
      BY <1>2, <2>2
    <3>. QED  BY <2>2, <3>1
  <2>4. one \o p = Append(one \o q, x) /\ one \o q \in Seq(Symbols)
    <3>. DEFINE last == <<x>>
    <3>1. last \in Seq(Symbols)
      OBVIOUS
    <3>2. p = q \o last
      BY <2>1, AppendIsConcat
    <3>3. one \o q \in Seq(Symbols)
      BY <1>1, ConcatProperties
    <3>4. Append(one \o q, x) = (one \o q) \o last
      BY <3>3, AppendIsConcat
    <3>. HIDE DEF last, P, T
    <3>5. (one \o q) \o last = one \o (q \o last)
      BY <1>1, <3>1, CatParts
    <3>. QED  BY <3>2, <3>3, <3>4, <3>5
  <2>5. FlattenSeq(Append(one \o q, x)) = FlattenSeq(one \o q) \o x
    BY <2>4, FlattenAppend DEF Symbols
  <2>6. FlattenSeq(Append(q, x)) = FlattenSeq(q) \o x /\ FlattenSeq(q) \in Symbols
    BY FlattenAppend, FlattenType DEF Symbols
  <2>7. (e \o FlattenSeq(q)) \o x = e \o (FlattenSeq(q) \o x)
    BY <2>6, CatCat
  <2>. QED  BY <1>3, <2>1, <2>3, <2>4, <2>5, <2>6, <2>7
<1>. QED  BY <1>4, <1>5

LEMMA LeftFacts ==
  ASSUME NEW parts \in Seq(Symbols), NEW k \in 0 .. Len(parts)
  PROVE  /\ Left(parts, k) \in Symbols
         /\ k = 0 => Left(parts, k) = FlattenSeq(parts)
         /\ k = Len(parts) => Left(parts, k) = << >>
         /\ k < Len(parts) =>
              /\ k + 1 \in 1 .. Len(parts) /\ k + 1 \in 0 .. Len(parts)
              /\ parts[k + 1] \in Symbols /\ Left(parts, k + 1) \in Symbols
              /\ Left(parts, k) = parts[k + 1] \o Left(parts, k + 1)
<1>. DEFINE n == Len(parts)
            rest(j) == SubSeq(parts, j + 1, n)
<1>1. n \in Nat /\ k \in Nat
  BY LenProperties
<1>2. ASSUME NEW j \in 0 .. n
      PROVE  rest(j) \in Seq(Symbols) /\ Left(parts, j) = FlattenSeq(rest(j))
             /\ Left(parts, j) \in Symbols
  <2>1. \A i \in j + 1 .. n : parts[i] \in Symbols
    BY <1>1, ElementOfSeq
  <2>2. j + 1 \in Int /\ n \in Int
    BY <1>1
  <2>3. rest(j) \in Seq(Symbols)
    BY <2>1, <2>2, SubSeqProperties
  <2>4. Left(parts, j) = FlattenSeq(rest(j))
    BY DEF Left
  <2>. QED  BY <2>3, <2>4, EncodeRangeType
<1>3. ASSUME k = 0 PROVE Left(parts, k) = FlattenSeq(parts)
  <2>1. rest(k) = parts
    <3>1. k + 1 = 1
      BY <1>3
    <3>2. SubSeq(parts, 1, n) = parts
      BY SubSeqFull
    <3>. QED  BY <3>1, <3>2
  <2>. QED  BY <1>2, <2>1
<1>4. ASSUME k = n PROVE Left(parts, k) = << >>
  <2>1. k + 1 \in Int /\ n \in Int /\ n < k + 1
    BY <1>1, <1>4
  <2>2. rest(k) = << >>
    BY <2>1, SubSeqEmpty
  <2>. QED  BY <1>2, <2>2, FlattenEmpty
<1>5. ASSUME k < n
      PROVE  /\ k + 1 \in 1 .. n /\ k + 1 \in 0 .. n
             /\ parts[k + 1] \in Symbols /\ Left(parts, k + 1) \in Symbols
             /\ Left(parts, k) = parts[k + 1] \o Left(parts, k + 1)
  <2>1. k + 1 \in 1 .. n /\ k + 1 \in 0 .. n
    BY <1>1, <1>5
  <2>2. parts[k + 1] \in Symbols
    BY <2>1, ElementOfSeq
  <2>3. rest(k + 1) \in Seq(Symbols) /\ Left(parts, k + 1) = FlattenSeq(rest(k + 1))
        /\ Left(parts, k + 1) \in Symbols
    BY <1>2, <2>1
  <2>4. rest(k) = <<parts[k + 1]>> \o rest(k + 1)
    <3>1. k + 1 \in 1 .. n /\ n \in 1 .. n /\ k + 1 <= n
      BY <1>1, <1>5
    <3>. QED  BY <3>1, SubSeqRecursiveFirst
  <2>. HIDE DEF rest
  <2>5. FlattenSeq(<<parts[k + 1]>> \o rest(k + 1)) = parts[k + 1] \o FlattenSeq(rest(k + 1))
    BY <2>2, <2>3, FlattenFirst
  <2>. QED  BY <1>2, <2>1, <2>2, <2>3, <2>4, <2>5
<1>. QED  BY <1>2, <1>3, <1>4, <1>5

-----------------------------------------------------------------------------
(* Fields and elements tell where they end: what is read is what was        *)
(* written there, and what was written there can be read.                   *)

(* The symbols s were read behind t, where h stands with r behind it.       *)
ReadAt(t, s, h, r) ==
  /\ t \in Symbols /\ s \in Symbols /\ h \in Symbols /\ r \in Symbols
  /\ IsPrefix(t \o s, t \o (h \o r))

LEMMA ReadSame ==
  ASSUME NEW t, NEW s, NEW h, NEW r, ReadAt(t, s, h, r)
  PROVE  /\ \A i \in Nat : i \in 1 .. Len(s) /\ i \in 1 .. Len(h) => s[i] = h[i]
         /\ Len(s) = Len(h) => s = h
<1>1. t \in Symbols /\ s \in Symbols /\ h \in Symbols /\ r \in Symbols
  BY DEF ReadAt
<1>2. h \o r \in Symbols
  BY <1>1, Cat
<1>3. PICK v \in Symbols : h \o r = s \o v
  BY <1>1, <1>2, ReadFront DEF ReadAt
<1>4. ASSUME NEW i \in Nat, i \in 1 .. Len(s), i \in 1 .. Len(h)
      PROVE  s[i] = h[i]
  <2>1. (s \o v)[i] = s[i]
    BY <1>1, <1>4, InFront
  <2>2. (h \o r)[i] = h[i]
    BY <1>1, <1>4, InFront
  <2>. QED  BY <1>3, <2>1, <2>2
<1>5. Len(s) = Len(h) => s = h
  BY <1>1, <1>3, SameFront
<1>. QED  BY <1>4, <1>5

LEMMA ReadOne ==
  ASSUME NEW t, NEW r, NEW b \in Nat, NEW c \in Nat, ReadAt(t, <<b>>, <<c>>, r)
  PROVE  b = c
<1>1. 1 \in Nat /\ 1 \in 1 .. Len(<<b>>) /\ 1 \in 1 .. Len(<<c>>)
  OBVIOUS
<1>2. <<b>>[1] = <<c>>[1]
  <2>. DEFINE s == <<b>>
              h == <<c>>
  <2>1. ReadAt(t, s, h, r) /\ 1 \in 1 .. Len(s) /\ 1 \in 1 .. Len(h)
    BY <1>1
  <2>. HIDE DEF s, h
  <2>2. s[1] = h[1]
    BY <1>1, <2>1, ReadSame
  <2>. QED  BY <2>2 DEF s, h
<1>. QED  BY <1>2

(* A string with its size, from the front: its size, its length.            *)
LEMMA StringFront ==
  ASSUME NEW w \in Symbols
  PROVE  /\ EncodeBytes(w) \in Symbols /\ Len(EncodeBytes(w)) = Len(w) + 1
         /\ Len(w) \in Nat /\ EncodeBytes(w)[1] = Len(w)
         /\ Tail(EncodeBytes(w)) = w
<1>. DEFINE one == <<Len(w)>>
            s == EncodeBytes(w)
<1>1. Len(w) \in Nat /\ one \in Symbols /\ Len(one) = 1 /\ one[1] = Len(w)
      /\ 1 \in 1 .. Len(one)
  BY LenProperties, OneSymbol DEF Symbols
<1>2. s = one \o w
  BY DEF EncodeBytes
<1>. HIDE DEF one, s
<1>3. s \in Symbols /\ Len(s) = Len(w) + 1 /\ s[1] = Len(w)
  <2>1. Len(s) = Len(one) + Len(w)
    BY <1>1, <1>2, ConcatProperties DEF Symbols
  <2>. QED  BY <1>1, <1>2, <2>1, Cat, InFront
<1>4. Tail(s) = w
  <2>1. s # << >> /\ s \in Seq(Nat)
    BY <1>1, <1>3, EmptySeq DEF Symbols
  <2>2. /\ Tail(s) \in Seq(Nat) /\ Len(Tail(s)) = Len(s) - 1
        /\ \A i \in 1 .. Len(Tail(s)) : Tail(s)[i] = s[i + 1]
    BY <2>1, HeadTailProperties
  <2>3. \A i \in 1 .. Len(w) : s[i + 1] = w[i]
    <3>1. \A i \in 1 .. Len(one) + Len(w) :
            (one \o w)[i] = IF i <= Len(one) THEN one[i] ELSE w[i - Len(one)]
      BY <1>1, ConcatProperties DEF Symbols
    <3>2. \A i \in 1 .. Len(w) :
            i + 1 \in 1 .. Len(one) + Len(w) /\ ~(i + 1 <= Len(one))
            /\ (i + 1) - Len(one) = i
      BY <1>1
    <3>. QED  BY <1>2, <3>1, <3>2
  <2>4. Len(Tail(s)) = Len(w)
    BY <1>1, <1>3, <2>2
  <2>5. \A i \in 1 .. Len(w) : Tail(s)[i] = w[i]
    BY <2>2, <2>3, <2>4
  <2>. QED  BY <2>2, <2>4, <2>5, SeqEqual DEF Symbols
<1>. QED  BY <1>1, <1>3, <1>4 DEF s

LEMMA ReadString ==
  ASSUME NEW t, NEW r, NEW s \in Strings, NEW w \in Symbols,
         ReadAt(t, s, EncodeBytes(w), r)
  PROVE  s = EncodeBytes(w) /\ Tail(s) = w
<1>. DEFINE h == EncodeBytes(w)
            u == Tail(s)
<1>1. s \in Symbols /\ u \in Symbols /\ s = EncodeBytes(u)
  BY StringIs
<1>2. /\ h \in Symbols /\ Len(h) = Len(w) + 1 /\ Len(w) \in Nat /\ h[1] = Len(w)
      /\ Tail(h) = w
  BY StringFront
<1>3. Len(s) = Len(u) + 1 /\ Len(u) \in Nat /\ s[1] = Len(u)
  <2>. HIDE DEF u
  <2>. QED  BY <1>1, StringFront
<1>. HIDE DEF h, u
<1>4. s[1] = h[1]
  <2>1. 1 \in Nat /\ 1 \in 1 .. Len(s) /\ 1 \in 1 .. Len(h)
    BY <1>2, <1>3
  <2>. QED  BY <2>1, ReadSame DEF h
<1>5. Len(s) = Len(h)
  BY <1>2, <1>3, <1>4
<1>6. s = h
  BY <1>5, ReadSame DEF h
<1>. QED  BY <1>2, <1>6 DEF h

(* An input and an output have the size of their string behind one symbol.  *)
LEMMA ReadFramed ==
  ASSUME NEW t, NEW r, NEW p \in Nat, NEW q \in Nat, NEW s \in Strings,
         NEW a \in Nat, NEW b \in Nat, NEW w \in Symbols,
         NEW f \in Symbols, NEW g \in Symbols, Len(f) = Len(g),
         ReadAt(t, <<p>> \o s \o f, <<a>> \o EncodeBytes(w) \o g, r)
  PROVE  p = a /\ Tail(s) = w /\ f = g
<1>. DEFINE u == Tail(s)
            h == EncodeBytes(w)
            pp == <<p>>
            aa == <<a>>
            x == (pp \o s) \o f
            y == (aa \o h) \o g
<1>1. s \in Symbols /\ u \in Symbols /\ s = EncodeBytes(u)
  BY StringIs
<1>2. /\ h \in Symbols /\ Len(h) = Len(w) + 1 /\ Len(w) \in Nat /\ h[1] = Len(w)
      /\ Tail(h) = w
  BY StringFront
<1>3. Len(s) = Len(u) + 1 /\ Len(u) \in Nat /\ s[1] = Len(u)
  <2>. HIDE DEF u
  <2>. QED  BY <1>1, StringFront
<1>4. /\ pp \in Symbols /\ aa \in Symbols /\ Len(pp) = 1 /\ Len(aa) = 1
      /\ pp[1] = p /\ aa[1] = a
  BY DEF Symbols
<1>5. ReadAt(t, x, y, r) /\ Len(f) \in Nat /\ Len(g) \in Nat
  BY LenProperties DEF Symbols
<1>. HIDE DEF u, h, pp, aa
<1>6. ASSUME NEW e \in Symbols, NEW m \in Symbols, Len(e) = 1, Len(m) >= 1
      PROVE  /\ e \o m \in Symbols /\ Len(e \o m) = Len(m) + 1
             /\ (e \o m)[2] = m[1]
  <2>1. /\ Len(e \o m) = Len(e) + Len(m) /\ Len(m) \in Nat
        /\ \A i \in 1 .. Len(e) + Len(m) :
             (e \o m)[i] = IF i <= Len(e) THEN e[i] ELSE m[i - Len(e)]
    BY ConcatProperties, LenProperties DEF Symbols
  <2>2. 2 \in 1 .. Len(e) + Len(m) /\ ~(2 <= Len(e)) /\ 2 - Len(e) = 1
    BY <1>6, <2>1
  <2>. QED  BY <1>6, <2>1, <2>2, Cat
<1>7. /\ pp \o s \in Symbols /\ Len(pp \o s) = Len(u) + 2 /\ (pp \o s)[2] = Len(u)
      /\ aa \o h \in Symbols /\ Len(aa \o h) = Len(w) + 2 /\ (aa \o h)[2] = Len(w)
  <2>1. Len(s) >= 1 /\ Len(h) >= 1
    BY <1>2, <1>3
  <2>2. pp \o s \in Symbols /\ Len(pp \o s) = Len(s) + 1 /\ (pp \o s)[2] = s[1]
    BY <1>1, <1>4, <1>6, <2>1
  <2>3. aa \o h \in Symbols /\ Len(aa \o h) = Len(h) + 1 /\ (aa \o h)[2] = h[1]
    BY <1>2, <1>4, <1>6, <2>1
  <2>. QED  BY <1>2, <1>3, <2>2, <2>3
<1>8. /\ Len(x) = Len(u) + 2 + Len(f) /\ x[2] = Len(u) /\ 2 \in 1 .. Len(x)
      /\ Len(y) = Len(w) + 2 + Len(g) /\ y[2] = Len(w) /\ 2 \in 1 .. Len(y)
  <2>1. Len(x) = Len(pp \o s) + Len(f) /\ Len(y) = Len(aa \o h) + Len(g)
    BY <1>7, ConcatProperties DEF Symbols
  <2>2. 2 \in 1 .. Len(pp \o s) /\ 2 \in 1 .. Len(aa \o h)
    BY <1>2, <1>3, <1>7
  <2>3. x[2] = (pp \o s)[2] /\ 2 \in 1 .. Len(x) /\ y[2] = (aa \o h)[2] /\ 2 \in 1 .. Len(y)
    BY <1>7, <2>2, InFront
  <2>. QED  BY <1>7, <2>1, <2>3
<1>. HIDE DEF x, y
<1>9. x[2] = y[2]
  BY <1>5, <1>8, ReadSame
<1>10. x = y
  <2>1. Len(x) = Len(y)
    BY <1>5, <1>8, <1>9
  <2>. QED  BY <1>5, <2>1, ReadSame
<1>11. pp \o s = aa \o h /\ f = g
  <2>1. Len(pp \o s) = Len(aa \o h)
    BY <1>7, <1>8, <1>9
  <2>2. (pp \o s) \o f = (aa \o h) \o g
    BY <1>10 DEF x, y
  <2>3. /\ pp \o s \in Symbols /\ f \in Symbols /\ aa \o h \in Symbols /\ g \in Symbols
    BY <1>7
  <2>. QED  BY ONLY <2>1, <2>2, <2>3, SameFront, Zenon
<1>12. pp = aa /\ s = h
  <2>1. Len(pp) = Len(aa)
    BY <1>4
  <2>2. pp \in Symbols /\ s \in Symbols /\ aa \in Symbols /\ h \in Symbols
    BY <1>1, <1>2, <1>4
  <2>3. pp \o s = aa \o h
    BY <1>11
  <2>. QED  BY ONLY <2>1, <2>2, <2>3, SameFront, Zenon
<1>. QED  BY <1>2, <1>4, <1>11, <1>12 DEF u

LEMMA InAlphabet ==
  ASSUME NEW a \in Symbols, NEW b \in Symbols, a \o b \in Seq(Byte)
  PROVE  a \in Seq(Byte) /\ b \in Seq(Byte)
<1>. DEFINE c == a \o b
<1>1. /\ Len(a) \in Nat /\ Len(b) \in Nat /\ Len(c) = Len(a) + Len(b)
      /\ \A i \in 1 .. Len(a) + Len(b) : c[i] = IF i <= Len(a) THEN a[i] ELSE b[i - Len(a)]
  BY ConcatProperties, LenProperties DEF Symbols
<1>. HIDE DEF c
<1>2. \A i \in 1 .. Len(c) : c[i] \in Byte
  BY ElementOfSeq DEF c
<1>3. \A i \in 1 .. Len(a) : a[i] \in Byte
  <2>. SUFFICES ASSUME NEW i \in 1 .. Len(a)
                PROVE  a[i] \in Byte
    OBVIOUS
  <2>1. i \in 1 .. Len(c) /\ i <= Len(a)
    BY <1>1
  <2>. QED  BY <1>1, <1>2, <2>1
<1>4. \A i \in 1 .. Len(b) : b[i] \in Byte
  <2>. SUFFICES ASSUME NEW i \in 1 .. Len(b)
                PROVE  b[i] \in Byte
    OBVIOUS
  <2>1. Len(a) + i \in 1 .. Len(c) /\ ~(Len(a) + i <= Len(a)) /\ (Len(a) + i) - Len(a) = i
    BY <1>1
  <2>. QED  BY <1>1, <1>2, <2>1
<1>5. ASSUME NEW s \in Symbols, \A i \in 1 .. Len(s) : s[i] \in Byte
      PROVE  s \in Seq(Byte)
  <2>1. Len(s) \in Nat /\ s = [i \in 1 .. Len(s) |-> s[i]]
    BY LenProperties DEF Symbols
  <2>. QED  BY <1>5, <2>1, MakeSeq
<1>. QED  BY <1>3, <1>4, <1>5

LEMMA OneWritten ==
  ASSUME NEW c \in Nat, <<c>> \in Seq(Byte)
  PROVE  c \in Byte
<1>1. 1 \in 1 .. Len(<<c>>) /\ <<c>>[1] = c
  OBVIOUS
<1>2. <<c>>[1] \in Byte
  BY <1>1, ElementOfSeq
<1>. QED  BY <1>1, <1>2

LEMMA StringWritten ==
  ASSUME NEW w \in Symbols, EncodeBytes(w) \in Seq(Byte)
  PROVE  EncodeBytes(w) \in Strings
<1>1. Len(w) \in Nat
  BY LenProperties DEF Symbols
<1>2. <<Len(w)>> \in Seq(Byte) /\ w \in Seq(Byte)
  <2>1. <<Len(w)>> \in Symbols /\ <<Len(w)>> \o w \in Seq(Byte)
    BY <1>1, OneSymbol DEF EncodeBytes
  <2>. QED  BY <2>1, InAlphabet
<1>3. Len(w) \in Byte
  BY <1>1, <1>2, OneWritten
<1>4. w \in [1 .. Len(w) -> Byte]
  BY <1>2, LenProperties
<1>5. <<Len(w)>> \o w \in {<<Len(w)>> \o s : s \in [1 .. Len(w) -> Byte]}
  BY <1>4
<1>6. {<<Len(w)>> \o s : s \in [1 .. Len(w) -> Byte]}
        \in {{<<n>> \o s : s \in [1 .. n -> Byte]} : n \in Byte}
  BY <1>3
<1>. QED  BY <1>5, <1>6 DEF Strings, EncodeBytes

(* The source is not short where something that fits is left.               *)
LEMMA NotShort ==
  ASSUME given # None, taken \in Symbols, NEW h \in Symbols, NEW r \in Symbols,
         Raw = taken \o (h \o r), h \in Readable
  PROVE  ~Short
<1>1. IsPrefix(taken \o h, Raw)
  BY FrontIsPrefix
<1>2. CanTake(h)
  BY <1>1 DEF CanTake
<1>. QED  BY <1>2 DEF Short

-----------------------------------------------------------------------------
(* What is left of a transaction *)

LEMMA MadeParts ==
  ASSUME NEW x, Made(x)
  PROVE  /\ x.version \in Nat /\ x.ins \in Seq(Inputs) /\ x.outs \in Seq(Outputs)
         /\ x.locktime \in Nat /\ x.isSegwit \in BOOLEAN /\ x.isSegwit = AnyWitness(x.ins)
         /\ Len(x.ins) \in Nat /\ Len(x.outs) \in Nat
         /\ \A i \in 1 .. Len(x.ins) : x.ins[i] \in Inputs /\ x.ins[i].witness \in Stacks
         /\ \A i \in 1 .. Len(x.outs) : x.outs[i] \in Outputs
<1>1. /\ x.version \in Nat /\ x.ins \in Seq(Inputs) /\ x.outs \in Seq(Outputs)
      /\ x.locktime \in Nat
  BY DEF Made
<1>2. x.isSegwit \in BOOLEAN /\ x.isSegwit = AnyWitness(x.ins)
  BY MadeFields
<1>3. /\ Len(x.ins) \in Nat /\ Len(x.outs) \in Nat
      /\ \A i \in 1 .. Len(x.ins) : x.ins[i] \in Inputs
      /\ \A i \in 1 .. Len(x.outs) : x.outs[i] \in Outputs
  BY <1>1, LenProperties, ElementOfSeq
<1>4. \A i \in 1 .. Len(x.ins) : x.ins[i].witness \in Stacks
  BY <1>3 DEF Inputs, Stacks
<1>. QED  BY <1>1, <1>2, <1>3, <1>4

LEMMA FromLocktimeIs ==
  ASSUME NEW x, Made(x), NEW t \in Symbols
  PROVE  <<x.locktime>> \in Symbols /\ FromLocktime(x, t) \in Symbols
BY MadeParts, OneSymbol, Cat DEF FromLocktime

(* Of the witness: nothing, or the count of the next stack.                 *)
LEMMA FromStackIs ==
  ASSUME NEW x, Made(x), NEW t \in Symbols, NEW k \in 0 .. Len(x.ins)
  PROVE  /\ FromStack(x, k, t) \in Symbols
         /\ k = Len(x.ins) => FromStack(x, k, t) = FromLocktime(x, t)
         /\ k < Len(x.ins) =>
              /\ k + 1 \in 1 .. Len(x.ins) /\ Len(x.ins[k + 1].witness) \in Nat
              /\ FromItem(x, k + 1, 0, t) \in Symbols
              /\ FromStack(x, k, t)
                   = <<Len(x.ins[k + 1].witness)>> \o FromItem(x, k + 1, 0, t)
<1>. DEFINE parts == Witnesses(x.ins)
            end == FromLocktime(x, t)
<1>1. x.ins \in Seq(Inputs) /\ Len(x.ins) \in Nat
  BY MadeParts
<1>2. parts \in Seq(Symbols) /\ Len(parts) = Len(x.ins) /\ end \in Symbols
  BY <1>1, WitnessesType, FromLocktimeIs
<1>3. \A i \in 1 .. Len(x.ins) : parts[i] = EncodeRange(ItemParts(x.ins[i].witness))
  <2>1. DOMAIN x.ins = 1 .. Len(x.ins)
    BY <1>1, LenProperties
  <2>. QED  BY <2>1 DEF Witnesses, EncodeWitness, ItemParts
<1>4. k \in 0 .. Len(parts)
  BY <1>2
<1>5. FromStack(x, k, t) = Left(parts, k) \o end
  BY DEF FromStack
<1>. HIDE DEF parts, end
<1>6. Left(parts, k) \in Symbols
  BY <1>2, <1>4, LeftFacts
<1>7. FromStack(x, k, t) \in Symbols
  BY <1>2, <1>5, <1>6, Cat
<1>8. ASSUME k = Len(x.ins) PROVE FromStack(x, k, t) = end
  <2>1. Left(parts, k) = << >>
    BY <1>2, <1>4, <1>8, LeftFacts
  <2>2. << >> \o end = end
    BY <1>2, CatEmpty
  <2>. QED  BY <1>5, <2>1, <2>2
<1>9. ASSUME k < Len(x.ins)
      PROVE  /\ k + 1 \in 1 .. Len(x.ins) /\ Len(x.ins[k + 1].witness) \in Nat
             /\ FromItem(x, k + 1, 0, t) \in Symbols
             /\ FromStack(x, k, t)
                  = <<Len(x.ins[k + 1].witness)>> \o FromItem(x, k + 1, 0, t)
  <2>. DEFINE stack == x.ins[k + 1].witness
              items == ItemParts(stack)
              len == <<Len(stack)>>
              rest == Left(parts, k + 1)
  <2>1. /\ k + 1 \in 1 .. Len(parts) /\ parts[k + 1] \in Symbols /\ rest \in Symbols
        /\ Left(parts, k) = parts[k + 1] \o rest
    BY <1>2, <1>4, <1>9, LeftFacts
  <2>2. stack \in Stacks /\ Len(stack) \in Nat
    <3>1. stack \in Stacks
      BY <1>2, <2>1, MadeParts
    <3>. QED  BY <3>1, LenProperties DEF Stacks
  <2>. HIDE DEF stack
  <2>3. items \in Seq(Symbols) /\ Len(items) = Len(stack)
    BY <2>2, ItemPartsType
  <2>4. len \in Symbols
    BY <2>2, OneSymbol
  <2>5. FlattenSeq(items) \in Symbols /\ EncodeRange(items) = len \o FlattenSeq(items)
    BY <2>3, EncodeRangeType
  <2>6. Left(items, 0) = FlattenSeq(items)
    <3>1. 0 \in 0 .. Len(items)
      BY <2>2, <2>3
    <3>. HIDE DEF items
    <3>. QED  BY <2>3, <3>1, LeftFacts
  <2>7. FromItem(x, k + 1, 0, t) = FlattenSeq(items) \o (rest \o end)
    BY <2>6 DEF FromItem, FromStack, stack, parts, end
  <2>8. parts[k + 1] = len \o FlattenSeq(items)
    <3>1. parts[k + 1] = EncodeRange(items)
      BY <1>2, <1>3, <2>1 DEF stack
    <3>. QED  BY <2>5, <3>1
  <2>. HIDE DEF items, len, rest
  <2>9. rest \o end \in Symbols
    BY <1>2, <2>1, Cat
  <2>10. FlattenSeq(items) \o (rest \o end) \in Symbols
    BY <2>5, <2>9, Cat
  <2>11. ((len \o FlattenSeq(items)) \o rest) \o end
           = len \o (FlattenSeq(items) \o (rest \o end))
    <3>1. (len \o FlattenSeq(items)) \o rest \o end
            = (len \o FlattenSeq(items)) \o (rest \o end)
      <4>1. len \o FlattenSeq(items) \in Symbols
        BY <2>4, <2>5, Cat
      <4>. QED  BY <1>2, <2>1, <4>1, CatCat
    <3>2. (len \o FlattenSeq(items)) \o (rest \o end)
            = len \o (FlattenSeq(items) \o (rest \o end))
      BY <2>4, <2>5, <2>9, CatCat
    <3>. QED  BY <3>1, <3>2
  <2>12. FromStack(x, k, t) = len \o FromItem(x, k + 1, 0, t)
    BY <1>5, <2>1, <2>7, <2>8, <2>11
  <2>13. FromItem(x, k + 1, 0, t) \in Symbols
    BY <2>7, <2>10
  <2>. QED  BY <1>2, <2>1, <2>2, <2>12, <2>13 DEF len, stack
<1>. QED  BY <1>7, <1>8, <1>9 DEF end

LEMMA LeftThen ==
  ASSUME NEW parts \in Seq(Symbols), NEW k \in 0 .. Len(parts), NEW e \in Symbols
  PROVE  /\ Left(parts, k) \o e \in Symbols
         /\ k = Len(parts) => Left(parts, k) \o e = e
         /\ k < Len(parts) =>
              /\ k + 1 \in 1 .. Len(parts) /\ parts[k + 1] \in Symbols
              /\ Left(parts, k + 1) \o e \in Symbols
              /\ Left(parts, k) \o e = parts[k + 1] \o (Left(parts, k + 1) \o e)
<1>. DEFINE l == Left(parts, k)
            m == Left(parts, k + 1)
            h == parts[k + 1]
<1>1. /\ l \in Symbols
      /\ k = Len(parts) => l = << >>
      /\ k < Len(parts) => k + 1 \in 1 .. Len(parts) /\ h \in Symbols /\ m \in Symbols
                           /\ l = h \o m
  BY LeftFacts
<1>. HIDE DEF l, m, h
<1>2. l \o e \in Symbols
  BY <1>1, Cat
<1>3. k = Len(parts) => l \o e = e
  BY <1>1, CatEmpty
<1>4. ASSUME k < Len(parts) PROVE m \o e \in Symbols /\ l \o e = h \o (m \o e)
  <2>1. h \in Symbols /\ m \in Symbols /\ l = h \o m
    BY <1>1, <1>4
  <2>2. (h \o m) \o e = h \o (m \o e)
    BY <2>1, CatCat
  <2>. QED  BY <2>1, <2>2, Cat
<1>. QED  BY <1>1, <1>2, <1>3, <1>4 DEF l, m, h

(* The items of a stack that are left. *)
LEMMA FromItemIs ==
  ASSUME NEW x, Made(x), NEW t \in Symbols, NEW k \in 1 .. Len(x.ins),
         NEW j \in 0 .. Len(x.ins[k].witness)
  PROVE  /\ FromItem(x, k, j, t) \in Symbols
         /\ j = Len(x.ins[k].witness) => FromItem(x, k, j, t) = FromStack(x, k, t)
         /\ j < Len(x.ins[k].witness) =>
              /\ x.ins[k].witness[j + 1] \in Symbols
              /\ FromItem(x, k, j + 1, t) \in Symbols
              /\ FromItem(x, k, j, t)
                   = EncodeBytes(x.ins[k].witness[j + 1]) \o FromItem(x, k, j + 1, t)
<1>. DEFINE stack == x.ins[k].witness
            parts == ItemParts(stack)
            end == FromStack(x, k, t)
<1>1. stack \in Stacks
  BY MadeParts
<1>. HIDE DEF stack
<1>2. /\ parts \in Seq(Symbols) /\ Len(parts) = Len(stack)
      /\ \A i \in 1 .. Len(stack) : parts[i] = EncodeBytes(stack[i])
  BY <1>1, ItemPartsType
<1>3. end \in Symbols
  <2>1. k \in 0 .. Len(x.ins)
    BY MadeParts
  <2>. QED  BY <2>1, FromStackIs
<1>4. \A i : FromItem(x, k, i, t) = Left(parts, i) \o end
  BY DEF FromItem, stack
<1>. HIDE DEF parts, end
<1>5. j \in 0 .. Len(parts)
  BY <1>2 DEF stack
<1>6. /\ Left(parts, j) \o end \in Symbols
      /\ j = Len(parts) => Left(parts, j) \o end = end
      /\ j < Len(parts) =>
           /\ j + 1 \in 1 .. Len(parts) /\ parts[j + 1] \in Symbols
           /\ Left(parts, j + 1) \o end \in Symbols
           /\ Left(parts, j) \o end = parts[j + 1] \o (Left(parts, j + 1) \o end)
  BY <1>2, <1>3, <1>5, LeftThen
<1>7. j < Len(stack) => stack[j + 1] \in Symbols /\ parts[j + 1] = EncodeBytes(stack[j + 1])
  <2>1. \A i \in 1 .. Len(stack) : stack[i] \in Symbols
    BY <1>1, ElementOfSeq DEF Stacks
  <2>. QED  BY <1>2, <1>6, <2>1
<1>. QED  BY <1>2, <1>4, <1>6, <1>7 DEF stack, end

(* After the outputs: the witness, or the lock time. *)
LEMMA FromWitnessIs ==
  ASSUME NEW x, Made(x), NEW t \in Symbols
  PROVE  FromWitness(x, t) \in Symbols
<1>1. 0 \in 0 .. Len(x.ins)
  BY MadeParts
<1>. QED  BY <1>1, FromStackIs, FromLocktimeIs DEF FromWitness

(* The outputs that are left. *)
LEMMA FromOutIs ==
  ASSUME NEW x, Made(x), NEW t \in Symbols, NEW k \in 0 .. Len(x.outs)
  PROVE  /\ FromOut(x, k, t) \in Symbols
         /\ k = Len(x.outs) => FromOut(x, k, t) = FromWitness(x, t)
         /\ k < Len(x.outs) =>
              /\ x.outs[k + 1] \in Outputs /\ FromOut(x, k + 1, t) \in Symbols
              /\ FromOut(x, k, t) = EncodeTxout(x.outs[k + 1]) \o FromOut(x, k + 1, t)
<1>. DEFINE parts == OutParts(x.outs)
            end == FromWitness(x, t)
<1>1. x.outs \in Seq(Outputs) /\ \A i \in 1 .. Len(x.outs) : x.outs[i] \in Outputs
  BY MadeParts
<1>2. /\ parts \in Seq(Symbols) /\ Len(parts) = Len(x.outs)
      /\ \A i \in 1 .. Len(x.outs) : parts[i] = EncodeTxout(x.outs[i])
  BY <1>1, OutPartsType
<1>3. end \in Symbols
  BY FromWitnessIs
<1>4. \A i : FromOut(x, i, t) = Left(parts, i) \o end
  BY DEF FromOut
<1>. HIDE DEF parts, end
<1>5. k \in 0 .. Len(parts)
  BY <1>2
<1>6. /\ Left(parts, k) \o end \in Symbols
      /\ k = Len(parts) => Left(parts, k) \o end = end
      /\ k < Len(parts) =>
           /\ k + 1 \in 1 .. Len(parts) /\ parts[k + 1] \in Symbols
           /\ Left(parts, k + 1) \o end \in Symbols
           /\ Left(parts, k) \o end = parts[k + 1] \o (Left(parts, k + 1) \o end)
  BY <1>2, <1>3, <1>5, LeftThen
<1>. QED  BY <1>1, <1>2, <1>4, <1>6 DEF end

LEMMA FromOutCountIs ==
  ASSUME NEW x, Made(x), NEW t \in Symbols
  PROVE  <<Len(x.outs)>> \in Symbols /\ FromOut(x, 0, t) \in Symbols
         /\ FromOutCount(x, t) \in Symbols
<1>1. Len(x.outs) \in Nat /\ 0 \in 0 .. Len(x.outs)
  BY MadeParts
<1>2. <<Len(x.outs)>> \in Symbols /\ FromOut(x, 0, t) \in Symbols
  BY <1>1, OneSymbol, FromOutIs
<1>. QED  BY <1>2, Cat DEF FromOutCount

(* The inputs that are left. *)
LEMMA FromInIs ==
  ASSUME NEW x, Made(x), NEW t \in Symbols, NEW k \in 0 .. Len(x.ins)
  PROVE  /\ FromIn(x, k, t) \in Symbols
         /\ k = Len(x.ins) => FromIn(x, k, t) = FromOutCount(x, t)
         /\ k < Len(x.ins) =>
              /\ x.ins[k + 1] \in Inputs /\ FromIn(x, k + 1, t) \in Symbols
              /\ FromIn(x, k, t) = EncodeTxin(x.ins[k + 1]) \o FromIn(x, k + 1, t)
<1>. DEFINE parts == InParts(x.ins)
            end == FromOutCount(x, t)
<1>1. x.ins \in Seq(Inputs) /\ \A i \in 1 .. Len(x.ins) : x.ins[i] \in Inputs
  BY MadeParts
<1>2. /\ parts \in Seq(Symbols) /\ Len(parts) = Len(x.ins)
      /\ \A i \in 1 .. Len(x.ins) : parts[i] = EncodeTxin(x.ins[i])
  BY <1>1, InPartsType
<1>3. end \in Symbols
  BY FromOutCountIs
<1>4. \A i : FromIn(x, i, t) = Left(parts, i) \o end
  BY DEF FromIn
<1>. HIDE DEF parts, end
<1>5. k \in 0 .. Len(parts)
  BY <1>2
<1>6. /\ Left(parts, k) \o end \in Symbols
      /\ k = Len(parts) => Left(parts, k) \o end = end
      /\ k < Len(parts) =>
           /\ k + 1 \in 1 .. Len(parts) /\ parts[k + 1] \in Symbols
           /\ Left(parts, k + 1) \o end \in Symbols
           /\ Left(parts, k) \o end = parts[k + 1] \o (Left(parts, k + 1) \o end)
  BY <1>2, <1>3, <1>5, LeftThen
<1>. QED  BY <1>1, <1>2, <1>4, <1>6 DEF end

LEMMA FromFrontIs ==
  ASSUME NEW x, Made(x), NEW t \in Symbols
  PROVE  /\ <<x.version>> \in Symbols /\ <<Len(x.ins)>> \in Symbols
         /\ <<0>> \in Symbols /\ <<1>> \in Symbols
         /\ FromIn(x, 0, t) \in Symbols /\ FromInCount(x, t) \in Symbols
         /\ FromFlags(x, t) \in Symbols /\ FromMarker(x, t) \in Symbols
         /\ FromVersion(x, t) \in Symbols
<1>1. /\ Len(x.ins) \in Nat /\ 0 \in 0 .. Len(x.ins) /\ x.version \in Nat
      /\ 0 \in Nat /\ 1 \in Nat
  BY MadeParts
<1>2. /\ <<x.version>> \in Symbols /\ <<Len(x.ins)>> \in Symbols
      /\ <<0>> \in Symbols /\ <<1>> \in Symbols
  BY <1>1, OneSymbol
<1>3. FromIn(x, 0, t) \in Symbols
  BY <1>1, FromInIs
<1>4. FromInCount(x, t) \in Symbols
  BY <1>2, <1>3, Cat DEF FromInCount
<1>5. FromFlags(x, t) \in Symbols
  BY <1>2, <1>4, Cat DEF FromFlags
<1>6. FromMarker(x, t) \in Symbols
  BY <1>2, <1>4, <1>5, Cat DEF FromMarker
<1>7. FromVersion(x, t) \in Symbols
  BY <1>2, <1>6, Cat DEF FromVersion
<1>. QED  BY <1>2, <1>3, <1>4, <1>5, <1>6, <1>7

LEMMA RangeThen ==
  ASSUME NEW parts \in Seq(Symbols), NEW e \in Symbols
  PROVE  EncodeRange(parts) \o e = <<Len(parts)>> \o (Left(parts, 0) \o e)
<1>1. /\ FlattenSeq(parts) \in Symbols /\ <<Len(parts)>> \in Symbols
      /\ EncodeRange(parts) = <<Len(parts)>> \o FlattenSeq(parts)
  BY EncodeRangeType
<1>2. 0 \in 0 .. Len(parts)
  BY LenProperties
<1>3. Left(parts, 0) = FlattenSeq(parts)
  BY <1>2, LeftFacts
<1>. QED  BY <1>1, <1>3, CatCat

(* The whole of it is what serialize() writes. *)
LEMMA TxIsFromVersion ==
  ASSUME NEW x, Made(x), NEW t \in Symbols
  PROVE  EncodeTx(x) \o t = FromVersion(x, t)
<1>. DEFINE v == <<x.version>>
            f == IF x.isSegwit THEN <<0, 1>> ELSE << >>
            i == EncodeRange(InParts(x.ins))
            o == EncodeRange(OutParts(x.outs))
            w == IF x.isSegwit THEN FlattenSeq(Witnesses(x.ins)) ELSE << >>
            l == <<x.locktime>>
<1>1. /\ x.version \in Nat /\ x.ins \in Seq(Inputs) /\ x.outs \in Seq(Outputs)
      /\ x.locktime \in Nat /\ x.isSegwit \in BOOLEAN
  BY MadeParts
<1>2. /\ InParts(x.ins) \in Seq(Symbols) /\ Len(InParts(x.ins)) = Len(x.ins)
      /\ OutParts(x.outs) \in Seq(Symbols) /\ Len(OutParts(x.outs)) = Len(x.outs)
      /\ Witnesses(x.ins) \in Seq(Symbols) /\ Len(Witnesses(x.ins)) = Len(x.ins)
  BY <1>1, InPartsType, OutPartsType, WitnessesType
<1>3. i \in Symbols /\ o \in Symbols /\ FlattenSeq(Witnesses(x.ins)) \in Symbols
  BY <1>2, EncodeRangeType
<1>4. v \in Symbols /\ f \in Symbols /\ w \in Symbols /\ l \in Symbols
  <2>1. <<0, 1>> \in Symbols
    BY DEF Symbols
  <2>. QED  BY <1>1, <1>3, <2>1, OneSymbol, EmptySymbols
<1>5. EncodeTx(x) = ((((v \o f) \o i) \o o) \o w) \o l
  BY EncodeTxDataIs DEF EncodeTx, UpToWitnesses, UpToOutputs, UpToInputs, UpToFlags
<1>6. w \o FromLocktime(x, t) = FromWitness(x, t) /\ FromLocktime(x, t) \in Symbols
  <2>1. FromLocktime(x, t) \in Symbols
    BY FromLocktimeIs
  <2>2. 0 \in 0 .. Len(Witnesses(x.ins))
    BY <1>1, <1>2, LenProperties
  <2>3. Left(Witnesses(x.ins), 0) = FlattenSeq(Witnesses(x.ins))
    BY <1>2, <2>2, LeftFacts
  <2>4. CASE x.isSegwit
    BY <2>1, <2>3, <2>4 DEF FromWitness, FromStack
  <2>5. CASE ~x.isSegwit
    BY <2>1, <2>5, CatEmpty DEF FromWitness
  <2>. QED  BY <2>1, <2>4, <2>5
<1>7. o \o FromWitness(x, t) = FromOutCount(x, t)
  BY <1>2, FromWitnessIs, RangeThen DEF FromOutCount, FromOut
<1>8. i \o FromOutCount(x, t) = FromInCount(x, t)
  BY <1>2, FromOutCountIs, RangeThen DEF FromInCount, FromIn
<1>9. f \o FromInCount(x, t) = FromMarker(x, t)
  <2>1. FromInCount(x, t) \in Symbols
    BY FromFrontIs
  <2>2. CASE x.isSegwit
    <3>1. <<0, 1>> = <<0>> \o <<1>>
      BY ZeroOne
    <3>2. (<<0>> \o <<1>>) \o FromInCount(x, t) = <<0>> \o (<<1>> \o FromInCount(x, t))
      BY <2>1, FromFrontIs, CatCat
    <3>. QED  BY <2>2, <3>1, <3>2 DEF FromMarker, FromFlags
  <2>3. CASE ~x.isSegwit
    BY <2>1, <2>3, CatEmpty DEF FromMarker
  <2>. QED  BY <2>2, <2>3
<1>. DEFINE e1 == FromLocktime(x, t)
            e2 == FromWitness(x, t)
            e3 == FromOutCount(x, t)
            e4 == FromInCount(x, t)
            a == (v \o f) \o i
            b == a \o o
            c == b \o w
<1>10. e1 \in Symbols /\ e2 \in Symbols /\ e3 \in Symbols /\ e4 \in Symbols
  BY <1>6, FromWitnessIs, FromOutCountIs, FromFrontIs
<1>11. l \o t = e1 /\ w \o e1 = e2 /\ o \o e2 = e3 /\ i \o e3 = e4
  BY <1>6, <1>7, <1>8 DEF FromLocktime
<1>. HIDE DEF v, f, i, o, w, l, e1, e2, e3, e4
<1>12. v \o f \in Symbols /\ a \in Symbols
  BY <1>3, <1>4, Cat
<1>. HIDE DEF a
<1>13. b \in Symbols
  BY <1>3, <1>12, Cat
<1>. HIDE DEF b
<1>14. c \in Symbols
  BY <1>4, <1>13, Cat
<1>. HIDE DEF c
<1>15. (c \o l) \o t = c \o e1
  <2>1. c \in Symbols /\ l \in Symbols /\ t \in Symbols
    BY <1>3, <1>4, <1>10, <1>12, <1>13, <1>14
  <2>2. (c \o l) \o t = c \o (l \o t)
    BY ONLY <2>1, CatCat
  <2>. QED  BY <1>11, <2>2
<1>16. c \o e1 = b \o e2
  <2>1. b \in Symbols /\ w \in Symbols /\ e1 \in Symbols
    BY <1>3, <1>4, <1>10, <1>12, <1>13, <1>14
  <2>2. (b \o w) \o e1 = b \o (w \o e1)
    BY ONLY <2>1, CatCat
  <2>. QED  BY <1>11, <2>2 DEF c
<1>17. b \o e2 = a \o e3
  <2>1. a \in Symbols /\ o \in Symbols /\ e2 \in Symbols
    BY <1>3, <1>4, <1>10, <1>12, <1>13, <1>14
  <2>2. (a \o o) \o e2 = a \o (o \o e2)
    BY ONLY <2>1, CatCat
  <2>. QED  BY <1>11, <2>2 DEF b
<1>18. a \o e3 = (v \o f) \o e4
  <2>1. (v \o f) \in Symbols /\ i \in Symbols /\ e3 \in Symbols
    BY <1>3, <1>4, <1>10, <1>12, <1>13, <1>14
  <2>2. ((v \o f) \o i) \o e3 = (v \o f) \o (i \o e3)
    BY ONLY <2>1, CatCat
  <2>. QED  BY <1>11, <2>2 DEF a
<1>19. (v \o f) \o e4 = v \o (f \o e4)
  <2>1. v \in Symbols /\ f \in Symbols /\ e4 \in Symbols
    BY <1>3, <1>4, <1>10, <1>12, <1>13, <1>14
  <2>2. (v \o f) \o e4 = v \o (f \o e4)
    BY ONLY <2>1, CatCat
  <2>. QED  BY <1>11, <2>2
<1>20. EncodeTx(x) \o t = v \o (f \o e4)
  <2>1. EncodeTx(x) = c \o l
    BY <1>5 DEF a, b, c
  <2>. QED  BY <1>15, <1>16, <1>17, <1>18, <1>19, <2>1
<1>21. f \o e4 = FromMarker(x, t)
  BY <1>9 DEF e4
<1>. QED  BY <1>20, <1>21 DEF FromVersion, v

-----------------------------------------------------------------------------
(* One field more, of an object that was serialized *)

Following == GoodInv /\ ~failed /\ given # None /\ HasInputs(kind, given) /\ Tracked

LEMMA TookAt ==
  ASSUME given # None, taken \in Symbols, NEW s \in Symbols, Take(s),
         NEW h \in Symbols, NEW r \in Symbols, Raw = taken \o (h \o r)
  PROVE  /\ ReadAt(taken, s, h, r)
         /\ s = h => Raw = taken' \o r
<1>1. IsPrefix(taken \o s, Raw) /\ taken' = taken \o s
  BY DEF Take, CanTake
<1>2. ReadAt(taken, s, h, r)
  BY <1>1 DEF ReadAt
<1>3. (taken \o h) \o r = taken \o (h \o r)
  BY CatCat
<1>. QED  BY <1>1, <1>2, <1>3

(* The same for one symbol. *)
LEMMA TookOne ==
  ASSUME Following, NEW b \in Byte, Take(<<b>>), NEW c \in Nat, NEW r \in Symbols,
         Raw = taken \o (<<c>> \o r)
  PROVE  b = c /\ Raw = taken' \o r
<1>1. b \in Nat /\ <<b>> \in Symbols /\ taken \in Symbols /\ given # None
  BY DecoderAssumption, OneSymbol DEF Following, GoodInv, Types
<1>2. <<c>> \in Symbols
  BY OneSymbol
<1>3. ReadAt(taken, <<b>>, <<c>>, r) /\ (<<b>> = <<c>> => Raw = taken' \o r)
  <2>. DEFINE s == <<b>>
              h == <<c>>
  <2>1. s \in Symbols /\ h \in Symbols /\ Take(s) /\ Raw = taken \o (h \o r)
    BY <1>1, <1>2
  <2>. HIDE DEF s, h
  <2>2. ReadAt(taken, s, h, r) /\ (s = h => Raw = taken' \o r)
    BY <1>1, <2>1, TookAt
  <2>. QED  BY <2>2 DEF s, h
<1>4. b = c
  BY <1>1, <1>3, ReadOne
<1>. QED  BY <1>3, <1>4

(* The transaction that is read was made, and has inputs.                   *)
LEMMA CurrentIs ==
  ASSUME Following, pc \in InTx
  PROVE  /\ Made(Current) /\ Current.ins # << >> /\ BehindTx \in Symbols
         /\ Len(Current.ins) \in Nat /\ Len(Current.ins) > 0
         /\ tx \in Locals /\ range \in Ranges /\ Reserved(range) /\ taken \in Symbols
         /\ \E u \in Symbols :
              Raw = taken \o u /\ OnTx(pc, tx, range, Current, BehindTx, u)
<1>1. /\ Types /\ HasInputs(kind, given) /\ Fits(kind, given) /\ TxsRead
      /\ \E u \in Symbols :
           Raw = taken \o u /\ OnTx(pc, tx, range, Current, BehindTx, u)
      /\ Reserved(range)
  BY DEF Following, Tracked, GoodInv
<1>2. tx \in Locals /\ range \in Ranges /\ taken \in Symbols
  BY <1>1 DEF Types
<1>3. Made(Current) /\ Current.ins # << >> /\ BehindTx \in Symbols
  <2>1. CASE kind = "tx"
    BY <1>1, <2>1, EmptySymbols DEF Fits, HasInputs, Current, BehindTx
  <2>2. CASE kind # "tx"
    <3>. DEFINE n == Len(txs) + 1
                list == given.txs
    <3>1. /\ kind = "block" /\ outer.size = Len(list)
          /\ outer.got = Len(txs) /\ outer.got < outer.size
      BY <1>1, <2>2 DEF TxsRead
    <3>2. AllMade(list) /\ \A i \in DOMAIN list : list[i].ins # << >>
      BY <1>1, <3>1 DEF Fits, HasInputs
    <3>3. Len(list) \in Nat /\ DOMAIN list = 1 .. Len(list) /\ Len(txs) \in Nat
      BY <1>1, <3>2, LenProperties DEF AllMade, Types
    <3>4. n \in 1 .. Len(list) /\ n \in 0 .. Len(list)
      BY <3>1, <3>3
    <3>5. Made(list[n]) /\ list[n].ins # << >>
      BY <3>2, <3>3, <3>4 DEF AllMade
    <3>6. TxParts(list) \in Seq(Symbols) /\ Len(TxParts(list)) = Len(list)
      BY <3>2, TxPartsType
    <3>7. Left(TxParts(list), n) \in Symbols
      BY <3>4, <3>6, LeftFacts
    <3>. QED  BY <2>2, <3>5, <3>7 DEF Current, BehindTx
  <2>. QED  BY <2>1, <2>2
<1>4. Len(Current.ins) \in Nat /\ Len(Current.ins) > 0
  <2>. DEFINE ins == Current.ins
  <2>1. ins \in Seq(Inputs) /\ ins # << >>
    BY <1>3, MadeParts
  <2>. HIDE DEF ins
  <2>2. Len(ins) \in Nat /\ Len(ins) # 0
    BY <2>1, LenProperties, EmptySeq
  <2>. QED  BY <2>2 DEF ins
<1>. QED  BY <1>1, <1>2, <1>3, <1>4

LEMMA TxCountIs ==
  ASSUME Fits(kind, given), kind = "block"
  PROVE  /\ AllMade(given.txs) /\ given.header \in Nat
         /\ given = Block(given.header, given.txs)
         /\ Len(given.txs) \in Nat /\ <<Len(given.txs)>> \in Symbols
         /\ TxParts(given.txs) \in Seq(Symbols)
         /\ Len(TxParts(given.txs)) = Len(given.txs)
         /\ FlattenSeq(TxParts(given.txs)) \in Symbols
         /\ FromTxCount \in Symbols
<1>1. AllMade(given.txs) /\ given.header \in Nat /\ given = Block(given.header, given.txs)
  BY DEF Fits
<1>2. Len(given.txs) \in Nat
  BY <1>1, LenProperties DEF AllMade
<1>3. TxParts(given.txs) \in Seq(Symbols) /\ Len(TxParts(given.txs)) = Len(given.txs)
  BY <1>1, TxPartsType
<1>4. <<Len(given.txs)>> \in Symbols /\ FlattenSeq(TxParts(given.txs)) \in Symbols
  BY <1>2, <1>3, OneSymbol, EncodeRangeType
<1>5. FromTxCount \in Symbols
  BY <1>4, Cat DEF FromTxCount
<1>. QED  BY <1>1, <1>2, <1>3, <1>4, <1>5

(* What was written where the decoder stands can be read.                   *)
LEMMA FrontWritten ==
  ASSUME Following, NEW h \in Symbols, NEW r \in Symbols, Raw = taken \o (h \o r)
  PROVE  h \in Seq(Byte) /\ (h \in Readable => ~Short)
<1>1. Raw \in Seq(Byte) /\ given # None /\ taken \in Symbols
  BY DEF Following, Tracked, Fits, Raw, GoodInv, Types
<1>2. h \o r \in Symbols
  BY Cat
<1>3. h \o r \in Seq(Byte)
  BY <1>1, <1>2, InAlphabet
<1>4. h \in Seq(Byte)
  BY <1>3, InAlphabet
<1>. QED  BY <1>1, <1>4, NotShort

LEMMA SymbolLeft ==
  ASSUME Following, pc \notin {"end", "done", "in", "out", "item"},
         NEW c \in Nat, NEW r \in Symbols, Raw = taken \o (<<c>> \o r)
  PROVE  ~Short
<1>. DEFINE h == <<c>>
<1>1. h \in Symbols
  BY OneSymbol
<1>2. h \in Seq(Byte) /\ (h \in Readable => ~Short)
  <2>. HIDE DEF h
  <2>1. Raw = taken \o (h \o r)
    BY DEF h
  <2>. QED  BY <1>1, <2>1, FrontWritten
<1>3. c \in Byte
  BY <1>2, OneWritten
<1>4. h \in Readable
  BY <1>3 DEF Readable
<1>. QED  BY <1>2, <1>4

LEMMA InputLeft ==
  ASSUME Following, pc = "in", NEW in \in Inputs, NEW r \in Symbols,
         Raw = taken \o (EncodeTxin(in) \o r)
  PROVE  ~Short
<1>. DEFINE a == <<in.prevout>>
            s == EncodeBytes(in.script)
            c == <<in.sequence>>
            h == EncodeTxin(in)
<1>1. in.prevout \in Nat /\ in.script \in Symbols /\ in.sequence \in Nat
  BY DEF Inputs
<1>2. a \in Symbols /\ s \in Symbols /\ c \in Symbols /\ h \in Symbols /\ h = (a \o s) \o c
  BY <1>1, OneSymbol, EncodeBytesType, EncodeTxinType DEF EncodeTxin
<1>3. h \in Seq(Byte) /\ (h \in Readable => ~Short)
  BY <1>2, FrontWritten
<1>4. a \in Seq(Byte) /\ s \in Seq(Byte) /\ c \in Seq(Byte)
  <2>. HIDE DEF a, s, c, h
  <2>1. a \o s \in Symbols
    BY <1>2, Cat
  <2>2. a \o s \in Seq(Byte) /\ c \in Seq(Byte)
    BY <1>2, <1>3, <2>1, InAlphabet
  <2>. QED  BY <1>2, <2>2, InAlphabet
<1>5. in.prevout \in Byte /\ in.sequence \in Byte
  BY <1>1, <1>4, OneWritten
<1>6. s \in Strings
  BY <1>1, <1>4, StringWritten
<1>7. h \in Readable
  <2>. DEFINE F(p, n, q) == <<p>> \o q \o <<n>>
  <2>1. Readable = {F(p, n, q) : p, n \in Byte, q \in Strings}
    BY DEF Readable
  <2>2. h = F(in.prevout, in.sequence, s)
    BY <1>2
  <2>. HIDE DEF s, h, F
  <2>. QED  BY ONLY <1>5, <1>6, <2>1, <2>2
<1>. QED  BY <1>3, <1>7

LEMMA OutputLeft ==
  ASSUME Following, pc = "out", NEW out \in Outputs, NEW r \in Symbols,
         Raw = taken \o (EncodeTxout(out) \o r)
  PROVE  ~Short
<1>. DEFINE a == <<out.value>>
            s == EncodeBytes(out.script)
            h == EncodeTxout(out)
<1>1. out.value \in Nat /\ out.script \in Symbols
  BY DEF Outputs
<1>2. a \in Symbols /\ s \in Symbols /\ h \in Symbols /\ h = a \o s
  BY <1>1, OneSymbol, EncodeBytesType, EncodeTxoutType DEF EncodeTxout
<1>3. h \in Seq(Byte) /\ (h \in Readable => ~Short)
  BY <1>2, FrontWritten
<1>4. a \in Seq(Byte) /\ s \in Seq(Byte)
  <2>. HIDE DEF a, s, h
  <2>. QED  BY <1>2, <1>3, InAlphabet
<1>5. out.value \in Byte
  BY <1>1, <1>4, OneWritten
<1>6. s \in Strings
  BY <1>1, <1>4, StringWritten
<1>7. h \in Readable
  <2>. DEFINE F(v, q) == <<v>> \o q
  <2>1. Readable = {F(v, q) : v \in Byte, q \in Strings}
    BY DEF Readable
  <2>2. h = F(out.value, s)
    BY <1>2
  <2>. HIDE DEF s, h, F
  <2>. QED  BY ONLY <1>5, <1>6, <2>1, <2>2
<1>. QED  BY <1>3, <1>7

LEMMA ItemLeft ==
  ASSUME Following, pc = "item", NEW w \in Symbols, NEW r \in Symbols,
         Raw = taken \o (EncodeBytes(w) \o r)
  PROVE  ~Short
<1>1. EncodeBytes(w) \in Symbols
  BY EncodeBytesType
<1>2. EncodeBytes(w) \in Seq(Byte) /\ (EncodeBytes(w) \in Readable => ~Short)
  BY <1>1, FrontWritten
<1>3. EncodeBytes(w) \in Strings
  BY <1>2, StringWritten
<1>. QED  BY <1>2, <1>3 DEF Readable

LEMMA NeverShort ==
  ASSUME Following, pc \notin {"end", "done"}
  PROVE  ~Short
<1>. DEFINE x == Current
            t == BehindTx
<1>2. CASE pc = "header"
  <2>1. Fits(kind, given) /\ Raw = taken \o FromHeader /\ kind # "tx" /\ kind \in Kinds
    BY <1>2 DEF Following, Tracked, GoodInv, Types
  <2>2. CASE kind = "header"
    <3>1. given \in Nat /\ Raw = taken \o (<<given>> \o << >>)
      BY <2>1, <2>2 DEF Fits, FromHeader
    <3>. QED  BY <1>2, <3>1, EmptySymbols, SymbolLeft
  <2>3. CASE kind = "block"
    <3>1. given.header \in Nat /\ FromTxCount \in Symbols
      BY <2>1, <2>3, TxCountIs
    <3>2. Raw = taken \o (<<given.header>> \o FromTxCount)
      BY <2>1, <2>3 DEF FromHeader
    <3>. QED  BY <1>2, <3>1, <3>2, SymbolLeft
  <2>. QED  BY <2>1, <2>2, <2>3 DEF Kinds
<1>3. CASE pc = "txcount"
  <2>1. Fits(kind, given) /\ kind = "block" /\ Raw = taken \o FromTxCount
    BY <1>3 DEF Following, Tracked
  <2>2. Len(given.txs) \in Nat /\ FlattenSeq(TxParts(given.txs)) \in Symbols
    BY <2>1, TxCountIs
  <2>. QED  BY <1>3, <2>1, <2>2, SymbolLeft DEF FromTxCount
<1>4. CASE pc \in InTx
  <2>1. /\ Made(x) /\ t \in Symbols /\ Len(x.ins) \in Nat
        /\ tx \in Locals /\ range \in Ranges
    BY <1>4, CurrentIs
  <2>2. PICK u \in Symbols : Raw = taken \o u /\ OnTx(pc, tx, range, x, t, u)
    BY <1>4, CurrentIs
  <2>. HIDE DEF x, t
  <2>3. /\ x.version \in Nat /\ x.locktime \in Nat /\ Len(x.outs) \in Nat
        /\ FromIn(x, 0, t) \in Symbols /\ FromInCount(x, t) \in Symbols
        /\ FromFlags(x, t) \in Symbols /\ FromMarker(x, t) \in Symbols
        /\ FromOut(x, 0, t) \in Symbols
        /\ 0 \in Nat /\ 1 \in Nat /\ range.got \in Nat
    <3>1. x.version \in Nat /\ x.locktime \in Nat /\ Len(x.outs) \in Nat
      BY <2>1, MadeParts
    <3>2. /\ FromIn(x, 0, t) \in Symbols /\ FromInCount(x, t) \in Symbols
          /\ FromFlags(x, t) \in Symbols /\ FromMarker(x, t) \in Symbols
      BY <2>1, FromFrontIs
    <3>3. FromOut(x, 0, t) \in Symbols
      BY <2>1, FromOutCountIs
    <3>. QED  BY <2>1, <3>1, <3>2, <3>3 DEF Ranges
  <2>4. CASE pc = "version"
    <3>1. Raw = taken \o (<<x.version>> \o FromMarker(x, t))
      BY <2>2, <2>4 DEF OnTx, FromVersion
    <3>. QED  BY <2>3, <2>4, <3>1, SymbolLeft
  <2>5. CASE pc = "incount"
    <3>1. u = FromInCount(x, t) \/ u = FromMarker(x, t)
      BY <2>2, <2>5 DEF OnTx, OnInCount
    <3>2. \/ Raw = taken \o (<<Len(x.ins)>> \o FromIn(x, 0, t))
          \/ Raw = taken \o (<<0>> \o FromFlags(x, t))
      BY <2>2, <3>1 DEF FromMarker, FromInCount
    <3>3. CASE Raw = taken \o (<<Len(x.ins)>> \o FromIn(x, 0, t))
      BY <2>1, <2>3, <2>5, <3>3, SymbolLeft
    <3>4. CASE Raw = taken \o (<<0>> \o FromFlags(x, t))
      BY <2>3, <2>5, <3>4, SymbolLeft
    <3>. QED  BY <3>2, <3>3, <3>4
  <2>6. CASE pc = "flags"
    <3>1. Raw = taken \o (<<1>> \o FromInCount(x, t))
      BY <2>2, <2>6 DEF OnTx, OnFlags, FromFlags
    <3>. QED  BY <2>3, <2>6, <3>1, SymbolLeft
  <2>7. CASE pc = "in"
    <3>. DEFINE k == range.got
    <3>1. u = FromIn(x, k, t) /\ k < Len(x.ins)
      BY <2>2, <2>7 DEF OnTx, OnIn
    <3>2. k \in 0 .. Len(x.ins)
      BY <2>1, <2>3, <3>1
    <3>. HIDE DEF k
    <3>3. /\ x.ins[k + 1] \in Inputs /\ FromIn(x, k + 1, t) \in Symbols
          /\ FromIn(x, k, t) = EncodeTxin(x.ins[k + 1]) \o FromIn(x, k + 1, t)
      BY <2>1, <3>1, <3>2, FromInIs
    <3>. QED  BY <2>2, <2>7, <3>1, <3>3, InputLeft
  <2>8. CASE pc = "outcount"
    <3>1. Raw = taken \o (<<Len(x.outs)>> \o FromOut(x, 0, t))
      BY <2>2, <2>8 DEF OnTx, OnOutCount, FromOutCount
    <3>. QED  BY <2>3, <2>8, <3>1, SymbolLeft
  <2>9. CASE pc = "out"
    <3>. DEFINE k == range.got
    <3>1. u = FromOut(x, k, t) /\ k < Len(x.outs)
      BY <2>2, <2>9 DEF OnTx, OnOut
    <3>2. k \in 0 .. Len(x.outs)
      BY <2>3, <3>1
    <3>. HIDE DEF k
    <3>3. /\ x.outs[k + 1] \in Outputs /\ FromOut(x, k + 1, t) \in Symbols
          /\ FromOut(x, k, t) = EncodeTxout(x.outs[k + 1]) \o FromOut(x, k + 1, t)
      BY <2>1, <3>1, <3>2, FromOutIs
    <3>. QED  BY <2>2, <2>9, <3>1, <3>3, OutputLeft
  <2>10. CASE pc = "witcount"
    <3>. DEFINE k == Len(tx.items)
    <3>1. u = FromStack(x, k, t) /\ k < Len(x.ins)
      BY <2>2, <2>10 DEF OnTx, OnWitCount
    <3>2. k \in 0 .. Len(x.ins)
      <4>1. k \in Nat
        BY <2>1, LenProperties DEF Locals
      <4>. QED  BY <2>1, <3>1, <4>1
    <3>. HIDE DEF k
    <3>3. /\ Len(x.ins[k + 1].witness) \in Nat /\ FromItem(x, k + 1, 0, t) \in Symbols
          /\ FromStack(x, k, t)
               = <<Len(x.ins[k + 1].witness)>> \o FromItem(x, k + 1, 0, t)
      BY <2>1, <3>1, <3>2, FromStackIs
    <3>. QED  BY <2>2, <2>10, <3>1, <3>3, SymbolLeft
  <2>11. CASE pc = "item"
    <3>. DEFINE k == Len(tx.items)
                j == range.got
                w == x.ins[k].witness
    <3>1. /\ u = FromItem(x, k, j, t) /\ k \in 1 .. Len(x.ins)
          /\ range.size = Len(w) /\ j < range.size
      BY <2>2, <2>11 DEF OnTx, OnItem
    <3>2. j \in 0 .. Len(w) /\ j < Len(w)
      <4>1. Len(w) \in Nat
        <5>1. w \in Stacks
          BY <2>1, <3>1, MadeParts
        <5>. QED  BY <5>1, LenProperties DEF Stacks
      <4>. QED  BY <2>3, <3>1, <4>1
    <3>. HIDE DEF k, j
    <3>3. /\ x.ins[k].witness[j + 1] \in Symbols /\ FromItem(x, k, j + 1, t) \in Symbols
          /\ FromItem(x, k, j, t)
               = EncodeBytes(x.ins[k].witness[j + 1]) \o FromItem(x, k, j + 1, t)
      BY <2>1, <3>1, <3>2, FromItemIs
    <3>. QED  BY <2>2, <2>11, <3>1, <3>3, ItemLeft
  <2>12. CASE pc = "locktime"
    <3>1. Raw = taken \o (<<x.locktime>> \o t)
      BY <2>2, <2>12 DEF OnTx, OnLocktime, FromLocktime
    <3>. QED  BY <2>1, <2>3, <2>12, <3>1, SymbolLeft
  <2>. QED  BY <1>4, <2>4, <2>5, <2>6, <2>7, <2>8, <2>9, <2>10, <2>11, <2>12 DEF InTx
<1>5. pc \in {"header", "txcount"} \cup InTx
  BY DEF Following, Tracked
<1>. QED  BY <1>2, <1>3, <1>4, <1>5

(* So it is read, and the only failure is that of what was read.            *)
LEMMA ReadsOn ==
  ASSUME Following, pc \notin {"end", "done"},
         NEW s, NEW zero, NEW ok \in BOOLEAN, Read(s, zero, ok)
  PROVE  Take(s) /\ (ok => ~failed')
<1>1. ~Short /\ ~failed
  BY NeverShort DEF Following
<1>. QED  BY <1>1 DEF Read, Take

(* A step from a field of a transaction to another of it. *)
LEMMA FieldTracked ==
  ASSUME Following, pc \in InTx, pc' \in InTx,
         UNCHANGED <<given, kind, header, outer, txs>>,
         NEW v \in Symbols, Raw = taken' \o v,
         OnTx(pc', tx', range', Current, BehindTx, v)
  PROVE  Tracked'
<1>1. Raw' = Raw /\ Current' = Current /\ BehindTx' = BehindTx
  BY DEF Raw, Current, BehindTx
<1>2. Fits(kind, given)' /\ TxsRead'
  BY DEF Following, Tracked, TxsRead
<1>3. pc' \notin {"header", "txcount", "end", "done"}
  BY DEF InTx
<1>. QED  BY <1>1, <1>2, <1>3 DEF Tracked

LEMMA VersionTracked ==
  ASSUME Following, NEW b \in Byte, Version(b)
  PROVE  ~failed' /\ Tracked'
<1>. DEFINE x == Current
            t == BehindTx
<1>1. /\ pc = "version" /\ Take(<<b>>) /\ tx' = [NoTx EXCEPT !.version = b]
      /\ pc' = "incount" /\ UNCHANGED <<given, kind, header, outer, txs>>
      /\ pc \in InTx /\ pc' \in InTx /\ ~failed'
  BY ReadsOn DEF Version, InTx
<1>. SUFFICES Tracked'
  BY <1>1
<1>2. Made(x) /\ t \in Symbols
  BY <1>1, CurrentIs
<1>3. Raw = taken \o FromVersion(x, t)
  BY <1>1, CurrentIs DEF OnTx
<1>. HIDE DEF x, t
<1>4. Raw = taken \o (<<x.version>> \o FromMarker(x, t))
  BY <1>3 DEF FromVersion
<1>5. x.version \in Nat /\ FromMarker(x, t) \in Symbols
  BY <1>2, MadeParts, FromFrontIs
<1>6. b = x.version /\ Raw = taken' \o FromMarker(x, t)
  BY <1>1, <1>4, <1>5, TookOne
<1>7. /\ tx'.version = b /\ tx'.ins = << >> /\ tx'.outs = << >> /\ tx'.items = << >>
      /\ tx'.segwit = FALSE
  BY <1>1 DEF NoTx
<1>8. OnTx(pc', tx', range', x, t, FromMarker(x, t))
  BY <1>1, <1>6, <1>7 DEF OnTx, OnInCount
<1>. QED  BY <1>1, <1>5, <1>6, <1>8, FieldTracked DEF x, t

LEMMA InCountTracked ==
  ASSUME Following, NEW n \in Byte, InCount(n)
  PROVE  ~failed' /\ Tracked'
<1>. DEFINE x == Current
            t == BehindTx
<1>1. /\ pc = "incount" /\ Take(<<n>>) /\ range' = NewRange(n)
      /\ pc' = IF n > 0 THEN "in" ELSE IF tx.segwit THEN "outcount" ELSE "flags"
      /\ tx' = tx /\ UNCHANGED <<given, kind, header, outer, txs>>
      /\ pc \in InTx /\ pc' \in InTx /\ ~failed'
  BY ReadsOn DEF InCount, InTx
<1>. SUFFICES Tracked'
  BY <1>1
<1>2. Made(x) /\ t \in Symbols /\ Len(x.ins) \in Nat /\ Len(x.ins) > 0
      /\ tx \in Locals
  BY <1>1, CurrentIs
<1>3. PICK u \in Symbols : Raw = taken \o u /\ OnInCount(tx, x, t, u)
  BY <1>1, CurrentIs DEF OnTx
<1>. HIDE DEF x, t
<1>4. /\ tx.version = x.version /\ tx.ins = << >> /\ tx.outs = << >> /\ tx.items = << >>
      /\ tx.segwit => x.isSegwit
      /\ u = IF tx.segwit THEN FromInCount(x, t) ELSE FromMarker(x, t)
  BY <1>3 DEF OnInCount
<1>5. tx.segwit \in BOOLEAN /\ x.isSegwit \in BOOLEAN
  BY <1>2, MadeParts DEF Locals
<1>6. CASE tx.segwit = x.isSegwit
  <2>1. u = <<Len(x.ins)>> \o FromIn(x, 0, t)
    BY <1>4, <1>5, <1>6 DEF FromMarker, FromInCount
  <2>2. FromIn(x, 0, t) \in Symbols
    BY <1>2, FromFrontIs
  <2>3. n = Len(x.ins) /\ Raw = taken' \o FromIn(x, 0, t)
    BY <1>1, <1>2, <1>3, <2>1, <2>2, TookOne
  <2>4. range'.size = n /\ range'.got = 0
    BY <1>1, <1>2, <2>3, NewRangeFacts
  <2>5. pc' = "in"
    BY <1>1, <1>2, <2>3
  <2>6. InsRead(tx, x, 0)
    BY <1>4 DEF InsRead
  <2>7. OnIn(tx', range', x, t, FromIn(x, 0, t))
    BY <1>1, <1>2, <1>4, <1>6, <2>3, <2>4, <2>6 DEF OnIn, SameVersion
  <2>8. OnTx(pc', tx', range', x, t, FromIn(x, 0, t))
    BY <2>5, <2>7 DEF OnTx
  <2>. QED  BY <1>1, <2>2, <2>3, <2>8, FieldTracked DEF x, t
<1>7. CASE tx.segwit # x.isSegwit
  <2>1. x.isSegwit /\ ~tx.segwit
    BY <1>4, <1>5, <1>7
  <2>2. u = <<0>> \o FromFlags(x, t)
    BY <1>4, <2>1 DEF FromMarker
  <2>3. FromFlags(x, t) \in Symbols
    BY <1>2, FromFrontIs
  <2>4. n = 0 /\ Raw = taken' \o FromFlags(x, t)
    BY <1>1, <1>3, <2>2, <2>3, TookOne
  <2>5. pc' = "flags"
    BY <1>1, <2>1, <2>4
  <2>6. OnFlags(tx', x, t, FromFlags(x, t))
    BY <1>1, <1>4, <2>1 DEF OnFlags
  <2>7. OnTx(pc', tx', range', x, t, FromFlags(x, t))
    BY <2>5, <2>6 DEF OnTx
  <2>. QED  BY <1>1, <2>3, <2>4, <2>7, FieldTracked DEF x, t
<1>. QED  BY <1>6, <1>7

LEMMA FlagsTracked ==
  ASSUME Following, NEW b \in Byte, Flags(b)
  PROVE  ~failed' /\ Tracked'
<1>. DEFINE x == Current
            t == BehindTx
<1>1. pc = "flags" /\ pc \in InTx /\ Take(<<b>>) /\ (b = 1 => ~failed')
  BY ReadsOn DEF Flags, InTx
<1>2. Made(x) /\ t \in Symbols /\ tx \in Locals
  BY <1>1, CurrentIs
<1>3. PICK u \in Symbols : Raw = taken \o u /\ OnFlags(tx, x, t, u)
  BY <1>1, CurrentIs DEF OnTx
<1>. HIDE DEF x, t
<1>4. /\ tx.version = x.version /\ tx.ins = << >> /\ tx.outs = << >> /\ tx.items = << >>
      /\ x.isSegwit /\ Raw = taken \o (<<1>> \o FromInCount(x, t))
  BY <1>3 DEF OnFlags, FromFlags
<1>5. FromInCount(x, t) \in Symbols
  BY <1>2, FromFrontIs
<1>6. b = 1 /\ Raw = taken' \o FromInCount(x, t)
  BY <1>1, <1>4, <1>5, TookOne
<1>7. /\ tx' = [tx EXCEPT !.segwit = TRUE] /\ pc' = "incount" /\ pc' \in InTx
      /\ UNCHANGED <<given, kind, header, outer, txs>> /\ ~failed'
  BY <1>1, <1>6 DEF Flags, InTx
<1>8. /\ tx'.version = tx.version /\ tx'.ins = tx.ins /\ tx'.outs = tx.outs
      /\ tx'.items = tx.items /\ tx'.segwit = TRUE
  BY <1>2, <1>7 DEF Locals
<1>9. OnTx(pc', tx', range', x, t, FromInCount(x, t))
  BY <1>4, <1>7, <1>8 DEF OnTx, OnInCount
<1>10. Tracked'
  BY <1>1, <1>5, <1>6, <1>7, <1>9, FieldTracked DEF x, t
<1>. QED  BY <1>7, <1>10

(* One more element of a sequence, by its index. *)
LEMMA OneMore ==
  ASSUME NEW S, NEW s \in Seq(S), NEW e \in S, NEW k, Len(s) = k
  PROVE  /\ Append(s, e) \in Seq(S) /\ Len(Append(s, e)) = k + 1 /\ k \in Nat
         /\ \A i \in 1 .. k + 1 : Append(s, e)[i] = IF i = k + 1 THEN e ELSE s[i]
         /\ \A i \in 1 .. k + 1 : i # k + 1 => i \in 1 .. k
<1>1. /\ Append(s, e) \in Seq(S) /\ Len(Append(s, e)) = k + 1 /\ k \in Nat
      /\ \A i \in 1 .. k : Append(s, e)[i] = s[i]
      /\ Append(s, e)[k + 1] = e
  BY AppendProperties, LenProperties
<1>2. \A i \in 1 .. k + 1 : i # k + 1 => i \in 1 .. k
  BY <1>1
<1>. QED  BY <1>1, <1>2

LEMMA TxinTracked ==
  ASSUME Following, NEW p \in Byte, NEW q \in Byte, NEW s \in Strings, Txin(p, s, q)
  PROVE  ~failed' /\ Tracked'
<1>. DEFINE x == Current
            t == BehindTx
            sym == <<p>> \o s \o <<q>>
            k == range.got
            in == x.ins[k + 1]
            new == Input(p, Tail(s), q, << >>)
            ins == Append(tx.ins, new)
            h == EncodeTxin(in)
            v == FromIn(x, k + 1, t)
<1>1. /\ pc = "in" /\ Take(sym) /\ tx' = [tx EXCEPT !.ins = ins] /\ range' = Pushed(range)
      /\ pc' = IF Complete(range') THEN "outcount" ELSE "in"
      /\ UNCHANGED <<given, kind, header, outer, txs>>
      /\ pc \in InTx /\ pc' \in InTx /\ ~failed'
  <2>1. /\ pc = "in" /\ Take(sym) /\ ~failed' /\ tx' = [tx EXCEPT !.ins = ins]
        /\ range' = Push(range) /\ pc' = IF GoesOn(range') THEN "in" ELSE "outcount"
        /\ UNCHANGED <<given, kind, header, outer, txs>>
    BY ReadsOn DEF Txin
  <2>2. range' = Pushed(range) /\ (GoesOn(range') <=> ~Complete(Pushed(range)))
    BY <2>1, RangeFilled DEF Following
  <2>. HIDE DEF sym, ins
  <2>. QED  BY <2>1, <2>2 DEF InTx
<1>. SUFFICES Tracked'
  BY <1>1
<1>2. /\ Made(x) /\ t \in Symbols /\ Len(x.ins) \in Nat
      /\ tx \in Locals /\ range \in Ranges /\ Reserved(range) /\ taken \in Symbols
  BY <1>1, CurrentIs
<1>3. PICK u \in Symbols : Raw = taken \o u /\ OnIn(tx, range, x, t, u)
  BY <1>1, CurrentIs DEF OnTx
<1>. HIDE DEF x, t
<1>4. /\ SameVersion(tx, x) /\ tx.outs = << >> /\ tx.items = << >>
      /\ range.size = Len(x.ins) /\ k < range.size /\ InsRead(tx, x, k)
      /\ u = FromIn(x, k, t) /\ k \in Nat
  BY <1>2, <1>3 DEF OnIn, Ranges
<1>5. k \in 0 .. Len(x.ins) /\ k < Len(x.ins) /\ k + 1 \in 0 .. Len(x.ins)
  BY <1>2, <1>4
<1>6. in \in Inputs /\ v \in Symbols /\ u = h \o v
  BY <1>2, <1>4, <1>5, FromInIs
<1>. HIDE DEF in, v
<1>7. /\ in.prevout \in Nat /\ in.script \in Symbols /\ in.sequence \in Nat
      /\ p \in Nat /\ q \in Nat /\ h \in Symbols
  BY <1>6, EncodeTxinType, DecoderAssumption DEF Inputs
<1>8. sym \in Symbols
  <2>1. <<p>> \in Symbols /\ s \in Symbols /\ <<q>> \in Symbols
    BY <1>7, OneSymbol, StringIs
  <2>2. <<p>> \o s \in Symbols
    BY <2>1, Cat
  <2>. QED  BY <2>1, <2>2, Cat
<1>9. ReadAt(taken, sym, h, v) /\ (sym = h => Raw = taken' \o v)
  <2>1. given # None /\ Raw = taken \o (h \o v)
    BY <1>3, <1>6 DEF Following
  <2>. HIDE DEF sym, h
  <2>. QED  BY <1>1, <1>2, <1>6, <1>7, <1>8, <2>1, TookAt
<1>10. p = in.prevout /\ Tail(s) = in.script /\ <<q>> = <<in.sequence>>
  <2>. DEFINE f == <<q>>
              g == <<in.sequence>>
  <2>1. f \in Symbols /\ g \in Symbols /\ Len(f) = Len(g)
    BY <1>7, OneSymbol
  <2>2. ReadAt(taken, <<p>> \o s \o f, <<in.prevout>> \o EncodeBytes(in.script) \o g, v)
    BY <1>9 DEF EncodeTxin
  <2>. HIDE DEF f, g
  <2>3. p = in.prevout /\ Tail(s) = in.script /\ f = g
    BY <1>7, <2>1, <2>2, ReadFramed
  <2>. QED  BY <2>3 DEF f, g
<1>11. q = in.sequence
  BY <1>7, <1>10
<1>12. sym = h /\ new = Bare(in)
  <2>1. EncodeBytes(Tail(s)) = s
    BY StringIs
  <2>. QED  BY <1>10, <1>11, <2>1 DEF EncodeTxin, Bare
<1>13. new \in Inputs
  <2>1. << >> \in Seq(Symbols)
    OBVIOUS
  <2>. QED  BY <1>7, <1>10, <1>11, <2>1 DEF Input, Inputs
<1>. HIDE DEF new
<1>14. /\ ins \in Seq(Inputs) /\ Len(ins) = k + 1
       /\ \A i \in 1 .. k + 1 : ins[i] = IF i = k + 1 THEN new ELSE tx.ins[i]
       /\ \A i \in 1 .. k + 1 : i # k + 1 => i \in 1 .. k
  <2>1. tx.ins \in Seq(Inputs) /\ Len(tx.ins) = k
    BY <1>2, <1>4 DEF Locals, InsRead
  <2>. QED  BY <1>13, <2>1, OneMore
<1>15. \A i \in 1 .. k + 1 : ins[i] = Bare(x.ins[i])
  BY <1>4, <1>12, <1>14 DEF InsRead, in
<1>16. /\ tx'.version = tx.version /\ tx'.segwit = tx.segwit /\ tx'.ins = ins
       /\ tx'.outs = tx.outs /\ tx'.items = tx.items
  <2>. HIDE DEF ins
  <2>. QED  BY <1>1, <1>2 DEF Locals
<1>17. /\ SameVersion(tx', x) /\ tx'.outs = << >> /\ tx'.items = << >>
       /\ InsRead(tx', x, k + 1)
  BY <1>4, <1>14, <1>15, <1>16 DEF SameVersion, InsRead
<1>18. /\ range'.size = range.size /\ range'.got = k + 1
       /\ Complete(range') \/ range'.got < range'.size
  BY <1>1, <1>2, <1>4, PushFacts
<1>19. OnTx(pc', tx', range', x, t, v)
  <2>1. CASE Complete(range')
    <3>1. k + 1 = Len(x.ins)
      BY <1>4, <1>18, <2>1 DEF Complete
    <3>2. v = FromOutCount(x, t)
      BY <1>2, <1>5, <3>1, FromInIs DEF v
    <3>3. OnOutCount(tx', x, t, v)
      BY <1>17, <3>1, <3>2 DEF OnOutCount
    <3>. QED  BY <1>1, <2>1, <3>3 DEF OnTx
  <2>2. CASE ~Complete(range')
    <3>1. OnIn(tx', range', x, t, v)
      BY <1>4, <1>17, <1>18, <2>2 DEF OnIn, v
    <3>. QED  BY <1>1, <2>2, <3>1 DEF OnTx
  <2>. QED  BY <2>1, <2>2
<1>20. Raw = taken' \o v
  BY <1>9, <1>12
<1>. HIDE DEF sym, h
<1>. QED  BY <1>1, <1>6, <1>19, <1>20, FieldTracked DEF x, t

LEMMA WitnessableRead ==
  ASSUME Following, pc \in InTx, InsRead(tx, Current, Len(Current.ins))
  PROVE  Witnessable
BY CurrentIs DEF InsRead, Witnessable

(* After the outputs: the lock time, or the first stack.                    *)
LEMMA OutputsTracked ==
  ASSUME Following, pc \in InTx, UNCHANGED <<given, kind, header, outer, txs>>,
         tx' \in Locals, tx'.segwit = tx.segwit, tx'.ins = tx.ins,
         SameVersion(tx', Current), tx'.items = << >>,
         InsRead(tx', Current, Len(Current.ins)), tx'.outs = Current.outs,
         Raw = taken' \o FromWitness(Current, BehindTx), AfterOutputs
  PROVE  Tracked'
<1>. DEFINE x == Current
            t == BehindTx
            n == Len(x.ins)
            v == FromWitness(x, t)
<1>1. Made(x) /\ t \in Symbols /\ n \in Nat /\ n > 0
  BY CurrentIs
<1>. HIDE DEF x, t
<1>2. v \in Symbols /\ Raw = taken' \o v
  BY <1>1, FromWitnessIs DEF x, t
<1>3. /\ x.ins \in Seq(Inputs) /\ x.isSegwit \in BOOLEAN /\ x.isSegwit = AnyWitness(x.ins)
      /\ \A i \in 1 .. n : x.ins[i] \in Inputs
      /\ DOMAIN x.ins = 1 .. n
  BY <1>1, MadeParts, LenProperties
<1>4. /\ tx'.ins \in Seq(Inputs) /\ Len(tx'.ins) = n
      /\ \A i \in 1 .. n : tx'.ins[i] = Bare(x.ins[i])
      /\ tx'.version = x.version /\ tx'.segwit = x.isSegwit /\ tx'.items = << >>
      /\ tx'.outs = x.outs
  BY DEF InsRead, SameVersion, Locals, x
<1>5. CASE ~x.isSegwit
  <2>1. \A i \in 1 .. n : tx'.ins[i] = x.ins[i]
    <3>. SUFFICES ASSUME NEW i \in 1 .. n
                  PROVE  tx'.ins[i] = x.ins[i]
      OBVIOUS
    <3>. DEFINE in == x.ins[i]
    <3>1. in \in Inputs /\ in.witness = << >>
      BY <1>3, <1>5 DEF AnyWitness, HasWitness
    <3>. HIDE DEF in
    <3>2. Bare(in) = in
      BY <3>1 DEF Bare, Input, Inputs
    <3>. QED  BY <1>4, <3>2 DEF in
  <2>2. tx'.ins = x.ins
    BY <1>3, <1>4, <2>1, SeqEqual
  <2>3. pc' = "locktime"
    BY <1>4, <1>5 DEF AfterOutputs
  <2>4. v = FromLocktime(x, t)
    BY <1>5 DEF FromWitness
  <2>5. OnLocktime(tx', x, t, v)
    BY <1>4, <2>2, <2>4 DEF OnLocktime
  <2>6. OnTx(pc', tx', range', x, t, v) /\ pc' \in InTx
    BY <2>3, <2>5 DEF OnTx, InTx
  <2>. HIDE DEF v
  <2>. QED  BY <1>2, <2>6, FieldTracked DEF x, t
<1>6. CASE x.isSegwit
  <2>1. tx.segwit /\ tx.ins # << >>
    <3>1. tx'.ins # << >>
      BY <1>1, <1>4, EmptySeq
    <3>. QED  BY <1>4, <1>6, <3>1
  <2>2. pc' = "witcount"
    BY <2>1 DEF AfterOutputs
  <2>3. Len(tx'.items) = 0
    BY <1>4
  <2>4. v = FromStack(x, Len(tx'.items), t)
    BY <1>6, <2>3 DEF FromWitness
  <2>5. StacksRead(tx', x, Len(tx'.items))
    BY <2>3 DEF StacksRead
  <2>6. SameVersion(tx', x) /\ InsRead(tx', x, Len(x.ins))
    BY DEF x
  <2>7. OnWitCount(tx', x, t, v)
    BY <1>1, <1>4, <1>6, <2>3, <2>4, <2>5, <2>6 DEF OnWitCount
  <2>8. OnTx(pc', tx', range', x, t, v) /\ pc' \in InTx
    BY <2>2, <2>7 DEF OnTx, InTx
  <2>. HIDE DEF v
  <2>. QED  BY <1>2, <2>8, FieldTracked DEF x, t
<1>. QED  BY <1>3, <1>5, <1>6

LEMMA OutCountTracked ==
  ASSUME Following, NEW n \in Byte, OutCount(n)
  PROVE  ~failed' /\ Tracked'
<1>. DEFINE x == Current
            t == BehindTx
            v == FromOut(x, 0, t)
<1>1. /\ pc = "outcount" /\ Take(<<n>>) /\ range' = NewRange(n) /\ tx' = tx
      /\ IF n = 0 THEN AfterOutputs ELSE pc' = "out"
      /\ UNCHANGED <<given, kind, header, outer, txs>> /\ pc \in InTx
      /\ (Witnessable => ~failed')
  BY ReadsOn DEF OutCount, InTx
<1>2. Made(x) /\ t \in Symbols /\ tx \in Locals
  BY <1>1, CurrentIs
<1>3. PICK u \in Symbols : Raw = taken \o u /\ OnOutCount(tx, x, t, u)
  BY <1>1, CurrentIs DEF OnTx
<1>. HIDE DEF x, t
<1>4. /\ SameVersion(tx, x) /\ tx.outs = << >> /\ tx.items = << >>
      /\ InsRead(tx, x, Len(x.ins)) /\ u = <<Len(x.outs)>> \o v
  BY <1>3 DEF OnOutCount, FromOutCount
<1>. SUFFICES Tracked'
  BY <1>1, <1>4, WitnessableRead DEF x
<1>5. Len(x.outs) \in Nat /\ v \in Symbols /\ 0 \in 0 .. Len(x.outs)
  <2>1. Len(x.outs) \in Nat
    BY <1>2, MadeParts
  <2>2. v \in Symbols
    BY <1>2, FromOutCountIs
  <2>. QED  BY <2>1, <2>2
<1>6. n = Len(x.outs) /\ Raw = taken' \o v
  <2>. HIDE DEF v
  <2>. QED  BY <1>1, <1>3, <1>4, <1>5, TookOne
<1>7. CASE n = 0
  <2>1. v = FromWitness(x, t)
    BY <1>2, <1>5, <1>6, <1>7, FromOutIs
  <2>2. tx'.outs = x.outs
    <3>1. x.outs \in Seq(Outputs) /\ Len(x.outs) = 0
      BY <1>2, <1>6, <1>7, MadeParts
    <3>2. x.outs = << >>
      BY <3>1, EmptySeq
    <3>. QED  BY <1>1, <1>4, <3>2
  <2>3. /\ tx' \in Locals /\ tx'.segwit = tx.segwit /\ tx'.ins = tx.ins
        /\ SameVersion(tx', x) /\ tx'.items = << >> /\ InsRead(tx', x, Len(x.ins))
        /\ Raw = taken' \o FromWitness(x, t) /\ AfterOutputs
    BY <1>1, <1>2, <1>4, <1>6, <1>7, <2>1
  <2>. QED  BY <1>1, <2>2, <2>3, OutputsTracked DEF x, t
<1>8. CASE n # 0
  <2>1. pc' = "out" /\ pc' \in InTx
    BY <1>1, <1>8 DEF InTx
  <2>2. range'.size = n /\ range'.got = 0
    BY <1>1, <1>5, <1>6, NewRangeFacts
  <2>3. OutsRead(tx', x, 0)
    BY <1>1, <1>4 DEF OutsRead
  <2>4. OnOut(tx', range', x, t, v)
    BY <1>1, <1>4, <1>5, <1>6, <1>8, <2>2, <2>3 DEF OnOut
  <2>5. OnTx(pc', tx', range', x, t, v)
    BY <2>1, <2>4 DEF OnTx
  <2>. HIDE DEF v
  <2>. QED  BY <1>1, <1>5, <1>6, <2>1, <2>5, FieldTracked DEF x, t
<1>. QED  BY <1>7, <1>8

LEMMA TxoutTracked ==
  ASSUME Following, NEW p \in Byte, NEW s \in Strings, Txout(p, s)
  PROVE  ~failed' /\ Tracked'
<1>. DEFINE x == Current
            t == BehindTx
            sym == <<p>> \o s
            k == range.got
            out == x.outs[k + 1]
            new == Output(p, Tail(s))
            outs == Append(tx.outs, new)
            h == EncodeTxout(out)
            v == FromOut(x, k + 1, t)
<1>0. /\ pc = "out" /\ Take(sym) /\ tx' = [tx EXCEPT !.outs = outs] /\ range' = Push(range)
      /\ IF GoesOn(range') THEN pc' = "out" ELSE AfterOutputs
      /\ UNCHANGED <<given, kind, header, outer, txs>>
      /\ pc \in InTx /\ (Witnessable => ~failed')
  BY ReadsOn DEF Txout, InTx
<1>1. /\ pc = "out" /\ Take(sym) /\ tx' = [tx EXCEPT !.outs = outs] /\ range' = Pushed(range)
      /\ IF Complete(range') THEN AfterOutputs ELSE pc' = "out"
      /\ UNCHANGED <<given, kind, header, outer, txs>>
      /\ pc \in InTx /\ ~failed'
  <2>1. Witnessable
    <3>1. InsRead(tx, x, Len(x.ins))
      BY <1>0, CurrentIs DEF OnTx, OnOut
    <3>. QED  BY <1>0, <3>1, WitnessableRead
  <2>2. range' = Pushed(range) /\ (GoesOn(range') <=> ~Complete(Pushed(range)))
    BY <1>0, <2>1, RangeFilled DEF Following
  <2>. HIDE DEF sym, outs
  <2>. QED  BY <1>0, <2>1, <2>2
<1>. SUFFICES Tracked'
  BY <1>1
<1>2. /\ Made(x) /\ t \in Symbols
      /\ tx \in Locals /\ range \in Ranges /\ Reserved(range) /\ taken \in Symbols
  BY <1>1, CurrentIs
<1>3. PICK u \in Symbols : Raw = taken \o u /\ OnOut(tx, range, x, t, u)
  BY <1>1, CurrentIs DEF OnTx
<1>. HIDE DEF x, t
<1>4. /\ SameVersion(tx, x) /\ tx.items = << >> /\ InsRead(tx, x, Len(x.ins))
      /\ range.size = Len(x.outs) /\ k < range.size /\ OutsRead(tx, x, k)
      /\ u = FromOut(x, k, t) /\ k \in Nat
  BY <1>2, <1>3 DEF OnOut, Ranges
<1>5. k \in 0 .. Len(x.outs) /\ k < Len(x.outs) /\ k + 1 \in 0 .. Len(x.outs)
  <2>1. Len(x.outs) \in Nat
    BY <1>2, MadeParts
  <2>. QED  BY <1>4, <2>1
<1>6. out \in Outputs /\ v \in Symbols /\ u = h \o v
  BY <1>2, <1>4, <1>5, FromOutIs
<1>. HIDE DEF out, v
<1>7. /\ out.value \in Nat /\ out.script \in Symbols /\ p \in Nat /\ h \in Symbols
  BY <1>6, EncodeTxoutType, DecoderAssumption DEF Outputs
<1>8. sym \in Symbols
  BY <1>7, OneSymbol, StringIs, Cat
<1>9. ReadAt(taken, sym, h, v) /\ (sym = h => Raw = taken' \o v)
  <2>1. given # None /\ Raw = taken \o (h \o v)
    BY <1>3, <1>6 DEF Following
  <2>. HIDE DEF sym, h
  <2>. QED  BY <1>1, <1>2, <1>6, <1>7, <1>8, <2>1, TookAt
<1>10. p = out.value /\ Tail(s) = out.script
  <2>. DEFINE f == << >>
              a == <<p>> \o s
              b == <<out.value>> \o EncodeBytes(out.script)
  <2>1. f \in Symbols
    BY EmptySymbols
  <2>2. a \in Symbols /\ b \in Symbols
    BY <1>8, <1>7 DEF EncodeTxout
  <2>3. a \o f = a /\ b \o f = b
    BY <2>2, CatEmpty
  <2>4. ReadAt(taken, a \o f, b \o f, v)
    BY <1>9, <2>3 DEF EncodeTxout
  <2>. HIDE DEF f
  <2>. QED  BY <1>7, <2>1, <2>4, ReadFramed
<1>11. sym = h /\ new = out
  <2>1. EncodeBytes(Tail(s)) = s
    BY StringIs
  <2>2. new = out
    BY <1>6, <1>10 DEF Output, Outputs
  <2>. QED  BY <1>10, <2>1, <2>2 DEF EncodeTxout
<1>. HIDE DEF new
<1>12. /\ outs \in Seq(Outputs) /\ Len(outs) = k + 1
       /\ \A i \in 1 .. k + 1 : outs[i] = IF i = k + 1 THEN new ELSE tx.outs[i]
       /\ \A i \in 1 .. k + 1 : i # k + 1 => i \in 1 .. k
  <2>1. tx.outs \in Seq(Outputs) /\ Len(tx.outs) = k /\ new \in Outputs
    BY <1>2, <1>4, <1>6, <1>11 DEF Locals, OutsRead
  <2>. QED  BY <2>1, OneMore
<1>13. \A i \in 1 .. k + 1 : outs[i] = x.outs[i]
  BY <1>4, <1>11, <1>12 DEF OutsRead, out
<1>14. /\ tx'.version = tx.version /\ tx'.segwit = tx.segwit /\ tx'.ins = tx.ins
       /\ tx'.outs = outs /\ tx'.items = tx.items /\ tx' \in Locals
  <2>. HIDE DEF outs
  <2>. QED  BY <1>1, <1>2, <1>12 DEF Locals
<1>. HIDE DEF outs
<1>15. /\ SameVersion(tx', x) /\ tx'.items = << >> /\ InsRead(tx', x, Len(x.ins))
       /\ OutsRead(tx', x, k + 1)
  BY <1>4, <1>12, <1>13, <1>14 DEF SameVersion, InsRead, OutsRead
<1>16. /\ range'.size = range.size /\ range'.got = k + 1
       /\ Complete(range') \/ range'.got < range'.size
  BY <1>1, <1>2, <1>4, PushFacts
<1>17. Raw = taken' \o v
  BY <1>9, <1>11
<1>. HIDE DEF sym, h
<1>18. CASE Complete(range')
  <2>1. k + 1 = Len(x.outs)
    BY <1>4, <1>16, <1>18 DEF Complete
  <2>2. v = FromWitness(x, t)
    BY <1>2, <1>5, <2>1, FromOutIs DEF v
  <2>3. tx'.outs = x.outs
    <3>1. x.outs \in Seq(Outputs)
      BY <1>2, MadeParts
    <3>. QED  BY <1>12, <1>13, <1>14, <2>1, <3>1, SeqEqual
  <2>4. AfterOutputs /\ Raw = taken' \o FromWitness(x, t)
    BY <1>1, <1>17, <1>18, <2>2
  <2>. QED  BY <1>1, <1>14, <1>15, <2>3, <2>4, OutputsTracked DEF x, t
<1>19. CASE ~Complete(range')
  <2>1. OnOut(tx', range', x, t, v)
    BY <1>4, <1>15, <1>16, <1>19 DEF OnOut, v
  <2>2. OnTx(pc', tx', range', x, t, v) /\ pc' \in InTx
    BY <1>1, <1>19, <2>1 DEF OnTx, InTx
  <2>. QED  BY <1>1, <1>6, <1>17, <2>2, FieldTracked DEF x, t
<1>. QED  BY <1>18, <1>19

(* The stacks of all inputs make the inputs what they were.                 *)
LEMMA StacksAll ==
  ASSUME Following, pc \in InTx, InsRead(tx, Current, Len(Current.ins)),
         NEW items, Len(items) = Len(Current.ins),
         \A i \in 1 .. Len(items) : items[i] = Current.ins[i].witness
  PROVE  WithWitness(tx.ins, items) = Current.ins
<1>. DEFINE x == Current
            n == Len(x.ins)
            new == WithWitness(tx.ins, items)
<1>1. Made(x) /\ n \in Nat /\ tx \in Locals
  BY CurrentIs
<1>. HIDE DEF x
<1>2. /\ InsRead(tx, x, n) /\ \A i \in 1 .. n : items[i] = x.ins[i].witness
      /\ Len(tx.ins) = n /\ tx.ins \in Seq(Inputs)
  BY <1>1 DEF x, InsRead, Locals
<1>3. DOMAIN tx.ins = 1 .. n /\ x.ins \in Seq(Inputs) /\ DOMAIN x.ins = 1 .. n
      /\ \A i \in 1 .. n : x.ins[i] \in Inputs
  BY <1>1, <1>2, MadeParts, LenProperties
<1>4. \A i \in 1 .. n : [tx.ins[i] EXCEPT !.witness = items[i]] = x.ins[i]
  <2>. SUFFICES ASSUME NEW i \in 1 .. n
                PROVE  [tx.ins[i] EXCEPT !.witness = items[i]] = x.ins[i]
    OBVIOUS
  <2>. DEFINE in == x.ins[i]
              bare == tx.ins[i]
              w == items[i]
  <2>1. in \in Inputs /\ bare = Bare(in) /\ w = in.witness
    BY <1>2, <1>3 DEF InsRead
  <2>. HIDE DEF in, bare, w
  <2>2. [bare EXCEPT !.witness = w] = in
    BY <2>1 DEF Bare, Input, Inputs
  <2>. QED  BY <2>2 DEF in, bare, w
<1>5. new = [i \in 1 .. n |-> x.ins[i]]
  BY <1>3, <1>4 DEF WithWitness
<1>6. new = x.ins
  BY <1>3, <1>5
<1>. QED  BY <1>6 DEF x

(* Some input has a witness, as the flags promised.                         *)
LEMMA SomeWitnessRead ==
  ASSUME Following, pc \in InTx, InsRead(tx, Current, Len(Current.ins)),
         Current.isSegwit, NEW items,
         \A i \in 1 .. Len(items) : items[i] = Current.ins[i].witness
  PROVE  SomeWitness(items)
<1>1. Made(Current)
  BY CurrentIs
<1>2. AnyWitness(Current.ins)
  BY <1>1, MadeParts
<1>3. Len(tx.ins) = Len(Current.ins)
  BY DEF InsRead
<1>. QED  BY <1>2, <1>3, StacksAll DEF SomeWitness

(* A stack is complete: the next one, or the lock time.                     *)
LEMMA StackTracked ==
  ASSUME Following, pc \in InTx, UNCHANGED <<given, kind, header, outer, txs>>,
         SameVersion(tx, Current), Current.isSegwit,
         InsRead(tx, Current, Len(Current.ins)), tx.outs = Current.outs,
         NEW items \in Seq(Stacks), Len(items) <= Len(Current.ins),
         \A i \in 1 .. Len(items) : items[i] = Current.ins[i].witness,
         Raw = taken' \o FromStack(Current, Len(items), BehindTx),
         Witnessed(items)
  PROVE  Tracked'
<1>. DEFINE x == Current
            t == BehindTx
            n == Len(x.ins)
            k == Len(items)
            v == FromStack(x, k, t)
<1>1. Made(x) /\ t \in Symbols /\ n \in Nat /\ tx \in Locals
  BY CurrentIs
<1>. HIDE DEF x, t
<1>2. k \in Nat /\ k <= n /\ k \in 0 .. n
  <2>1. k \in Nat
    BY LenProperties
  <2>2. k <= n
    BY DEF x
  <2>. QED  BY <1>1, <2>1, <2>2
<1>3. v \in Symbols /\ Raw = taken' \o v
  BY <1>1, <1>2, FromStackIs DEF x, t
<1>4. /\ SameVersion(tx, x) /\ x.isSegwit /\ InsRead(tx, x, n) /\ tx.outs = x.outs
      /\ \A i \in 1 .. k : items[i] = x.ins[i].witness
      /\ Len(tx.ins) = n /\ tx.ins \in Seq(Inputs)
  BY <1>1 DEF x, InsRead, Locals
<1>5. CASE k < n
  <2>1. tx' = [tx EXCEPT !.items = items] /\ pc' = "witcount" /\ pc' \in InTx
    BY <1>4, <1>5 DEF Witnessed, InTx
  <2>2. /\ tx'.version = tx.version /\ tx'.segwit = tx.segwit /\ tx'.ins = tx.ins
        /\ tx'.outs = tx.outs /\ tx'.items = items
    BY <1>1, <2>1 DEF Locals
  <2>3. OnWitCount(tx', x, t, v)
    BY <1>4, <1>5, <2>2 DEF OnWitCount, SameVersion, InsRead, StacksRead
  <2>4. OnTx(pc', tx', range', x, t, v)
    BY <2>1, <2>3 DEF OnTx
  <2>. HIDE DEF v
  <2>. QED  BY <1>3, <2>1, <2>4, FieldTracked DEF x, t
<1>6. CASE ~(k < n)
  <2>1. k = n
    BY <1>1, <1>2, <1>6
  <2>2. WithWitness(tx.ins, items) = x.ins /\ AnyWitness(x.ins)
    BY <1>1, <1>4, <2>1, StacksAll, MadeParts DEF x
  <2>6. tx' = [tx EXCEPT !.ins = x.ins, !.items = << >>] /\ pc' = "locktime"
    BY <1>4, <1>6, <2>2 DEF Witnessed
  <2>7. /\ tx'.version = tx.version /\ tx'.ins = x.ins /\ tx'.outs = tx.outs
    BY <1>1, <2>6 DEF Locals
  <2>8. pc' \in InTx
    BY <2>6 DEF InTx
  <2>9. v = FromLocktime(x, t)
    BY <1>1, <1>2, <2>1, FromStackIs
  <2>10. OnLocktime(tx', x, t, v)
    BY <1>4, <2>7, <2>9 DEF OnLocktime, SameVersion
  <2>11. OnTx(pc', tx', range', x, t, v)
    BY <2>6, <2>10 DEF OnTx
  <2>. HIDE DEF v
  <2>. QED  BY <1>3, <2>8, <2>11, FieldTracked DEF x, t
<1>. QED  BY <1>5, <1>6

LEMMA WitnessCountTracked ==
  ASSUME Following, NEW n \in Byte, WitnessCount(n)
  PROVE  ~failed' /\ Tracked'
<1>. DEFINE x == Current
            t == BehindTx
            k == Len(tx.items)
            none == << >>
            items == Append(tx.items, none)
            stack == x.ins[k + 1].witness
            v == FromItem(x, k + 1, 0, t)
<1>1. /\ pc = "witcount" /\ Take(<<n>>) /\ range' = NewRange(n)
      /\ IF n = 0 THEN Witnessed(items)
         ELSE pc' = "item" /\ tx' = [tx EXCEPT !.items = items]
      /\ UNCHANGED <<given, kind, header, outer, txs>> /\ pc \in InTx
      /\ ((n = 0 => SomeWitness(items)) => ~failed')
  BY ReadsOn DEF WitnessCount, InTx
<1>2. Made(x) /\ t \in Symbols /\ tx \in Locals
  BY <1>1, CurrentIs
<1>3. PICK u \in Symbols : Raw = taken \o u /\ OnWitCount(tx, x, t, u)
  BY <1>1, CurrentIs DEF OnTx
<1>. HIDE DEF x, t
<1>4. /\ SameVersion(tx, x) /\ x.isSegwit /\ InsRead(tx, x, Len(x.ins))
      /\ tx.outs = x.outs /\ k < Len(x.ins) /\ StacksRead(tx, x, k)
      /\ u = FromStack(x, k, t)
  BY <1>3 DEF OnWitCount
<1>5. tx.items \in Seq(Stacks) /\ k \in Nat /\ Len(x.ins) \in Nat
  BY <1>2, LenProperties, MadeParts DEF Locals
<1>6. k \in 0 .. Len(x.ins) /\ k + 1 \in 1 .. Len(x.ins) /\ k + 1 \in 0 .. Len(x.ins)
  BY <1>4, <1>5
<1>7. /\ Len(stack) \in Nat /\ v \in Symbols /\ u = <<Len(stack)>> \o v
  BY <1>2, <1>4, <1>6, FromStackIs
<1>8. stack \in Stacks
  BY <1>2, <1>6, MadeParts
<1>9. n = Len(stack) /\ Raw = taken' \o v
  <2>. HIDE DEF v, stack
  <2>. QED  BY <1>1, <1>3, <1>7, TookOne
<1>10. /\ items \in Seq(Stacks) /\ Len(items) = k + 1
       /\ \A i \in 1 .. k + 1 : items[i] = IF i = k + 1 THEN none ELSE tx.items[i]
       /\ \A i \in 1 .. k + 1 : i # k + 1 => i \in 1 .. k
  <2>1. none \in Stacks
    BY DEF Stacks
  <2>. HIDE DEF none
  <2>. QED  BY <1>5, <2>1, OneMore
<1>. HIDE DEF items
<1>11. CASE n = 0
  <2>1. stack = none
    BY <1>8, <1>9, <1>11, EmptySeq DEF Stacks
  <2>2. \A i \in 1 .. Len(items) : items[i] = x.ins[i].witness
    BY <1>4, <1>10, <2>1 DEF StacksRead
  <2>. SUFFICES Tracked'
    BY <1>1, <1>4, <2>2, SomeWitnessRead DEF x
  <2>3. v = FromStack(x, Len(items), t)
    <3>1. 0 \in 0 .. Len(x.ins[k + 1].witness)
      BY <1>7
    <3>. QED  BY <1>2, <1>6, <1>9, <1>10, <1>11, <3>1, FromItemIs
  <2>4. Witnessed(items) /\ Len(items) <= Len(x.ins)
    BY <1>1, <1>4, <1>5, <1>10, <1>11
  <2>. HIDE DEF v
  <2>. QED  BY <1>1, <1>4, <1>9, <1>10, <2>2, <2>3, <2>4, StackTracked DEF x, t
<1>12. CASE n # 0
  <2>1. pc' = "item" /\ pc' \in InTx /\ tx' = [tx EXCEPT !.items = items]
    BY <1>1, <1>12 DEF InTx
  <2>2. /\ tx'.version = tx.version /\ tx'.segwit = tx.segwit /\ tx'.ins = tx.ins
        /\ tx'.outs = tx.outs /\ tx'.items = items
    BY <1>2, <2>1 DEF Locals
  <2>3. range'.size = n /\ range'.got = 0
    BY <1>1, <1>7, <1>9, NewRangeFacts
  <2>4. StacksRead(tx', x, Len(tx'.items) - 1)
    <3>1. Len(tx'.items) - 1 = k
      BY <1>5, <1>10, <2>2
    <3>2. \A i \in 1 .. k : i \in 1 .. k + 1 /\ i # k + 1
      BY <1>5
    <3>. QED  BY <1>4, <1>10, <2>2, <3>1, <3>2 DEF StacksRead
  <2>5. ItemsRead(tx', x, Len(tx'.items), range'.got)
    <3>1. items[k + 1] = none /\ Len(none) = 0
      BY <1>6, <1>10
    <3>. QED  BY <1>10, <2>2, <2>3, <3>1 DEF ItemsRead
  <2>6. SameVersion(tx', x) /\ InsRead(tx', x, Len(x.ins))
    BY <1>4, <2>2 DEF SameVersion, InsRead
  <2>7. OnItem(tx', range', x, t, v)
    BY <1>4, <1>6, <1>7, <1>9, <1>10, <1>12, <2>2, <2>3, <2>4, <2>5, <2>6 DEF OnItem
  <2>8. OnTx(pc', tx', range', x, t, v)
    BY <2>1, <2>7 DEF OnTx
  <2>9. ~failed'
    BY <1>1, <1>12
  <2>. HIDE DEF v
  <2>. QED  BY <1>1, <1>7, <1>9, <2>1, <2>8, <2>9, FieldTracked DEF x, t
<1>. QED  BY <1>11, <1>12

LEMMA ItemTracked ==
  ASSUME Following, NEW s \in Strings, Item(s)
  PROVE  ~failed' /\ Tracked'
<1>. DEFINE x == Current
            t == BehindTx
            k == Len(tx.items)
            g == range.got
            old == tx.items[k]
            e == Tail(s)
            now == Append(old, e)
            items == [tx.items EXCEPT ![k] = Append(@, e)]
            stack == x.ins[k].witness
            v == FromItem(x, k, g + 1, t)
<1>1. /\ pc = "item" /\ Take(s) /\ range' = Push(range)
      /\ IF GoesOn(range') THEN pc' = "item" /\ tx' = [tx EXCEPT !.items = items]
         ELSE Witnessed(items)
      /\ UNCHANGED <<given, kind, header, outer, txs>> /\ pc \in InTx
      /\ ((AtLast(range) => SomeWitness(items)) => ~failed')
  BY ReadsOn DEF Item, InTx
<1>2. /\ Made(x) /\ t \in Symbols /\ tx \in Locals
      /\ range \in Ranges /\ Reserved(range) /\ taken \in Symbols
  BY <1>1, CurrentIs
<1>3. PICK u \in Symbols : Raw = taken \o u /\ OnItem(tx, range, x, t, u)
  BY <1>1, CurrentIs DEF OnTx
<1>. HIDE DEF x, t
<1>4. /\ SameVersion(tx, x) /\ x.isSegwit /\ InsRead(tx, x, Len(x.ins))
      /\ tx.outs = x.outs /\ k \in 1 .. Len(x.ins) /\ StacksRead(tx, x, k - 1)
      /\ range.size = Len(stack) /\ g < range.size /\ ItemsRead(tx, x, k, g)
      /\ u = FromItem(x, k, g, t) /\ g \in Nat
  BY <1>2, <1>3 DEF OnItem, Ranges
<1>5. /\ tx.items \in Seq(Stacks) /\ k \in Nat /\ Len(x.ins) \in Nat
      /\ DOMAIN tx.items = 1 .. k /\ k \in 1 .. k
      /\ \A i \in 1 .. k : tx.items[i] \in Stacks
  <2>1. tx.items \in Seq(Stacks) /\ Len(x.ins) \in Nat
    BY <1>2, MadeParts DEF Locals
  <2>2. k \in Nat /\ DOMAIN tx.items = 1 .. k /\ \A i \in 1 .. k : tx.items[i] \in Stacks
    BY <2>1, LenProperties, ElementOfSeq
  <2>. QED  BY <1>4, <2>1, <2>2
<1>6. stack \in Stacks /\ Len(stack) \in Nat
  <2>1. stack \in Stacks
    BY <1>2, <1>4, MadeParts
  <2>. QED  BY <2>1, LenProperties DEF Stacks
<1>7. g \in 0 .. Len(stack) /\ g < Len(stack) /\ g + 1 \in 0 .. Len(stack)
  BY <1>4, <1>6
<1>8. stack[g + 1] \in Symbols /\ v \in Symbols /\ u = EncodeBytes(stack[g + 1]) \o v
  BY <1>2, <1>4, <1>7, FromItemIs
<1>. HIDE DEF v, stack
<1>9. s = EncodeBytes(stack[g + 1]) /\ e = stack[g + 1] /\ Raw = taken' \o v
  <2>. DEFINE w == stack[g + 1]
              h == EncodeBytes(w)
  <2>1. h \in Symbols /\ s \in Symbols
    BY <1>8, EncodeBytesType, StringIs
  <2>2. given # None /\ Raw = taken \o (h \o v)
    BY <1>3, <1>8 DEF Following
  <2>3. ReadAt(taken, s, h, v) /\ (s = h => Raw = taken' \o v)
    <3>. HIDE DEF h
    <3>. QED  BY <1>1, <1>2, <1>8, <2>1, <2>2, TookAt
  <2>4. s = h /\ Tail(s) = w
    BY <1>8, <2>3, ReadString
  <2>. QED  BY <2>3, <2>4
<1>. HIDE DEF e
<1>10. /\ now \in Stacks /\ Len(now) = g + 1
       /\ \A i \in 1 .. g + 1 : now[i] = stack[i]
  <2>1. old \in Seq(Symbols) /\ Len(old) = g /\ e \in Symbols
    BY <1>4, <1>5, <1>8, <1>9 DEF ItemsRead, Stacks
  <2>2. \A i \in 1 .. g : old[i] = stack[i]
    BY <1>4 DEF ItemsRead, stack
  <2>. HIDE DEF old
  <2>3. /\ now \in Seq(Symbols) /\ Len(now) = g + 1
        /\ \A i \in 1 .. g + 1 : now[i] = IF i = g + 1 THEN e ELSE old[i]
        /\ \A i \in 1 .. g + 1 : i # g + 1 => i \in 1 .. g
    BY <2>1, OneMore
  <2>. QED  BY <1>9, <2>2, <2>3 DEF Stacks
<1>11. items = [tx.items EXCEPT ![k] = now]
  BY <1>5
<1>. HIDE DEF now, items
<1>12. /\ items \in Seq(Stacks) /\ Len(items) = k /\ items[k] = now
       /\ \A i \in 1 .. k : i # k => items[i] = tx.items[i] /\ i \in 1 .. k - 1
  <2>1. items = [i \in 1 .. k |-> items[i]] /\ items[k] = now
    BY <1>5, <1>11
  <2>2. \A i \in 1 .. k : i # k => items[i] = tx.items[i] /\ i \in 1 .. k - 1
    BY <1>5, <1>11
  <2>3. \A i \in 1 .. k : items[i] \in Stacks
    BY <1>5, <1>10, <2>1, <2>2
  <2>4. items \in Seq(Stacks) /\ Len(items) = k
    BY <1>5, <2>1, <2>3, MakeSeq
  <2>. QED  BY <2>1, <2>2, <2>4
<1>13. \A i \in 1 .. k - 1 : items[i] = x.ins[i].witness
  <2>1. \A i \in 1 .. k - 1 : i \in 1 .. k /\ i # k
    BY <1>5
  <2>. QED  BY <1>4, <1>12, <2>1 DEF StacksRead
<1>14. ASSUME g + 1 = Len(stack)
       PROVE  \A i \in 1 .. Len(items) : items[i] = x.ins[i].witness
  <2>1. now = stack
    BY <1>6, <1>10, <1>14, SeqEqual DEF Stacks
  <2>. QED  BY <1>12, <1>13, <2>1 DEF stack
<1>17. ~failed'
  <2>1. AtLast(range) => \A i \in 1 .. Len(items) : items[i] = x.ins[i].witness
    BY <1>4, <1>14 DEF AtLast
  <2>. QED  BY <1>1, <1>4, <2>1, SomeWitnessRead DEF x
<1>. SUFFICES Tracked'
  BY <1>17
<1>18. /\ range' = Pushed(range) /\ (GoesOn(range') <=> ~Complete(range'))
       /\ range'.size = range.size /\ range'.got = g + 1
       /\ Complete(range') \/ range'.got < range'.size
  <2>1. range' = Pushed(range) /\ (GoesOn(range') <=> ~Complete(Pushed(range)))
    BY <1>1, <1>17, RangeFilled DEF Following
  <2>. QED  BY <1>2, <1>4, <2>1, PushFacts
<1>15. CASE Complete(range')
  <2>1. g + 1 = Len(stack)
    BY <1>4, <1>18, <1>15 DEF Complete
  <2>3. \A i \in 1 .. Len(items) : items[i] = x.ins[i].witness
    BY <1>14, <2>1
  <2>4. v = FromStack(x, Len(items), t)
    <3>. DEFINE j == g + 1
    <3>1. j \in 0 .. Len(x.ins[k].witness) /\ j = Len(x.ins[k].witness)
      BY <1>7, <2>1 DEF stack
    <3>. HIDE DEF j
    <3>2. FromItem(x, k, j, t) = FromStack(x, k, t)
      BY <1>2, <1>4, <3>1, FromItemIs
    <3>. QED  BY <1>12, <3>2 DEF v, j
  <2>5. Witnessed(items) /\ Len(items) <= Len(x.ins)
    BY <1>1, <1>4, <1>5, <1>12, <1>15, <1>18
  <2>. QED  BY <1>1, <1>4, <1>9, <1>12, <2>3, <2>4, <2>5, StackTracked DEF x, t
<1>16. CASE ~Complete(range')
  <2>1. pc' = "item" /\ pc' \in InTx /\ tx' = [tx EXCEPT !.items = items]
    BY <1>1, <1>16, <1>18 DEF InTx
  <2>2. /\ tx'.version = tx.version /\ tx'.segwit = tx.segwit /\ tx'.ins = tx.ins
        /\ tx'.outs = tx.outs /\ tx'.items = items
    BY <1>2, <2>1 DEF Locals
  <2>3. StacksRead(tx', x, k - 1)
    BY <1>13, <2>2 DEF StacksRead
  <2>4. ItemsRead(tx', x, k, g + 1)
    BY <1>10, <1>12, <2>2 DEF ItemsRead, stack
  <2>5. SameVersion(tx', x) /\ InsRead(tx', x, Len(x.ins)) /\ Len(tx'.items) = k
    BY <1>4, <1>12, <2>2 DEF SameVersion, InsRead
  <2>6. OnItem(tx', range', x, t, v)
    BY <1>4, <1>18, <1>16, <2>2, <2>3, <2>4, <2>5 DEF OnItem, v, stack
  <2>7. OnTx(pc', tx', range', x, t, v)
    BY <2>1, <2>6 DEF OnTx
  <2>. QED  BY <1>1, <1>8, <1>9, <2>1, <2>7, FieldTracked DEF x, t
<1>. QED  BY <1>15, <1>16

LEMMA LocktimeTracked ==
  ASSUME Following, NEW b \in Byte, Locktime(b)
  PROVE  ~failed' /\ Tracked'
<1>. DEFINE x == Current
            t == BehindTx
<1>1. /\ pc = "locktime" /\ Take(<<b>>)
      /\ txs' = Append(txs, Transaction(tx.version, tx.ins, tx.outs, b))
      /\ outer' = IF kind = "block" THEN Pushed(outer) ELSE outer
      /\ pc' = IF kind = "tx" \/ Complete(outer') THEN "end" ELSE "version"
      /\ UNCHANGED <<given, kind, header>> /\ pc \in InTx /\ ~failed'
  <2>. DEFINE made == Transaction(tx.version, tx.ins, tx.outs, b)
  <2>1. /\ pc = "locktime" /\ Take(<<b>>) /\ ~failed' /\ Return(made)
        /\ UNCHANGED <<given, kind, header>>
    BY ReadsOn DEF Locktime
  <2>2. /\ kind = "tx" \/ (kind = "block" /\ outer.got < outer.size)
        /\ outer \in Ranges /\ Reserved(outer)
    BY <2>1 DEF Following, GoodInv, InsideTx, InTx, Types
  <2>3. kind = "block" =>
          Push(outer) = Pushed(outer) /\ (GoesOn(Pushed(outer)) <=> ~Complete(Pushed(outer)))
    BY <2>1, <2>2, GoodPush
  <2>. HIDE DEF made
  <2>4. kind # "tx" <=> kind = "block"
    BY <2>2
  <2>. QED  BY <2>1, <2>3, <2>4 DEF Return, InTx, made
<1>. SUFFICES Tracked'
  BY <1>1
<1>2. Made(x) /\ t \in Symbols
  BY <1>1, CurrentIs
<1>3. PICK u \in Symbols : Raw = taken \o u /\ OnLocktime(tx, x, t, u)
  BY <1>1, CurrentIs DEF OnTx
<1>4. /\ Fits(kind, given) /\ TxsRead /\ Types /\ HasInputs(kind, given) /\ Reserved(outer)
  BY <1>1 DEF Following, Tracked, GoodInv
<1>. HIDE DEF x, t
<1>5. /\ tx.version = x.version /\ tx.ins = x.ins /\ tx.outs = x.outs
      /\ Raw = taken \o (<<x.locktime>> \o t)
  BY <1>3 DEF OnLocktime, FromLocktime
<1>6. b = x.locktime /\ Raw = taken' \o t
  <2>1. x.locktime \in Nat
    BY <1>2, MadeParts
  <2>. QED  BY <1>1, <1>2, <1>5, <2>1, TookOne
<1>7. txs' = Append(txs, x)
  <2>1. x = Transaction(x.version, x.ins, x.outs, x.locktime)
    BY <1>2 DEF Made
  <2>. QED  BY <1>1, <1>5, <1>6, <2>1
<1>8. Raw' = Raw /\ Fits(kind, given)' /\ taken' \in Symbols
  <2>1. taken \in Symbols /\ b \in Nat /\ taken' = taken \o <<b>>
    BY <1>1, <1>4, DecoderAssumption DEF Types, Take
  <2>2. taken' \in Symbols
    BY <2>1, OneSymbol, Cat
  <2>. QED  BY <1>1, <1>4, <2>2 DEF Raw
<1>9. CASE kind = "tx"
  <2>1. txs = << >> /\ x = given /\ t = << >>
    BY <1>4, <1>9 DEF TxsRead, x, t, Current, BehindTx
  <2>2. txs'[1] = given
    BY <1>7, <2>1
  <2>3. Object' = given'
    BY <1>1, <1>9, <2>2 DEF Object
  <2>4. Raw' = taken'
    BY <1>6, <1>8, <2>1, CatEmpty
  <2>5. pc' = "end"
    BY <1>1, <1>9
  <2>. QED  BY <1>8, <2>3, <2>4, <2>5 DEF Tracked, InTx
<1>10. CASE kind # "tx"
  <2>. DEFINE list == given.txs
              parts == TxParts(list)
              n == Len(txs)
  <2>1. /\ kind = "block" /\ header = given.header /\ outer.size = Len(list)
        /\ outer.got = n /\ outer.got < outer.size
        /\ \A i \in 1 .. n : txs[i] = list[i]
    BY <1>4, <1>10 DEF TxsRead
  <2>2. AllMade(list) /\ given = Block(given.header, list)
    BY <1>4, <2>1 DEF Fits
  <2>3. /\ list \in Seq(Transactions) /\ txs \in Seq(Transactions)
        /\ n \in Nat /\ Len(list) \in Nat /\ outer \in Ranges
    BY <1>4, <2>2, LenProperties DEF AllMade, Types
  <2>4. /\ parts \in Seq(Symbols) /\ Len(parts) = Len(list)
        /\ \A i \in 1 .. Len(list) : parts[i] = EncodeTx(list[i])
    BY <2>2, TxPartsType
  <2>5. x = list[n + 1] /\ t = Left(parts, n + 1) /\ n + 1 \in 1 .. Len(list)
    BY <1>10, <2>1, <2>3 DEF x, t, Current, BehindTx
  <2>. HIDE DEF list, parts, n
  <2>6. /\ txs' \in Seq(Transactions) /\ Len(txs') = n + 1
        /\ \A i \in 1 .. n + 1 : txs'[i] = list[i]
    <3>1. x \in Transactions
      BY <2>3, <2>5, ElementOfSeq
    <3>2. /\ Append(txs, x) \in Seq(Transactions) /\ Len(Append(txs, x)) = n + 1
          /\ \A i \in 1 .. n + 1 : Append(txs, x)[i] = IF i = n + 1 THEN x ELSE txs[i]
          /\ \A i \in 1 .. n + 1 : i # n + 1 => i \in 1 .. n
      BY <2>3, <3>1, OneMore DEF n
    <3>. QED  BY <1>7, <2>1, <2>5, <3>2
  <2>7. /\ outer'.size = outer.size /\ outer'.got = n + 1
        /\ Complete(outer') \/ outer'.got < outer'.size
    <3>1. outer' = Pushed(outer)
      BY <1>1, <2>1
    <3>. QED  BY <1>4, <2>1, <2>3, <3>1, PushFacts
  <2>8. n + 1 \in 0 .. Len(parts)
    BY <2>4, <2>5
  <2>9. CASE Complete(outer')
    <3>1. n + 1 = Len(list)
      BY <2>1, <2>7, <2>9 DEF Complete
    <3>2. txs' = list
      BY <2>3, <2>6, <3>1, SeqEqual
    <3>3. Object' = given'
      BY <1>1, <2>1, <2>2, <3>2 DEF Object
    <3>4. Left(parts, n + 1) = << >>
      BY <2>4, <2>8, <3>1, LeftFacts
    <3>5. Raw' = taken'
      BY <1>6, <1>8, <2>5, <3>4, CatEmpty
    <3>6. pc' = "end"
      BY <1>1, <2>9
    <3>. QED  BY <1>8, <3>3, <3>5, <3>6 DEF Tracked, InTx
  <2>10. CASE ~Complete(outer')
    <3>. DEFINE y == list[n + 2]
                r == Left(parts, n + 2)
    <3>1. n + 1 < Len(list)
      BY <2>1, <2>7, <2>10
    <3>2. pc' = "version"
      BY <1>1, <1>10, <2>10
    <3>3. TxsRead'
      BY <1>1, <1>10, <2>1, <2>6, <2>7, <2>10 DEF TxsRead, list
    <3>4. n + 2 \in 1 .. Len(list) /\ (n + 1) + 1 = n + 2
      BY <2>3, <3>1
    <3>5. Current' = y /\ BehindTx' = r
      BY <1>1, <1>10, <2>6, <3>4 DEF Current, BehindTx, list, parts
    <3>6. r \in Symbols /\ Left(parts, n + 1) = parts[n + 2] \o r
      <4>1. /\ Left(parts, (n + 1) + 1) \in Symbols
            /\ Left(parts, n + 1) = parts[(n + 1) + 1] \o Left(parts, (n + 1) + 1)
        <5>. DEFINE j == n + 1
        <5>1. j \in 0 .. Len(parts) /\ j < Len(parts)
          BY <2>4, <2>8, <3>1
        <5>. HIDE DEF j
        <5>2. Left(parts, j + 1) \in Symbols /\ Left(parts, j) = parts[j + 1] \o Left(parts, j + 1)
          BY <2>4, <5>1, LeftFacts
        <5>. QED  BY <5>2 DEF j
      <4>. QED  BY <3>4, <4>1
    <3>7. Made(y) /\ parts[n + 2] = EncodeTx(y)
      BY <2>2, <2>4, <3>4 DEF AllMade
    <3>. HIDE DEF y, r
    <3>8. Left(parts, n + 1) = FromVersion(y, r) /\ FromVersion(y, r) \in Symbols
      BY <3>6, <3>7, TxIsFromVersion, FromFrontIs
    <3>9. Raw' = taken' \o FromVersion(y, r)
      BY <1>6, <1>8, <2>5, <3>8
    <3>10. OnTx(pc', tx', range', y, r, FromVersion(y, r))
      BY <3>2 DEF OnTx
    <3>11. \E u1 \in Symbols :
             Raw' = taken' \o u1 /\ OnTx(pc', tx', range', Current', BehindTx', u1)
      BY <3>5, <3>8, <3>9, <3>10
    <3>. QED  BY <1>8, <3>2, <3>3, <3>11 DEF Tracked, InTx
  <2>. QED  BY <2>9, <2>10
<1>. QED  BY <1>9, <1>10

LEMMA HeaderTracked ==
  ASSUME Following, NEW b \in Byte, Header(b)
  PROVE  ~failed' /\ Tracked'
<1>1. /\ pc = "header" /\ Take(<<b>>) /\ header' = b
      /\ pc' = IF kind = "header" THEN "end" ELSE "txcount"
      /\ UNCHANGED <<given, kind, outer, txs, tx, range>> /\ ~failed'
  BY ReadsOn DEF Header
<1>. SUFFICES Tracked'
  BY <1>1
<1>2. /\ Fits(kind, given) /\ kind # "tx" /\ txs = << >> /\ Raw = taken \o FromHeader
      /\ kind \in Kinds /\ taken \in Symbols
  BY <1>1 DEF Following, Tracked, GoodInv, Types
<1>3. Raw' = Raw /\ Fits(kind, given)'
  BY <1>1, <1>2 DEF Raw
<1>4. CASE kind = "header"
  <2>1. given \in Nat /\ Raw = taken \o (<<given>> \o << >>)
    BY <1>2, <1>4 DEF Fits, FromHeader
  <2>2. b = given /\ Raw = taken' \o << >>
    BY <1>1, <2>1, EmptySymbols, TookOne
  <2>3. Object' = given'
    BY <1>1, <1>4, <2>2 DEF Object
  <2>4. Raw' = taken'
    <3>1. taken' \in Symbols
      BY <1>1, <1>2, <2>1, <2>2, OneSymbol, Cat DEF Take
    <3>. QED  BY <1>3, <2>2, <3>1, CatEmpty
  <2>5. pc' = "end"
    BY <1>1, <1>4
  <2>. QED  BY <1>3, <2>3, <2>4, <2>5 DEF Tracked, InTx
<1>5. CASE kind = "block"
  <2>1. Raw = taken \o (<<given.header>> \o FromTxCount)
    BY <1>2, <1>5 DEF FromHeader
  <2>2. given.header \in Nat /\ FromTxCount \in Symbols
    BY <1>2, <1>5, TxCountIs
  <2>3. b = given.header /\ Raw = taken' \o FromTxCount
    BY <1>1, <2>1, <2>2, TookOne
  <2>4. FromTxCount' = FromTxCount /\ pc' = "txcount"
    BY <1>1, <1>5 DEF FromTxCount
  <2>. QED  BY <1>1, <1>2, <1>3, <1>5, <2>3, <2>4 DEF Tracked, InTx
<1>. QED  BY <1>2, <1>4, <1>5 DEF Kinds

LEMMA TxCountTracked ==
  ASSUME Following, NEW n \in Byte, TxCount(n)
  PROVE  ~failed' /\ Tracked'
<1>. DEFINE list == given.txs
            parts == TxParts(list)
            flat == FlattenSeq(parts)
<1>1. /\ pc = "txcount" /\ Take(<<n>>) /\ outer' = NewRange(n)
      /\ pc' = IF n = 0 THEN "end" ELSE "version"
      /\ UNCHANGED <<given, kind, header, txs, tx, range>> /\ ~failed'
  BY ReadsOn DEF TxCount
<1>. SUFFICES Tracked'
  BY <1>1
<1>2. /\ Fits(kind, given) /\ kind = "block" /\ header = given.header /\ txs = << >>
      /\ Raw = taken \o FromTxCount /\ taken \in Symbols
  BY <1>1 DEF Following, Tracked, GoodInv, Types
<1>3. /\ AllMade(list) /\ given = Block(given.header, list) /\ Len(list) \in Nat
      /\ parts \in Seq(Symbols) /\ Len(parts) = Len(list) /\ flat \in Symbols
  BY <1>2, TxCountIs
<1>4. Raw' = Raw /\ Fits(kind, given)'
  BY <1>1, <1>2 DEF Raw
<1>5. n = Len(list) /\ Raw = taken' \o flat
  <2>1. Raw = taken \o (<<Len(list)>> \o flat)
    BY <1>2 DEF FromTxCount
  <2>. HIDE DEF list, flat
  <2>. QED  BY <1>1, <1>3, <2>1, TookOne
<1>6. 0 \in 0 .. Len(parts) /\ n \in Nat
  BY <1>3, <1>5
<1>7. Left(parts, 0) = flat
  <2>. HIDE DEF parts
  <2>. QED  BY <1>3, <1>6, LeftFacts
<1>8. CASE n = 0
  <2>1. flat = << >>
    <3>. HIDE DEF parts
    <3>1. Left(parts, 0) = << >>
      BY <1>3, <1>5, <1>6, <1>8, LeftFacts
    <3>. QED  BY <1>7, <3>1
  <2>2. txs = list
    <3>1. list \in Seq(Transactions) /\ Len(list) = 0
      BY <1>3, <1>5, <1>8 DEF AllMade
    <3>2. list = << >>
      BY <3>1, EmptySeq
    <3>. QED  BY <1>2, <3>2
  <2>3. Object' = given'
    BY <1>1, <1>2, <1>3, <2>2 DEF Object
  <2>4. Raw' = taken'
    <3>1. taken' \in Symbols
      BY <1>1, <1>2, <1>6, OneSymbol, Cat DEF Take
    <3>. QED  BY <1>4, <1>5, <2>1, <3>1, CatEmpty
  <2>5. pc' = "end"
    BY <1>1, <1>8
  <2>. QED  BY <1>4, <2>3, <2>4, <2>5 DEF Tracked, InTx
<1>9. CASE n # 0
  <2>. DEFINE y == list[1]
              r == Left(parts, 1)
  <2>1. pc' = "version"
    BY <1>1, <1>9
  <2>2. outer'.size = n /\ outer'.got = 0
    BY <1>1, <1>6, NewRangeFacts
  <2>3. Len(txs') = 0 /\ txs' = << >>
    BY <1>1, <1>2
  <2>4. TxsRead'
    BY <1>1, <1>2, <1>5, <1>6, <1>9, <2>2, <2>3 DEF TxsRead
  <2>5. Current' = y /\ BehindTx' = r
    <3>1. Len(txs') + 1 = 1
      BY <2>3
    <3>. QED  BY <1>1, <1>2, <3>1 DEF Current, BehindTx
  <2>6. Made(y) /\ parts[1] = EncodeTx(y)
    <3>1. 1 \in 1 .. Len(list)
      BY <1>3, <1>5, <1>9
    <3>. QED  BY <1>3, <3>1, TxPartsType DEF AllMade
  <2>7. r \in Symbols /\ flat = parts[1] \o r
    <3>1. 0 < Len(parts) /\ 0 + 1 = 1
      BY <1>3, <1>5, <1>9
    <3>. HIDE DEF parts, flat
    <3>2. Left(parts, 0 + 1) \in Symbols /\ Left(parts, 0) = parts[0 + 1] \o Left(parts, 0 + 1)
      BY <1>3, <1>6, <3>1, LeftFacts
    <3>. QED  BY <1>7, <3>1, <3>2
  <2>. HIDE DEF y, r, flat
  <2>8. flat = FromVersion(y, r) /\ FromVersion(y, r) \in Symbols
    BY <2>6, <2>7, TxIsFromVersion, FromFrontIs
  <2>9. OnTx(pc', tx', range', y, r, FromVersion(y, r))
    BY <2>1 DEF OnTx
  <2>10. \E u \in Symbols :
           Raw' = taken' \o u /\ OnTx(pc', tx', range', Current', BehindTx', u)
    BY <1>4, <1>5, <2>5, <2>8, <2>9
  <2>. QED  BY <1>4, <2>1, <2>4, <2>10 DEF Tracked, InTx
<1>. QED  BY <1>8, <1>9

LEMMA EndTracked ==
  ASSUME Following, End
  PROVE  ~failed' /\ Tracked'
<1>1. /\ pc = "end" /\ pc' = "done" /\ UNCHANGED <<given, kind, taken, header, txs>>
      /\ \/ result' = Object
         \/ given # None => taken # Raw
      /\ ~failed'
  BY DEF End, Following
<1>. SUFFICES Tracked'
  BY <1>1
<1>2. Fits(kind, given) /\ Object = given /\ Raw = taken /\ given # None
  BY <1>1 DEF Following, Tracked
<1>3. result' = given'
  BY <1>1, <1>2
<1>4. Fits(kind, given)'
  BY <1>1, <1>2
<1>. QED  BY <1>1, <1>3, <1>4 DEF Tracked, InTx

LEMMA StartTracked ==
  ASSUME Init, GoodInv, given # None, HasInputs(kind, given)
  PROVE  Tracked
<1>1. /\ taken = << >> /\ pc = Start(kind) /\ txs = << >>
      /\ \E g \in Given : given = g.object /\ kind = g.kind
  BY DEF Init
<1>2. Fits(kind, given) /\ kind \in Kinds
  BY <1>1, GivenFits DEF GoodInv, Types
<1>3. CASE kind = "header"
  <2>1. given \in Nat
    BY <1>2, <1>3 DEF Fits
  <2>2. <<given>> \o << >> = <<given>> /\ << >> \o <<given>> = <<given>>
    BY <2>1, OneSymbol, CatEmpty
  <2>3. Raw = taken \o FromHeader
    BY <1>1, <1>3, <2>2 DEF Raw, Encode, FromHeader
  <2>. QED  BY <1>1, <1>2, <1>3, <2>3 DEF Tracked, Start, InTx
<1>4. CASE kind = "block"
  <2>1. FromTxCount \in Symbols /\ given.header \in Nat
    BY <1>2, <1>4, TxCountIs
  <2>2. EncodeBlock(given) = <<given.header>> \o FromTxCount
    <3>1. Len(TxParts(given.txs)) = Len(given.txs)
      BY <1>2, <1>4, TxCountIs
    <3>2. EncodeBlock(given) = <<given.header>>
            \o (<<Len(TxParts(given.txs))>> \o FlattenSeq(TxParts(given.txs)))
      BY DEF EncodeBlock, EncodeRange, TxParts
    <3>. QED  BY <3>1, <3>2 DEF FromTxCount
  <2>3. Raw = FromHeader /\ FromHeader \in Symbols
    <3>1. FromHeader = <<given.header>> \o FromTxCount
      BY <1>4 DEF FromHeader
    <3>2. Raw = EncodeBlock(given)
      BY <1>4 DEF Raw, Encode
    <3>3. <<given.header>> \in Symbols
      BY <2>1, OneSymbol
    <3>. QED  BY <2>1, <2>2, <3>1, <3>2, <3>3, Cat
  <2>4. Raw = taken \o FromHeader
    BY <1>1, <2>3, CatEmpty
  <2>. QED  BY <1>1, <1>2, <1>4, <2>4 DEF Tracked, Start, InTx
<1>5. CASE kind = "tx"
  <2>. DEFINE t == << >>
              v == FromVersion(given, t)
  <2>1. Made(given) /\ t \in Symbols
    BY <1>2, <1>5, EmptySymbols DEF Fits
  <2>2. EncodeTx(given) \o t = v /\ v \in Symbols
    <3>. HIDE DEF t
    <3>. QED  BY <2>1, TxIsFromVersion, FromFrontIs
  <2>3. EncodeTx(given) \o t = EncodeTx(given) /\ << >> \o v = v
    BY <2>1, <2>2, MadeFields, CatEmpty
  <2>4. Raw = taken \o v
    BY <1>1, <1>5, <2>2, <2>3 DEF Raw, Encode
  <2>5. pc = "version" /\ pc \in InTx
    BY <1>1, <1>5 DEF Start, InTx
  <2>6. TxsRead
    BY <1>1, <1>5 DEF TxsRead
  <2>7. OnTx(pc, tx, range, Current, BehindTx, v)
    BY <1>5, <2>5 DEF OnTx, Current, BehindTx
  <2>. QED  BY <1>2, <2>2, <2>4, <2>5, <2>6, <2>7 DEF Tracked
<1>. QED  BY <1>2, <1>3, <1>4, <1>5 DEF Kinds

LEMMA StutterTracked ==
  ASSUME Following, UNCHANGED vars
  PROVE  ~failed' /\ Tracked'
<1>1. /\ UNCHANGED <<given, kind, taken, pc, header, outer, txs, tx, range, result>>
      /\ ~failed'
  BY DEF vars, Following
<1>. SUFFICES Tracked'
  BY <1>1
<1>2. /\ Raw' = Raw /\ Current' = Current /\ BehindTx' = BehindTx /\ Object' = Object
      /\ FromHeader' = FromHeader /\ FromTxCount' = FromTxCount /\ TxsRead' = TxsRead
  BY <1>1 DEF Raw, Current, BehindTx, Object, FromHeader, FromTxCount, TxsRead
<1>. QED  BY <1>1, <1>2 DEF Following, Tracked

(* What serialize() wrote is read, field by field, as it was written: of an *)
(* object that has inputs, is made by the constructors and has no field or  *)
(* count beyond the alphabet.                                               *)
THEOREM ReadsWhatWasWritten == Spec => []OnTrack
<1>1. Init /\ DecoderInv => OnTrack
  BY StartTracked DEF OnTrack, Init, DecoderInv
<1>2. DecoderInv /\ OnTrack /\ [Next]_vars => OnTrack'
  <2>. SUFFICES ASSUME DecoderInv, OnTrack, [Next]_vars, (given # None)',
                       HasInputs(kind, given)'
                PROVE  ~failed' /\ Tracked'
    BY DEF OnTrack
  <2>0. Following
    <3>1. UNCHANGED <<given, kind>>
      BY DEF Next, vars, Header, TxCount, Version, InCount, Flags, OutCount,
             WitnessCount, Locktime, Txin, Txout, Item, End, Done, Return
    <3>2. given # None /\ HasInputs(kind, given)
      BY <3>1
    <3>. QED  BY <3>2 DEF Following, OnTrack, DecoderInv
  <2>1. ASSUME NEW b \in Byte, Header(b) PROVE ~failed' /\ Tracked'
    BY <2>0, <2>1, HeaderTracked
  <2>2. ASSUME NEW b \in Byte, TxCount(b) PROVE ~failed' /\ Tracked'
    BY <2>0, <2>2, TxCountTracked
  <2>3. ASSUME NEW b \in Byte, Version(b) PROVE ~failed' /\ Tracked'
    BY <2>0, <2>3, VersionTracked
  <2>4. ASSUME NEW b \in Byte, InCount(b) PROVE ~failed' /\ Tracked'
    BY <2>0, <2>4, InCountTracked
  <2>5. ASSUME NEW b \in Byte, Flags(b) PROVE ~failed' /\ Tracked'
    BY <2>0, <2>5, FlagsTracked
  <2>6. ASSUME NEW b \in Byte, OutCount(b) PROVE ~failed' /\ Tracked'
    BY <2>0, <2>6, OutCountTracked
  <2>7. ASSUME NEW b \in Byte, WitnessCount(b) PROVE ~failed' /\ Tracked'
    BY <2>0, <2>7, WitnessCountTracked
  <2>8. ASSUME NEW b \in Byte, Locktime(b) PROVE ~failed' /\ Tracked'
    BY <2>0, <2>8, LocktimeTracked
  <2>9. ASSUME NEW p \in Byte, NEW q \in Byte, NEW s \in Strings, Txin(p, s, q)
        PROVE  ~failed' /\ Tracked'
    BY <2>0, <2>9, TxinTracked
  <2>10. ASSUME NEW v \in Byte, NEW s \in Strings, Txout(v, s) PROVE ~failed' /\ Tracked'
    BY <2>0, <2>10, TxoutTracked
  <2>11. ASSUME NEW s \in Strings, Item(s) PROVE ~failed' /\ Tracked'
    BY <2>0, <2>11, ItemTracked
  <2>12. CASE End
    BY <2>0, <2>12, EndTracked
  <2>13. CASE UNCHANGED vars
    BY <2>0, <2>13, StutterTracked
  <2>14. CASE Done
    BY <2>0, <2>14, StutterTracked DEF Done
  <2>. QED
    BY <2>1, <2>2, <2>3, <2>4, <2>5, <2>6, <2>7, <2>8, <2>9, <2>10, <2>11, <2>12,
       <2>13, <2>14 DEF Next
<1>. QED  BY <1>1, <1>2, DecoderInductive, PTL DEF Spec

(* A parser returns the object that serialize() was given, hashes included, *)
(* whatever the counts and the length: nothing that was written is refused, *)
(* and decode_tx tells the two formats apart.                               *)
THEOREM ParsesWhatWasWritten == Spec => []ParsesBack
<1>1. OnTrack => ParsesBack
  BY DEF OnTrack, Tracked, ParsesBack
<1>2. Spec => []OnTrack
  BY ReadsWhatWasWritten
<1>. QED  BY <1>1, <1>2, PTL

-----------------------------------------------------------------------------
(* Encodings tell their fields *)

(* Whatever stands behind it, the encoding e can be told from f.            *)
Apart(e, f) == \A a \in Symbols, b \in Symbols : e \o a = f \o b => e = f

LEMMA OneApart ==
  ASSUME NEW x \in Nat, NEW y \in Nat
  PROVE  Apart(<<x>>, <<y>>)
<1>. DEFINE c == <<x>>
            d == <<y>>
<1>1. c \in Symbols /\ d \in Symbols /\ Len(c) = Len(d)
  BY OneSymbol
<1>. HIDE DEF c, d
<1>2. Apart(c, d)
  BY <1>1, SameFront DEF Apart
<1>. QED  BY <1>2 DEF c, d

(* What stands behind fronts that can be told apart. *)
LEMMA ApartThen ==
  ASSUME NEW e \in Symbols, NEW f \in Symbols, NEW x \in Symbols, NEW y \in Symbols,
         Apart(e, f), e \o x = f \o y
  PROVE  e = f /\ x = y
<1>1. e = f
  BY DEF Apart
<1>2. Len(e) = Len(f)
  BY <1>1
<1>. QED  BY <1>1, <1>2, SameFront

Joined(e, f, s, t) ==
  \A a \in Symbols, b \in Symbols :
    (e \o s) \o a = (f \o t) \o b => e = f /\ s \o a = t \o b

LEMMA JoinedApart ==
  ASSUME NEW e, NEW f, NEW s, NEW t,
         e \in Symbols, f \in Symbols, s \in Symbols, t \in Symbols, Apart(e, f)
  PROVE  Joined(e, f, s, t)
<1>. SUFFICES ASSUME NEW a, NEW b, a \in Symbols, b \in Symbols,
                     (e \o s) \o a = (f \o t) \o b
              PROVE  e = f /\ s \o a = t \o b
  BY DEF Joined
<1>1. s \o a \in Symbols /\ t \o b \in Symbols
  BY Cat
<1>2. e \in Symbols /\ s \in Symbols /\ a \in Symbols
  OBVIOUS
<1>3. (e \o s) \o a = e \o (s \o a)
  BY ONLY <1>2, CatCat
<1>4. f \in Symbols /\ t \in Symbols /\ b \in Symbols
  OBVIOUS
<1>5. (f \o t) \o b = f \o (t \o b)
  BY ONLY <1>4, CatCat
<1>6. e \o (s \o a) = f \o (t \o b)
  BY <1>3, <1>5
<1>7. e \in Symbols /\ f \in Symbols /\ Apart(e, f)
  OBVIOUS
<1>. QED  BY ONLY <1>1, <1>6, <1>7, ApartThen

(* Two joined parts that can be told apart, each from its like. *)
LEMMA BothApart ==
  ASSUME NEW e \in Symbols, NEW f \in Symbols, NEW s \in Symbols, NEW t \in Symbols,
         Apart(e, f), e = f => Apart(s, t)
  PROVE  /\ Apart(e \o s, f \o t)
         /\ e \o s = f \o t => e = f /\ s = t
<1>0. Joined(e, f, s, t)
  BY JoinedApart
<1>1. ASSUME NEW a \in Symbols, NEW b \in Symbols, (e \o s) \o a = (f \o t) \o b
      PROVE  e = f /\ s = t
  <2>1. e = f /\ s \o a = t \o b
    BY <1>0, <1>1 DEF Joined
  <2>. QED  BY <1>1, <2>1 DEF Apart
<1>2. Apart(e \o s, f \o t)
  BY <1>1 DEF Apart
<1>3. e \o s = f \o t => e = f /\ s = t
  <2>. SUFFICES ASSUME e \o s = f \o t
                PROVE  e = f /\ s = t
    OBVIOUS
  <2>. QED  BY Apart(e, f), ApartThen
<1>. QED  BY <1>2, <1>3

LEMMA StringsApart ==
  ASSUME NEW s \in Symbols, NEW t \in Symbols
  PROVE  /\ Apart(EncodeBytes(s), EncodeBytes(t))
         /\ EncodeBytes(s) = EncodeBytes(t) => s = t
<1>. DEFINE m == <<Len(s)>>
            n == <<Len(t)>>
<1>1. Len(s) \in Nat /\ Len(t) \in Nat
  BY LenProperties DEF Symbols
<1>2. m \in Symbols
  BY <1>1, OneSymbol
<1>3. n \in Symbols
  BY <1>1, OneSymbol
<1>4. Apart(m, n)
  BY <1>1, OneApart
<1>5. m = n => Len(s) = Len(t)
  OBVIOUS
<1>6. EncodeBytes(s) = m \o s /\ EncodeBytes(t) = n \o t
  BY DEF EncodeBytes
<1>. HIDE DEF m, n
<1>7. m = n => Apart(s, t)
  BY <1>5, SameFront DEF Apart
<1>8. /\ Apart(m \o s, n \o t)
      /\ m \o s = n \o t => m = n /\ s = t
  BY ONLY <1>2, <1>3, <1>4, <1>7, s \in Symbols, t \in Symbols, BothApart
<1>. QED  BY <1>6, <1>8

(* Elements that can be told apart, one after the other.                    *)
LEMMA PartsApart ==
  ASSUME NEW p \in Seq(Symbols), NEW q \in Seq(Symbols), Len(p) = Len(q),
         NEW u \in Symbols, NEW v \in Symbols,
         FlattenSeq(p) \o u = FlattenSeq(q) \o v,
         \A i \in 1 .. Len(p) : Apart(p[i], q[i])
  PROVE  p = q /\ u = v
<1>. DEFINE n == Len(p)
            At(k) == Left(p, k) \o u = Left(q, k) \o v
            T == {k \in 0 .. n : ~At(k)}
<1>1. n \in Nat /\ Len(q) = n
  BY LenProperties
<1>2. ASSUME NEW k \in 0 .. n, k < n, At(k)
      PROVE  At(k + 1) /\ p[k + 1] = q[k + 1]
  <2>. DEFINE e == p[k + 1]
              f == q[k + 1]
              a == Left(p, k + 1)
              b == Left(q, k + 1)
  <2>1. /\ k + 1 \in 1 .. n /\ e \in Symbols /\ f \in Symbols
        /\ a \in Symbols /\ b \in Symbols
        /\ Left(p, k) = e \o a /\ Left(q, k) = f \o b
    BY <1>1, <1>2, LeftFacts
  <2>2. Apart(e, f)
    BY <2>1
  <2>. HIDE DEF e, f, a, b
  <2>3. (e \o a) \o u = (f \o b) \o v
    BY <1>2, <2>1
  <2>4. Joined(e, f, a, b)
    BY ONLY <2>1, <2>2, JoinedApart
  <2>5. e = f /\ a \o u = b \o v
    BY <2>3, <2>4 DEF Joined
  <2>. QED  BY <2>5 DEF e, f, a, b
<1>3. At(0)
  <2>1. 0 \in 0 .. Len(p) /\ 0 \in 0 .. Len(q)
    BY <1>1
  <2>2. Left(p, 0) = FlattenSeq(p)
    BY ONLY <2>1, p \in Seq(Symbols), LeftFacts
  <2>3. Left(q, 0) = FlattenSeq(q)
    BY ONLY <2>1, q \in Seq(Symbols), LeftFacts
  <2>. QED  BY <2>2, <2>3
<1>4. T = {}
  <2>. SUFFICES ASSUME T # {}
                PROVE  FALSE
    OBVIOUS
  <2>1. T \subseteq Nat
    BY <1>1
  <2>. HIDE DEF At
  <2>2. PICK k \in T : \A m \in T : k <= m
    BY <2>1, LeastNat
  <2>3. k \in 0 .. n /\ ~At(k) /\ k # 0
    BY <1>3, <2>2
  <2>4. k - 1 \in 0 .. n /\ k - 1 < n /\ k - 1 \notin T /\ (k - 1) + 1 = k
    BY <1>1, <2>2, <2>3
  <2>5. At(k - 1)
    BY <2>4
  <2>6. At((k - 1) + 1)
    BY <1>2, <2>4, <2>5
  <2>. QED  BY <2>3, <2>4, <2>6
<1>5. \A k \in 0 .. n : At(k)
  BY <1>4
<1>6. \A i \in 1 .. n : p[i] = q[i]
  <2>. SUFFICES ASSUME NEW i \in 1 .. n
                PROVE  p[i] = q[i]
    OBVIOUS
  <2>1. i - 1 \in 0 .. n /\ i - 1 < n /\ (i - 1) + 1 = i
    BY <1>1
  <2>. HIDE DEF At
  <2>2. p[(i - 1) + 1] = q[(i - 1) + 1]
    BY <1>2, <1>5, <2>1
  <2>. QED  BY <2>1, <2>2
<1>7. p = q
  BY <1>1, <1>6, SeqEqual
<1>8. u = v
  <2>1. Len(p) \in 0 .. Len(p) /\ Len(q) \in 0 .. Len(q) /\ n \in 0 .. n
    BY <1>1
  <2>2. Left(p, Len(p)) = << >>
    BY ONLY <2>1, p \in Seq(Symbols), LeftFacts
  <2>3. Left(q, Len(q)) = << >>
    BY ONLY <2>1, q \in Seq(Symbols), LeftFacts
  <2>4. << >> \o u = << >> \o v
    BY <1>1, <1>5, <2>1, <2>2, <2>3
  <2>. QED  BY <2>4, CatEmpty
<1>. QED  BY <1>7, <1>8

LEMMA RangesApart ==
  ASSUME NEW p \in Seq(Symbols), NEW q \in Seq(Symbols),
         NEW u \in Symbols, NEW v \in Symbols,
         EncodeRange(p) \o u = EncodeRange(q) \o v,
         Len(p) = Len(q) => \A i \in 1 .. Len(p) : Apart(p[i], q[i])
  PROVE  p = q /\ u = v
<1>. DEFINE m == <<Len(p)>>
            n == <<Len(q)>>
            f == FlattenSeq(p)
            g == FlattenSeq(q)
<1>1. Len(p) \in Nat /\ Len(q) \in Nat /\ f \in Symbols /\ g \in Symbols
  BY LenProperties, EncodeRangeType
<1>2. m \in Symbols /\ n \in Symbols /\ Apart(m, n) /\ (m = n => Len(p) = Len(q))
  BY <1>1, OneSymbol, OneApart
<1>3. EncodeRange(p) = m \o f /\ EncodeRange(q) = n \o g
  BY DEF EncodeRange
<1>. HIDE DEF m, n, f, g
<1>4. (m \o f) \o u = (n \o g) \o v
  BY <1>3
<1>0. Joined(m, n, f, g)
  BY ONLY <1>1, <1>2, JoinedApart
<1>5. m = n /\ f \o u = g \o v
  BY <1>0, <1>4 DEF Joined
<1>6. Len(p) = Len(q) /\ \A i \in 1 .. Len(p) : Apart(p[i], q[i])
  BY <1>2, <1>5
<1>7. FlattenSeq(p) \o u = FlattenSeq(q) \o v
  BY <1>5 DEF f, g
<1>. QED  BY ONLY <1>6, <1>7, p \in Seq(Symbols), q \in Seq(Symbols), u \in Symbols,
                  v \in Symbols, PartsApart

LEMMA InputsApart ==
  ASSUME NEW x \in Inputs, NEW y \in Inputs
  PROVE  /\ Apart(EncodeTxin(x), EncodeTxin(y))
         /\ EncodeTxin(x) = EncodeTxin(y)
              => x.prevout = y.prevout /\ x.script = y.script /\ x.sequence = y.sequence
<1>. DEFINE px == <<x.prevout>>
            py == <<y.prevout>>
            sx == EncodeBytes(x.script)
            sy == EncodeBytes(y.script)
            qx == <<x.sequence>>
            qy == <<y.sequence>>
            ex == px \o sx
            ey == py \o sy
<1>1. /\ x.prevout \in Nat /\ x.script \in Symbols /\ x.sequence \in Nat
      /\ y.prevout \in Nat /\ y.script \in Symbols /\ y.sequence \in Nat
  BY DEF Inputs
<1>2. /\ px \in Symbols /\ py \in Symbols /\ qx \in Symbols /\ qy \in Symbols
      /\ sx \in Symbols /\ sy \in Symbols
      /\ Apart(px, py) /\ Apart(sx, sy) /\ Apart(qx, qy)
  BY <1>1, OneSymbol, OneApart, EncodeBytesType, StringsApart
<1>3. /\ px = py => x.prevout = y.prevout
      /\ sx = sy => x.script = y.script
      /\ qx = qy => x.sequence = y.sequence
  BY <1>1, StringsApart
<1>4. EncodeTxin(x) = ex \o qx /\ EncodeTxin(y) = ey \o qy
  BY DEF EncodeTxin
<1>. HIDE DEF px, py, sx, sy, qx, qy
<1>5. Apart(ex, ey) /\ (ex = ey => px = py /\ sx = sy)
  BY ONLY <1>2, BothApart
<1>6. ex \in Symbols /\ ey \in Symbols
  BY <1>2, Cat
<1>. HIDE DEF ex, ey
<1>0. qx \in Symbols /\ qy \in Symbols /\ Apart(qx, qy) /\ Apart(ex, ey)
  BY <1>2, <1>5
<1>7. Apart(ex \o qx, ey \o qy) /\ (ex \o qx = ey \o qy => ex = ey /\ qx = qy)
  BY ONLY <1>0, <1>6, BothApart
<1>. QED  BY <1>3, <1>4, <1>5, <1>7

LEMMA OutputsApart ==
  ASSUME NEW x \in Outputs, NEW y \in Outputs
  PROVE  /\ Apart(EncodeTxout(x), EncodeTxout(y))
         /\ EncodeTxout(x) = EncodeTxout(y) => x = y
<1>. DEFINE vx == <<x.value>>
            vy == <<y.value>>
            sx == EncodeBytes(x.script)
            sy == EncodeBytes(y.script)
<1>1. /\ x.value \in Nat /\ x.script \in Symbols /\ y.value \in Nat /\ y.script \in Symbols
      /\ x.value = y.value /\ x.script = y.script => x = y
  BY DEF Outputs
<1>2. /\ vx \in Symbols /\ vy \in Symbols /\ sx \in Symbols /\ sy \in Symbols
      /\ Apart(vx, vy) /\ Apart(sx, sy)
  BY <1>1, OneSymbol, OneApart, EncodeBytesType, StringsApart
<1>3. (vx = vy => x.value = y.value) /\ (sx = sy => x.script = y.script)
  BY <1>1, StringsApart
<1>4. EncodeTxout(x) = vx \o sx /\ EncodeTxout(y) = vy \o sy
  BY DEF EncodeTxout
<1>. HIDE DEF vx, vy, sx, sy
<1>5. Apart(vx \o sx, vy \o sy) /\ (vx \o sx = vy \o sy => vx = vy /\ sx = sy)
  BY ONLY <1>2, BothApart
<1>. QED  BY <1>1, <1>3, <1>4, <1>5

(* Ranges, and elements that are joined without their count.                *)
LEMMA RangeApart ==
  ASSUME NEW p \in Seq(Symbols), NEW q \in Seq(Symbols),
         Len(p) = Len(q) => \A i \in 1 .. Len(p) : Apart(p[i], q[i])
  PROVE  /\ Apart(EncodeRange(p), EncodeRange(q))
         /\ EncodeRange(p) = EncodeRange(q) => p = q
<1>1. ASSUME NEW u \in Symbols, NEW v \in Symbols,
             EncodeRange(p) \o u = EncodeRange(q) \o v
      PROVE  p = q
  BY <1>1, RangesApart
<1>2. << >> \in Symbols
  BY EmptySymbols
<1>. QED  BY <1>1, <1>2 DEF Apart

LEMMA JoinedPartsApart ==
  ASSUME NEW p \in Seq(Symbols), NEW q \in Seq(Symbols), Len(p) = Len(q),
         \A i \in 1 .. Len(p) : Apart(p[i], q[i])
  PROVE  /\ Apart(FlattenSeq(p), FlattenSeq(q))
         /\ FlattenSeq(p) = FlattenSeq(q) => p = q
<1>1. ASSUME NEW u \in Symbols, NEW v \in Symbols,
             FlattenSeq(p) \o u = FlattenSeq(q) \o v
      PROVE  p = q
  BY <1>1, PartsApart
<1>2. << >> \in Symbols
  BY EmptySymbols
<1>. QED  BY <1>1, <1>2 DEF Apart

(* The same inputs, and the same witnesses. *)
SameInputs(xs, ys) ==
  /\ Len(xs) = Len(ys)
  /\ \A i \in 1 .. Len(xs) : /\ xs[i].prevout = ys[i].prevout
                             /\ xs[i].script = ys[i].script
                             /\ xs[i].sequence = ys[i].sequence
SameWitnesses(xs, ys) ==
  Len(xs) = Len(ys) /\ \A i \in 1 .. Len(xs) : xs[i].witness = ys[i].witness

LEMMA InputRangeApart ==
  ASSUME NEW xs \in Seq(Inputs), NEW ys \in Seq(Inputs)
  PROVE  /\ Apart(EncodeRange(InParts(xs)), EncodeRange(InParts(ys)))
         /\ EncodeRange(InParts(xs)) = EncodeRange(InParts(ys)) => SameInputs(xs, ys)
<1>. DEFINE p == InParts(xs)
            q == InParts(ys)
<1>1. /\ p \in Seq(Symbols) /\ Len(p) = Len(xs)
      /\ \A i \in 1 .. Len(xs) : p[i] = EncodeTxin(xs[i])
  BY InPartsType
<1>2. /\ q \in Seq(Symbols) /\ Len(q) = Len(ys)
      /\ \A i \in 1 .. Len(ys) : q[i] = EncodeTxin(ys[i])
  BY InPartsType
<1>3. /\ \A i \in 1 .. Len(xs) : xs[i] \in Inputs
      /\ \A i \in 1 .. Len(ys) : ys[i] \in Inputs
  BY ElementOfSeq
<1>. HIDE DEF p, q
<1>4. ASSUME Len(p) = Len(q), NEW i \in 1 .. Len(p)
      PROVE  /\ Apart(p[i], q[i])
             /\ p[i] = q[i] => /\ xs[i].prevout = ys[i].prevout
                               /\ xs[i].script = ys[i].script
                               /\ xs[i].sequence = ys[i].sequence
  <2>1. /\ xs[i] \in Inputs /\ ys[i] \in Inputs
        /\ p[i] = EncodeTxin(xs[i]) /\ q[i] = EncodeTxin(ys[i])
    BY <1>1, <1>2, <1>3, <1>4
  <2>. QED  BY ONLY <2>1, InputsApart
<1>5. /\ Apart(EncodeRange(p), EncodeRange(q))
      /\ EncodeRange(p) = EncodeRange(q) => p = q
  BY <1>1, <1>2, <1>4, RangeApart
<1>6. p = q => SameInputs(xs, ys)
  BY <1>1, <1>2, <1>4 DEF SameInputs
<1>. QED  BY <1>5, <1>6 DEF p, q

LEMMA OutputRangeApart ==
  ASSUME NEW xs \in Seq(Outputs), NEW ys \in Seq(Outputs)
  PROVE  /\ Apart(EncodeRange(OutParts(xs)), EncodeRange(OutParts(ys)))
         /\ EncodeRange(OutParts(xs)) = EncodeRange(OutParts(ys)) => xs = ys
<1>. DEFINE p == OutParts(xs)
            q == OutParts(ys)
<1>1. /\ p \in Seq(Symbols) /\ Len(p) = Len(xs)
      /\ \A i \in 1 .. Len(xs) : p[i] = EncodeTxout(xs[i])
  BY OutPartsType
<1>2. /\ q \in Seq(Symbols) /\ Len(q) = Len(ys)
      /\ \A i \in 1 .. Len(ys) : q[i] = EncodeTxout(ys[i])
  BY OutPartsType
<1>3. /\ \A i \in 1 .. Len(xs) : xs[i] \in Outputs
      /\ \A i \in 1 .. Len(ys) : ys[i] \in Outputs
  BY ElementOfSeq
<1>. HIDE DEF p, q
<1>4. ASSUME Len(p) = Len(q), NEW i \in 1 .. Len(p)
      PROVE  Apart(p[i], q[i]) /\ (p[i] = q[i] => xs[i] = ys[i])
  <2>1. /\ xs[i] \in Outputs /\ ys[i] \in Outputs
        /\ p[i] = EncodeTxout(xs[i]) /\ q[i] = EncodeTxout(ys[i])
    BY <1>1, <1>2, <1>3, <1>4
  <2>. QED  BY ONLY <2>1, OutputsApart
<1>5. /\ Apart(EncodeRange(p), EncodeRange(q))
      /\ EncodeRange(p) = EncodeRange(q) => p = q
  BY <1>1, <1>2, <1>4, RangeApart
<1>6. p = q => xs = ys
  <2>. SUFFICES ASSUME p = q
                PROVE  xs = ys
    OBVIOUS
  <2>1. Len(xs) = Len(ys) /\ \A i \in 1 .. Len(xs) : xs[i] = ys[i]
    BY <1>1, <1>2, <1>4
  <2>. QED  BY <2>1, SeqEqual
<1>. QED  BY <1>5, <1>6 DEF p, q

LEMMA StacksApart ==
  ASSUME NEW s \in Stacks, NEW t \in Stacks
  PROVE  /\ Apart(EncodeRange(ItemParts(s)), EncodeRange(ItemParts(t)))
         /\ EncodeRange(ItemParts(s)) = EncodeRange(ItemParts(t)) => s = t
<1>. DEFINE p == ItemParts(s)
            q == ItemParts(t)
<1>1. /\ p \in Seq(Symbols) /\ Len(p) = Len(s)
      /\ \A i \in 1 .. Len(s) : p[i] = EncodeBytes(s[i])
  BY ItemPartsType
<1>2. /\ q \in Seq(Symbols) /\ Len(q) = Len(t)
      /\ \A i \in 1 .. Len(t) : q[i] = EncodeBytes(t[i])
  BY ItemPartsType
<1>3. /\ \A i \in 1 .. Len(s) : s[i] \in Symbols
      /\ \A i \in 1 .. Len(t) : t[i] \in Symbols
  BY ElementOfSeq DEF Stacks
<1>. HIDE DEF p, q
<1>4. ASSUME Len(p) = Len(q), NEW i \in 1 .. Len(p)
      PROVE  Apart(p[i], q[i]) /\ (p[i] = q[i] => s[i] = t[i])
  <2>1. /\ s[i] \in Symbols /\ t[i] \in Symbols
        /\ p[i] = EncodeBytes(s[i]) /\ q[i] = EncodeBytes(t[i])
    BY <1>1, <1>2, <1>3, <1>4
  <2>. QED  BY ONLY <2>1, StringsApart
<1>5. /\ Apart(EncodeRange(p), EncodeRange(q))
      /\ EncodeRange(p) = EncodeRange(q) => p = q
  BY <1>1, <1>2, <1>4, RangeApart
<1>6. p = q => s = t
  <2>. SUFFICES ASSUME p = q
                PROVE  s = t
    OBVIOUS
  <2>1. Len(s) = Len(t) /\ \A i \in 1 .. Len(s) : s[i] = t[i]
    BY <1>1, <1>2, <1>4
  <2>. QED  BY <2>1, SeqEqual DEF Stacks
<1>. QED  BY <1>5, <1>6 DEF p, q

LEMMA WitnessesApart ==
  ASSUME NEW xs \in Seq(Inputs), NEW ys \in Seq(Inputs), Len(xs) = Len(ys)
  PROVE  /\ Apart(FlattenSeq(Witnesses(xs)), FlattenSeq(Witnesses(ys)))
         /\ FlattenSeq(Witnesses(xs)) = FlattenSeq(Witnesses(ys)) => SameWitnesses(xs, ys)
<1>. DEFINE p == Witnesses(xs)
            q == Witnesses(ys)
<1>1. /\ p \in Seq(Symbols) /\ Len(p) = Len(xs) /\ DOMAIN xs = 1 .. Len(xs)
      /\ q \in Seq(Symbols) /\ Len(q) = Len(ys) /\ DOMAIN ys = 1 .. Len(ys)
  BY WitnessesType, LenProperties
<1>2. /\ \A i \in 1 .. Len(xs) : p[i] = EncodeRange(ItemParts(xs[i].witness))
      /\ \A i \in 1 .. Len(ys) : q[i] = EncodeRange(ItemParts(ys[i].witness))
  BY <1>1 DEF Witnesses, EncodeWitness, ItemParts
<1>3. /\ \A i \in 1 .. Len(xs) : xs[i].witness \in Stacks
      /\ \A i \in 1 .. Len(ys) : ys[i].witness \in Stacks
  <2>1. /\ \A i \in 1 .. Len(xs) : xs[i] \in Inputs
        /\ \A i \in 1 .. Len(ys) : ys[i] \in Inputs
    BY ElementOfSeq
  <2>. QED  BY <2>1 DEF Inputs, Stacks
<1>. HIDE DEF p, q
<1>4. ASSUME NEW i \in 1 .. Len(p)
      PROVE  Apart(p[i], q[i]) /\ (p[i] = q[i] => xs[i].witness = ys[i].witness)
  <2>1. /\ xs[i].witness \in Stacks /\ ys[i].witness \in Stacks
        /\ p[i] = EncodeRange(ItemParts(xs[i].witness))
        /\ q[i] = EncodeRange(ItemParts(ys[i].witness))
    BY <1>1, <1>2, <1>3, <1>4
  <2>. QED  BY ONLY <2>1, StacksApart
<1>5. /\ Apart(FlattenSeq(p), FlattenSeq(q))
      /\ FlattenSeq(p) = FlattenSeq(q) => p = q
  BY <1>1, <1>4, JoinedPartsApart
<1>6. p = q => SameWitnesses(xs, ys)
  BY <1>1, <1>4 DEF SameWitnesses
<1>. QED  BY <1>5, <1>6 DEF p, q

(* Two transactions in one format. *)
LEMMA DataApart ==
  ASSUME NEW x, NEW y, Made(x), Made(y), NEW segwit \in BOOLEAN,
         EncodeTxData(x.version, x.ins, x.outs, x.locktime, segwit)
           = EncodeTxData(y.version, y.ins, y.outs, y.locktime, segwit)
  PROVE  /\ x.version = y.version /\ SameInputs(x.ins, y.ins) /\ x.outs = y.outs
         /\ x.locktime = y.locktime /\ (segwit => SameWitnesses(x.ins, y.ins))
<1>. DEFINE v == x.version
            xs == x.ins
            os == x.outs
            l == x.locktime
            w == y.version
            ys == y.ins
            us == y.outs
            m == y.locktime
<1>0. /\ v \in Nat /\ xs \in Seq(Inputs) /\ os \in Seq(Outputs) /\ l \in Nat
      /\ w \in Nat /\ ys \in Seq(Inputs) /\ us \in Seq(Outputs) /\ m \in Nat
      /\ EncodeTxData(v, xs, os, l, segwit) = EncodeTxData(w, ys, us, m, segwit)
  BY DEF Made
<1>. SUFFICES /\ v = w /\ SameInputs(xs, ys) /\ os = us /\ l = m
              /\ segwit => SameWitnesses(xs, ys)
  OBVIOUS
<1>. HIDE DEF v, xs, os, l, w, ys, us, m
<1>. DEFINE v1 == <<v>>
            v2 == <<w>>
            f == IF segwit THEN <<0, 1>> ELSE << >>
            i1 == EncodeRange(InParts(xs))
            i2 == EncodeRange(InParts(ys))
            o1 == EncodeRange(OutParts(os))
            o2 == EncodeRange(OutParts(us))
            w1 == IF segwit THEN FlattenSeq(Witnesses(xs)) ELSE << >>
            w2 == IF segwit THEN FlattenSeq(Witnesses(ys)) ELSE << >>
            l1 == <<l>>
            l2 == <<m>>
            a1 == v1 \o f
            a2 == v2 \o f
            b1 == a1 \o i1
            b2 == a2 \o i2
            c1 == b1 \o o1
            c2 == b2 \o o2
            d1 == c1 \o w1
            d2 == c2 \o w2
<1>1. /\ UpToFlags(v, segwit) = a1 /\ UpToFlags(w, segwit) = a2
      /\ UpToInputs(v, xs, segwit) = b1 /\ UpToInputs(w, ys, segwit) = b2
      /\ UpToOutputs(v, xs, os, segwit) = c1 /\ UpToOutputs(w, ys, us, segwit) = c2
      /\ UpToWitnesses(v, xs, os, segwit) = d1 /\ UpToWitnesses(w, ys, us, segwit) = d2
  BY DEF UpToFlags, UpToInputs, UpToOutputs, UpToWitnesses
<1>2. d1 \o l1 = d2 \o l2
  BY <1>0, <1>1, EncodeTxDataIs
<1>3. /\ v1 \in Symbols /\ v2 \in Symbols /\ l1 \in Symbols /\ l2 \in Symbols
      /\ Apart(v1, v2) /\ Apart(l1, l2)
      /\ v1 = v2 => v = w
      /\ l1 = l2 => l = m
  BY <1>0, OneSymbol, OneApart
<1>4. f \in Symbols /\ Apart(f, f)
  <2>1. <<0, 1>> \in Symbols /\ << >> \in Symbols
    BY DEF Symbols
  <2>. QED  BY <2>1 DEF Apart
<1>5. /\ i1 \in Symbols /\ i2 \in Symbols /\ Apart(i1, i2)
      /\ i1 = i2 => SameInputs(xs, ys)
  BY <1>0, InPartsType, EncodeRangeType, InputRangeApart
<1>6. /\ o1 \in Symbols /\ o2 \in Symbols /\ Apart(o1, o2)
      /\ o1 = o2 => os = us
  BY <1>0, OutPartsType, EncodeRangeType, OutputRangeApart
<1>7. w1 \in Symbols /\ w2 \in Symbols
  BY <1>0, WitnessesType, EncodeRangeType, EmptySymbols
<1>8. Len(xs) = Len(ys) =>
        Apart(w1, w2) /\ (segwit => (w1 = w2 => SameWitnesses(xs, ys)))
  <2>1. Apart(<< >>, << >>)
    BY DEF Apart
  <2>. QED  BY <1>0, <2>1, WitnessesApart
<1>9. SameInputs(xs, ys) => Len(xs) = Len(ys)
  BY DEF SameInputs
<1>10. /\ a1 \in Symbols /\ a2 \in Symbols /\ b1 \in Symbols /\ b2 \in Symbols
       /\ c1 \in Symbols /\ c2 \in Symbols /\ d1 \in Symbols /\ d2 \in Symbols
  BY <1>0, <1>1, UpToType
<1>. HIDE DEF v1, v2, f, i1, i2, o1, o2, w1, w2, l1, l2
<1>11. Apart(a1, a2) /\ (a1 = a2 => v1 = v2)
  <2>1. v1 \in Symbols /\ v2 \in Symbols /\ f \in Symbols /\ Apart(v1, v2) /\ Apart(f, f)
    BY <1>3, <1>4
  <2>. QED  BY ONLY <2>1, BothApart
<1>. HIDE DEF a1, a2
<1>12. Apart(b1, b2) /\ (b1 = b2 => a1 = a2 /\ i1 = i2)
  <2>1. /\ a1 \in Symbols /\ a2 \in Symbols /\ i1 \in Symbols /\ i2 \in Symbols
        /\ Apart(a1, a2) /\ Apart(i1, i2)
    BY <1>5, <1>10, <1>11
  <2>. QED  BY ONLY <2>1, BothApart
<1>. HIDE DEF b1, b2
<1>13. Apart(c1, c2) /\ (c1 = c2 => b1 = b2 /\ o1 = o2)
  <2>1. /\ b1 \in Symbols /\ b2 \in Symbols /\ o1 \in Symbols /\ o2 \in Symbols
        /\ Apart(b1, b2) /\ Apart(o1, o2)
    BY <1>6, <1>10, <1>12
  <2>. QED  BY ONLY <2>1, BothApart
<1>. HIDE DEF c1, c2
<1>14. Apart(d1, d2) /\ (d1 = d2 => c1 = c2 /\ w1 = w2)
  <2>1. c1 = c2 => Apart(w1, w2)
    BY <1>5, <1>8, <1>9, <1>12, <1>13
  <2>2. /\ c1 \in Symbols /\ c2 \in Symbols /\ w1 \in Symbols /\ w2 \in Symbols
        /\ Apart(c1, c2)
    BY <1>7, <1>10, <1>13
  <2>. QED  BY ONLY <2>1, <2>2, BothApart
<1>. HIDE DEF d1, d2
<1>15. d1 = d2 /\ l1 = l2
  <2>1. /\ d1 \in Symbols /\ d2 \in Symbols /\ l1 \in Symbols /\ l2 \in Symbols
        /\ Apart(d1, d2) /\ Apart(l1, l2)
    BY <1>3, <1>10, <1>14
  <2>2. d1 \o l1 = d2 \o l2 => d1 = d2 /\ l1 = l2
    BY ONLY <2>1, BothApart
  <2>. QED  BY <1>2, <2>2
<1>. QED  BY <1>3, <1>5, <1>6, <1>8, <1>9, <1>11, <1>12, <1>13, <1>14, <1>15

(* Two transactions with inputs, in whichever format. *)
LEMMA FormatsApart ==
  ASSUME NEW x, NEW y, Made(x), Made(y), x.ins # << >>, y.ins # << >>,
         EncodeTx(x) = EncodeTx(y)
  PROVE  x.isSegwit = y.isSegwit
<1>. DEFINE none == << >>
<1>1. none \in Symbols
  BY EmptySymbols
<1>. HIDE DEF none
<1>2. ASSUME NEW z, NEW t, Made(z), Made(t), z.ins # << >>, EncodeTx(z) = EncodeTx(t),
             ~z.isSegwit, t.isSegwit
      PROVE  FALSE
  <2>. DEFINE a == <<z.version>>
              b == <<t.version>>
              c == <<Len(z.ins)>>
              d == <<0>>
              e == FromIn(z, 0, none)
              f == FromFlags(t, none)
  <2>1. EncodeTx(z) \o none = FromVersion(z, none) /\ EncodeTx(t) \o none = FromVersion(t, none)
    BY <1>1, <1>2, TxIsFromVersion
  <2>2. FromVersion(z, none) = a \o (c \o e) /\ FromVersion(t, none) = b \o (d \o f)
    BY <1>2 DEF FromVersion, FromMarker, FromInCount
  <2>3. a \in Symbols /\ c \in Symbols /\ e \in Symbols
    BY <1>1, <1>2, FromFrontIs
  <2>4. b \in Symbols /\ d \in Symbols /\ f \in Symbols
    BY <1>1, <1>2, FromFrontIs
  <2>5. Len(a) = Len(b) /\ Len(c) = Len(d)
    OBVIOUS
  <2>6. Len(z.ins) # 0
    <3>1. z.ins \in Seq(Inputs)
      BY <1>2, MadeParts
    <3>. QED  BY <1>2, <3>1, EmptySeq
  <2>7. c # d
    BY <2>6
  <2>. HIDE DEF a, b, c, d, e, f
  <2>8. c \o e \in Symbols /\ d \o f \in Symbols
    BY <2>3, <2>4, Cat
  <2>9. a \o (c \o e) = b \o (d \o f)
    BY <1>2, <2>1, <2>2
  <2>10. c \o e = d \o f
    BY ONLY <2>3, <2>4, <2>5, <2>8, <2>9, SameFront
  <2>11. c = d
    BY ONLY <2>3, <2>4, <2>5, <2>10, SameFront
  <2>. QED  BY <2>7, <2>11
<1>3. x.isSegwit \in BOOLEAN /\ y.isSegwit \in BOOLEAN
  BY MadeParts
<1>. QED  BY <1>2, <1>3

LEMMA SameInEveryField ==
  ASSUME NEW xs \in Seq(Inputs), NEW ys \in Seq(Inputs),
         SameInputs(xs, ys), SameWitnesses(xs, ys)
  PROVE  xs = ys
<1>1. ASSUME NEW i \in 1 .. Len(xs)
      PROVE  xs[i] = ys[i]
  <2>1. xs[i] \in Inputs /\ ys[i] \in Inputs
    BY ElementOfSeq DEF SameInputs
  <2>2. /\ xs[i].prevout = ys[i].prevout /\ xs[i].script = ys[i].script
        /\ xs[i].sequence = ys[i].sequence /\ xs[i].witness = ys[i].witness
    BY DEF SameInputs, SameWitnesses
  <2>3. \A a \in Inputs : a = Input(a.prevout, a.script, a.sequence, a.witness)
    BY DEF Inputs, Input
  <2>4. /\ xs[i] = Input(xs[i].prevout, xs[i].script, xs[i].sequence, xs[i].witness)
        /\ ys[i] = Input(ys[i].prevout, ys[i].script, ys[i].sequence, ys[i].witness)
    BY <2>1, <2>3
  <2>. QED  BY <2>2, <2>4
<1>. QED  BY <1>1, SeqEqual DEF SameInputs

(* The wtxid tells everything. *)
LEMMA SameWitnessHash ==
  ASSUME NEW x, NEW y, Made(x), Made(y), x.ins # << >>, y.ins # << >>,
         x.witnessHash = y.witnessHash
  PROVE  x = y
<1>1. EncodeTx(x) = EncodeTx(y)
  BY MadeFields DEF Hash
<1>2. x.isSegwit = y.isSegwit
  BY <1>1, FormatsApart
<1>3. /\ x.version \in Nat /\ x.ins \in Seq(Inputs) /\ x.outs \in Seq(Outputs)
      /\ x.locktime \in Nat /\ x.isSegwit \in BOOLEAN /\ x.isSegwit = AnyWitness(x.ins)
      /\ DOMAIN x.ins = 1 .. Len(x.ins)
  BY MadeParts, LenProperties
<1>4. /\ y.version \in Nat /\ y.ins \in Seq(Inputs) /\ y.outs \in Seq(Outputs)
      /\ y.locktime \in Nat /\ y.isSegwit = AnyWitness(y.ins)
      /\ DOMAIN y.ins = 1 .. Len(y.ins)
  BY MadeParts, LenProperties
<1>5. EncodeTxData(x.version, x.ins, x.outs, x.locktime, x.isSegwit)
        = EncodeTxData(y.version, y.ins, y.outs, y.locktime, x.isSegwit)
  BY <1>1, <1>2 DEF EncodeTx
<1>6. /\ x.version = y.version /\ SameInputs(x.ins, y.ins) /\ x.outs = y.outs
      /\ x.locktime = y.locktime /\ (x.isSegwit => SameWitnesses(x.ins, y.ins))
  BY <1>3, <1>5, DataApart
<1>7. SameWitnesses(x.ins, y.ins)
  <2>1. CASE x.isSegwit
    BY <1>6, <2>1
  <2>2. CASE ~x.isSegwit
    <3>1. /\ \A i \in 1 .. Len(x.ins) : x.ins[i].witness = << >>
          /\ \A i \in 1 .. Len(y.ins) : y.ins[i].witness = << >>
      BY <1>2, <1>3, <1>4, <2>2 DEF AnyWitness, HasWitness
    <3>. QED  BY <1>6, <3>1 DEF SameInputs, SameWitnesses
  <2>. QED  BY <1>3, <2>1, <2>2
<1>8. x.ins = y.ins
  BY <1>3, <1>4, <1>6, <1>7, SameInEveryField
<1>. QED  BY <1>6, <1>8 DEF Made

(* The txid tells everything but the witnesses. *)
LEMMA SameHash ==
  ASSUME NEW x, NEW y, Made(x), Made(y)
  PROVE  x.hash = y.hash <=> WithoutWitness(x) = WithoutWitness(y)
<1>. DEFINE Witnessless(z) == [i \in DOMAIN z.ins |-> [z.ins[i] EXCEPT !.witness = << >>]]
<1>1. /\ x.version \in Nat /\ x.ins \in Seq(Inputs) /\ x.outs \in Seq(Outputs)
      /\ x.locktime \in Nat /\ Len(x.ins) \in Nat /\ DOMAIN x.ins = 1 .. Len(x.ins)
      /\ \A i \in 1 .. Len(x.ins) : x.ins[i] \in Inputs
  BY MadeParts, LenProperties
<1>2. /\ y.version \in Nat /\ y.ins \in Seq(Inputs) /\ y.outs \in Seq(Outputs)
      /\ y.locktime \in Nat /\ Len(y.ins) \in Nat /\ DOMAIN y.ins = 1 .. Len(y.ins)
      /\ \A i \in 1 .. Len(y.ins) : y.ins[i] \in Inputs
  BY MadeParts, LenProperties
<1>3. /\ x.hash = EncodeTxData(x.version, x.ins, x.outs, x.locktime, FALSE)
      /\ y.hash = EncodeTxData(y.version, y.ins, y.outs, y.locktime, FALSE)
  BY MadeFields DEF Hash
<1>4. WithoutWitness(x) = WithoutWitness(y)
        <=> /\ x.version = y.version /\ x.outs = y.outs /\ x.locktime = y.locktime
            /\ Witnessless(x) = Witnessless(y)
  BY DEF WithoutWitness
<1>5. Witnessless(x) = Witnessless(y) <=> SameInputs(x.ins, y.ins)
  <2>1. /\ Witnessless(x) = [i \in 1 .. Len(x.ins) |-> [x.ins[i] EXCEPT !.witness = << >>]]
        /\ Witnessless(y) = [i \in 1 .. Len(y.ins) |-> [y.ins[i] EXCEPT !.witness = << >>]]
    BY <1>1, <1>2
  <2>2. ASSUME NEW a \in Inputs, NEW b \in Inputs
        PROVE  [a EXCEPT !.witness = << >>] = [b EXCEPT !.witness = << >>]
                 <=> /\ a.prevout = b.prevout /\ a.script = b.script
                     /\ a.sequence = b.sequence
    BY DEF Inputs
  <2>. HIDE DEF Bare
  <2>3. ASSUME Witnessless(x) = Witnessless(y)
        PROVE  SameInputs(x.ins, y.ins)
    <3>1. DOMAIN Witnessless(x) = 1 .. Len(x.ins) /\ DOMAIN Witnessless(y) = 1 .. Len(y.ins)
      BY <2>1
    <3>2. Len(x.ins) = Len(y.ins)
      BY <1>1, <1>2, <2>3, <3>1
    <3>3. \A i \in 1 .. Len(x.ins) :
            [x.ins[i] EXCEPT !.witness = << >>] = [y.ins[i] EXCEPT !.witness = << >>]
      BY <2>1, <2>3, <3>2
    <3>. QED  BY <1>1, <1>2, <2>2, <3>2, <3>3 DEF SameInputs
  <2>4. ASSUME SameInputs(x.ins, y.ins)
        PROVE  Witnessless(x) = Witnessless(y)
    <3>1. \A i \in 1 .. Len(x.ins) :
            [x.ins[i] EXCEPT !.witness = << >>] = [y.ins[i] EXCEPT !.witness = << >>]
      BY <1>1, <1>2, <2>2, <2>4 DEF SameInputs
    <3>. QED  BY <2>1, <2>4, <3>1 DEF SameInputs
  <2>. QED  BY <2>3, <2>4
<1>6. x.hash = y.hash => WithoutWitness(x) = WithoutWitness(y)
  <2>. SUFFICES ASSUME x.hash = y.hash
                PROVE  WithoutWitness(x) = WithoutWitness(y)
    OBVIOUS
  <2>1. EncodeTxData(x.version, x.ins, x.outs, x.locktime, FALSE)
          = EncodeTxData(y.version, y.ins, y.outs, y.locktime, FALSE)
    BY <1>3
  <2>2. /\ x.version = y.version /\ SameInputs(x.ins, y.ins) /\ x.outs = y.outs
        /\ x.locktime = y.locktime
    BY <2>1, DataApart
  <2>. QED  BY <1>4, <1>5, <2>2
<1>7. WithoutWitness(x) = WithoutWitness(y) => x.hash = y.hash
  <2>. SUFFICES ASSUME WithoutWitness(x) = WithoutWitness(y)
                PROVE  x.hash = y.hash
    OBVIOUS
  <2>1. /\ x.version = y.version /\ x.outs = y.outs /\ x.locktime = y.locktime
        /\ SameInputs(x.ins, y.ins)
    BY <1>4, <1>5
  <2>2. InParts(x.ins) = InParts(y.ins)
    <3>1. \A i \in 1 .. Len(x.ins) : EncodeTxin(x.ins[i]) = EncodeTxin(y.ins[i])
      BY <2>1 DEF SameInputs, EncodeTxin
    <3>. QED  BY <1>1, <1>2, <2>1, <3>1 DEF SameInputs, InParts
  <2>3. EncodeTxData(x.version, x.ins, x.outs, x.locktime, FALSE)
          = EncodeTxData(y.version, y.ins, y.outs, y.locktime, FALSE)
    <3>1. \A z : UpToWitnesses(z.version, z.ins, z.outs, FALSE)
                = (((<<z.version>> \o << >>) \o EncodeRange(InParts(z.ins)))
                     \o EncodeRange(OutParts(z.outs))) \o << >>
      BY DEF UpToWitnesses, UpToOutputs, UpToInputs, UpToFlags
    <3>2. UpToWitnesses(x.version, x.ins, x.outs, FALSE)
            = UpToWitnesses(y.version, y.ins, y.outs, FALSE)
      BY <2>1, <2>2, <3>1
    <3>. QED  BY <2>1, <3>2, EncodeTxDataIs
  <2>. QED  BY <1>3, <2>3
<1>. QED  BY <1>6, <1>7

-----------------------------------------------------------------------------
(* What was parsed *)

(* Every transaction that was read without a failure has inputs, and the    *)
(* current one has them behind its first field that is not an input, if it  *)
(* is not to have a witness.                                                *)
InputsRead ==
  /\ pc \in {"outcount", "out", "locktime"} => tx.segwit \/ tx.ins # << >>
  /\ pc \in {"witcount", "item"} => tx.segwit
  /\ \A i \in 1 .. Len(txs) : txs[i].ins # << >>

Parsed ==
  /\ ~failed => InputsRead
  /\ result # None => pc = "done" /\ ~failed /\ result = Object

(* A step within a transaction, by what it makes of its locals.             *)
LEMMA LocalsStep ==
  ASSUME InputsRead, UNCHANGED txs,
         pc' \in {"outcount", "out", "locktime"} => tx'.segwit \/ tx'.ins # << >>,
         pc' \in {"witcount", "item"} => tx'.segwit
  PROVE  InputsRead'
BY DEF InputsRead

LEMMA InputsStep ==
  ASSUME GoodInv, InputsRead, Next, ~failed'
  PROVE  InputsRead'
<1>. DEFINE behind == {"outcount", "out", "locktime", "witcount", "item"}
<1>1. tx \in Locals /\ AllMade(txs)
  BY DEF GoodInv, Types
<1>2. ASSUME UNCHANGED txs, pc' \notin behind
      PROVE  InputsRead'
  BY <1>2, LocalsStep
<1>3. ASSUME NEW b \in Byte, Header(b)
      PROVE  InputsRead'
  <2>1. UNCHANGED txs /\ pc' \notin behind
    BY <1>3 DEF Header
  <2>. QED  BY <1>2, <2>1
<1>4. ASSUME NEW b \in Byte, TxCount(b)
      PROVE  InputsRead'
  <2>1. UNCHANGED txs /\ pc' \notin behind
    BY <1>4 DEF TxCount
  <2>. QED  BY <1>2, <2>1
<1>5. ASSUME NEW b \in Byte, Version(b)
      PROVE  InputsRead'
  <2>1. UNCHANGED txs /\ pc' \notin behind
    BY <1>5 DEF Version
  <2>. QED  BY <1>2, <2>1
<1>6. ASSUME NEW n \in Byte, InCount(n)
      PROVE  InputsRead'
  <2>1. /\ UNCHANGED <<txs, tx>> /\ pc' \in {"in", "outcount", "flags"}
        /\ pc' = "outcount" => tx.segwit
    BY <1>6 DEF InCount
  <2>. QED  BY <2>1, LocalsStep
<1>7. ASSUME NEW b \in Byte, Flags(b)
      PROVE  InputsRead'
  <2>1. b = 1
    BY <1>7, GoodRead DEF Flags
  <2>2. UNCHANGED txs /\ pc' \notin behind
    BY <1>7, <2>1 DEF Flags
  <2>. QED  BY <1>2, <2>2
<1>8. ASSUME NEW p \in Byte, NEW q \in Byte, NEW s \in Strings, Txin(p, s, q)
      PROVE  InputsRead'
  <2>. DEFINE in == Input(p, Tail(s), q, << >>)
  <2>1. UNCHANGED txs /\ pc' \in {"in", "outcount"} /\ tx'.ins = Append(tx.ins, in)
    BY <1>1, <1>8 DEF Txin, Locals
  <2>2. tx'.ins # << >>
    <3>1. Len(Append(tx.ins, in)) # 0
      <4>. HIDE DEF in
      <4>1. Len(Append(tx.ins, in)) = Len(tx.ins) + 1 /\ Len(tx.ins) \in Nat
        BY <1>1 DEF Locals
      <4>. QED  BY <4>1
    <3>2. Len(<< >>) = 0
      OBVIOUS
    <3>. HIDE DEF in
    <3>3. Append(tx.ins, in) # << >>
      BY <3>1, <3>2
    <3>. QED  BY <2>1, <3>3
  <2>. QED  BY <2>1, <2>2, LocalsStep
<1>9. ASSUME NEW n \in Byte, OutCount(n)
      PROVE  InputsRead'
  <2>1. /\ UNCHANGED <<txs, tx>> /\ pc = "outcount"
        /\ pc' = "out" \/ AfterOutputs
    BY <1>9 DEF OutCount
  <2>2. pc' \in {"out", "locktime"} \/ (pc' = "witcount" /\ tx.segwit)
    BY <2>1 DEF AfterOutputs
  <2>. QED  BY <2>1, <2>2, LocalsStep DEF InputsRead
<1>10. ASSUME NEW v \in Byte, NEW s \in Strings, Txout(v, s)
       PROVE  InputsRead'
  <2>1. /\ UNCHANGED txs /\ tx'.ins = tx.ins /\ tx'.segwit = tx.segwit /\ pc = "out"
        /\ pc' = "out" \/ AfterOutputs
    BY <1>1, <1>10 DEF Txout, Locals
  <2>2. pc' \in {"out", "locktime"} \/ (pc' = "witcount" /\ tx.segwit)
    BY <2>1 DEF AfterOutputs
  <2>. QED  BY <2>1, <2>2, LocalsStep DEF InputsRead
<1>11. ASSUME NEW items, Witnessed(items)
       PROVE  tx'.segwit = tx.segwit /\ pc' \in {"witcount", "locktime"}
  BY <1>1, <1>11 DEF Witnessed, Locals
<1>12. ASSUME NEW n \in Byte, WitnessCount(n)
       PROVE  InputsRead'
  <2>1. /\ UNCHANGED txs /\ pc = "witcount"
        /\ \E items : \/ Witnessed(items)
                      \/ tx' = [tx EXCEPT !.items = items] /\ pc' = "item"
    BY <1>12 DEF WitnessCount
  <2>2. tx'.segwit = tx.segwit /\ pc' \in {"witcount", "locktime", "item"}
    BY <1>1, <1>11, <2>1 DEF Locals
  <2>. QED  BY <2>1, <2>2, LocalsStep DEF InputsRead
<1>13. ASSUME NEW s \in Strings, Item(s)
       PROVE  InputsRead'
  <2>1. /\ UNCHANGED txs /\ pc = "item"
        /\ \E items : \/ Witnessed(items)
                      \/ tx' = [tx EXCEPT !.items = items] /\ pc' = "item"
    BY <1>13 DEF Item
  <2>2. tx'.segwit = tx.segwit /\ pc' \in {"witcount", "locktime", "item"}
    BY <1>1, <1>11, <2>1 DEF Locals
  <2>. QED  BY <2>1, <2>2, LocalsStep DEF InputsRead
<1>14. ASSUME NEW b \in Byte, Locktime(b)
       PROVE  InputsRead'
  <2>. DEFINE x == Transaction(tx.version, tx.ins, tx.outs, b)
  <2>1. pc = "locktime" /\ txs' = Append(txs, x) /\ pc' \in {"version", "end"}
    BY <1>14 DEF Locktime, Return
  <2>2. x.ins = tx.ins
    BY DEF Transaction
  <2>3. tx.ins # << >>
    <3>1. PICK t \in Symbols : TxRead(pc, tx, range, t)
      BY <2>1 DEF GoodInv, InsideTx, InTx
    <3>2. tx.segwit = AnyWitness(tx.ins)
      BY <2>1, <3>1 DEF TxRead, AtLocktime
    <3>3. ~AnyWitness(<< >>)
      BY DEF AnyWitness
    <3>. QED  BY <2>1, <3>2, <3>3 DEF InputsRead
  <2>. HIDE DEF x
  <2>4. /\ Len(txs) \in Nat /\ Len(txs') = Len(txs) + 1 /\ txs'[Len(txs) + 1] = x
        /\ \A i \in 1 .. Len(txs) : txs'[i] = txs[i]
    BY <1>1, <2>1, AppendProperties, LenProperties DEF AllMade
  <2>5. \A i \in 1 .. Len(txs') : i \in 1 .. Len(txs) \/ i = Len(txs) + 1
    BY <2>4
  <2>. QED  BY <2>1, <2>2, <2>3, <2>4, <2>5 DEF InputsRead
<1>15. CASE End \/ Done
  <2>1. UNCHANGED txs /\ pc' \notin behind
    BY <1>15 DEF End, Done, vars
  <2>. QED  BY <1>2, <2>1
<1>. QED
  BY <1>3, <1>4, <1>5, <1>6, <1>7, <1>8, <1>9, <1>10, <1>12, <1>13, <1>14, <1>15
     DEF Next

LEMMA ResultStep ==
  ASSUME Room, result # None => pc = "done" /\ ~failed /\ result = Object, [Next]_vars
  PROVE  result' # None => pc' = "done" /\ ~failed' /\ (result = Object)'
<1>1. CASE UNCHANGED vars
  BY <1>1 DEF vars, Object
<1>2. CASE Done
  BY <1>2 DEF Done, vars, Object
<1>3. CASE End
  BY <1>3 DEF End, Object
<1>4. CASE Next /\ ~End /\ ~Done
  <2>1. UNCHANGED result /\ pc # "done"
    BY <1>4, Zenon DEF Next, Header, TxCount, Version, InCount, Flags, Txin, OutCount,
                       Txout, WitnessCount, Item, Locktime
  <2>. QED  BY <2>1 DEF Room
<1>. QED  BY <1>1, <1>2, <1>3, <1>4

LEMMA ParsedAlways == Spec => []Parsed
<1>1. Init => Parsed
  <2>. SUFFICES ASSUME Init
                PROVE  Parsed
    OBVIOUS
  <2>1. pc \in {"version", "header"} /\ txs = << >> /\ result = None
    BY DEF Init, Start
  <2>2. Len(txs) = 0
    BY <2>1
  <2>. QED  BY <2>1, <2>2 DEF Parsed, InputsRead
<1>2. DecoderInv /\ Parsed /\ [Next]_vars => Parsed'
  <2>. SUFFICES ASSUME DecoderInv, Parsed, [Next]_vars
                PROVE  Parsed'
    OBVIOUS
  <2>1. result' # None => pc' = "done" /\ ~failed' /\ (result = Object)'
    BY ResultStep DEF DecoderInv, Parsed
  <2>2. ASSUME ~failed'
        PROVE  InputsRead'
    <3>1. CASE UNCHANGED vars
      BY <2>2, <3>1 DEF vars, Parsed, InputsRead
    <3>2. CASE Next
      <4>1. ~failed
        BY <2>2, <3>2, FailureStays
      <4>. QED  BY <2>2, <3>2, <4>1, InputsStep DEF DecoderInv, Parsed
    <3>. QED  BY <3>1, <3>2
  <2>. QED  BY <2>1, <2>2 DEF Parsed
<1>. QED  BY <1>1, <1>2, DecoderInductive, PTL DEF Spec

(* In a block that was parsed, of any size, transactions with one wtxid,    *)
(* which operator== takes for equal, are the same in every field, and those *)
(* with one txid are but for their witnesses: the format leaves no room for *)
(* a field to be read as another one.                                       *)
THEOREM EqualTransactionsAreSame == Spec => []EqualAreSame
<1>1. DecoderInv /\ Parsed => EqualAreSame
  <2>. SUFFICES ASSUME DecoderInv, Parsed, kind = "block", result # None,
                       NEW i \in DOMAIN result.txs, NEW j \in DOMAIN result.txs
                PROVE  LET x == result.txs[i]
                           y == result.txs[j] IN
                       /\ x.witnessHash = y.witnessHash => x = y
                       /\ x.hash = y.hash <=> WithoutWitness(x) = WithoutWitness(y)
    BY DEF EqualAreSame
  <2>. DEFINE x == txs[i]
              y == txs[j]
  <2>1. ~failed /\ result.txs = txs
    BY DEF Parsed, Object, Block
  <2>2. AllMade(txs) /\ InputsRead
    BY <2>1 DEF DecoderInv, GoodInv, Types, Parsed
  <2>3. i \in 1 .. Len(txs) /\ j \in 1 .. Len(txs)
    BY <2>1, <2>2, LenProperties DEF AllMade
  <2>4. Made(x) /\ Made(y) /\ x.ins # << >> /\ y.ins # << >>
    BY <2>2, <2>3 DEF AllMade, InputsRead
  <2>. HIDE DEF x, y
  <2>5. x.witnessHash = y.witnessHash => x = y
    BY <2>4, SameWitnessHash
  <2>6. x.hash = y.hash <=> WithoutWitness(x) = WithoutWitness(y)
    BY <2>4, SameHash
  <2>. QED  BY <2>1, <2>5, <2>6 DEF x, y
<1>. QED  BY <1>1, ParsedAlways, DecoderInductive, PTL
=============================================================================
