------------------------------ MODULE Vocabulary ------------------------------
(***************************************************************************)
(* The same transaction in memory, on the wire, in a coin index and in the *)
(* kernel (module/bitcoin.vocabulary.cpp, bitcoin.hash_id.cpp,             *)
(* bitcoin.type_erasure.cpp, src/serdes_*.cpp, src/legacy.cpp).            *)
(*                                                                         *)
(* A program makes, copies, sends and receives transactions and keeps the  *)
(* outputs of some in an index.  In memory the index of an outpoint has 64 *)
(* bits and an amount is signed; on the wire and in the kernel the index   *)
(* has 32 bits, and on the wire an amount is unsigned.  Equality and the   *)
(* identifiers come from the wire.  Scripts and the fields that have one   *)
(* width everywhere are left out.  Transactions have inputs: those without *)
(* are the subject of Decoder.                                             *)
(***************************************************************************)
EXTENDS Integers, Sequences, FiniteSets

CONSTANTS
  Var,          \* the transaction variables of the program
  W,            \* 2^32
  A,            \* 2^64, for amounts
  Amounts,      \* the lists of amounts a transaction may pay
  MaxConfirmed  \* bound: transactions whose outputs were put in the index

ASSUME VocabularyAssumption ==
  /\ W \in Nat \ {0, 1} /\ A \in Nat \ {0} /\ A % 2 = 0
  /\ \A outs \in Amounts :
       /\ outs \in Seq(-(A \div 2) .. (A \div 2) - 1)
       /\ Len(outs) \in 1 .. W
  /\ MaxConfirmed \in Nat

VARIABLES
  obj,        \* the transaction each variable holds, or Moved
  coins,      \* the index: a partial function from outpoints to coins
  confirmed   \* the identifiers of the transactions it was filled from

vars == <<obj, coins, confirmed>>

-----------------------------------------------------------------------------
(* In memory *)

Outpoint(txid, index) == [txid |-> txid, index |-> index]
Input(prevout, witness) == [prevout |-> prevout, witness |-> witness]

AllOnes == W - 1     \* 0xFFFF'FFFF
Index == 0 .. 2 * W - 1     \* std::size_t, as far as the widths differ

(* Fault: the index is cut one short of 32 bits' worth of values. *)
CutShort(index) == index % (W - 1)

(* encode_u32(w, p.index()) *)
Cut(index) == index % W

(* encode_u64 of a signed amount, and decode_u64(r) * satoshi *)
EncodeAmount(v) == v % A

(* Fault: an amount stays unsigned. *)
DecodeAmountUnsigned(u) == u

DecodeAmount(u) == IF u < A \div 2 THEN u ELSE u - A

EncodeTxin(in) == Outpoint(in.prevout.txid, Cut(in.prevout.index))

(* encode_tx_data: an extended encoding has the witnesses, the other has not. *)
EncodeTxData(ins, outs, segwit) ==
  [ins |-> [i \in DOMAIN ins |-> EncodeTxin(ins[i])],
   outs |-> [i \in DOMAIN outs |-> EncodeAmount(outs[i])],
   wits |-> IF segwit THEN [i \in DOMAIN ins |-> ins[i].witness] ELSE << >>]

(* SHA256d has no collisions, and nothing hashes to zero. *)
Hash(bytes) == bytes
ZeroHash == [ins |-> << >>, outs |-> << >>, wits |-> << >>]

AnyWitness(ins) == \E i \in DOMAIN ins : ins[i].witness

(* transaction::implementation *)
Transaction(ins, outs) ==
  [ins |-> ins, outs |-> outs, isSegwit |-> AnyWitness(ins),
   hash |-> Hash(EncodeTxData(ins, outs, FALSE)),
   witnessHash |-> Hash(EncodeTxData(ins, outs, AnyWitness(ins)))]

DefaultTransaction ==
  [ins |-> << >>, outs |-> << >>, isSegwit |-> FALSE,
   hash |-> ZeroHash, witnessHash |-> ZeroHash]

(* A moved-from object has no implementation: a value no transaction has. *)
Moved == [DefaultTransaction EXCEPT !.isSegwit = TRUE]

(* operator== of copy_on_write, and of what it holds *)
Equal(x, y) ==
  IF x = Moved \/ y = Moved THEN x = y ELSE x.witnessHash = y.witnessHash

(* Fault: indices are compared with the end of the 32 bits, not for equality. *)
IsCoinbaseFrom(tx) ==
  /\ Len(tx.ins) = 1
  /\ tx.ins[1].prevout.txid = ZeroHash /\ tx.ins[1].prevout.index >= AllOnes

(* is_coinbase(tx): the index is compared in 64 bits. *)
IsCoinbase(tx) ==
  /\ Len(tx.ins) = 1
  /\ tx.ins[1].prevout.txid = ZeroHash /\ tx.ins[1].prevout.index = AllOnes

-----------------------------------------------------------------------------
(* On the wire and in the kernel *)

Serialized(tx) == EncodeTxData(tx.ins, tx.outs, tx.isSegwit)

(* parse_transaction, of what serialize wrote *)
Parsed(bytes) ==
  Transaction([i \in DOMAIN bytes.ins |->
                 Input(bytes.ins[i], bytes.wits # << >> /\ bytes.wits[i])],
              [i \in DOMAIN bytes.outs |-> DecodeAmount(bytes.outs[i])])

(* Fault: an index that does not fit becomes the largest that does. *)
ConvertOutpointSaturated(p) ==
  [p EXCEPT !.index = IF @ > AllOnes THEN AllOnes ELSE @]

(* legacy::convert_outpoint, convert_tx *)
ConvertOutpoint(p) == [p EXCEPT !.index = @ % W]
ConvertTx(tx) ==
  [vin |-> [i \in DOMAIN tx.ins |->
              Input(ConvertOutpoint(tx.ins[i].prevout), tx.ins[i].witness)],
   vout |-> tx.outs]

(* type_erasure::coin_t: an amount and whether it is of a coinbase; and     *)
(* coin_index_ref::lookup.                                                  *)
Coin(tx, i) == <<tx.outs[i], IsCoinbase(tx)>>
NoCoin == << >>     \* std::nullopt
Lookup(p) == IF p \in DOMAIN coins THEN coins[p] ELSE NoCoin

-----------------------------------------------------------------------------
(* The program *)

Live(v) == obj[v] # Moved

Init ==
  /\ obj = [v \in Var |-> DefaultTransaction]
  /\ coins = [p \in {} |-> NoCoin]
  /\ confirmed = {}

(* What an input may refer to: nothing, or an output, real or not, of a     *)
(* transaction the index knows.                                             *)
Prevouts == {Outpoint(h, n) : h \in {ZeroHash} \cup confirmed, n \in Index}
Unwitnessed(p) == Input(p, FALSE)
InputLists ==
  {<<Input(p, w)>> : p \in Prevouts, w \in BOOLEAN}
    \cup {<<Unwitnessed(p), Input(Outpoint(h, 0), w)>> :
            p \in Prevouts, h \in confirmed, w \in BOOLEAN}

Make(v) ==
  /\ \E ins \in InputLists, outs \in Amounts : obj' = [obj EXCEPT ![v] = Transaction(ins, outs)]
  /\ UNCHANGED <<coins, confirmed>>

Copy(v, u) ==
  /\ v # u /\ obj' = [obj EXCEPT ![v] = obj[u]]
  /\ UNCHANGED <<coins, confirmed>>

Move(v, u) ==
  /\ v # u /\ obj' = [obj EXCEPT ![v] = obj[u], ![u] = Moved]
  /\ UNCHANGED <<coins, confirmed>>

(* serialize(u) on one side, parse_transaction on the other *)
Relay(v, u) ==
  /\ Live(u) /\ obj[u].ins # << >>
  /\ obj' = [obj EXCEPT ![v] = Parsed(Serialized(obj[u]))]
  /\ UNCHANGED <<coins, confirmed>>

(* The outputs of v become coins, each under outpoint{txid{v}, i}. *)
Confirm(v) ==
  /\ Live(v) /\ obj[v].ins # << >>
  /\ obj[v].hash \notin confirmed /\ Cardinality(confirmed) < MaxConfirmed
  /\ LET tx == obj[v]
         new == {Outpoint(tx.hash, i - 1) : i \in DOMAIN tx.outs} IN
     coins' = [p \in DOMAIN coins \cup new |->
                 IF p \in new THEN Coin(tx, p.index + 1) ELSE coins[p]]
  /\ confirmed' = confirmed \cup {obj[v].hash}
  /\ UNCHANGED obj

Next ==
  \E v \in Var :
    \/ Make(v)
    \/ Confirm(v)
    \/ \E u \in Var : Copy(v, u) \/ Move(v, u) \/ Relay(v, u)

Spec == Init /\ [][Next]_vars

-----------------------------------------------------------------------------
(* Properties *)

Fits(tx) == \A i \in DOMAIN tx.ins : tx.ins[i].prevout.index < W
Made(v) == Live(v) /\ obj[v].ins # << >>
Received(v) == Parsed(Serialized(obj[v]))

(* What is received compares equal to what was sent, also when an amount is *)
(* negative, and it is the same object in every field unless the sender's   *)
(* held an index that 32 bits do not: only then do equal transactions       *)
(* differ in what their observers return.                                   *)
ReceivedIsSent ==
  \A v \in Var : Made(v) =>
    /\ Equal(Received(v), obj[v])
    /\ Received(v) = obj[v] <=> Fits(obj[v])

(* Every coin that an input's outpoint finds in memory is found by whoever  *)
(* receives the transaction, and the receiver finds no other coin unless    *)
(* the sender's index was cut to that of the coin.                          *)
SameCoins ==
  \A v \in Var : Made(v) => \A i \in DOMAIN obj[v].ins :
    LET p == obj[v].ins[i].prevout
        q == Received(v).ins[i].prevout IN
    /\ Lookup(p) # NoCoin => Lookup(q) = Lookup(p)
    /\ Lookup(q) # Lookup(p) => p.index >= W

(* A transaction that is_coinbase calls coinbase is one for its receivers;  *)
(* and they see a coinbase where is_coinbase does not only if the index was *)
(* cut.  A coin in the index that is marked as of a coinbase is keyed by    *)
(* the identifier of one.                                                   *)
CoinbaseForAll ==
  /\ \A v \in Var : Made(v) =>
       /\ IsCoinbase(obj[v]) => IsCoinbase(Received(v))
       /\ IsCoinbase(Received(v)) /\ ~IsCoinbase(obj[v]) => ~Fits(obj[v])
  /\ \A p \in DOMAIN coins :
       coins[p][2] => p.txid.ins = <<Outpoint(ZeroHash, AllOnes)>>

(* The verifier checks, of an object, exactly what the kernel of a receiver *)
(* of its bytes would check: the conversion cuts what the encoding cuts.    *)
KernelSeesTheWire ==
  \A v \in Var : Made(v) => ConvertTx(obj[v]) = ConvertTx(Received(v))
=============================================================================
