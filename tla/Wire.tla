-------------------------------- MODULE Wire --------------------------------
(***************************************************************************)
(* Transactions and blocks (module/bitcoin.vocabulary.cpp) and their wire  *)
(* format (src/serdes_encode.cpp).                                         *)
(*                                                                         *)
(* An encoding is a sequence of symbols, natural numbers: one for every    *)
(* field of fixed width (the six of a header together are one) and one for *)
(* every compact size.  What makes the format hard is kept: the marker of  *)
(* the segregated-witness format stands where an input count is expected.  *)
(***************************************************************************)
EXTENDS Integers, Sequences, SequencesExt

Symbols == Seq(Nat)

Inputs ==
  [prevout : Nat, script : Symbols, sequence : Nat, witness : Seq(Symbols)]
Outputs == [value : Nat, script : Symbols]

Input(p, s, q, w) == [prevout |-> p, script |-> s, sequence |-> q, witness |-> w]
Output(v, s) == [value |-> v, script |-> s]

HasWitness(in) == in.witness # << >>
AnyWitness(ins) == \E i \in DOMAIN ins : HasWitness(ins[i])

EncodeBytes(s) == <<Len(s)>> \o s

(* A range: its size, then its elements, each already encoded. *)
EncodeRange(parts) == <<Len(parts)>> \o FlattenSeq(parts)

EncodeTxin(in) == <<in.prevout>> \o EncodeBytes(in.script) \o <<in.sequence>>
EncodeTxout(out) == <<out.value>> \o EncodeBytes(out.script)
EncodeWitness(in) ==
  EncodeRange([i \in DOMAIN in.witness |-> EncodeBytes(in.witness[i])])

(* Fault: the witnesses before the outputs. *)
EncodeTxDataWitnessFirst(version, ins, outs, locktime, segwit) ==
  <<version>>
    \o (IF segwit THEN <<0, 1>> ELSE << >>)
    \o EncodeRange([i \in DOMAIN ins |-> EncodeTxin(ins[i])])
    \o (IF segwit THEN FlattenSeq([i \in DOMAIN ins |-> EncodeWitness(ins[i])])
                  ELSE << >>)
    \o EncodeRange([i \in DOMAIN outs |-> EncodeTxout(outs[i])])
    \o <<locktime>>

EncodeTxData(version, ins, outs, locktime, segwit) ==
  <<version>>
    \o (IF segwit THEN <<0, 1>> ELSE << >>)
    \o EncodeRange([i \in DOMAIN ins |-> EncodeTxin(ins[i])])
    \o EncodeRange([i \in DOMAIN outs |-> EncodeTxout(outs[i])])
    \o (IF segwit THEN FlattenSeq([i \in DOMAIN ins |-> EncodeWitness(ins[i])])
                  ELSE << >>)
    \o <<locktime>>

(* SHA256d has no collisions; all zeros is the hash of nothing.             *)
Hash(bytes) == bytes
ZeroHash == << >>

(* Fault: the wtxid is computed without the witness. *)
TransactionStripped(version, ins, outs, locktime) ==
  LET hash == Hash(EncodeTxData(version, ins, outs, locktime, FALSE)) IN
  [version |-> version, ins |-> ins, outs |-> outs, locktime |-> locktime,
   isSegwit |-> AnyWitness(ins), hash |-> hash, witnessHash |-> hash]

(* transaction::implementation: the fields and what is computed from them   *)
(* once, when the transaction is made.                                      *)
Transaction(version, ins, outs, locktime) ==
  [version |-> version, ins |-> ins, outs |-> outs, locktime |-> locktime,
   isSegwit |-> AnyWitness(ins),
   hash |-> Hash(EncodeTxData(version, ins, outs, locktime, FALSE)),
   witnessHash |-> Hash(EncodeTxData(version, ins, outs, locktime, AnyWitness(ins)))]

Transactions ==
  [version : Nat, ins : Seq(Inputs), outs : Seq(Outputs), locktime : Nat,
   isSegwit : BOOLEAN, hash : Symbols, witnessHash : Symbols]

(* Transactions that are as this constructor makes them. *)
Made(x) ==
  /\ x.version \in Nat /\ x.ins \in Seq(Inputs) /\ x.outs \in Seq(Outputs)
  /\ x.locktime \in Nat
  /\ x = Transaction(x.version, x.ins, x.outs, x.locktime)
AllMade(list) == list \in Seq(Transactions) /\ \A i \in 1 .. Len(list) : Made(list[i])

(* transaction() = default: nothing is computed. *)
DefaultTransaction ==
  [version |-> 0, ins |-> << >>, outs |-> << >>, locktime |-> 0,
   isSegwit |-> FALSE, hash |-> ZeroHash, witnessHash |-> ZeroHash]

EncodeTx(tx) ==
  EncodeTxData(tx.version, tx.ins, tx.outs, tx.locktime, tx.isSegwit)

Block(header, txs) == [header |-> header, txs |-> txs]

EncodeBlock(b) ==
  <<b.header>> \o EncodeRange([i \in DOMAIN b.txs |-> EncodeTx(b.txs[i])])
=============================================================================
