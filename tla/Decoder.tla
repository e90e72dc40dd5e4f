------------------------------ MODULE Decoder ------------------------------
(***************************************************************************)
(* parse_block_header, parse_transaction and parse_block                   *)
(* (src/serdes_decode.cpp) on any input: one action per field, count or    *)
(* element the decoder reads.  The input is either what serialize() wrote  *)
(* for an object of Given, or unknown; an unknown input is chosen as it is *)
(* read, so that every input of up to MaxLength symbols is covered.        *)
(*                                                                         *)
(* A failure is remembered and decoding goes on: from then on every field  *)
(* is read as zero, the loops end after the element they are at, and the   *)
(* object that comes of it is thrown away at the end.                      *)
(***************************************************************************)
EXTENDS Wire

CONSTANTS
  Byte,        \* the symbols an input is made of: 0 .. n
  Kind,        \* what is parsed: some of "header", "tx", "block"
  Given,       \* objects whose encoding is parsed: records kind, object
  None,        \* no object
  Batch,       \* MAX_VECTOR_ALLOCATE / sizeof(value_type)
  MaxLength    \* the longest unknown input

Kinds == {"header", "tx", "block"}

ASSUME DecoderAssumption ==
  /\ Byte \subseteq Nat /\ 0 \in Byte /\ Batch \in Nat \ {0} /\ MaxLength \in Nat
  /\ Kind \subseteq Kinds
  /\ \A g \in Given : g.kind \in Kinds

VARIABLES
  given,    \* what the input is the encoding of, or None
  kind,     \* which parser runs
  taken,    \* the fields and elements read so far
  failed,   \* decoder::_failed
  pc,       \* what is read next
  header,   \* the header of a block
  outer,    \* decode_range(r, decode_tx)
  txs,      \* the transactions it has decoded
  tx,       \* the locals of decode_tx
  range,    \* the decode_range over inputs, outputs or witness items
  result    \* std::nullopt (None) until, and unless, the parse succeeds

vars == <<given, kind, taken, failed, pc, header, outer, txs, tx, range, result>>

Encode(k, x) == IF k = "header" THEN <<x>> ELSE IF k = "tx" THEN EncodeTx(x)
                ELSE EncodeBlock(x)
HasInputs(k, x) ==
  CASE k = "header" -> TRUE
    [] k = "tx" -> x.ins # << >>
    [] k = "block" -> \A i \in DOMAIN x.txs : x.txs[i].ins # << >>

(* An object as the constructors make it, no count and no field of which is *)
(* beyond the alphabet.                                                     *)
Fits(k, x) ==
  /\ k = "header" => x \in Nat
  /\ k = "tx" => x \in Transactions /\ Made(x)
  /\ k = "block" => x.header \in Nat /\ AllMade(x.txs) /\ x = Block(x.header, x.txs)
  /\ Encode(k, x) \in Seq(Byte)

ASSUME GivenFits ==
  \A g \in Given : HasInputs(g.kind, g.object) => Fits(g.kind, g.object)

Raw == Encode(kind, given)

(* The vector a decode_range fills: the size that was read, the elements it *)
(* has, and the capacity it has reserved.                                   *)
Smaller(a, b) == IF a < b THEN a ELSE b
(* Fault: the whole promised size is reserved. *)
NewRangeReserved(n) == [size |-> n, got |-> 0, cap |-> n]

NewRange(n) == [size |-> n, got |-> 0, cap |-> Smaller(n, Batch)]

(* Fault: the loop counts, and does not ask whether the input has ended.    *)
GoesOnBlindly(r) == r.got < r.size

(* The head of the loop: out.size() < size && r.good() *)
GoesOn(r) == r.got < r.size /\ ~failed'

(* The element behind which the loop ends by its count. *)
AtLast(r) == r.got + 1 = r.size

(* The element is pushed, whatever came of it; and the loop reserves for    *)
(* the next one, if it goes on.                                             *)
Push(r) ==
  LET more == [r EXCEPT !.got = @ + 1] IN
  IF GoesOn(more) /\ more.got = more.cap
    THEN [more EXCEPT !.cap = Smaller(r.size, more.got + Batch)]
    ELSE more

NoTx == [version |-> 0, ins |-> << >>, outs |-> << >>, segwit |-> FALSE, items |-> << >>]

Start(k) == IF k = "tx" THEN "version" ELSE "header"

Init ==
  /\ \/ given = None /\ kind \in Kind
     \/ \E g \in Given : given = g.object /\ kind = g.kind
  /\ taken = << >> /\ failed = FALSE /\ pc = Start(kind) /\ header = 0
  /\ outer = NewRange(0) /\ txs = << >> /\ tx = NoTx /\ range = NewRange(0)
  /\ result = None

-----------------------------------------------------------------------------
(* The source *)

CanTake(s) ==
  /\ given = None => Len(taken) + Len(s) <= MaxLength
  /\ given # None => IsPrefix(taken \o s, Raw)

(* What the decoder may read at pc: a symbol, or a string with its size. *)
Strings == UNION {{<<n>> \o s : s \in [1 .. n -> Byte]} : n \in Byte}
Readable ==
  CASE pc = "in" -> {<<p>> \o s \o <<q>> : p, q \in Byte, s \in Strings}
    [] pc = "out" -> {<<v>> \o s : v \in Byte, s \in Strings}
    [] pc = "item" -> Strings
    [] OTHER -> {<<b>> : b \in Byte}

(* The source is exhausted before the field is, or gives a size that        *)
(* decode_size refuses.                                                     *)
Short == given # None => \A s \in Readable : ~CanTake(s)

(* A field or an element is read, or it is as its fields are when they are  *)
(* not: zero.  What was read of one that is cut off is left out.  Decoding  *)
(* has failed by then, or if what was read is not ok.                       *)
Read(s, zero, ok) ==
  \/ ~failed /\ CanTake(s) /\ taken' = taken \o s /\ failed' = ~ok
  \/ (failed \/ Short) /\ s = zero /\ failed' = TRUE /\ UNCHANGED taken

-----------------------------------------------------------------------------
(* decode_block_header, decode_block *)

Header(b) ==
  /\ pc = "header" /\ Read(<<b>>, <<0>>, TRUE)
  /\ header' = b
  /\ pc' = IF kind = "header" THEN "end" ELSE "txcount"
  /\ UNCHANGED <<given, kind, outer, txs, tx, range, result>>

TxCount(n) ==
  /\ pc = "txcount" /\ Read(<<n>>, <<0>>, TRUE)
  /\ outer' = NewRange(n)
  /\ pc' = IF n = 0 THEN "end" ELSE "version"
  /\ UNCHANGED <<given, kind, header, txs, tx, range, result>>

-----------------------------------------------------------------------------
(* decode_tx *)

Version(b) ==
  /\ pc = "version" /\ Read(<<b>>, <<0>>, TRUE)
  /\ tx' = [NoTx EXCEPT !.version = b]
  /\ pc' = "incount"
  /\ UNCHANGED <<given, kind, header, outer, txs, range, result>>

(* No inputs where the first count stands: the flags of an extended         *)
(* encoding follow.  After the flags a count of 0 is just that.             *)
InCount(n) ==
  /\ pc = "incount" /\ Read(<<n>>, <<0>>, TRUE)
  /\ range' = NewRange(n)
  /\ pc' = IF n > 0 THEN "in" ELSE IF tx.segwit THEN "outcount" ELSE "flags"
  /\ UNCHANGED <<given, kind, header, outer, txs, tx, result>>

(* decode_tx returns; a block's transaction is pushed.                      *)
Return(x) ==
  /\ txs' = Append(txs, x)
  /\ outer' = IF kind = "block" THEN Push(outer) ELSE outer
  /\ pc' = IF kind = "block" /\ GoesOn(outer') THEN "version" ELSE "end"
  /\ tx' = NoTx

(* Flags of more than 1 fail at once; flags of 0 in decode_witness, which   *)
(* finds no input with a witness, and the lock time is still to come.       *)
Flags(b) ==
  /\ pc = "flags" /\ Read(<<b>>, <<0>>, b = 1)
  /\ \/ b = 0 /\ pc' = "locktime" /\ UNCHANGED <<outer, txs, tx>>
     \/ b = 1 /\ pc' = "incount" /\ tx' = [tx EXCEPT !.segwit = TRUE]
              /\ UNCHANGED <<outer, txs>>
     \/ b > 1 /\ Return(DefaultTransaction)
  /\ UNCHANGED <<given, kind, header, range, result>>

Txin(p, s, q) ==
  /\ pc = "in" /\ Read(<<p>> \o s \o <<q>>, <<0, 0, 0>>, TRUE)
  /\ tx' = [tx EXCEPT !.ins = Append(@, Input(p, Tail(s), q, << >>))]
  /\ range' = Push(range)
  /\ pc' = IF GoesOn(range') THEN "in" ELSE "outcount"
  /\ UNCHANGED <<given, kind, header, outer, txs, result>>

(* Where decode_tx goes after the outputs.  decode_witness fails unless     *)
(* some input has a witness, which it has not without inputs.               *)
Witnessable == tx.segwit => tx.ins # << >>
AfterOutputs ==
  pc' = IF tx.segwit /\ tx.ins # << >> THEN "witcount" ELSE "locktime"

OutCount(n) ==
  /\ pc = "outcount" /\ Read(<<n>>, <<0>>, n = 0 => Witnessable)
  /\ range' = NewRange(n)
  /\ IF n = 0 THEN AfterOutputs ELSE pc' = "out"
  /\ UNCHANGED <<given, kind, header, outer, txs, tx, result>>

Txout(v, s) ==
  /\ pc = "out" /\ Read(<<v>> \o s, <<0, 0>>, AtLast(range) => Witnessable)
  /\ tx' = [tx EXCEPT !.outs = Append(@, Output(v, Tail(s)))]
  /\ range' = Push(range)
  /\ IF GoesOn(range') THEN pc' = "out" ELSE AfterOutputs
  /\ UNCHANGED <<given, kind, header, outer, txs, result>>

-----------------------------------------------------------------------------
(* decode_witness: a range of items for every input.  tx.items holds the    *)
(* stacks of the inputs done so far, the current one last.                  *)

WithWitness(ins, items) ==
  [i \in DOMAIN ins |-> [ins[i] EXCEPT !.witness = items[i]]]

(* none_of(in, has_witness), after the stack of the last input *)
SomeWitness(items) ==
  Len(items) = Len(tx.ins) => AnyWitness(WithWitness(tx.ins, items))

(* A stack is complete: the next input's, or the transaction's last field.  *)
Witnessed(items) ==
  IF Len(items) < Len(tx.ins)
    THEN tx' = [tx EXCEPT !.items = items] /\ pc' = "witcount"
    ELSE LET ins == WithWitness(tx.ins, items) IN
         /\ tx' = [tx EXCEPT !.ins = IF AnyWitness(ins) THEN ins ELSE << >>,
                             !.items = << >>]
         /\ pc' = "locktime"

WitnessCount(n) ==
  /\ pc = "witcount"
  /\ range' = NewRange(n)
  /\ LET items == Append(tx.items, << >>) IN
     /\ Read(<<n>>, <<0>>, n = 0 => SomeWitness(items))
     /\ IF n = 0 THEN Witnessed(items)
        ELSE tx' = [tx EXCEPT !.items = items] /\ pc' = "item"
  /\ UNCHANGED <<given, kind, header, outer, txs, result>>

Item(s) ==
  /\ pc = "item"
  /\ LET items == [tx.items EXCEPT ![Len(tx.items)] = Append(@, Tail(s))] IN
     /\ Read(s, <<0>>, AtLast(range) => SomeWitness(items))
     /\ range' = Push(range)
     /\ IF GoesOn(range') THEN tx' = [tx EXCEPT !.items = items] /\ pc' = "item"
        ELSE Witnessed(items)
  /\ UNCHANGED <<given, kind, header, outer, txs, result>>

-----------------------------------------------------------------------------

(* The last field, and the transaction is made.                             *)
Locktime(b) ==
  /\ pc = "locktime" /\ Read(<<b>>, <<0>>, TRUE)
  /\ Return(Transaction(tx.version, tx.ins, tx.outs, b))
  /\ UNCHANGED <<given, kind, header, range, result>>

Object == CASE kind = "header" -> header
            [] kind = "tx" -> txs[1]
            [] kind = "block" -> Block(header, txs)

(* Fault: what was decoded is returned whenever the whole input was read.   *)
EndSourceOnly ==
  /\ pc = "end" /\ pc' = "done"
  /\ \/ (given # None => taken = Raw) /\ result' = Object
     \/ (given # None => taken # Raw) /\ result' = None
  /\ UNCHANGED <<given, kind, taken, failed, header, outer, txs, tx, range>>

(* !dec.good() || !dec.source().empty() *)
End ==
  /\ pc = "end" /\ pc' = "done"
  /\ \/ ~failed /\ (given # None => taken = Raw) /\ result' = Object
     \/ (~failed /\ given # None => taken # Raw) /\ result' = None
  /\ UNCHANGED <<given, kind, taken, failed, header, outer, txs, tx, range>>

Done == pc = "done" /\ UNCHANGED vars

Next ==
  \/ \E b \in Byte :
       \/ Header(b) \/ TxCount(b)
       \/ Version(b) \/ InCount(b) \/ Flags(b) \/ OutCount(b) \/ WitnessCount(b)
       \/ Locktime(b)
  \/ \E p, q \in Byte, s \in Strings : Txin(p, s, q)
  \/ \E v \in Byte, s \in Strings : Txout(v, s)
  \/ \E s \in Strings : Item(s)
  \/ End
  \/ Done

Spec == Init /\ [][Next]_vars

-----------------------------------------------------------------------------

(* What a parser accepts is, symbol for symbol, what serialize() writes for *)
(* the object it returns: no two inputs parse to the same object, nothing   *)
(* in an accepted input is dropped, and no extended encoding is accepted    *)
(* for a transaction that is serialized in the legacy format.               *)
Canonical == result # None => Encode(kind, result) = taken

(* A header, a transaction with at least one input, and a block of such     *)
(* transactions, are parsed back from what serialize() wrote, hashes        *)
(* included.                                                                *)
ParsesBack ==
  pc = "done" /\ given # None /\ HasInputs(kind, given) => result = given

(* Within a block that was parsed, transactions that are equal for the      *)
(* program, which compares their wtxids only, are the same in every field,  *)
(* and those with one txid differ in their witnesses at most.               *)
WithoutWitness(x) ==
  <<x.version, [i \in DOMAIN x.ins |-> [x.ins[i] EXCEPT !.witness = << >>]],
    x.outs, x.locktime>>
EqualAreSame ==
  kind = "block" /\ result # None =>
    \A i, j \in DOMAIN result.txs :
      LET x == result.txs[i]
          y == result.txs[j] IN
      /\ x.witnessHash = y.witnessHash => x = y
      /\ x.hash = y.hash <=> WithoutWitness(x) = WithoutWitness(y)

(* A count that promises more elements than the input has reserves at most  *)
(* one batch beyond the elements that were really there.                    *)
ReservesByBatch ==
  \A r \in {outer, range} : r.got <= r.cap /\ r.cap <= r.got + Batch

(* An input that ends, or turns out to be malformed, inside nested ranges   *)
(* stops every loop at the element it is at, whatever the counts promised:  *)
(* nothing more is read, reserved or made, and nothing of it is returned.   *)
StopsOnFailure ==
  [][/\ failed' => range'.cap <= range.cap /\ outer'.cap <= outer.cap
     /\ failed => /\ taken' = taken /\ result' = None
                  /\ range'.got <= range.got
                  /\ txs' # txs => pc' = "end"]_vars

(* Everything serialize() writes is the complete encoding of one object and *)
(* is parsed as such (spec/SERDES.md), whatever the object.                 *)
EverythingParsesBack == pc = "done" /\ given # None => result # None
=============================================================================
