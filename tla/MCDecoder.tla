----------------------------- MODULE MCDecoder -----------------------------
EXTENDS Decoder

(* Objects made by the constructors, with and without witnesses. *)
Plain == Input(1, <<0>>, 0, << >>)
Stack == Input(0, << >>, 1, << <<1, 0>>, << >> >>)
Empty == Input(0, << >>, 0, << << >> >>)
Bare == Input(0, << >>, 0, << >>)     \* Empty without its witness
Pay == Output(1, <<1>>)

Spending(outputs) ==
  {Transaction(1, ins, outs, 0) :
     ins \in {<<Plain>>, <<Stack>>, <<Plain, Empty>>, <<Plain, Bare>>,
             <<Stack, Plain>>, <<Empty, Stack>>},
     outs \in outputs}
Txs == Spending({<< >>, <<Pay>>, <<Output(0, << >>), Pay>>})
Blocks == {Block(1, s) : s \in BoundedSeq(Spending({<< >>, <<Pay>>}), 2)}

Serialized == {[kind |-> "header", object |-> 1]}
                \cup {[kind |-> "tx", object |-> x] : x \in Txs}
                \cup {[kind |-> "block", object |-> b] : b \in Blocks}

NoInputs == {[kind |-> "tx", object |-> x] :
               x \in {DefaultTransaction, Transaction(0, << >>, <<Pay>>, 0)}}
=============================================================================
