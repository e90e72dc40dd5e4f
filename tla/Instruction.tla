---------------------------- MODULE Instruction ----------------------------
(***************************************************************************)
(* Script bytes (module/bitcoin.script.cpp, src/script.cpp): how one       *)
(* instruction is read and written, script numbers, and the predicates.    *)
(*                                                                         *)
(* The widths are parameters, so that small instances can be explored      *)
(* whole.  In the code a byte has Radix = 256 values, op_pushdata1 is 76,  *)
(* the small integers go up to 16, a number has WordBytes = 8 bytes, and   *)
(* the longer lengths are of 1, 2 and 4 bytes.                             *)
(***************************************************************************)
EXTENDS Integers, Sequences, SequencesExt

CONSTANTS
  Radix,           \* the number of values of a byte, even
  PushData1,       \* the first opcode that is not a length
  MaxSmall,        \* the greatest small integer: 16
  WordBytes,       \* the bytes of an append_number argument: 8
  OpReturn, OpHash160, OpEqual, OpCheckSigAdd,
  ScriptLimit,     \* script_size_limit: 10000
  ElementLimit,    \* script_element_size_limit: 520
  MinProgram, MaxProgram,   \* 2 and 40
  KeyHash, ScriptHash       \* 20 and 32

PushData2 == PushData1 + 1
PushData4 == PushData1 + 2
Op1Negate == PushData1 + 3
Op1 == PushData1 + 5
Op16 == Op1 + MaxSmall - 1

(* What is true of the numbers in the code. *)
ASSUME LayoutAssumption ==
  /\ {Radix, PushData1, MaxSmall, WordBytes, ScriptLimit, ElementLimit} \subseteq Nat \ {0}
  /\ {OpCheckSigAdd, MinProgram, MaxProgram, KeyHash, ScriptHash} \subseteq Nat
  /\ Radix % 2 = 0
  /\ {OpReturn, OpHash160, OpEqual} \subseteq Op16 + 1 .. OpCheckSigAdd
  /\ OpReturn # OpHash160 /\ OpCheckSigAdd < Radix
  /\ MinProgram <= KeyHash /\ KeyHash < ScriptHash /\ ScriptHash <= MaxProgram
  /\ MaxProgram < PushData1 /\ WordBytes + 1 < PushData1
  /\ MaxProgram + 2 <= ScriptLimit /\ MaxProgram <= ElementLimit

Byte == 0 .. Radix - 1

-----------------------------------------------------------------------------
(* Lengths *)

(* How many numbers k bytes hold. *)
Power[k \in Nat] == IF k = 0 THEN 1 ELSE Radix * Power[k - 1]

ToLittleEndian(n, width) == [i \in 1 .. width |-> (n \div Power[i - 1]) % Radix]

(* A byte, read_le16, read_le32 *)
ReadLength(s) ==
  CASE Len(s) = 1 -> s[1]
    [] Len(s) = 2 -> s[1] + Radix * s[2]
    [] Len(s) = 4 -> s[1] + Radix * (s[2] + Radix * (s[3] + Radix * s[4]))
    [] OTHER -> 0

(* The bytes of the length that follows an opcode. *)
LengthWidth(code) ==
  CASE code = PushData1 -> 1
    [] code = PushData2 -> 2
    [] code = PushData4 -> 4
    [] OTHER -> 0

(* Fault: 255 bytes are pushed with a two-byte length. *)
PushPrefixLonger(size) ==
  CASE size < PushData1 -> <<size>>
    [] size \in PushData1 .. Radix - 2 -> <<PushData1, size>>
    [] size \in Radix - 1 .. Power[2] - 1 -> <<PushData2>> \o ToLittleEndian(size, 2)
    [] size >= Power[2] -> <<PushData4>> \o ToLittleEndian(size, 4)

PushPrefix(size) ==
  CASE size < PushData1 -> <<size>>
    [] size \in PushData1 .. Radix - 1 -> <<PushData1, size>>
    [] size \in Radix .. Power[2] - 1 -> <<PushData2>> \o ToLittleEndian(size, 2)
    [] size >= Power[2] -> <<PushData4>> \o ToLittleEndian(size, 4)

-----------------------------------------------------------------------------
(* parse_instruction *)

NoInstruction == [code |-> 0, immediate |-> << >>]
Invalid == [value |-> NoInstruction, size |-> 0, valid |-> FALSE]

(* The bytes before the immediate bytes, and the number of these. *)
Header(b) == 1 + LengthWidth(b[1])
Payload(b) == IF b[1] < PushData1 THEN b[1] ELSE ReadLength(SubSeq(b, 2, Header(b)))

Complete(b) ==
  b # << >> /\ Len(b) >= Header(b) /\ Len(b) >= Header(b) + Payload(b)

Decoded(b) ==
  [code |-> b[1], immediate |-> SubSeq(b, Header(b) + 1, Header(b) + Payload(b))]

(* Fault: the size of the instruction leaves out the bytes of the length. *)
ParseForgetsLength(b) ==
  IF Complete(b) THEN [value |-> Decoded(b), size |-> 1 + Payload(b), valid |-> TRUE]
  ELSE Invalid

(* Fault: a push that is cut off is read as far as it goes. *)
ParseTruncated(b) ==
  IF b = << >> \/ Len(b) < Header(b) THEN Invalid
  ELSE LET size == IF Complete(b) THEN Header(b) + Payload(b) ELSE Len(b) IN
       [value |-> [code |-> b[1], immediate |-> SubSeq(b, Header(b) + 1, size)],
        size |-> size, valid |-> TRUE]

Parse(b) ==
  IF Complete(b)
    THEN [value |-> Decoded(b), size |-> Header(b) + Payload(b), valid |-> TRUE]
    ELSE Invalid

After(b, n) == SubSeq(b, n + 1, Len(b))

(* instruction::_has_valid_immediate, asserted by the constructor. *)
HasValidImmediate(i) ==
  LET size == Len(i.immediate) IN
  IF i.code < PushData1 THEN size = i.code ELSE size < Power[LengthWidth(i.code)]

-----------------------------------------------------------------------------
(* Numbers *)

Word == Power[WordBytes]
Int64 == -(Word \div 2) .. Word \div 2 - 1

(* ~uint64(v) + 1, which is -v also for the least v. *)
Magnitude(v) == IF v < 0 THEN (Word - (v % Word)) % Word ELSE v

Digits(n) ==
  LET width == CHOOSE k \in 0 .. WordBytes : n < Power[k] /\ (k > 0 => n >= Power[k - 1])
  IN ToLittleEndian(n, width)

SignBit == Radix \div 2

SerializeScriptNumber(v) ==
  IF v = 0 THEN << >>
  ELSE LET s == Digits(Magnitude(v)) IN
       IF Last(s) >= SignBit THEN Append(s, IF v < 0 THEN SignBit ELSE 0)
       ELSE IF v < 0 THEN Append(Front(s), Last(s) + SignBit) ELSE s

IsSmallInteger(code) == code = 0 \/ code \in Op1 .. Op16
DecodeSmallInteger(code) == IF code = 0 THEN 0 ELSE code - Op1 + 1
EncodeSmallInteger(n) == IF n = 0 THEN 0 ELSE Op1 + n - 1

-----------------------------------------------------------------------------
(* Predicates.  Walk is the loop they share: the instructions up to the     *)
(* first that is not valid, and the bytes that remain there.                *)

Walk[b \in Seq(Byte)] ==
  LET p == Parse(b) IN
  IF p.valid THEN LET w == Walk[After(b, p.size)] IN
                  [list |-> <<p.value>> \o w.list, rest |-> w.rest]
  ELSE [list |-> << >>, rest |-> b]

IsWellFormed(b) == Walk[b].rest = << >>

HasValidOpcodes(b) ==
  /\ IsWellFormed(b)
  /\ \A i \in DOMAIN Walk[b].list :
       /\ Walk[b].list[i].code <= OpCheckSigAdd
       /\ Len(Walk[b].list[i].immediate) <= ElementLimit

(* Fault: what follows a truncated instruction is not looked at. *)
IsPushOnlyBestEffort(b) ==
  \A i \in DOMAIN Walk[b].list : Walk[b].list[i].code <= Op16

IsPushOnly(b) ==
  /\ IsWellFormed(b)
  /\ \A i \in DOMAIN Walk[b].list : Walk[b].list[i].code <= Op16

IsUnspendable(b) == (b # << >> /\ b[1] = OpReturn) \/ Len(b) > ScriptLimit

NoProgram == [version |-> -1, program |-> << >>]

(* Fault: trailing bytes are ignored. *)
WitnessProgramPrefix(b) ==
  IF /\ Len(b) \in MinProgram + 2 .. MaxProgram + 2
     /\ IsSmallInteger(b[1])
     /\ b[2] \in MinProgram .. MaxProgram
     /\ Len(b) >= b[2] + 2
  THEN [version |-> DecodeSmallInteger(b[1]), program |-> SubSeq(b, 3, b[2] + 2)]
  ELSE NoProgram

WitnessProgram(b) ==
  IF /\ Len(b) \in MinProgram + 2 .. MaxProgram + 2
     /\ IsSmallInteger(b[1])
     /\ b[2] \in MinProgram .. MaxProgram
     /\ Len(b) = b[2] + 2
  THEN [version |-> DecodeSmallInteger(b[1]), program |-> SubSeq(b, 3, b[2] + 2)]
  ELSE NoProgram

IsPayToScriptHash(b) ==
  /\ Len(b) = KeyHash + 3
  /\ b[1] = OpHash160 /\ b[2] = KeyHash /\ b[KeyHash + 3] = OpEqual

IsPayToWitnessScriptHash(b) ==
  Len(b) = ScriptHash + 2 /\ b[1] = 0 /\ b[2] = ScriptHash

IsPayToTaproot(b) ==
  Len(b) = ScriptHash + 2 /\ b[1] = Op1 /\ b[2] = ScriptHash
=============================================================================
