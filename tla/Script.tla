------------------------------- MODULE Script -------------------------------
(***************************************************************************)
(* bitcoin::script, which is built by appending, and one                   *)
(* instruction_view::iterator over it (src/script.cpp).                    *)
(*                                                                         *)
(* A caller may iterate at any time.  An iterator points into the script's *)
(* vector, so it is gone when the script changes.  A caller may append a   *)
(* script to itself, or push a part of a script onto the same script: then *)
(* the bytes to be pushed may move while they are in use.                  *)
(***************************************************************************)
EXTENDS Instruction

CONSTANTS
  Given,      \* the bytes a script may be constructed from
  Code, Data, Number, Suffix,   \* what callers append
  Garbage,    \* the bytes freed memory may hold
  MaxLength,  \* scripts that are longer are not appended to
  None,       \* no iterator
  Unknown     \* what was meant by bytes nobody appended

ASSUME ScriptAssumption ==
  /\ Given \subseteq Seq(Byte) /\ Data \subseteq Seq(Byte) /\ Suffix \subseteq Seq(Byte)
  /\ Code \subseteq Byte /\ Number \subseteq Int64 /\ Garbage \subseteq Byte
  /\ MaxLength \in Nat

VARIABLES
  bytes,   \* script::_bytes
  it,      \* an iterator over instructions(script), or None
  meant,   \* what the caller has appended, or Unknown
  torn,    \* bytes were pushed after they had moved
  seen     \* the instructions the iterator has passed

vars == <<bytes, it, meant, torn, seen>>

-----------------------------------------------------------------------------
(* instruction_view::iterator *)

AtEnd(remaining) ==
  [remaining |-> remaining, current |-> NoInstruction, size |-> 0, atEnd |-> TRUE]

ReadNext(remaining) ==
  LET p == Parse(remaining) IN
  IF ~p.valid THEN AtEnd(remaining)
  ELSE [remaining |-> remaining, current |-> p.value, size |-> p.size, atEnd |-> FALSE]

Begin ==
  /\ it = None
  /\ it' = ReadNext(bytes) /\ seen' = << >>
  /\ UNCHANGED <<bytes, meant, torn>>

(* operator++, both forms *)
Increment ==
  /\ it # None
  /\ IF it.atEnd THEN UNCHANGED <<it, seen>>
     ELSE /\ it' = ReadNext(After(it.remaining, it.size))
          /\ seen' = Append(seen, it.current)
  /\ UNCHANGED <<bytes, meant, torn>>

-----------------------------------------------------------------------------
(* script *)

Init ==
  /\ bytes \in Given
  /\ meant = IF bytes = << >> THEN << >> ELSE Unknown
  /\ it = None /\ torn = FALSE /\ seen = << >>

Changed(b) == bytes' = b /\ it' = None /\ seen' = << >>
Means(item) == meant' = IF meant = Unknown THEN Unknown ELSE Append(meant, item)

(* The byte alone: a caller who appends an opcode that takes immediate bytes *)
(* has to append these himself.                                             *)
AppendOpcode(code) ==
  /\ Changed(Append(bytes, code))
  /\ IF code \in 1 .. PushData4 THEN meant' = Unknown
     ELSE Means([kind |-> "opcode", is |-> code])
  /\ UNCHANGED torn

AppendData(data) ==
  /\ Changed(bytes \o PushPrefix(Len(data)) \o data)
  /\ Means([kind |-> "data", is |-> data])
  /\ UNCHANGED torn

(* The prefix is written first.  If the vector grows then, the view is left *)
(* pointing at freed memory.                                                *)
AppendOwnData(from, to) ==
  LET data == SubSeq(bytes, from, to) IN
  /\ \/ Changed(bytes \o PushPrefix(Len(data)) \o data) /\ UNCHANGED torn
     \/ \E g \in Garbage :
          /\ Changed(bytes \o PushPrefix(Len(data)) \o [i \in DOMAIN data |-> g])
          /\ torn' = TRUE
  /\ Means([kind |-> "data", is |-> data])

AppendNumber(v) ==
  LET s == SerializeScriptNumber(v) IN
  /\ Changed(IF v = -1 THEN Append(bytes, Op1Negate)
             ELSE IF v \in 0 .. MaxSmall THEN Append(bytes, EncodeSmallInteger(v))
             ELSE bytes \o PushPrefix(Len(s)) \o s)
  /\ Means([kind |-> "number", is |-> v])
  /\ UNCHANGED torn

AppendScript(suffix) ==
  /\ Changed(bytes \o suffix)
  /\ meant' = IF suffix = bytes /\ meant # Unknown THEN meant \o meant
              ELSE IF suffix = << >> THEN meant ELSE Unknown
  /\ UNCHANGED torn

Clear ==
  /\ Changed(<< >>)
  /\ meant' = << >> /\ torn' = FALSE

Next ==
  \/ Begin
  \/ Increment
  \/ /\ Len(bytes) <= MaxLength
     /\ \/ \E code \in Code : AppendOpcode(code)
        \/ \E data \in Data : AppendData(data)
        \/ \E from, to \in DOMAIN bytes : from <= to /\ AppendOwnData(from, to)
        \/ \E v \in Number : AppendNumber(v)
        \/ \E suffix \in Suffix \cup {bytes} : AppendScript(suffix)
        \/ Clear

Spec == Init /\ [][Next]_vars

-----------------------------------------------------------------------------

(* The iterator's instruction is one the instruction constructor accepts,   *)
(* whatever the bytes, and its size lies within what remains.               *)
TypeOK ==
  /\ bytes \in Seq(Byte) /\ torn \in BOOLEAN
  /\ it # None =>
       /\ it.remaining \in Seq(Byte) /\ it.atEnd \in BOOLEAN
       /\ HasValidImmediate(it.current)
       /\ it.size <= Len(it.remaining)
  /\ \A i \in DOMAIN seen : HasValidImmediate(seen[i])

(* The bytes of an instruction: opcode, length, immediate bytes. *)
Encoding(i) ==
  <<i.code>> \o ToLittleEndian(Len(i.immediate), LengthWidth(i.code)) \o i.immediate

(* Whatever the bytes, what an iterator has passed and what it still has    *)
(* before it are the script: it skips nothing and reads nothing twice.      *)
Partition ==
  it # None =>
    FlattenSeq([i \in DOMAIN seen |-> Encoding(seen[i])]) \o it.remaining = bytes

(* An iterator stops silently at a malformed instruction; the predicates do *)
(* not.  A caller who has iterated to the end knows what they say: the      *)
(* script is well formed if nothing remains, and the predicates speak of    *)
(* exactly the instructions that were seen.                                 *)
PredicatesAgree ==
  it # None /\ it.atEnd =>
    LET whole == it.remaining = << >> IN
    /\ IsWellFormed(bytes) <=> whole
    /\ IsPushOnly(bytes) <=> whole /\ \A i \in DOMAIN seen : seen[i].code <= Op16
    /\ HasValidOpcodes(bytes) <=>
         /\ whole
         /\ \A i \in DOMAIN seen : seen[i].code <= OpCheckSigAdd
                                    /\ Len(seen[i].immediate) <= ElementLimit

(* Bitcoin's script numbers: little endian, the sign in the highest bit.    *)
LittleEndian[s \in Seq(Byte)] ==
  IF s = << >> THEN 0 ELSE Head(s) + Radix * LittleEndian[Tail(s)]
ScriptNumber(s) ==
  IF s = << >> THEN 0
  ELSE IF Last(s) >= SignBit THEN -LittleEndian[Append(Front(s), Last(s) - SignBit)]
  ELSE LittleEndian[s]
NumberOf(i) ==
  IF i.code = Op1Negate THEN -1
  ELSE IF IsSmallInteger(i.code) THEN DecodeSmallInteger(i.code)
  ELSE ScriptNumber(i.immediate)

(* No byte could be left out: the last holds more than the sign, or the bit *)
(* below it is taken.                                                       *)
Minimal(s) ==
  s # << >> => \/ Last(s) \notin {0, SignBit}
               \/ Len(s) > 1 /\ s[Len(s) - 1] >= SignBit

(* The instruction reads as what was appended, in its shortest form. *)
Reads(i, item) ==
  CASE item.kind = "opcode" -> i = [code |-> item.is, immediate |-> << >>]
    [] item.kind = "data" -> /\ i.immediate = item.is /\ i.code <= PushData4
                             /\ \A c \in 0 .. i.code - 1 :
                                  ~HasValidImmediate([i EXCEPT !.code = c])
    [] item.kind = "number" -> NumberOf(i) = item.is /\ Minimal(i.immediate)
ReadsAs(instructions, items) ==
  /\ Len(instructions) = Len(items)
  /\ \A i \in DOMAIN items : Reads(instructions[i], items[i])

(* A script that was built by appending is well formed, and iterating over  *)
(* it gives back every opcode, datum and number, in order and in its        *)
(* shortest form, if no datum was a view of the script itself.              *)
ReadsBack ==
  meant # Unknown /\ it # None /\ it.atEnd /\ ~torn =>
    it.remaining = << >> /\ ReadsAs(seen, meant)

(* The same of whatever was appended, as spec/SCRIPT.md has it. *)
AppendsData ==
  meant # Unknown /\ it # None /\ it.atEnd => ReadsAs(seen, meant)

(* The templates are told apart: P2WSH and P2TR are the witness programs of *)
(* versions 0 and 1 with 32 bytes, a P2SH script is none, and every witness *)
(* program is two pushes, a small integer and the program, and spendable.   *)
Templates ==
  LET w == WitnessProgram(bytes) IN
  /\ IsPayToWitnessScriptHash(bytes) <=> w.version = 0 /\ Len(w.program) = ScriptHash
  /\ IsPayToTaproot(bytes) <=> w.version = 1 /\ Len(w.program) = ScriptHash
  /\ IsPayToScriptHash(bytes) =>
       w = NoProgram /\ IsWellFormed(bytes) /\ ~IsPushOnly(bytes) /\ ~IsUnspendable(bytes)
  /\ w # NoProgram =>
       /\ w.version \in 0 .. MaxSmall /\ Len(w.program) \in MinProgram .. MaxProgram
       /\ IsPushOnly(bytes) /\ HasValidOpcodes(bytes) /\ ~IsUnspendable(bytes)
       /\ Walk[bytes].list = <<[code |-> EncodeSmallInteger(w.version), immediate |-> << >>],
                               [code |-> Len(w.program), immediate |-> w.program]>>
=============================================================================
