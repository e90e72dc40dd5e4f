---------------------------- MODULE CompactSize -----------------------------
(***************************************************************************)
(* The sizes in front of scripts, witness items and ranges: encode_size    *)
(* (src/serdes_encode.cpp), and decode_size as decode_bytes uses it        *)
(* (src/serdes_decode.cpp), on a source that delivers one byte at a time   *)
(* and may end after any of them.                                          *)
(*                                                                         *)
(* A byte has the values 0 .. R-1, with R = 256 in the code.  The three    *)
(* tags are the last three byte values, and the numbers behind them have   *)
(* 2, 4 and 8 bytes, as in the code.  Wire and Decoder write a size as a   *)
(* single token; this module is what stands behind that token.             *)
(***************************************************************************)
EXTENDS Integers, Sequences

CONSTANTS
  R,        \* values of a byte
  MaxSize   \* MAX_SIZE: the largest size the longest form may have

(* How many numbers 2, 4 and 8 bytes hold; what a byte counts for in a     *)
(* number, by its place.                                                   *)
TwoBytes == R * R
FourBytes == TwoBytes * TwoBytes
EightBytes == FourBytes * FourBytes
Weight == <<1, R, TwoBytes, TwoBytes * R,
            FourBytes, FourBytes * R, FourBytes * TwoBytes, FourBytes * TwoBytes * R>>

(* In the code MAX_SIZE is 4 000 000, between 2^16 and 2^32. *)
ASSUME CompactSizeAssumption ==
  /\ R \in Nat /\ R >= 4
  /\ MaxSize \in TwoBytes .. FourBytes - 1

VARIABLES
  read,   \* the bytes of the size that were read
  x,      \* the number made of those behind the tag
  pc,     \* what decode_bytes does next, or how it ended
  size,   \* what decode_size has returned
  buffer  \* the bytes decode_bytes has allocated

sizeVars == <<read, x, pc, size, buffer>>

Byte == 0 .. R - 1
Pc == {"tag", "number", "allocate", "content", "done", "refused", "ended"}

(* The number of bytes behind a tag; its lowest and its highest number. *)
Width(tag) == IF tag = R - 3 THEN 2 ELSE IF tag = R - 2 THEN 4 ELSE 8

(* Fault: a form may be one longer than needed at its lower end. *)
LowestOffByOne(tag) ==
  IF tag = R - 3 THEN R - 4 ELSE IF tag = R - 2 THEN TwoBytes - 1 ELSE FourBytes - 1

Lowest(tag) == IF tag = R - 3 THEN R - 3 ELSE IF tag = R - 2 THEN TwoBytes ELSE FourBytes

(* Fault: the longest form is not limited. *)
HighestUnlimited(tag) ==
  IF tag = R - 3 THEN TwoBytes - 1 ELSE IF tag = R - 2 THEN FourBytes - 1
  ELSE EightBytes - 1

(* Fault: the limit is put on every form. *)
HighestLimited(tag) == MaxSize

(* What the type holds, and for the longest form MAX_SIZE. *)
Highest(tag) ==
  IF tag = R - 3 THEN TwoBytes - 1 ELSE IF tag = R - 2 THEN FourBytes - 1 ELSE MaxSize

-----------------------------------------------------------------------------
(* encode_size *)

LittleEndian(v, width) == [i \in 1 .. width |-> (v \div Weight[i]) % R]

TagFor(v) == IF v < TwoBytes THEN R - 3 ELSE IF v < FourBytes THEN R - 2 ELSE R - 1

EncodeSize(v) ==
  IF v < R - 3 THEN <<v>>
  ELSE <<TagFor(v)>> \o LittleEndian(v, Width(TagFor(v)))

-----------------------------------------------------------------------------
(* decode_bytes *)

SizeInit ==
  /\ read = <<>> /\ x = 0 /\ pc = "tag" /\ size = 0 /\ buffer = 0

(* decode_u8, and the form without a number *)
ReadTag ==
  /\ pc = "tag"
  /\ \E tag \in Byte :
       /\ read' = <<tag>>
       /\ IF tag < R - 3 THEN size' = tag /\ pc' = "allocate"
                         ELSE pc' = "number" /\ UNCHANGED size
  /\ UNCHANGED <<x, buffer>>

(* decode_u16, decode_u32, decode_u64 *)
ReadNumber ==
  /\ pc = "number" /\ Len(read) <= Width(Head(read))
  /\ \E b \in Byte :
       /\ read' = Append(read, b)
       /\ x' = x + b * Weight[Len(read)]
  /\ UNCHANGED <<pc, size, buffer>>

(* A number outside of what its form is for makes the decoder fail. *)
CheckNumber ==
  /\ pc = "number" /\ Len(read) > Width(Head(read))
  /\ IF x \in Lowest(Head(read)) .. Highest(Head(read))
       THEN size' = x /\ pc' = "allocate"
       ELSE pc' = "refused" /\ UNCHANGED size
  /\ UNCHANGED <<read, x, buffer>>

(* std::vector<std::byte>(size) *)
Allocate ==
  /\ pc = "allocate"
  /\ buffer' = size
  /\ pc' = IF size = 0 THEN "done" ELSE "content"
  /\ UNCHANGED <<read, x, size>>

(* decoder::read fills the buffer. *)
ReadContent ==
  /\ pc = "content"
  /\ pc' = "done"
  /\ UNCHANGED <<read, x, size, buffer>>

(* decoder::read gets no further byte: the decoder has failed, and what is  *)
(* decoded from the bytes there were is not looked at.                      *)
SourceEnds ==
  /\ pc = "tag" \/ pc = "content" \/ (pc = "number" /\ Len(read) <= Width(Head(read)))
  /\ pc' = "ended"
  /\ UNCHANGED <<read, x, size, buffer>>

SizeNext ==
  ReadTag \/ ReadNumber \/ CheckNumber \/ Allocate \/ ReadContent \/ SourceEnds

SizeSpec == SizeInit /\ [][SizeNext]_sizeVars

-----------------------------------------------------------------------------
(* Properties *)

(* A size is accepted in one form only, the one encode_size writes.         *)
OneForm == pc \in {"allocate", "content", "done"} => read = EncodeSize(size)

(* The sizes below 2^32, whatever MAX_SIZE, come back from what encode_size *)
(* writes for them: what is refused is the encoding of no such size.        *)
NothingLost == pc = "refused" => \A v \in 0 .. FourBytes - 1 : read # EncodeSize(v)

(* Before a byte of the content is read at most 2^32 - 1 are allocated: the *)
(* longest form, whose numbers do not fit in 32 bits, never passes the      *)
(* comparison with MAX_SIZE.                                                *)
AllocatesLess == buffer < FourBytes /\ (size > 0 => Head(read) # R - 1)
=============================================================================
