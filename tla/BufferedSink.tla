---------------------------- MODULE BufferedSink ----------------------------
(***************************************************************************)
(* serialize(x, sink) (src/serdes_encode.cpp): the encoder hands the bytes *)
(* of an encoding, in chunks, to a buffered_sink on the stack, which       *)
(* writes full buffers to the caller's sink and the rest from its          *)
(* destructor.  The caller's sink may throw at any write, after having     *)
(* taken any part of it; the destructor then runs during unwinding.        *)
(*                                                                         *)
(* A byte is its position in the encoding, so that what the sink received  *)
(* can be compared with what it should have.                               *)
(***************************************************************************)
EXTENDS Integers, Sequences

CONSTANTS
  BufferSize,   \* 512 for transactions and blocks, 80 for headers
  Total         \* the length of the encoding

ASSUME SizeAssumption == BufferSize \in Nat \ {0} /\ Total \in Nat

VARIABLES
  pc,          \* where the call is
  encoded,     \* how many bytes the encoder has passed to write()
  bytes,       \* what write() still has to copy of its argument
  buffer,      \* _buffer: BufferSize bytes
  pos,         \* _pos
  unwinding,   \* an exception is in flight
  received     \* everything the caller's sink took, in order

vars == <<pc, encoded, bytes, buffer, pos, unwinding, received>>

Stretch(a, b) == [i \in 1 .. b - a |-> a + i]   \* bytes a+1 .. b of the encoding
Pending == SubSeq(buffer, 1, pos)

Init ==
  /\ pc = "encode" /\ encoded = 0 /\ bytes = << >>
  /\ buffer = [i \in 1 .. BufferSize |-> 0]      \* zero-initialised
  /\ pos = 0 /\ unwinding = FALSE /\ received = << >>

(* The encoder calls write() with its next bytes: a field, a script, ... *)
Write(n) ==
  /\ pc = "encode" /\ encoded + n <= Total
  /\ bytes' = Stretch(encoded, encoded + n)
  /\ encoded' = encoded + n
  /\ pc' = IF n = 0 THEN "encode" ELSE "copy"
  /\ UNCHANGED <<buffer, pos, unwinding, received>>

(* std::memcpy into the buffer *)
CopyBytes(n) ==
  buffer' = [i \in 1 .. BufferSize |->
               IF i \in pos + 1 .. pos + n THEN bytes[i - pos] ELSE buffer[i]]

(* Faults in the loop: bytes is not advanced; only what fits as a whole is  *)
(* copied.                                                                  *)
CopyAgain ==
  LET n == IF Len(bytes) < BufferSize - pos THEN Len(bytes) ELSE BufferSize - pos IN
  /\ pc = "copy" /\ CopyBytes(n)
  /\ pos' = pos + n
  /\ pc' = IF pos + n = BufferSize THEN "flush" ELSE "encode"
  /\ UNCHANGED <<encoded, bytes, unwinding, received>>

CopyWhole ==
  LET n == IF Len(bytes) <= BufferSize - pos THEN Len(bytes) ELSE 0 IN
  /\ pc = "copy" /\ CopyBytes(n)
  /\ pos' = pos + n
  /\ bytes' = SubSeq(bytes, n + 1, Len(bytes))
  /\ pc' = IF pos + n = BufferSize \/ n = 0 THEN "flush" ELSE "encode"
  /\ UNCHANGED <<encoded, unwinding, received>>

(* One turn of the loop in write(), up to the write of a full buffer. *)
Copy ==
  LET room == BufferSize - pos
      n == IF Len(bytes) < room THEN Len(bytes) ELSE room
      full == pos + n = BufferSize
  IN
  /\ pc = "copy" /\ CopyBytes(n)
  /\ pos' = pos + n
  /\ bytes' = SubSeq(bytes, n + 1, Len(bytes))
  /\ pc' = IF full THEN "flush" ELSE "encode"
  /\ UNCHANGED <<encoded, unwinding, received>>

(* Fault: _pos is not reset. *)
FlushKeepsPos ==
  /\ pc = "flush"
  /\ received' = received \o Pending
  /\ pc' = IF bytes = << >> THEN "encode" ELSE "copy"
  /\ UNCHANGED <<encoded, bytes, buffer, pos, unwinding>>

(* _sink.write(_buffer) returns. *)
Flush ==
  /\ pc = "flush"
  /\ received' = received \o Pending
  /\ pos' = 0
  /\ pc' = IF bytes = << >> THEN "encode" ELSE "copy"
  /\ UNCHANGED <<encoded, bytes, buffer, unwinding>>

(* It throws, having taken k bytes; _pos keeps its value. *)
FlushThrows(k) ==
  /\ pc = "flush" /\ k <= pos
  /\ received' = received \o SubSeq(buffer, 1, k)
  /\ unwinding' = TRUE
  /\ pc' = "destroy"
  /\ UNCHANGED <<encoded, bytes, buffer, pos>>

(* The encoder is done and the buffered_sink goes out of scope. *)
Encoded ==
  /\ pc = "encode" /\ encoded = Total
  /\ pc' = "destroy"
  /\ UNCHANGED <<encoded, bytes, buffer, pos, unwinding, received>>

(* Fault: what is left in the buffer is not written. *)
DestroyDiscards ==
  /\ pc = "destroy"
  /\ pc' = IF unwinding THEN "thrown" ELSE "returned"
  /\ UNCHANGED <<encoded, bytes, buffer, pos, unwinding, received>>

(* ~buffered_sink() noexcept(false) *)
Destroy ==
  /\ pc = "destroy"
  /\ \/ /\ pos > 0
        /\ received' = received \o Pending
     \/ pos = 0 /\ UNCHANGED received
  /\ pc' = IF unwinding THEN "thrown" ELSE "returned"
  /\ UNCHANGED <<encoded, bytes, buffer, pos, unwinding>>

(* Its write throws: out of serialize(), or, while another exception is     *)
(* being handled, into std::terminate.                                      *)
DestroyThrows(k) ==
  /\ pc = "destroy" /\ pos > 0 /\ k <= pos
  /\ received' = received \o SubSeq(buffer, 1, k)
  /\ pc' = IF unwinding THEN "terminated" ELSE "thrown"
  /\ UNCHANGED <<encoded, bytes, buffer, pos, unwinding>>

Over == pc \in {"returned", "thrown", "terminated"} /\ UNCHANGED vars

Next ==
  \/ \E n \in 0 .. Total : Write(n)
  \/ Copy
  \/ Flush
  \/ \E k \in 0 .. BufferSize : FlushThrows(k)
  \/ Encoded
  \/ Destroy
  \/ \E k \in 0 .. BufferSize : DestroyThrows(k)
  \/ Over

Spec == Init /\ [][Next]_vars

(* The encoder makes a write() call of at least one byte, or returns, and   *)
(* every step of a call is followed by the next.                            *)
Step == \/ \E n \in 1 .. Total : Write(n)
        \/ Copy \/ Flush \/ Encoded \/ Destroy
        \/ \E k \in 0 .. BufferSize : FlushThrows(k) \/ DestroyThrows(k)

FairSpec == Spec /\ WF_vars(Step)

-----------------------------------------------------------------------------

TypeOK ==
  /\ pc \in {"encode", "copy", "flush", "destroy", "returned", "thrown", "terminated"}
  /\ encoded \in 0 .. Total /\ pos \in 0 .. BufferSize
  /\ bytes \in Seq(1 .. Total) /\ received \in Seq(1 .. Total)
  /\ buffer \in [1 .. BufferSize -> 0 .. Total]
  /\ unwinding \in BOOLEAN

(* As long as nothing was thrown, what the sink received, what is buffered  *)
(* and what write() has still to copy are, in this order, exactly the bytes *)
(* encoded so far: none lost, none twice, none out of place.                *)
InOrder ==
  pc \in {"encode", "copy", "flush"} => received \o Pending \o bytes = Stretch(0, encoded)

(* serialize() returns normally only when the sink has the whole encoding   *)
(* and nothing else.                                                        *)
CompleteOnReturn == pc = "returned" => received = Stretch(0, Total)

(* An exception thrown from the destructor's own write has left a proper    *)
(* prefix or the whole encoding; one thrown from write() may be followed by *)
(* bytes the sink had already taken, because the destructor writes the      *)
(* buffer again: up to BufferSize of them, contiguous, and the first of     *)
(* them belongs where the failed write began.                               *)
Prefix(s) == s = Stretch(0, Len(s))
AfterThrow ==
  pc \in {"thrown", "terminated"} =>
    \/ ~unwinding /\ Prefix(received)
    \/ \E a, b \in 0 .. Len(received) :
         /\ unwinding /\ a <= b /\ b - a <= BufferSize
         /\ Prefix(SubSeq(received, 1, b))
         /\ \E c \in a .. a + BufferSize :
              SubSeq(received, b + 1, Len(received)) = Stretch(a, c)
         /\ a % BufferSize = 0

(* The loop in write() ends, whatever the sizes: serialize() returns, or    *)
(* throws, or the program terminates.                                       *)
Ends == <>(pc \in {"returned", "thrown", "terminated"})

=============================================================================
