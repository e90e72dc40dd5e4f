------------------------------ MODULE Verifier ------------------------------
(***************************************************************************)
(* verifier::operator() (module/bitcoin.validation.cpp, src/validate_*.cpp *)
(* and the conversions of src/legacy.cpp), and a node that keeps a chain   *)
(* of headers by it.                                                       *)
(*                                                                         *)
(* The rules themselves are the Bitcoin kernel's, which is not part of the *)
(* repository: a check of the kernel is a predicate on the converted       *)
(* arguments it is given.  Modelled is which checks an overload makes, on  *)
(* what, in which order, and what it answers.                              *)
(***************************************************************************)
EXTENDS Integers, Sequences, FiniteSets, SequencesExt

CONSTANTS
  W,           \* 2^32: the times a header has on the wire are 0 .. W-1
  Time,        \* bound: times of headers and of the clock, in seconds
  MedianSpan,  \* nMedianTimeSpan: how many of the last headers' times count
  MaxHeight    \* bound: headers in the node's chain

ASSUME VerifierAssumption ==
  /\ W \in Nat \ {0} /\ Time \subseteq Int
  /\ MedianSpan \in Nat \ {0} /\ MaxHeight \in Nat \ {0}

VARIABLES
  chain,   \* the headers the node has accepted, from its genesis on
  bodies,  \* bodies[i]: the transactions accepted with header i, or "none"
  now,     \* the clock
  last     \* the last call of the verifier: what it was given, what it did

vars == <<chain, bodies, now, last>>

-----------------------------------------------------------------------------
(* Headers and blocks *)

(* "work": the header's hash meets its bits and the network's limit. *)
Header(p, t, work) == [prev |-> p, time |-> t, work |-> work]

(* Fault: the time is converted without being cut to 32 bits. *)
ConvertUncut(h) == h

(* legacy::convert_header: the kernel's header has 32 bits for the time. *)
ConvertHeader(h) == [h EXCEPT !.time = @ % W]

(* block_hash{h}, of the 80 bytes encode_block_header writes; hashes do not *)
(* collide.                                                                 *)
BlockHash(h) == <<h.prev, h.time % W, h.work>>

Zero == <<>>
Unknown == <<"unknown">>
Parents(c) == {Zero, Unknown} \cup {BlockHash(c[i]) : i \in DOMAIN c}
Headers(c) == {Header(p, t, w) : p \in Parents(c), t \in Time, w \in BOOLEAN}

(* The transactions of a block may break a rule that needs no chain, or one *)
(* that depends on where the block is.                                      *)
Bodies == {"sound", "malformed", "misplaced"}

-----------------------------------------------------------------------------
(* The checks of the kernel, on converted arguments *)

CheckBlockHeader(k) == k.work

(* The time in the middle of those of the last MedianSpan headers.          *)
MedianTimePast(c) ==
  LET recent == {i \in DOMAIN c : i > Len(c) - MedianSpan}
      below(m) == {i \in recent : c[i].time < m}
      upTo(m) == {i \in recent : c[i].time <= m}
      middle == Cardinality(recent) \div 2 IN
  CHOOSE m \in {c[i].time : i \in recent} :
    Cardinality(below(m)) <= middle /\ middle < Cardinality(upTo(m))

(* t is the clock and what a header may be ahead of it.                     *)
ContextualCheckBlockHeader(k, c, t) == k.time > MedianTimePast(c) /\ k.time <= t
CheckBlock(k, body) == k.work /\ body # "malformed"
ContextualCheckBlock(body) == body # "misplaced"

-----------------------------------------------------------------------------
(* The overloads.  An answer is a status and the kernel's checks that were  *)
(* made for it, in order.                                                   *)

Ok == "OK"
NotFound == "parent not found"

(* return result ? validation_status{} : state.GetRejectReason() *)
Verdict(before, check, result) ==
  [status |-> IF result THEN Ok ELSE check, made |-> Append(before, check)]

Without(status) == [status |-> status, made |-> <<>>]

(* verify(header) *)
HeaderAlone(h) ==
  Verdict(<<>>, "CheckBlockHeader", CheckBlockHeader(ConvertHeader(h)))

(* Fault: the parent is looked for at the other end of the chain. *)
ExtendsFront(h, c) == c # <<>> /\ h.prev = BlockHash(Head(c))

(* header.prev_block_hash == block_hash{chain.back()}, of a chain that is   *)
(* not empty                                                                *)
Extends(h, c) == c # <<>> /\ h.prev = BlockHash(Last(c))

Converted(c) == [i \in DOMAIN c |-> ConvertHeader(c[i])]

(* verify(header, chain, now); the call of verify(header) in it is a        *)
(* comment.                                                                 *)
HeaderInChain(h, c, t) ==
  IF ~Extends(h, c) THEN Without(NotFound)
  ELSE Verdict(<<>>, "ContextualCheckBlockHeader",
               ContextualCheckBlockHeader(ConvertHeader(h), Converted(c), t))

(* verify(block) *)
BlockAlone(h, body) ==
  LET first == HeaderAlone(h) IN
  IF first.status # Ok THEN first
  ELSE Verdict(first.made, "CheckBlock", CheckBlock(ConvertHeader(h), body))

(* verify(block, chain, now) *)
BlockInChain(h, body, c, t) ==
  LET first == HeaderInChain(h, c, t) IN
  IF first.status # Ok THEN first
  ELSE Verdict(first.made, "ContextualCheckBlock", ContextualCheckBlock(body))

(* verify(block, chain, now, coins) *)
BlockWithCoins == Without("NOT IMPLEMENTED YET")

-----------------------------------------------------------------------------
(* The node.  It appends a header, or a block, that both the overload for   *)
(* the candidate alone and the one for its place in the chain accept, and   *)
(* it may ask any overload about any candidate.                             *)

(* A call of an overload about a candidate, with the node's chain and clock. *)
Call(overload, h, body, answer) ==
  [overload |-> overload, header |-> h, body |-> body,
   status |-> answer.status, made |-> answer.made]

NoCall == Call("none", Header(Zero, 0, FALSE), "none", Without(Ok))

(* A node that has not been given the genesis header starts with no chain.  *)
Init ==
  /\ \E t \in Time :
       chain \in {<<>>, <<Header(Zero, t, TRUE)>>}
  /\ bodies = [i \in DOMAIN chain |-> "none"]
  /\ now \in Time
  /\ last = NoCall

Ask(h, body) ==
  /\ last = NoCall
  /\ last' \in {Call("header", h, "none", HeaderAlone(h)),
                Call("header in chain", h, "none", HeaderInChain(h, chain, now)),
                Call("block", h, body, BlockAlone(h, body)),
                Call("block in chain", h, body, BlockInChain(h, body, chain, now)),
                Call("block with coins", h, body, BlockWithCoins)}
  /\ UNCHANGED <<chain, bodies, now>>

Returned ==
  /\ last # NoCall
  /\ last' = NoCall
  /\ UNCHANGED <<chain, bodies, now>>

AcceptHeader(h) ==
  /\ last = NoCall
  /\ Len(chain) < MaxHeight
  /\ HeaderAlone(h).status = Ok
  /\ HeaderInChain(h, chain, now).status = Ok
  /\ chain' = Append(chain, h)
  /\ bodies' = Append(bodies, "none")
  /\ UNCHANGED <<now, last>>

AcceptBlock(h, body) ==
  /\ last = NoCall
  /\ Len(chain) < MaxHeight
  /\ BlockAlone(h, body).status = Ok
  /\ BlockInChain(h, body, chain, now).status = Ok
  /\ chain' = Append(chain, h)
  /\ bodies' = Append(bodies, body)
  /\ UNCHANGED <<now, last>>

(* The node goes back to an earlier header, to follow another branch. *)
Rewind ==
  /\ last = NoCall /\ Len(chain) > 1
  /\ chain' = Front(chain)
  /\ bodies' = Front(bodies)
  /\ UNCHANGED <<now, last>>

Tick ==
  /\ last = NoCall
  /\ \E t \in Time : t > now /\ now' = t
  /\ UNCHANGED <<chain, bodies, last>>

Next ==
  \/ \E h \in Headers(chain), body \in Bodies : Ask(h, body)
  \/ Returned
  \/ \E h \in Headers(chain) : AcceptHeader(h)
  \/ \E h \in Headers(chain), body \in Bodies : AcceptBlock(h, body)
  \/ Rewind
  \/ Tick

Spec == Init /\ [][Next]_vars

-----------------------------------------------------------------------------
(* Properties *)

(* What goes over the wire: the header that a peer parses.                  *)
OnWire(h) == [h EXCEPT !.time = @ % W]
Below(i) == SubSeq(chain, 1, i - 1)
Received(c) == [i \in DOMAIN c |-> OnWire(c[i])]

(* Both overloads for the header accept it after c, and both for the block  *)
(* if there is one.                                                         *)
Accepts(h, body, c, t) ==
  /\ HeaderAlone(h).status = Ok /\ HeaderInChain(h, c, t).status = Ok
  /\ body # "none" =>
       /\ BlockAlone(h, body).status = Ok
       /\ BlockInChain(h, body, c, t).status = Ok

(* What the node has accepted, now or long ago, a node that starts from the *)
(* same genesis and receives the chain from it accepts as well, header by   *)
(* header and block by block: no verdict depends on a bit that is not sent. *)
AcceptedAgain ==
  \A i \in 2 .. Len(chain) :
    Accepts(OnWire(chain[i]), bodies[i], Received(Below(i)), now)

(* A header has one place in a chain: delivered again, or before its        *)
(* parent, it is answered "parent not found", whatever the rules say of it. *)
OnePlace ==
  \A i \in 2 .. Len(chain), n \in 0 .. Len(chain) :
    n # i - 1 => HeaderInChain(chain[i], SubSeq(chain, 1, n), now).status = NotFound

(* Two headers with the same hash, which are the same bytes on the wire,    *)
(* are given the same verdict by every overload that takes a header.        *)
VerdictByHash ==
  last.overload # "none" =>
    \A t \in Time :
      LET twin == [last.header EXCEPT !.time = t] IN
      BlockHash(twin) = BlockHash(last.header) =>
        /\ HeaderAlone(twin) = HeaderAlone(last.header)
        /\ HeaderInChain(twin, chain, now)
             = HeaderInChain(last.header, chain, now)

(* "An overload that accepts more parameters evaluates a superset of the    *)
(* rules evaluated by an overload with fewer parameters"                    *)
(* (spec/VALIDATION.md): what the longer one accepts, the shorter one does. *)
Progressive ==
  last.status = Ok =>
    /\ last.overload = "header in chain" => HeaderAlone(last.header).status = Ok
    /\ last.overload = "block in chain" => BlockAlone(last.header, last.body).status = Ok
=============================================================================
