# Verification of std-bitcoin

TLA+ modules, TLC runs and TLAPS proofs for the C++ library in this repository
(`module/`, `src/`). The library is a proposal for Bitcoin vocabulary types:
values (transactions, blocks, scripts, hashes), parsing and serialization, and
a verifier that calls Bitcoin Core's consensus code. It has no threads, files
or sockets of its own. What is hard in it is (1) the shared, reference-counted
representation of its values, which user threads copy, assign and destroy
concurrently, (2) a wire format whose first count doubles as a marker, decoded
through nested loops that go on after a failure, and (3) a buffered sink that
writes from a destructor that may throw.

## Inventory

| component | state | operations | interacts with | what makes it correct |
|---|---|---|---|---|
| `copy_on_write` (module/copy_on_write.cpp) | per handle `_alloc`, `_self`; per model an atomic `count` and the `value` | construct, copy, move, assign (4 forms), `modify` (2 forms), `swap`, destroy, read, compare | holds the implementation of `transaction` and `block`; models are shared between handles of different threads; calls the allocator and T's constructors, which may throw | counts are exact; no use after free, no double free, no race on a value; each model goes back to its own allocator; handles behave as independent values; every call returns and memory comes back |
| wire format (src/serdes_encode.cpp, module/bitcoin.vocabulary.cpp) | the fields of a transaction and `is_segwit`, `hash`, `witness_hash` computed once | `encode_*`, the constructors, `calc_hash` | feeds the sink and the hasher | one encoding per object; identifiers are the hashes of the two encodings |
| decoder (src/serdes_decode.cpp) | position in the input, `_failed`, the partial object, the capacity of the vector being filled | `decode_*`, `parse_*` | builds vocabulary types | an accepted input is the encoding of the result; what serialize writes is parsed back; memory follows the input, not the promise |
| `buffered_sink` (src/serdes_encode.cpp) | `_buffer`, `_pos` | `write`, the destructor | called by the encoders; calls the user's sink, which may throw at any write | the sink gets every byte once, in order, and all of them before `serialize` returns |
| script (src/script.cpp) | the bytes of a script; an iterator's rest, current instruction and end flag | `append*`, `instructions`, predicates, `witness_program` | vocabulary types hold scripts, views point into them | appended data reads back; iteration and the predicates agree on where a script ends |
| vocabulary types and hash ids (module/bitcoin.vocabulary.cpp, bitcoin.hash_id.cpp) | an outpoint's 64-bit index, a header's 64-bit time, an output's signed amount; the hashes a transaction was made with | `==`, `is_coinbase`, `has_witness`, `txid`, `wtxid`, `block_hash` | keys of the caller's coin index (module/bitcoin.type_erasure.cpp); encoded with 32 bits; converted for the kernel | an object, its bytes, the kernel's copy of it and the object parsed from the bytes mean the same |
| verifier (module/bitcoin.validation.cpp, src/validate_*.cpp) | none | one overload per kind of object and context | converts to Bitcoin Core types (src/legacy.cpp) and calls its kernel; its callers keep chains by it | which checks run, in which order, what is returned and what is thrown; verdicts depend on nothing that is not sent, and no exception becomes one |
| amounts' units, parameters, concepts, customization points, formatting | none | print, dispatch | used everywhere | — |

The last row is not modelled: it is constants, compile-time dispatch and text.

Hard behaviours, each with its line in `PROJECT.json` "hazards": two owners in
`modify` at once; a count that is loaded, then acted on; the last two owners
releasing together; a constructor that throws half way through an assignment;
allocators that change while an old model is still to be freed; a sink that
throws and is then written to again by the destructor; a zero input count; an
extended encoding without any witness; a count that promises more than there
is; an input that ends inside three nested loops; a count that is loaded from a
weak memory; fields that are wider in memory than on the wire; a longer
overload that leaves out what a shorter one checks; an exception in the middle
of verifying a transaction.

## Modules

| module | models | state ↔ code |
|---|---|---|
| `CopyOnWrite` | `xyz::copy_on_write<T, Allocator>` used by several threads | `self`, `alloc` = `_self`, `_alloc` of each handle; `count`, `value` = the model; `made` = the allocator a model came from (a ghost); `owner` = which thread may use a handle (the callers' side); `op` = the call each thread is in |
| `CowValue` | what the handle promises: values, no sharing, no counts | `val` = the value of each handle; `pend` = what a call is about to install |
| `MCCopyOnWrite` | instances and symmetry for TLC | |
| `CopyOnWriteProofs`, `CowMemoryOrderProofs`, `BufferedSinkProofs`, `DecoderProofs`, `ScriptProofs` | the theorems about the module of that name | |
| `WidthsProofs`, `ValidationProofs` | the theorems about `Vocabulary` and `CompactSize`, and about `Verifier` and `ScriptVerifier` | |
| `SequenceFacts` | lemmas that `DecoderProofs`, `ScriptProofs` and `ValidationProofs` share | |
| `BufferedSink` | `buffered_sink` under `serialize` | `buffer`, `pos` = `_buffer`, `_pos`; `bytes` = the rest of `write`'s argument; `received` = what the user's sink has got |
| `Wire` | transactions, blocks and their encodings | operators; a transaction carries its cached fields |
| `Decoder` | the three `parse_*` functions, on top of `Wire` | `taken` = the input read; `failed` = `_failed`; `tx`, `txs`, `header` = the locals; `range`, `outer` = size, length and capacity of the vectors in `decode_range`; `pc` = the next read |
| `MCDecoder` | the objects whose encodings are parsed | |
| `Instruction` | script bytes: `parse_instruction`, push prefixes, script numbers, the predicates | operators; every width is a parameter |
| `Script` | a script that is built by appends, and an iterator over it | `bytes` = `_bytes`; `it` = the iterator's four members; `seen`, `meant`, `torn` are ghosts: what the iterator has passed, what was appended, whether freed bytes were pushed |
| `MCScript` | the scripts, data and suffixes of the instances | |
| `CowMemoryOrder` | the accesses of `copy_on_write` to one model, under the C++ memory model | `at`, `reader` = whose a handle is (the callers' side); `count` = the messages written to the atomic, each with what its release sequence publishes; `clock` = what a thread has seen; `out`, `back` = the callers' synchronisation; `pc`, `arg` = the step a call is at |
| `MCCowMemoryOrder` | instance, bounds on lending and symmetry for TLC | `lent` = the handle a behaviour lends |
| `CompactSize` | `encode_size`, `decode_size`, `decode_bytes` | `read`, `x` = the bytes of the size and the number made of them; `size` = what `decode_size` returned; `buffer` = the vector `decode_bytes` allocates; `pc` = the next read |
| `Vocabulary` | transactions of a program, in memory, on the wire, in a coin index and in the kernel | `obj` = the program's variables of type `transaction`; `coins` = the caller's coin index; `confirmed` = the identifiers it was filled from |
| `MCWidths` | one instance of `Vocabulary` and `CompactSize`, which share no state | `part` = which of the two a behaviour is about |
| `Verifier` | the overloads for headers and blocks, and a node that keeps a chain by them | `chain`, `bodies`, `now` = the node's side; `last` = the last call: its arguments, the checks it made, its status |
| `ScriptVerifier` | the overloads for transactions and scripts, and a node that verifies a transaction input by input | `flags`, `spent`, `inputs` = the arguments; `sound`, `valid` = what the kernel says of the transaction and of each input; `next` = the node's loop; `outcome` = what came of it |
| `MCValidation` | one instance of `Verifier` and `ScriptVerifier`, which share no state | `node` = which of the two a behaviour is about |

### CopyOnWrite

A step is one access to shared memory. `Construct`, `CopyConstruct`, ... start
a call and perform it up to its first access that another thread could be
concurrent with; `Drop` is one `fetch_sub` with the assignment of `_self` and
`_alloc` that follows it (both private to the calling thread); `FreeEnd` is
`_destroy_model`. An access to a value has a beginning and an end, so that two
accesses can overlap: a read lasts from `ReadBegin` to `ReadEnd`, a copy from
the action that starts it to `CloneEnd`, an in-place write to `WriteEnd`, a
move out of a model to `StealEnd`, a destruction to `FreeEnd`. `Throw` is
`_make_model` failing. Comparisons and `std::hash` are no actions of their own:
they change nothing, and what they read of shared memory is one value or two
(`ReadBegin`, `ReadEnd`); the null tests and the comparison of two pointers
before it are of `_self`, which only the handle's own thread writes. The private model behind the temporary in
`operator=(U&&)` is not tracked: no other thread can reach it, and the model
that the assignment ends with is. Both overloads of `modify` are one action: after
the copy (or the transform) the fresh model is private, and what is written to
it is any value in both cases.

The callers' side is in the model because the guarantees depend on it: a handle
is modified by one thread (`owner`), or read by all (`Everyone`), and changes
hands only when no call is using it (`Publish`, `Reclaim`). This is the usual
rule for C++ values, and what the type's documentation of value semantics
presupposes.

The atomics are sequentially consistent in this model. The orders the code
passes (`relaxed` additions, `release` subtractions, `acquire` loads and
fences) are the subject of `CowMemoryOrder`.

Two things the code does are part of the model and show in the properties.
`modify` ignores the result of its `fetch_sub`: if the other owners release the
model between the load of the count and the subtraction, nobody frees it
(`LeakOnlyByAbandon` says this is the only way to lose a model). Move
assignment between unequal, non-propagating allocators moves out of the model
even when it is shared, so other handles see a moved-from value and may race
with the move (`RaceOnlyBySteal`, `ForeignChangeOnlyBySteal` say this is the
only such case). Neither is contradicted by a sentence of the documentation,
and with `std::allocator`, which transactions and blocks use, the second cannot
happen.

### CowMemoryOrder

One model, and what threads do to it through their handles. The count is the
sequence of its messages. `ReadModifyWrite` reads the last one, as C++ requires
of `fetch_add` and `fetch_sub`; `AcquireLoad` reads any message that is not
older than one the thread has seen. What a thread knows is the set of the
latest accesses of each thread that happen before its next step; two accesses
conflict without a race only if the later one's thread knows the earlier.
`FetchSub` publishes what its thread knows, `FetchAdd` passes on what the
release sequences it continues published, `AcquireFence` takes over what the
message its thread subtracted from carries, and so does `AcquireLoad`.

The load of `modify` may be stale. A stale count above 1 makes it copy although
it is the only owner, and then abandon its own last reference: the model is
lost even when no other thread is near it, one more way to the leak that
`CopyOnWrite` names `LeakOnlyByAbandon`. A stale 1 would be a race;
`StaleOneUnread` says that an owner never reads one, and that is what
coherence and the callers' synchronisation of handles are needed for.

Handles of other models, allocators and exceptions other than from the copy are
in `CopyOnWrite`, not here. The callers' side is the same rule as there: a
handle is changed by one thread at a time (`Pass`, `Take`), or read by those it
is lent to (`Borrow`, `GiveBack`), ordered with the lender and the next owner
but not with one another.

### Wire and Decoder

An encoding is a sequence of symbols, one for each fixed-width field and each
compact size. The ambiguity that matters is kept: the marker of the extended
format is read by the action that reads an input count. An unknown input is
chosen symbol by symbol as it is read, which covers every input up to the
bound without listing them; it may end before any read (`Short`) and may
go on after the last (`End`). A string and its size are read in one action;
the input may end inside it. Hashing is an injective function of the bytes.

A failure is what the code makes of it: `_failed` is set and decoding goes on
(`Read`). From then on a field is zero and takes nothing from the input; the
element that was being read is pushed, half made as it is; each loop ends when
its head tests `good()` (`GoesOn`), the loop over the witnesses, which does not
test it, goes through all inputs; the lock time is read, the transaction is
made and pushed into its block, and only `End` looks at `_failed`.
`StopsOnFailure` says that this goes well in the middle: no range goes on,
nothing more is taken or reserved, at most the one transaction that was begun
is still made. `Canonical` says that it goes well at the end. One detail is
left out: of a field or an element that is cut off, the code keeps what there
was, and the model has zeros; no branch the code takes after a failure depends
on it but that of `decode_witness`, which then sets `_failed` again or not.

Transactions compare equal by a cached hash, and `txid` returns another.
`EqualAreSame` says of what was parsed that the first is equality of all fields
and the second equality but for the witnesses, which rests on `is_segwit` and
both hashes being computed from the right encodings, and on those telling
transactions apart.

`EverythingParsesBack` is a sentence of `spec/SERDES.md` that the code does not
meet for transactions without inputs (run `decoder_empty`, "findings" in
`PROJECT.json`); `ParsesBack` is the form that holds. A default-constructed
transaction is another exception: its wtxid is zero
(`Wire!DefaultTransaction`), which is not the hash of the bytes `serialize`
writes for it. It leaves the decoder only behind a failure, and then not at all.

### CompactSize

What stands behind a token for a size. The byte is scaled to R values, its last
three are the tags, and the numbers behind them have 2, 4 and 8 bytes, so each
boundary of the code has its image: 252 is R-4, 0xFFFF is `TwoBytes` - 1,
2^32-1 is `FourBytes` - 1. `MAX_SIZE` lies between the two-byte and the four-byte form, as in the
code, where it is compared only with numbers that are already beyond it:
`decode_bytes` may be made to allocate up to 2^32-1 bytes for an input of five
bytes (`AllocatesLess` is the bound that holds).

### Vocabulary

A transaction is its inputs' outpoints, whether each has a witness, its amounts
and the two hashes. On the wire the index is cut to 32 bits and the amount is
unsigned; `Hash` is injective on that form, and a txid is a hash, so that
transactions spend outputs of transactions. `Relay` is serialize on one side
and parse on the other, whose structure is the subject of `Decoder`.

The index of an outpoint is a `std::size_t`. An index of 2^32 or more is not
refused anywhere: it is cut by `encode_outpoint` and once more by
`convert_outpoint`. Transactions that differ only there are equal, since
equality compares hashes of the bytes, while their inputs are not; `is_coinbase`
may differ between them. Properties that say "the same" therefore name this
exception, and say that it is the only one. A header's time has the same
exception, but a header is compared field by field, so that a block whose time
does not fit is not equal to the block its bytes are parsed to.

A moved-from transaction has no implementation. It may be assigned to, compared
and destroyed; every observer and `serialize` dereferences a null pointer behind
an assertion, so that the actions that observe have `Live` as their guard.

### Verifier and ScriptVerifier

The rules are the kernel's, and the kernel is not in the repository: its checks
are predicates on the converted arguments they are given, or arbitrary. What is
modelled is which of them an overload makes, on what, in which order, and what
it answers, and a node that relies on it. The rules on a header's time are in
the form the kernel has them, since they are where a conversion that cuts a
time could show: later than the median of the last headers' times
(`MedianTimePast`, of as many as `MedianSpan`), and not ahead of the clock. So a
header's time may be before its parent's. The node of `Verifier` appends what
both the overload for the candidate alone and the one for its place accept,
goes back to earlier headers and on in time, and may ask any overload about
any candidate.

`AcceptedAgain` is what a network of such nodes needs: whoever receives a chain
that another node has built, with every time cut to 32 bits on the way, accepts
it again, each header and each block in its turn. It relates conversion,
encoding, hash and the verdicts over the chain's whole past, some of which the
node went back from and replaced. `OnePlace` says that a header is accepted
behind its parent and nowhere else, at any later time, by the comparison of the
parent's hash alone; `VerdictByHash` that headers with one hash get one verdict.
`Progressive`, which `spec/VALIDATION.md` promises, fails (run
`verifier_progressive`), as the longer overload has its call of the shorter one
commented out.

The node of `ScriptVerifier` verifies a transaction and then the script of each
input, with the same flags and spent outputs. Assertions may be compiled in or
out. Any call may end in an exception before it comes to a verdict
(`Interrupted`): it converts the whole transaction, and with `taproot` set it
asks the caller's range for its size and copies it. That may happen after some
inputs have been verified, and the node, which has kept nothing, starts over
(`AskAgain`). `VerdictIsTheKernels` is the sentence of `spec/VALIDATION.md` that an
exception is no verification result, for the node's decision as a whole.
Nothing is claimed about when a call throws.

### BufferedSink

A byte is its position in the encoding. The encoder passes it on in chunks of
any length. The user's sink may throw at every write, having taken any part of
it. Because `_pos` is not reset when a write throws, the destructor writes the
same buffer again; `AfterThrow` states exactly what the sink may then hold.

### Instruction and Script

The byte is scaled: 16 values, lengths below 4 in the opcode, then one, two or
four bytes, numbers of two bytes, small integers up to 2, witness programs of 2
or 3 bytes. The order of the opcodes is that of the code, and the assumption
`LayoutAssumption` says what the scaling has to keep, so that every branch of
`parse_instruction`, `_append_size`, `append_number` and the templates has its
boundary inside the instance. `Walk` is the loop the three predicates share;
the iterator is a state machine of its own, and `PredicatesAgree` relates the
two.

An iterator views the script's vector, so a change of the script ends it. A
datum that is a view of the same script is the exception the code does not
handle: `append_data` writes the length first, and if the vector grows then,
the view points at freed memory (`AppendOwnData`, second disjunct). `ReadsBack`
excludes that case; run `script_own` shows that `spec/SCRIPT.md` does not.
Appending a whole script to itself reads the old bytes before they are given
back in the standard libraries' implementations, and is modelled so. An
`append(opcode)` of an opcode that takes immediate bytes writes no more than
the opcode; nothing is claimed of what such a script reads as.

## Runs

| run | instance | shows |
|---|---|---|
| `cow_propagating` | 2 threads, 3 handles, 3 models, 2 values, 2 allocators, all traits true | no race, models freed by the allocator they came from though assignments and swaps replace allocators, and `CopyOnWrite` implements `CowValue` |
| `cow_unequal` | the same, all traits false (`pmr`) | exact counts, no dangling pointer, matching allocators, models lost only by `modify`, and races and foreign changes only by the steal |
| `cow_live` | 2 threads, 2 handles, 2 models, 2 allocators, fairness | calls return, memory comes back unless lost by `modify` |
| `memory_order` | 3 threads, 3 handles, a count of up to 6 messages; or one handle lent, one other, up to 5 messages | in-place writes and frees come after every other access, reads after every write; no stale 1; sole access |
| `buffered_sink` | buffer of 3, encoding of 8, every split, every throw | order, completeness, the state after a throw, termination |
| `decoder` | symbols 0..2, every input up to length 11, and 176 encodings | canonical parsing, round trip, equality by hashes, reservation, the end of a parse that fails |
| `decoder_empty` | transactions without inputs | the documented statement that fails |
| `script` | every script of 3 bytes of 16 values, and of 5 bytes of the 10 values with a role; every number, pushes of 0 to 256 bytes around each boundary, appends to scripts of up to 2 bytes | iteration skips nothing and agrees with the predicates; the templates are disjoint; what was appended reads back, in shortest form |
| `script_own` | the appends only | the documented statement that fails when a script is pushed onto itself |
| `widths` | `Vocabulary`: 2 variables, indices 0 .. 2^33-1 scaled to 0 .. 5, two outputs, one with a negative amount, one confirmed transaction and those that spend it; `CompactSize`: a byte of 4 values, every size in every form | coins, coinbase and the kernel's view agree with the wire, with the one exception; one form per size, none below 2^32 refused, the bound on an allocation |
| `validation` | `Verifier`: times 0 to 3 and 5, which 32 bits scaled to 0..3 cut to 1, medians of 3 times, chains of up to 4 headers; `ScriptVerifier`: up to 3 inputs and spent outputs, every set of flags, every set of valid inputs | chains are accepted again by who receives them, each header in one place, verdicts by hash; exceptions are no verdicts |
| `verifier_progressive` | `Verifier`, the same | the documented statement that fails |

Bounds. Two threads and three handles suffice for every pattern the code
distinguishes: a count of 1, of 2 and of more; two handles of one thread on one
model and a third of another; concurrent `modify` by two owners needs the
third model. `std::allocator`, which always compares equal, needs no instance of
its own: a behaviour of `cow_propagating` that uses one allocator only is one of
it, as what differs between allocators is only ever looked at when they are
not equal. The pool of models is finite and `modify` can leak all of it, so
these runs do not check for deadlock. Symmetry permutes threads, handles,
models and values, which no definition distinguishes; the liveness run uses
none. In the sink, 8 is more than two buffers and no multiple of 3, and writes
of 0 to 8 bytes end before, at and behind the end of the buffer. Eleven symbols
are the shortest extended encoding of a transaction with one input and one
witness item, and more than one input or output in legacy form; the longer
objects (two inputs with different witnesses, two transactions in a block) come
from the encodings, and the batch of 1 makes a range of two elements reserve
twice.

In `Script`, 5 bytes hold the longest template and a complete header of the
four-byte form; appends to scripts of up to 2 bytes put every kind of append
behind, and in front of, every other. Of the given scripts, those of one and
two bytes are left out, since every append could then follow each of them; the
iterator comes to all of them behind a first opcode, and the builder makes
those that consist of its appends.

In `CowMemoryOrder` the bound on messages (`MaxMessages`) is the only cut: six
messages are the creation, two copies and their three releases, so that every
order of the last three releases is there, or copies and releases by three
threads with a `modify` between them. Three threads are needed for a release
sequence that goes through a thread that is neither the first nor the last.
As readers multiply the states, a behaviour that lends a handle (`lent`) has one
other at a time, which stays with the thread that made it, and one message
less: enough for a reader that copies, releases its copy and gives back what it
was lent before the owner writes. Nothing can be called when the count has its
last value, so this run does not check for deadlock; nor do `widths` and
`validation`, where sizes and transactions come to an end. A byte of 4 values has one size without a tag and all three tags;
what the code compares are powers of R and the tags, and no other value. In
`Vocabulary`, W = 3 keeps the largest index apart from those of the two outputs,
and 2W - 1 is the largest one cut to it; one confirmed transaction
(`MaxConfirmed`) gives spends of a real coin, of an output that does not exist
and of one hit only after the cut. In `Verifier`, the time
beyond W is cut to a small one. A median of three times (`MedianSpan`) over
chains of up to four headers (`MaxHeight`) is one that leaves a header out, and
lets the time of a fourth header be before that of the third; the node may go
back and extend another branch. In `ScriptVerifier` three inputs (`MaxInputs`)
allow for too few, enough and too many spent outputs, and for exceptions at the
first, a middle and the last input.

Fairness. `CopyOnWrite!FairSpec`: a thread that is inside a call keeps running
(no call blocks; this is the scheduler's progress guarantee); no thread has to
start a call. `BufferedSink!FairSpec`: the encoder goes on to its next write or
its end, and a call that was made continues; that a sink throws is never
assumed.

Every property of a passing run has a fault, a definition named in
`PROJECT.json` "mutants" that changes one definition the way a slip in the code
would, under which the run finds the property violated.

## Proofs

Each theorem is about a specification and every value of its constants. Each
module states what it assumes of them in named ASSUMEs, which TLC evaluates on
every instance.

| theorem | property | module |
|---|---|---|
| `TypeCorrect` | `TypeOK` | `CopyOnWriteProofs` |
| `CountsExact` | `CountIsReferences` | |
| `Safe` | `NoDangling` | |
| `AllocatorsMatch` | `FreedByItsAllocator` | |
| `RacesOnlyBySteal` | `RaceOnlyBySteal` | |
| `RaceFree` | `EqualOrPropagating => (Spec => []NoRace)` | |
| `LeaksOnlyByAbandon` | `LeakOnlyByAbandon` | |
| `ForeignChangesOnlyBySteal` | `ForeignChangeOnlyBySteal` | |
| `SharingUnobservable` | `EqualOrPropagating => (Spec => ValueSemantics)` | |
| `OrderTypes` | `TypeOK` | `CowMemoryOrderProofs` |
| `NoRaceWithWriters` | `WritersKnowAll` | |
| `NoRaceWithReaders` | `ReadersKnowWrites` | |
| `NoStaleOne` | `StaleOneUnread` | |
| `SoleWriter` | `SoleAccess` | |
| `SinkTypes` | `TypeOK` | `BufferedSinkProofs` |
| `NothingLostOrTwice` | `InOrder` | |
| `ReturnsComplete` | `CompleteOnReturn` | |
| `ThrowsAfterPrefix` | `AfterThrow` | |
| `DecoderInductive` | the invariant `DecoderInv` | `DecoderProofs` |
| `AcceptsOnlyEncodings` | `Canonical` | |
| `ReservesWhatIsThere` | `ReservesByBatch` | |
| `FailureStops` | `StopsOnFailure` | |
| `ReadsWhatWasWritten` | the invariant `OnTrack` | |
| `ParsesWhatWasWritten` | `ParsesBack` | |
| `EqualTransactionsAreSame` | `EqualAreSame` | |
| `ScriptInductive` | the invariant `ScriptInv` | `ScriptProofs` |
| `AssertionHolds` | `TypeOK` | |
| `ReadsAllOnce` | `Partition` | |
| `PredicatesAndIteration` | `PredicatesAgree` | |
| `TemplatesDisjoint` | `Templates` | |
| `ReadsWhatWasAppended` | `LengthsFit => (Spec => []ReadsBack)` | |
| `SizesInductive` | the invariant `CompactSizeInv` | `WidthsProofs` |
| `AcceptsOneForm` | `OneForm` | |
| `RefusesNoSize` | `NothingLost` | |
| `AllocatesBelow` | `AllocatesLess` | |
| `VocabularyInductive` | the invariant `VocabularyInv` | |
| `ReceivesWhatWasSent` | `ReceivedIsSent` | |
| `SameCoinsForReceivers` | `SameCoins` | |
| `CoinbaseAgreed` | `CoinbaseForAll` | |
| `KernelGetsTheWire` | `KernelSeesTheWire` | |
| `ChainAcceptedAgain` | `AcceptedAgain` | `ValidationProofs` |
| `EachInItsPlace` | `OnePlace` | |
| `VerdictsFollowHashes` | `VerdictByHash` | |
| `VerdictsAreTheKernels` | `VerdictIsTheKernels` | |

### CopyOnWriteProofs

Any number of threads, handles, models, allocators and values (finite sets of
threads and handles), and any combination of the propagation traits. The only
assumption is `ConstAssumption`, which says that the special values are
distinct and the sets of threads and handles finite.

The inductive invariant is `IInv`. `CountIsReferences` is not inductive: that a
`fetch_sub` on `self[dst]` removes exactly one reference needs that nobody else
changes `dst` during the call, which is `CallOK` (a call's handles belong to
its thread; an in-place write is by the sole owner). That a model is freed once
needs `HeapOK` (a model in `_destroy_model` has count 0 and one destroyer; an
unallocated one has count 0). `AllocOK` ties each pointer, installed or about
to be, to the allocator of its model. `RaceFree` adds `Clean`: no call moves
from a shared model and a referenced model holds a value. The proof of
preservation has one step per action, and counting facts (what a step that
changes one handle or one call does to the two cardinalities) are lemmas.

`ForeignChangesOnlyBySteal` adds `ValueStep`: whichever step changes what a model
holds is a move out of it, a write of its sole owner, or the making or freeing
of a model no handle points to.

`SharingUnobservable` is the refinement of `CowValue`. `Shown` maps a handle to
the value of its model, `Pending` maps a call to the value it is about to
install, and `CowValue`'s steps are those a program with independent values
could take. Each action of `CopyOnWrite` maps to one step of `CowValue` or to
none: a call begins where it begins, what is written or installed becomes the
value of its handle in one step, and cloning, counting and freeing are not
seen. That a step of one handle leaves what every other handle shows unchanged
is `Kept`, where the invariant enters: a model that is written has one owner,
and one that is freed has none. Under `EqualOrPropagating` no call is at its
"steal" (`Clean`), which is the only step that is no step of `CowValue`. It is
assumed that a moved-from value is none of the values a program makes
(`Dead \notin Value`).

### CowMemoryOrderProofs

Any number of threads and handles, and counts with any number of messages
(`MaxMessages` only bounds the runs), under `OrderAssumption`: the special
values are not threads or handles, and only handles are lent.

`WritersKnowAll` says what a thread knows when it writes, and nothing of how it
came to know it. The inductive invariant `Inv` accounts for every access at any
time: `NothingForgotten` says that it is in the release sequence of the last
message or known to whoever holds some living handle next, so that whoever is
left alone after an acquire knows all. That a plain load does not read an old 1
is `StaleOneSeen`: each message with a 1 that is no longer the last is older
than what every holder of a handle has seen, since the handles that exist now
are copies made after it. `WritesKnown` is the same for writes only, of which
no reader may miss one. `Acquired` says what a call has already taken over when
it goes on to its fence, its write or its free, and `Counted` that the count
counts. The conjuncts about the memory (`MemoryInv`) and those about the calls
(`ControlInv`) are proved apart. TLC checked `Inv` on the instance of
`memory_order` before it was proved.

### BufferedSinkProofs

Any buffer size but 0, any length of the encoding, any cutting of it. `SinkInv`
says where the sink stands: up to a multiple f of the buffer size everything
was received, what follows is in the buffer, what follows that is still
`write`'s argument (`Continues`). After a throw it says the same of the write
that failed (`FailedAt`), from which the destructor's second attempt follows.
The arithmetic of whole buffers and rests, and of stretches that are joined, is
in lemmas.

### DecoderProofs

Any alphabet of natural numbers, any batch but 0, inputs of any length, and any
set of objects that are parsed back (`DecoderAssumption`, `GivenFits`). `Canonical` is about
the end of a parse; the invariant `DecoderInv` is about every point of it. It has
three parts: what holds of the vectors in any case (`Room`: there is room for
the element that is being decoded, reserved by the batch); where decoding may
still be once it has failed (`Stopped`: at no element of a range, and without a
result); and what was read as long as nothing has failed (`GoodInv`). A step that
fails leaves `GoodInv` for `Stopped`, and none goes back; `FailureStops` follows
from the first two parts. In `GoodInv`, `TxRead` says, for each value of `pc`, that the symbols read since the current
transaction began are the encoding of its locals as far as they go (`AtIn`,
`AtOut`, `AtItem`, ...: the count that was read, then the elements so far), and
`Before` is the encoding of the header, the number of transactions and those
already made. That no extended encoding of a transaction without witnesses is
accepted is where `AtLocktime` demands that the flag that was read is
`AnyWitness` of the inputs. A lemma per field (`InputRead`, `ItemRead`, ...)
says that one more element takes one form into the next, and a lemma per action
uses it.

`ParsesBack` needs to look ahead as well. The invariant `OnTrack` says of a parse
of what `serialize` wrote that the input is what was read followed by the
encoding of what is left of the object, and that the locals agree with the
object as far as it was read. `FromIn`, `FromStack`, `FromItem`, ... give what is
left at each value of `pc`, each as one element before what the next one gives,
so that the symbols an action takes are those of the element that stands there
(`SameFront`) and leave the next form, and no step can fail. What stands at `incount` decides the
format: the marker if the object has a witness, else a count that is not 0, for
there are inputs. Nothing that was written is refused (`NeverShort`), no
fault is flagged, and the object is what `Transaction` makes of equal fields.
`GivenFits` says what may be given: an object with inputs is made by the
constructors, and its encoding is in the alphabet, which is true of every one
if the alphabet is all of `Nat`. TLC evaluates it for the objects of `Decoder.cfg`.

`EqualAreSame` needs that an encoding tells its fields. `Apart(e, f)` says that
e can be told from f whatever stands behind the two; it holds of single symbols,
of joined parts each of which can be told from its like (`BothApart`), and so,
bottom up, of strings, inputs, outputs, ranges of them and whole transactions in
one format (`DataApart`). The two formats are told apart by the marker, as every
transaction that was read without a failure has inputs: that is the invariant
`Parsed`, which takes from `AtLocktime` that a flag of 1 went with a witness.

TLC checked `DecoderInv` and `OnTrack` on the instance of `decoder` before they
were proved, with quantifiers over sequences bounded to the values they can have.

### ScriptProofs

Scripts of any length, any even number of byte values, and any layout of the
opcodes and sizes that `LayoutAssumption` admits, which includes those of
Bitcoin; anything callers append that is made of bytes (`MaxLength` only bounds
the runs). It covers what is appended from freed memory too, so nothing here
depends on the view being alive, except `ReadsBack`, which says so.

`Partition` and `PredicatesAgree` relate an iterator that is at some point of the
script, or at its end, to the whole script. The invariant `ScriptInv` says at
every point: the iterator is what `ReadNext` makes of the bytes it stands at;
the encodings of what it has passed, and these bytes, are the script; and the
walk of the predicates over the whole script is what was passed and then the
walk from here. Lemma `Parsed` is what an increment needs: the bytes of a parsed
instruction are the encoding of what was parsed, which for lengths of two and
four bytes is arithmetic of digits (`LengthRead`). At the end nothing more can
be parsed, so the walk from there is empty, and the predicates see exactly what
was passed. The invariant also needs that everything that is appended is made
of bytes, for script numbers `NumberType`. `Templates` says nothing of the
iterator: it follows by walking over a script of two or three instructions of
any size.

`ReadsBack` is the converse direction: what is written is read. Its lemmas are
`EncodingParses` (an instruction that may be constructed is parsed from its
encoding, whatever follows; this needs that the digits of a length give it back,
`DigitsRead`), `WalkOn` (a walk that reads a script to its end goes on behind
it), `PushPrefixIs` (the prefix is the shortest opcode that takes so many bytes)
and `NumberReads` (a script number gives back the value and is minimal, from the
highest digit of a magnitude not being zero). The invariant `Built` says, as long
as it is known what was appended and nothing was torn: the walk over the script
ends at its end and reads as what was appended. That relates the walk, not an
iterator, to `meant`; `ScriptInv` relates the iterator to the walk. TLC checked
`Built` on the instance of `script` first, without the type of `meant`. The
theorem has the hypothesis `LengthsFit`: `op_pushdata4` has four bytes for a
length, and the code writes the low four bytes of a longer one. The instance of
`script` satisfies it, with data of up to 256 bytes where four bytes hold less
than 65536.

`Power`, `Walk` and `LittleEndian` are recursive functions; that they satisfy
their definitions (`PowerIs`, `WalkIs`, `LittleEndianIs`) is proved in the same
way as what `FlattenSeq` does.

### SequenceFacts

The encodings of elements are joined with `FlattenSeq`, a recursive function.
The library's induction theorems cannot be used, but an induction can be done
by hand: a set of natural numbers has a least element (`LeastNat`, from the
well-foundedness of the order), so a counterexample has a first one. In this
way it is proved what flattening does to a sequence that grows by one
(`FlattenAppend`), and that it makes sequences (`FlattenType`).

### WidthsProofs

Any number R of byte values from 4 on, and any `MaxSize` between the two-byte
and the four-byte form, which includes R = 256 and the `MAX_SIZE` of the code.
`CompactSizeInv` relates the bytes read behind a tag to the number made of them
(`NumberRead`) and the size returned to that number (`SizeReturned`); the
lemmas say that the digits of a number below R^2, R^4, R^8 determine it, and
that a number in the range of its tag is written with that tag.

Any width W of an index from 2 on, any even number A of amounts, any lists of
amounts within it. `VocabularyInv`: every variable that is not moved from holds
a transaction whose hashes are those of its fields and whose outpoints refer to
what the index was filled from, and keys of the index have an index below W.
The step that is not obvious is that a txid cannot be the hash of nothing, and
that cutting twice is cutting once; the four properties follow from the
invariant by what the encoding keeps.

### ValidationProofs

Any set of integers for the times, any width W of a time, chains of any height,
any number of inputs (`MaxHeight`, `MaxInputs` only bound the runs). `ChainInv`
is `AcceptedAgain` for this node itself, which has the chain as it was given and
not as it was sent, with the shape of the chain and the bodies. It is inductive
because a verdict depends on the headers below only, which a longer chain and
one that was rewound share, and because the clock only goes on: a time that was
not ahead of it is not ahead of it later. From there `AcceptedAgain` follows as
converting what was cut once cuts nothing more, the parent's hash is that of
what is sent, and the median is one of converted times. `OnePlace` is about the
parents' hashes alone: a header that could stand in two places stands behind two
headers with one hash, those have parents with one hash, and so on down to the
genesis, which has none (`Rooted`, `HashesDiffer`, by `LeastNat`). `TxInv` says that every
input before `next` is one the kernel accepts, whatever was interrupted in
between.

### Left to TLC

Liveness (`Returns`, `Ends`): needs fairness and ENABLED, which are out of the
provers' reach. What the violation runs show are counterexamples to sentences of
the documents and need no proof.

## Not modelled

Formatting, hexadecimal text, names of opcodes, units, consensus parameters,
concepts and customization points: constants or compile-time dispatch. Bitcoin
Core's kernel (script interpreter, `CheckBlock`, ...): not in the repository; what
it does with the parameters `convert_consensus` leaves zero is therefore not
known here. The overload for a transaction in a chain has no definition, the
one for a block with coins always answers "NOT IMPLEMENTED YET", so nothing
looks a coin up; that a `coin_t` refers to the script of a lookup result is
covered by the index's contract in `spec/VALIDATION.md`. `counting_sink` counts
what the encoders write. Views and the mixing function of `std::hash`.

## Plan

1. Done: `CopyOnWrite`, `CowValue` and their proofs; `CowMemoryOrder`;
   `BufferedSink`; `Wire`, `Decoder` and `CompactSize`; `Instruction` and
   `Script`; `Vocabulary`; `Verifier` and `ScriptVerifier`.
2. Done: every safety property and action property that a passing run checks is
   proved, and the refinement of `CowValue`.
3. Left: nothing that is planned. Liveness stays with TLC.
