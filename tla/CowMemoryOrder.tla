--------------------------- MODULE CowMemoryOrder ---------------------------
(***************************************************************************)
(* The memory orders of copy_on_write (module/copy_on_write.cpp): what the *)
(* relaxed additions, the release subtractions, the acquire load and the   *)
(* acquire fence on the count of ONE model order, under the C++ memory     *)
(* model.  CopyOnWrite has the whole interface on top of sequentially      *)
(* consistent atomics; here a call is the accesses it makes to one model,  *)
(* and the atomics are weak:                                               *)
(*                                                                         *)
(*   - the count is the sequence of the messages written to it; a read-    *)
(*     modify-write reads the last one, a plain load any one that is not   *)
(*     older than what the thread has seen (coherence);                    *)
(*   - a message carries what its release sequences publish: a release     *)
(*     adds what its thread knows, a relaxed addition only passes on what  *)
(*     it read, an acquire takes over what the message it read carries;    *)
(*   - to "know" an access is to come after it in happens-before.  Two     *)
(*     conflicting accesses are a data race unless the later one knows     *)
(*     the earlier one.                                                    *)
(*                                                                         *)
(* A thread passes a handle on, or lends it to readers, by some            *)
(* synchronisation of the caller's own.  Assertions are compiled out.      *)
(***************************************************************************)
EXTENDS Integers, Sequences, SequencesExt

CONSTANTS
  Thread, Handle,
  Lendable,      \* bound: the handles that are lent, not only passed on
  Dead,          \* the owner of a handle that does not refer to the model
  Passed,        \* the owner of a handle that was passed on or lent
  NoHandle,
  MaxMessages    \* bound: the number of values the count takes

ASSUME OrderAssumption ==
  /\ Dead \notin Thread /\ Passed \notin Thread /\ Dead # Passed
  /\ NoHandle \notin Handle /\ Lendable \subseteq Handle
  /\ MaxMessages \in Nat \ {0}

(* What is known of the model's accesses: <<u, k>> stands for the latest    *)
(* access of thread u of kind k, which comes after all earlier ones.  A     *)
(* "use" reads the value or operates on the count, a "write" changes or     *)
(* destroys the value.                                                      *)
Access == Thread \X {"use", "write"}

VARIABLES
  at,      \* at[h]: the thread that owns handle h, Passed or Dead
  reader,  \* reader[h]: the threads that handle h is lent to
  out,     \* out[h]: the clock of the thread that passed h on
  back,    \* back[h]: the clocks of its readers when they were done
  count,   \* the messages of the count, in modification order
  clock,   \* clock[t]: the accesses t knows, the last message it has seen
  pc, arg  \* the step thread t is at, and the handle its call is about

handles == <<at, reader>>
memory == <<out, back, count, clock>>
vars == <<at, reader, out, back, count, clock, pc, arg>>

Message == [val : Nat, rel : SUBSET Access]
Clock == [knows : SUBSET Access, seen : 0 .. MaxMessages]
Pc == {"idle", "clone", "abandon", "release", "write", "fence", "free"}

NoClock == [knows |-> {}, seen |-> 0]
Later(a, b) == IF a > b THEN a ELSE b
Join(c, d) == [knows |-> c.knows \cup d.knows, seen |-> Later(c.seen, d.seen)]

(* One thread has made the model, and is the only one to know that write.   *)
Init ==
  \E t \in Thread, h \in Handle :
    /\ at = [x \in Handle |-> IF x = h THEN t ELSE Dead]
    /\ reader = [x \in Handle |-> {}]
    /\ out = [x \in Handle |-> NoClock]
    /\ back = [x \in Handle |-> NoClock]
    /\ count = <<[val |-> 1, rel |-> {}]>>
    /\ clock = [u \in Thread |->
                 [knows |-> IF u = t THEN Access ELSE Access \ {<<t, "write">>},
                  seen |-> 1]]
    /\ pc = [u \in Thread |-> "idle"]
    /\ arg = [u \in Thread |-> NoHandle]

Goto(t, step, h) ==
  /\ pc' = [pc EXCEPT ![t] = step]
  /\ arg' = [arg EXCEPT ![t] = h]
Return(t) == Goto(t, "idle", NoHandle)

Idle(t) == pc[t] = "idle"
CanRead(t, h) == at[h] = t \/ (at[h] = Passed /\ t \in reader[h])

-----------------------------------------------------------------------------
(* Memory *)

Unlearn(c, e) == [c EXCEPT !.knows = @ \ {e}]
Without(msgs, e) == [i \in DOMAIN msgs |-> [msgs[i] EXCEPT !.rel = @ \ {e}]]

(* t makes access e, which nobody else knows yet, learns what an acquire    *)
(* operation reads, and has seen message n.                                 *)
Happens(t, e, learns, n) ==
  /\ clock' = [u \in Thread |->
                IF u = t THEN [knows |-> clock[t].knows \cup learns \cup {e}, seen |-> n]
                         ELSE Unlearn(clock[u], e)]
  /\ out' = [h \in Handle |-> Unlearn(out[h], e)]
  /\ back' = [h \in Handle |-> Unlearn(back[h], e)]

(* An access to the value. *)
Touch(t, kind) ==
  /\ Happens(t, <<t, kind>>, {}, clock[t].seen)
  /\ count' = Without(count, <<t, kind>>)

(* count.load(acquire), which reads message i. *)
AcquireLoad(t, i) ==
  /\ Happens(t, <<t, "use">>, count[i].rel, i)
  /\ count' = Without(count, <<t, "use">>)

(* Fault: a load, of any message that may still be read, and a store. *)
LoadThenStore(t, d, published) ==
  \E i \in clock[t].seen .. Len(count) :
    /\ Len(count) < MaxMessages
    /\ Happens(t, <<t, "use">>, {}, Len(count) + 1)
    /\ count' = Append(Without(count, <<t, "use">>),
                       [val |-> count[i].val + d, rel |-> published])

(* A read-modify-write reads the last message and goes on with the release  *)
(* sequences it is in.                                                      *)
ReadModifyWrite(t, d, published) ==
  /\ Len(count) < MaxMessages
  /\ Happens(t, <<t, "use">>, {}, Len(count) + 1)
  /\ count' = Append(Without(count, <<t, "use">>),
                     [val |-> Last(count).val + d,
                      rel |-> (Last(count).rel \ {<<t, "use">>}) \cup published])

(* Fault: the subtraction is relaxed too. *)
FetchSubRelaxed(t) == ReadModifyWrite(t, -1, {})

(* count.fetch_add(1, relaxed) and count.fetch_sub(1, release) *)
FetchAdd(t) == ReadModifyWrite(t, 1, {})
FetchSub(t) == ReadModifyWrite(t, -1, clock[t].knows \cup {<<t, "use">>})

(* atomic_thread_fence(acquire) after the subtraction: it acquires what the *)
(* message before the thread's own carries.                                 *)
AcquireFence(t) ==
  /\ clock' = [clock EXCEPT ![t].knows = @ \cup count[clock[t].seen - 1].rel]
  /\ UNCHANGED <<out, back, count>>

-----------------------------------------------------------------------------
(* Calls *)

(* operator*, operator->, a comparison, a hash *)
Read(t, h) ==
  /\ Idle(t) /\ CanRead(t, h)
  /\ Touch(t, "use")
  /\ UNCHANGED <<handles, pc, arg>>

(* Fault: the copy is not counted. *)
CopyUncounted(t, h, new) ==
  /\ Idle(t) /\ CanRead(t, h) /\ at[new] = Dead
  /\ Touch(t, "use")
  /\ at' = [at EXCEPT ![new] = t]
  /\ UNCHANGED <<reader, pc, arg>>

(* A copy construction, or a copy assignment to a handle of another model.  *)
Copy(t, h, new) ==
  /\ Idle(t) /\ CanRead(t, h) /\ at[new] = Dead
  /\ FetchAdd(t)
  /\ at' = [at EXCEPT ![new] = t]
  /\ UNCHANGED <<reader, pc, arg>>

(* The destructor, _reset and every assignment that gives h another model.  *)
Release(t, h) ==
  /\ at[h] = t
  /\ Idle(t) \/ (pc[t] = "release" /\ arg[t] = h)
  /\ FetchSub(t)
  /\ at' = [at EXCEPT ![h] = Dead]
  /\ IF Last(count).val = 1 THEN Goto(t, "fence", NoHandle) ELSE Return(t)
  /\ UNCHANGED reader

(* Fault: one other owner is not taken for sharing. *)
UseCountOffByOne(t, h, i, shared) ==
  /\ Idle(t) /\ at[h] = t
  /\ AcquireLoad(t, i)
  /\ Goto(t, IF count[i].val > 2 THEN shared ELSE "write", h)
  /\ UNCHANGED handles

(* modify and operator=(U&&) load the count.  A sole owner goes on to write *)
(* in place.  Otherwise modify clones the value and abandons its reference, *)
(* and the assignment makes a model of its own and releases this one.       *)
UseCount(t, h, i, shared) ==
  /\ Idle(t) /\ at[h] = t
  /\ AcquireLoad(t, i)
  /\ Goto(t, IF count[i].val > 1 THEN shared ELSE "write", h)
  /\ UNCHANGED handles

(* _make_model copies the value, or throws. *)
Clone(t) ==
  /\ pc[t] = "clone"
  /\ Touch(t, "use")
  /\ Goto(t, "abandon", arg[t]) \/ Return(t)
  /\ UNCHANGED handles

(* modify: fetch_sub whose result is not looked at, then _self = p. *)
Abandon(t) ==
  /\ pc[t] = "abandon"
  /\ FetchSub(t)
  /\ at' = [at EXCEPT ![arg[t]] = Dead]
  /\ Return(t)
  /\ UNCHANGED reader

Write(t) ==
  /\ pc[t] = "write"
  /\ Touch(t, "write")
  /\ Return(t)
  /\ UNCHANGED handles

Fence(t) ==
  /\ pc[t] = "fence"
  /\ AcquireFence(t)
  /\ Goto(t, "free", NoHandle)
  /\ UNCHANGED handles

(* _destroy_model *)
Free(t) ==
  /\ pc[t] = "free"
  /\ Touch(t, "write")
  /\ Return(t)
  /\ UNCHANGED handles

-----------------------------------------------------------------------------
(* The callers' synchronisation.  Readers of a lent handle are ordered with *)
(* the thread that lends it and the one that takes it, not with each other. *)

Pass(t, h) ==
  /\ Idle(t) /\ at[h] = t
  /\ at' = [at EXCEPT ![h] = Passed]
  /\ out' = [out EXCEPT ![h] = clock[t]]
  /\ back' = [back EXCEPT ![h] = NoClock]
  /\ UNCHANGED <<reader, count, clock, pc, arg>>

Borrow(t, h) ==
  /\ Idle(t) /\ h \in Lendable /\ at[h] = Passed /\ t \notin reader[h]
  /\ reader' = [reader EXCEPT ![h] = @ \cup {t}]
  /\ clock' = [clock EXCEPT ![t] = Join(@, out[h])]
  /\ UNCHANGED <<at, out, back, count, pc, arg>>

GiveBack(t, h) ==
  /\ Idle(t) /\ t \in reader[h]
  /\ reader' = [reader EXCEPT ![h] = @ \ {t}]
  /\ back' = [back EXCEPT ![h] = Join(@, clock[t])]
  /\ UNCHANGED <<at, out, count, clock, pc, arg>>

Take(t, h) ==
  /\ Idle(t) /\ at[h] = Passed /\ reader[h] = {}
  /\ at' = [at EXCEPT ![h] = t]
  /\ clock' = [clock EXCEPT ![t] = Join(@, Join(out[h], back[h]))]
  /\ out' = [out EXCEPT ![h] = NoClock]
  /\ back' = [back EXCEPT ![h] = NoClock]
  /\ UNCHANGED <<reader, count, pc, arg>>

-----------------------------------------------------------------------------

Call(t, h) ==
  \/ Read(t, h)
  \/ \E new \in Handle : Copy(t, h, new)
  \/ Release(t, h)
  \/ \E i \in clock[t].seen .. Len(count), shared \in {"clone", "release"} :
       UseCount(t, h, i, shared)

Proceed(t) == Clone(t) \/ Abandon(t) \/ Write(t) \/ Fence(t) \/ Free(t)

Synchronise(t, h) == Pass(t, h) \/ Borrow(t, h) \/ GiveBack(t, h) \/ Take(t, h)

Next ==
  \E t \in Thread :
    Proceed(t) \/ \E h \in Handle : Call(t, h) \/ Synchronise(t, h)

Spec == Init /\ [][Next]_vars

-----------------------------------------------------------------------------
(* Properties *)

TypeOK ==
  /\ at \in [Handle -> Thread \cup {Dead, Passed}]
  /\ reader \in [Handle -> SUBSET Thread]
  /\ out \in [Handle -> Clock] /\ back \in [Handle -> Clock]
  /\ count \in Seq(Message) /\ Len(count) \in 1 .. MaxMessages
  /\ clock \in [Thread -> Clock]
  /\ pc \in [Thread -> Pc] /\ arg \in [Thread -> Handle \cup {NoHandle}]

(* No data race on the value, part one, and no use after the free: a thread *)
(* that writes the value in place or destroys the model knows every access  *)
(* of the others to the value and to the count.                             *)
WritersKnowAll ==
  \A t \in Thread : pc[t] \in {"write", "free"} => clock[t].knows = Access

(* No data race on the value, part two: a thread that may read the value    *)
(* through some handle knows every write of it.                             *)
ReadersKnowWrites ==
  \A t \in Thread, h \in Handle :
    CanRead(t, h) => Thread \X {"write"} \subseteq clock[t].knows

(* The load of modify and of operator=(U&&) may be stale, but an owner of a *)
(* handle never reads a 1 that is no longer the count.                      *)
StaleOneUnread ==
  \A t \in Thread, h \in Handle :
    at[h] = t => \A i \in clock[t].seen .. Len(count) - 1 : count[i].val # 1

(* A thread writes in place through the only handle there is, and frees a   *)
(* model that no handle refers to and no other call is using.               *)
SoleAccess ==
  \A t \in Thread : pc[t] \in {"write", "fence", "free"} =>
    /\ \A h \in Handle : at[h] = Dead \/ (pc[t] = "write" /\ h = arg[t])
    /\ \A u \in Thread \ {t} : Idle(u)
=============================================================================
