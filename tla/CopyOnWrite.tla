----------------------------- MODULE CopyOnWrite -----------------------------
(***************************************************************************)
(* xyz::copy_on_write<T, Allocator> (module/copy_on_write.cpp), the        *)
(* reference-counted handle that holds the implementation of every         *)
(* transaction and every block.                                            *)
(*                                                                         *)
(* Several threads run operations on their own handles; handles of         *)
(* different threads may share one model (count + value).  A step is one   *)
(* access to shared memory: one atomic operation on a count, or the begin  *)
(* or the end of an access to a value, so that overlapping accesses are    *)
(* states of the model.  Atomics are sequentially consistent here.         *)
(***************************************************************************)
EXTENDS Integers, FiniteSets

CONSTANTS
  Thread, Handle, Model,   \* threads, handle objects, addresses of models
  Alloc,                   \* allocator equality classes
  DefaultAlloc,            \* the class of Allocator{}
  Value,                   \* values of T
  Junk,                    \* a value that was moved from, or raw storage
  Null, Dead,              \* a valueless handle; a handle outside its lifetime
  NoHandle, NoAlloc,       \* "none"
  Everyone,                \* the owner of a handle that all threads only read
  Pocca, Pocma, Pocs       \* the three propagation traits of the allocator

ASSUME ConstAssumption ==
  /\ IsFiniteSet(Thread) /\ IsFiniteSet(Handle)
  /\ DefaultAlloc \in Alloc /\ NoAlloc \notin Alloc
  /\ Null \notin Model /\ Dead \notin Model /\ Null # Dead
  /\ NoHandle \notin Handle /\ Everyone \notin Thread
  /\ Junk \notin Value /\ Dead \notin Value
  /\ {Pocca, Pocma, Pocs} \subseteq BOOLEAN

VARIABLES
  self,    \* self[h]: _self of handle h, or Dead
  alloc,   \* alloc[h]: _alloc of handle h
  owner,   \* owner[h]: the thread that may use h, or Everyone (read only)
  made,    \* made[m]: the allocator model m was allocated with, or NoAlloc
  count,   \* count[m]: the atomic reference count of m
  value,   \* value[m]: the T inside m
  op       \* op[t]: the call thread t is in

heap == <<made, count, value>>
vars == <<self, alloc, owner, made, count, value, op>>

Pc == {"idle", "read", "clone", "steal", "abandon", "write", "drop", "free"}

(* A call in progress: dst is the handle it modifies, src the one it reads, *)
(* tmp what dst will point to (a reference the call itself holds), aft the  *)
(* allocator dst ends with, victim and by the model being destroyed and the *)
(* allocator destroying it, rest the source to reset when dst is done.      *)
Call == [pc : Pc, dst : Handle \cup {NoHandle}, src : Handle \cup {NoHandle},
         rest : Handle \cup {NoHandle}, tmp : Model \cup {Null, Dead},
         aft : Alloc, victim : Model \cup {Null}, by : Alloc]

Idle == [pc |-> "idle", dst |-> NoHandle, src |-> NoHandle, rest |-> NoHandle,
         tmp |-> Null, aft |-> DefaultAlloc, victim |-> Null, by |-> DefaultAlloc]

Run(t, call) == op' = [op EXCEPT ![t] = call]

Reading(h) == [Idle EXCEPT !.pc = "read", !.src = h]
Cloning(h, x, rest, a) ==
  [Idle EXCEPT !.pc = "clone", !.dst = h, !.src = x, !.rest = rest, !.aft = a]
Stealing(h, x, a) ==
  [Idle EXCEPT !.pc = "steal", !.dst = h, !.src = x, !.rest = x, !.aft = a]
Writing(h) == [Idle EXCEPT !.pc = "write", !.dst = h]
Abandoning(h, m, a) ==
  [Idle EXCEPT !.pc = "abandon", !.dst = h, !.tmp = m, !.aft = a]
(* _reset(new) or the destructor is about to run on h. *)
Dropping(h, new, rest, a) ==
  [Idle EXCEPT !.pc = "drop", !.dst = h, !.tmp = new, !.rest = rest, !.aft = a]
Freeing(m, rest, a) ==
  [Idle EXCEPT !.pc = "free", !.victim = m, !.rest = rest, !.by = a]
(* The call goes on with x._reset(nullptr), or returns. *)
Continue(x) == IF x = NoHandle THEN Idle ELSE Dropping(x, Null, NoHandle, alloc[x])

Init ==
  /\ self = [h \in Handle |-> Dead]
  /\ alloc = [h \in Handle |-> DefaultAlloc]
  /\ owner \in [Handle -> Thread]
  /\ made = [m \in Model |-> NoAlloc]
  /\ count = [m \in Model |-> 0]
  /\ value = [m \in Model |-> Junk]
  /\ op = [t \in Thread |-> Idle]

Free(t) == op[t].pc = "idle"
Owns(t, h) == owner[h] = t /\ self[h] # Dead
Fresh(t, h) == owner[h] = t /\ self[h] = Dead
CanRead(t, h) == owner[h] \in {t, Everyone} /\ self[h] # Dead

(* _make_model: allocate with a, count = 1, construct v. *)
MakeModel(m, a, v) ==
  /\ made[m] = NoAlloc
  /\ made' = [made EXCEPT ![m] = a]
  /\ count' = [count EXCEPT ![m] = 1]
  /\ value' = [value EXCEPT ![m] = v]

(* Fault: no fetch_add. *)
ShareUncounted(t, h, x, a) ==
  UNCHANGED count /\ Run(t, Dropping(h, self[x], NoHandle, a))

(* count.fetch_add(1): the call now holds a reference to x's model, and     *)
(* goes on to install it in h.                                              *)
Share(t, h, x, a) ==
  /\ count' = [count EXCEPT ![self[x]] = @ + 1]
  /\ Run(t, Dropping(h, self[x], NoHandle, a))

-----------------------------------------------------------------------------
(* Constructors *)

Construct(t, h, a, v, m) ==
  /\ Free(t) /\ Fresh(t, h)
  /\ MakeModel(m, a, v)
  /\ self' = [self EXCEPT ![h] = m]
  /\ alloc' = [alloc EXCEPT ![h] = a]
  /\ UNCHANGED <<owner, op>>

(* Copy construction with allocator a: the one the caller gives, or the one *)
(* select_on_container_copy_construction returns.                           *)
CopyConstruct(t, h, x, a) ==
  /\ Free(t) /\ Fresh(t, h) /\ CanRead(t, x)
  /\ \/ self[x] = Null /\ Run(t, Dropping(h, Null, NoHandle, a)) /\ UNCHANGED count
     \/ self[x] # Null /\ a = alloc[x] /\ Share(t, h, x, a)
     \/ self[x] # Null /\ a # alloc[x] /\ Run(t, Cloning(h, x, NoHandle, a))
        /\ UNCHANGED count
  /\ UNCHANGED <<self, alloc, owner, made, value>>

(* Move construction; with an unequal allocator, *other is const, so the    *)
(* "move" copies and other gives up its reference afterwards.               *)
MoveConstruct(t, h, x, a) ==
  /\ Free(t) /\ Fresh(t, h) /\ Owns(t, x)
  /\ IF self[x] = Null \/ a = alloc[x]
       THEN /\ self' = [self EXCEPT ![h] = self[x], ![x] = Null]
            /\ alloc' = [alloc EXCEPT ![h] = a]
            /\ UNCHANGED op
       ELSE /\ Run(t, Cloning(h, x, x, a))
            /\ UNCHANGED <<self, alloc>>
  /\ UNCHANGED <<owner, heap>>

-----------------------------------------------------------------------------
(* Assignments; assigning a handle to itself returns at once. *)

(* Fault: the allocators are not compared. *)
CopyAssignSharesAlways(t, h, x) ==
  LET aft == IF Pocca THEN alloc[x] ELSE alloc[h] IN
  /\ Free(t) /\ Owns(t, h) /\ CanRead(t, x) /\ h # x
  /\ \/ self[x] = Null /\ Run(t, Dropping(h, Null, NoHandle, aft)) /\ UNCHANGED count
     \/ self[x] # Null /\ Share(t, h, x, aft)
  /\ UNCHANGED <<self, alloc, owner, made, value>>

CopyAssign(t, h, x) ==
  LET aft == IF Pocca THEN alloc[x] ELSE alloc[h] IN
  /\ Free(t) /\ Owns(t, h) /\ CanRead(t, x) /\ h # x
  /\ \/ self[x] = Null /\ Run(t, Dropping(h, Null, NoHandle, aft)) /\ UNCHANGED count
     \/ self[x] # Null /\ (Pocca \/ alloc[h] = alloc[x]) /\ Share(t, h, x, aft)
     \/ /\ self[x] # Null /\ ~(Pocca \/ alloc[h] = alloc[x])
        /\ Run(t, Cloning(h, x, NoHandle, aft)) /\ UNCHANGED count
  /\ UNCHANGED <<self, alloc, owner, made, value>>

(* Fault: the source keeps its pointer. *)
MoveAssignKeepsSource(t, h, x) ==
  LET aft == IF Pocma THEN alloc[x] ELSE alloc[h] IN
  /\ Free(t) /\ Owns(t, h) /\ Owns(t, x) /\ h # x
  /\ Run(t, IF self[x] = Null \/ Pocma \/ alloc[h] = alloc[x]
              THEN Dropping(h, self[x], NoHandle, aft)
              ELSE Stealing(h, x, aft))
  /\ UNCHANGED <<self, alloc, owner, heap>>

MoveAssign(t, h, x) ==
  LET aft == IF Pocma THEN alloc[x] ELSE alloc[h] IN
  /\ Free(t) /\ Owns(t, h) /\ Owns(t, x) /\ h # x
  /\ IF self[x] = Null \/ Pocma \/ alloc[h] = alloc[x]
       THEN /\ self' = [self EXCEPT ![x] = Null]
            /\ Run(t, Dropping(h, self[x], NoHandle, aft))
       ELSE /\ Run(t, Stealing(h, x, aft))
            /\ UNCHANGED self
  /\ UNCHANGED <<alloc, owner, heap>>

(* Fault: a shared value is assigned in place. *)
AssignValueInPlace(t, h, v, m) ==
  LET aft == IF Pocma THEN DefaultAlloc ELSE alloc[h] IN
  /\ Free(t) /\ Owns(t, h)
  /\ IF self[h] # Null
       THEN Run(t, Writing(h)) /\ UNCHANGED heap
       ELSE MakeModel(m, aft, v) /\ Run(t, Dropping(h, m, NoHandle, aft))
  /\ UNCHANGED <<self, alloc, owner>>

(* operator=(U&&).  The sole owner writes in place.  Otherwise a temporary  *)
(* handle is move-assigned: its model is private to the call and the model  *)
(* m that h ends with is the temporary's own (propagating or equal          *)
(* allocators) or one made with h's allocator from it.                      *)
AssignValue(t, h, v, m) ==
  LET aft == IF Pocma THEN DefaultAlloc ELSE alloc[h] IN
  /\ Free(t) /\ Owns(t, h)
  /\ IF self[h] # Null /\ count[self[h]] = 1
       THEN Run(t, Writing(h)) /\ UNCHANGED heap
       ELSE MakeModel(m, aft, v) /\ Run(t, Dropping(h, m, NoHandle, aft))
  /\ UNCHANGED <<self, alloc, owner>>

-----------------------------------------------------------------------------
(* Modifiers *)

(* Fault: one other owner is not taken for sharing. *)
ModifyOffByOne(t, h) ==
  /\ Free(t) /\ Owns(t, h) /\ self[h] # Null
  /\ Run(t, IF count[self[h]] > 2 THEN Cloning(h, h, NoHandle, alloc[h])
                                  ELSE Writing(h))
  /\ UNCHANGED <<self, alloc, owner, heap>>

(* use_count() > 1 decides between a private copy and an in-place write. *)
Modify(t, h) ==
  /\ Free(t) /\ Owns(t, h) /\ self[h] # Null
  /\ Run(t, IF count[self[h]] > 1 THEN Cloning(h, h, NoHandle, alloc[h])
                                  ELSE Writing(h))
  /\ UNCHANGED <<self, alloc, owner, heap>>

Swap(t, h, x) ==
  /\ Free(t) /\ Owns(t, h) /\ Owns(t, x) /\ h # x
  /\ Pocs \/ alloc[h] = alloc[x]
  /\ self' = [self EXCEPT ![h] = self[x], ![x] = self[h]]
  /\ alloc' = [alloc EXCEPT ![h] = alloc[x], ![x] = alloc[h]]
  /\ UNCHANGED <<owner, heap, op>>

Destroy(t, h) ==
  /\ Free(t) /\ Owns(t, h)
  /\ Run(t, Dropping(h, Dead, NoHandle, alloc[h]))
  /\ UNCHANGED <<self, alloc, owner, heap>>

(* operator*, operator->, and the comparisons and hash that go through them. *)
ReadBegin(t, h) ==
  /\ Free(t) /\ CanRead(t, h) /\ self[h] # Null
  /\ Run(t, Reading(h))
  /\ UNCHANGED <<self, alloc, owner, heap>>

-----------------------------------------------------------------------------
(* Steps inside a call *)

ReadEnd(t) ==
  /\ op[t].pc = "read"
  /\ Run(t, Idle)
  /\ UNCHANGED <<self, alloc, owner, heap>>

(* _make_model(a, copy of the value) returns.  modify goes on to give up    *)
(* its reference to the old model, a copy to install the new one.           *)
CloneEnd(t, m) ==
  LET o == op[t] IN
  /\ o.pc = "clone"
  /\ MakeModel(m, o.aft, value[self[o.src]])
  /\ Run(t, IF o.src = o.dst THEN Abandoning(o.dst, m, o.aft)
                             ELSE Dropping(o.dst, m, o.rest, o.aft))
  /\ UNCHANGED <<self, alloc, owner>>

(* _make_model throws: out of memory, or T's copy constructor does. *)
Throw(t) ==
  /\ op[t].pc \in {"clone", "steal"}
  /\ Run(t, Idle)
  /\ UNCHANGED <<self, alloc, owner, heap>>

(* _make_model(_alloc, std::move(x._self->value)) *)
StealEnd(t, m) ==
  LET o == op[t]
      x == self[o.src] IN
  /\ o.pc = "steal" /\ made[m] = NoAlloc
  /\ made' = [made EXCEPT ![m] = o.aft]
  /\ count' = [count EXCEPT ![m] = 1]
  /\ value' = [value EXCEPT ![m] = value[x], ![x] = Junk]
  /\ Run(t, Dropping(o.dst, m, o.rest, o.aft))
  /\ UNCHANGED <<self, alloc, owner>>

(* Fault: modify keeps the reference to the old model. *)
AbandonKeepsReference(t) ==
  LET o == op[t] IN
  /\ o.pc = "abandon"
  /\ self' = [self EXCEPT ![o.dst] = o.tmp]
  /\ Run(t, Writing(o.dst))
  /\ UNCHANGED <<alloc, owner, heap>>

(* modify: fetch_sub whose result is not looked at, then _self = p.  The    *)
(* value of the fresh model is not seen by others before the action (or the *)
(* transform) has set it, so both overloads go on to a write.               *)
Abandon(t) ==
  LET o == op[t] IN
  /\ o.pc = "abandon"
  /\ count' = [count EXCEPT ![self[o.dst]] = @ - 1]
  /\ self' = [self EXCEPT ![o.dst] = o.tmp]
  /\ Run(t, Writing(o.dst))
  /\ UNCHANGED <<alloc, owner, made, value>>

WriteEnd(t, v) ==
  /\ op[t].pc = "write"
  /\ value' = [value EXCEPT ![self[op[t].dst]] = v]
  /\ Run(t, Idle)
  /\ UNCHANGED <<self, alloc, owner, made, count>>

(* Faults: the old value of the count taken for the new one, and a          *)
(* comparison that is off by one.                                           *)
LastOwnerNever(n) == n = 0
LastOwnerEarly(n) == n <= 2

(* fetch_sub(1) == 1 *)
LastOwner(n) == n = 1

(* Fault: the allocator is replaced before the old model is given back.     *)
DropByNewAllocator(t) ==
  LET o == op[t]
      old == self[o.dst] IN
  /\ o.pc = "drop"
  /\ self' = [self EXCEPT ![o.dst] = o.tmp]
  /\ alloc' = [alloc EXCEPT ![o.dst] = o.aft]
  /\ count' = IF old \in Model THEN [count EXCEPT ![old] = @ - 1] ELSE count
  /\ Run(t, IF old \in Model /\ LastOwner(count[old])
              THEN Freeing(old, o.rest, o.aft)
              ELSE Continue(o.rest))
  /\ UNCHANGED <<owner, made, value>>

(* _reset(tmp), the destructor's release, and the propagation of the        *)
(* allocator that follows: the destroying allocator is the old one.         *)
Drop(t) ==
  LET o == op[t]
      old == self[o.dst] IN
  /\ o.pc = "drop"
  /\ self' = [self EXCEPT ![o.dst] = o.tmp]
  /\ alloc' = [alloc EXCEPT ![o.dst] = o.aft]
  /\ count' = IF old \in Model THEN [count EXCEPT ![old] = @ - 1] ELSE count
  /\ Run(t, IF old \in Model /\ LastOwner(count[old])
              THEN Freeing(old, o.rest, alloc[o.dst])
              ELSE Continue(o.rest))
  /\ UNCHANGED <<owner, made, value>>

(* Fault: the value is destroyed, its memory is not given back. *)
FreeEndKeepsMemory(t) ==
  LET o == op[t] IN
  /\ o.pc = "free"
  /\ value' = [value EXCEPT ![o.victim] = Junk]
  /\ Run(t, Continue(o.rest))
  /\ UNCHANGED <<self, alloc, owner, made, count>>

(* _destroy_model *)
FreeEnd(t) ==
  LET o == op[t] IN
  /\ o.pc = "free"
  /\ made' = [made EXCEPT ![o.victim] = NoAlloc]
  /\ value' = [value EXCEPT ![o.victim] = Junk]
  /\ Run(t, Continue(o.rest))
  /\ UNCHANGED <<self, alloc, owner, count>>

-----------------------------------------------------------------------------
(* What callers must do to use a handle from several threads: hand it over  *)
(* for reading only, and take it back when no call is reading it.           *)

Uses(t, h) == h \in {op[t].dst, op[t].src, op[t].rest}

Publish(t, h) ==
  /\ Free(t) /\ Owns(t, h)
  /\ owner' = [owner EXCEPT ![h] = Everyone]
  /\ UNCHANGED <<self, alloc, heap, op>>

Reclaim(t, h) ==
  /\ Free(t) /\ owner[h] = Everyone
  /\ \A u \in Thread : ~Uses(u, h)
  /\ owner' = [owner EXCEPT ![h] = t]
  /\ UNCHANGED <<self, alloc, heap, op>>

-----------------------------------------------------------------------------

Begin(t) ==
  \E h \in Handle :
    \/ \E a \in Alloc, v \in Value, m \in Model : Construct(t, h, a, v, m)
    \/ \E x \in Handle, a \in Alloc : CopyConstruct(t, h, x, a)
    \/ \E x \in Handle, a \in Alloc : MoveConstruct(t, h, x, a)
    \/ \E x \in Handle : CopyAssign(t, h, x)
    \/ \E x \in Handle : MoveAssign(t, h, x)
    \/ \E v \in Value, m \in Model : AssignValue(t, h, v, m)
    \/ Modify(t, h)
    \/ \E x \in Handle : Swap(t, h, x)
    \/ Destroy(t, h)
    \/ ReadBegin(t, h)
    \/ Publish(t, h)
    \/ Reclaim(t, h)

Proceed(t) ==
  \/ ReadEnd(t)
  \/ \E m \in Model : CloneEnd(t, m)
  \/ Throw(t)
  \/ \E m \in Model : StealEnd(t, m)
  \/ Abandon(t)
  \/ \E v \in Value : WriteEnd(t, v)
  \/ Drop(t)
  \/ FreeEnd(t)

Next == \E t \in Thread : Begin(t) \/ Proceed(t)

Spec == Init /\ [][Next]_vars

(* A thread that is inside a call keeps running; nobody has to make calls. *)
FairSpec == Spec /\ \A t \in Thread : WF_vars(Proceed(t))

-----------------------------------------------------------------------------
(* Properties *)

Refs(m) == {h \in Handle : self[h] = m}
Holders(m) == {t \in Thread : op[t].tmp = m}
Live(m) == made[m] # NoAlloc

TypeOK ==
  /\ self \in [Handle -> Model \cup {Null, Dead}]
  /\ alloc \in [Handle -> Alloc]
  /\ owner \in [Handle -> Thread \cup {Everyone}]
  /\ made \in [Model -> Alloc \cup {NoAlloc}]
  /\ count \in [Model -> Nat]
  /\ value \in [Model -> Value \cup {Junk}]
  /\ op \in [Thread -> Call]

(* The count of a model is the number of handles that point to it plus the  *)
(* number of calls that hold a reference they have not installed yet.       *)
CountIsReferences ==
  \A m \in Model : count[m] = Cardinality(Refs(m)) + Cardinality(Holders(m))

(* No handle points to, no call is about to install, and no call reads or   *)
(* writes a model that was freed or is being freed by _destroy_model.       *)
NoDangling ==
  /\ \A m \in Model : Refs(m) # {} \/ Holders(m) # {} => Live(m)
  /\ \A t \in Thread : op[t].pc = "free" =>
       /\ Live(op[t].victim)
       /\ Refs(op[t].victim) = {} /\ Holders(op[t].victim) = {}
       /\ \A u \in Thread \ {t} : op[u].victim # op[t].victim

Reads(t) == IF op[t].pc \in {"read", "clone"} THEN {self[op[t].src]} ELSE {}
Writes(t) ==
  {m \in Model : \/ op[t].pc = "write" /\ self[op[t].dst] = m
                 \/ op[t].pc = "steal" /\ self[op[t].src] = m
                 \/ op[t].pc = "free" /\ op[t].victim = m}
Conflict(t, u) == Writes(t) \cap (Reads(u) \cup Writes(u)) # {}

(* A value is never written, moved from or destroyed while another thread   *)
(* accesses it, unless a move assignment between unequal allocators that    *)
(* do not propagate is moving from it.                                      *)
RaceOnlyBySteal ==
  \A t, u \in Thread : t # u /\ Conflict(t, u) => "steal" \in {op[t].pc, op[u].pc}

(* With equal or propagating allocators there is no data race on a value,   *)
(* and no owner ever sees a moved-from value.                               *)
NoRace ==
  /\ \A t, u \in Thread : t # u => ~Conflict(t, u)
  /\ \A h \in Handle : self[h] \in Model => value[self[h]] # Junk

(* Every model is destroyed with the allocator that allocated it, whatever  *)
(* the propagation traits.                                                  *)
FreedByItsAllocator ==
  \A t \in Thread : op[t].pc = "free" => made[op[t].victim] = op[t].by

Leaked(m) ==
  /\ Live(m) /\ Refs(m) = {} /\ Holders(m) = {}
  /\ \A t \in Thread : op[t].victim # m

(* A model is lost only by modify: when the last other owner has released   *)
(* it between modify's load of the count and its fetch_sub.  Every other    *)
(* operation, the exceptions included, frees what it releases last.         *)
LeakOnlyByAbandon ==
  [][\A m \in Model : ~Leaked(m) /\ Leaked(m)' =>
       \E t \in Thread : op[t].pc = "abandon" /\ self[op[t].dst] = m]_vars

(* The value seen through a handle changes only by an in-place write on     *)
(* that very handle, or because a move assignment between unequal           *)
(* allocators moves out of the model it shares.                             *)
ForeignChangeOnlyBySteal ==
  [][\A h \in Handle :
       /\ self[h] \in Model /\ self'[h] = self[h] /\ value'[self[h]] # value[self[h]]
       => \E t \in Thread :
            \/ op[t].pc = "steal" /\ self[op[t].src] = self[h]
            \/ op[t].pc = "write" /\ op[t].dst = h]_vars

(* Every call returns (no call waits for another thread), and a model that  *)
(* no handle points to, not yet or no longer, ends up installed or freed    *)
(* unless modify has already lost it.                                       *)
Returns ==
  /\ \A t \in Thread : op[t].pc # "idle" ~> op[t].pc = "idle"
  /\ \A m \in Model :
       Live(m) /\ Refs(m) = {} /\ ~Leaked(m) ~> ~Live(m) \/ Refs(m) # {}

-----------------------------------------------------------------------------
(* The inductive invariant *)

(* What a call in progress may rely on: nobody else can change the handles  *)
(* it modifies, nor those it reads; an in-place write is by the sole owner, *)
(* and modify's private copy has no other.                                  *)
CallOK(t) ==
  LET o == op[t] IN
  /\ o.pc = "idle" => o = Idle
  /\ o.pc \in {"clone", "steal", "abandon", "write", "drop"} <=> o.dst # NoHandle
  /\ o.pc \in {"read", "clone", "steal"} <=> o.src # NoHandle
  /\ o.tmp \in Model => o.pc \in {"abandon", "drop"}
  /\ o.pc = "free" <=> o.victim # Null
  /\ o.dst # NoHandle => owner[o.dst] = t
  /\ o.rest # NoHandle => owner[o.rest] = t
  /\ o.src # NoHandle => owner[o.src] \in {t, Everyone} /\ self[o.src] \in Model
  /\ o.pc \in {"abandon", "write"} => self[o.dst] \in Model
  /\ o.pc = "abandon" => o.tmp \in Model /\ count[o.tmp] = 1
  /\ o.pc = "write" => count[self[o.dst]] = 1

(* A model in nobody's hands has count 0; one that is being destroyed is    *)
(* destroyed by one call.                                                   *)
HeapOK ==
  /\ \A m \in Model : ~Live(m) => count[m] = 0
  /\ \A t \in Thread : op[t].pc = "free" =>
       /\ Live(op[t].victim) /\ count[op[t].victim] = 0
       /\ \A u \in Thread \ {t} : op[u].victim # op[t].victim

(* Handles, and the calls about to set them, know the allocator of a model. *)
AllocOK ==
  /\ \A h \in Handle : self[h] \in Model => made[self[h]] = alloc[h]
  /\ \A t \in Thread :
       LET o == op[t] IN
       /\ o.tmp \in Model => made[o.tmp] = o.aft
       /\ o.pc = "abandon" \/ (o.pc = "clone" /\ o.src = o.dst) => o.aft = alloc[o.dst]
       /\ o.pc = "free" => made[o.victim] = o.by

(* With equal or propagating allocators no call moves from a shared model,  *)
(* and a model that somebody refers to holds a value.                       *)
EqualOrPropagating == Pocma \/ \A a, b \in Alloc : a = b

Clean ==
  /\ \A t \in Thread : op[t].pc # "steal"
  /\ \A m \in Model : count[m] > 0 => value[m] # Junk

IInv == TypeOK /\ CountIsReferences /\ HeapOK /\ (\A t \in Thread : CallOK(t)) /\ AllocOK

-----------------------------------------------------------------------------
(* Refinement: handles as the independent values of CowValue. *)

Nothing == << >>
Content(p) == IF p \in Model THEN value[p] ELSE p
Sets(call) ==
  IF call.pc \in {"drop", "abandon"} THEN <<call.dst, Content(call.tmp)>> ELSE Nothing

Shown == [h \in Handle |-> Content(self[h])]
Pending == [t \in Thread |-> Sets(op[t])]

Abstract == INSTANCE CowValue WITH val <- Shown, pend <- Pending

(* Sharing is unobservable: whatever the threads do, with allocators that   *)
(* are equal or propagate on move, each handle behaves as a value of its    *)
(* own.                                                                     *)
ValueSemantics == Abstract!Spec
=============================================================================
