-------------------------- MODULE CopyOnWriteProofs --------------------------
(***************************************************************************)
(* Theorems about copy_on_write for every set of threads, handles, models, *)
(* values and allocators, and every combination of propagation traits.     *)
(***************************************************************************)
EXTENDS CopyOnWrite, FiniteSetTheorems, TLAPS

(* The fields of each kind of call, so that no later proof expands records. *)
LEMMA IdleFields ==
  /\ Idle \in Call
  /\ Idle.pc = "idle" /\ Idle.dst = NoHandle /\ Idle.src = NoHandle
  /\ Idle.rest = NoHandle /\ Idle.tmp = Null /\ Idle.victim = Null
  /\ Idle.aft = DefaultAlloc /\ Idle.by = DefaultAlloc
  BY ConstAssumption DEF Idle, Call, Pc

LEMMA ReadingFields ==
  ASSUME NEW h \in Handle
  PROVE  LET c == Reading(h) IN
         /\ c \in Call
         /\ c.pc = "read" /\ c.dst = NoHandle /\ c.src = h /\ c.rest = NoHandle
         /\ c.tmp = Null /\ c.victim = Null
  BY ConstAssumption DEF Reading, Idle, Call, Pc

LEMMA CloningFields ==
  ASSUME NEW h \in Handle, NEW x \in Handle, NEW r \in Handle \cup {NoHandle},
         NEW a \in Alloc
  PROVE  LET c == Cloning(h, x, r, a) IN
         /\ c \in Call
         /\ c.pc = "clone" /\ c.dst = h /\ c.src = x /\ c.rest = r
         /\ c.tmp = Null /\ c.victim = Null /\ c.aft = a
  BY ConstAssumption DEF Cloning, Idle, Call, Pc

LEMMA StealingFields ==
  ASSUME NEW h \in Handle, NEW x \in Handle, NEW a \in Alloc
  PROVE  LET c == Stealing(h, x, a) IN
         /\ c \in Call
         /\ c.pc = "steal" /\ c.dst = h /\ c.src = x /\ c.rest = x
         /\ c.tmp = Null /\ c.victim = Null /\ c.aft = a
  BY ConstAssumption DEF Stealing, Idle, Call, Pc

LEMMA WritingFields ==
  ASSUME NEW h \in Handle
  PROVE  LET c == Writing(h) IN
         /\ c \in Call
         /\ c.pc = "write" /\ c.dst = h /\ c.src = NoHandle /\ c.rest = NoHandle
         /\ c.tmp = Null /\ c.victim = Null
  BY ConstAssumption DEF Writing, Idle, Call, Pc

LEMMA AbandoningFields ==
  ASSUME NEW h \in Handle, NEW m \in Model, NEW a \in Alloc
  PROVE  LET c == Abandoning(h, m, a) IN
         /\ c \in Call
         /\ c.pc = "abandon" /\ c.dst = h /\ c.src = NoHandle /\ c.rest = NoHandle
         /\ c.tmp = m /\ c.victim = Null /\ c.aft = a
  BY ConstAssumption DEF Abandoning, Idle, Call, Pc

LEMMA DroppingFields ==
  ASSUME NEW h \in Handle, NEW p, p \in Model \/ p \in {Null, Dead},
         NEW r, r \in Handle \/ r = NoHandle, NEW a \in Alloc
  PROVE  LET c == Dropping(h, p, r, a) IN
         /\ c \in Call
         /\ c.pc = "drop" /\ c.dst = h /\ c.src = NoHandle /\ c.rest = r
         /\ c.tmp = p /\ c.victim = Null /\ c.aft = a
  BY ConstAssumption DEF Dropping, Idle, Call, Pc

LEMMA FreeingFields ==
  ASSUME NEW m \in Model, NEW r \in Handle \cup {NoHandle}, NEW a \in Alloc
  PROVE  LET c == Freeing(m, r, a) IN
         /\ c \in Call
         /\ c.pc = "free" /\ c.dst = NoHandle /\ c.src = NoHandle /\ c.rest = r
         /\ c.tmp = Null /\ c.victim = m /\ c.by = a
  BY ConstAssumption DEF Freeing, Idle, Call, Pc

(* What a call goes on with holds no reference. *)
LEMMA ContinueFields ==
  ASSUME TypeOK, NEW r \in Handle \cup {NoHandle}
  PROVE  LET c == Continue(r) IN
         /\ c \in Call
         /\ c.tmp = Null /\ c.victim = Null
         /\ c.src = NoHandle /\ c.rest = NoHandle
         /\ r = NoHandle => c = Idle
         /\ r # NoHandle => c.pc = "drop" /\ c.dst = r /\ c.aft = alloc[r]
  BY IdleFields, DroppingFields, ConstAssumption DEF Continue, TypeOK

-----------------------------------------------------------------------------
(* Counting *)

Bit(P) == IF P THEN 1 ELSE 0

(* Updating a function at one argument moves one element between the        *)
(* preimages of its values.                                                 *)
LEMMA OccUpdate ==
  ASSUME NEW S, IsFiniteSet(S), NEW F \in SUBSET S, NEW G \in SUBSET S, NEW s \in S,
         F \ {s} = G \ {s}
  PROVE  /\ Cardinality(F) \in Nat /\ Cardinality(G) \in Nat
         /\ Cardinality(G) = Cardinality(F) + Bit(s \in G) - Bit(s \in F)
<1>1. IsFiniteSet(F) /\ IsFiniteSet(G)
  BY FS_Subset
<1>2. Cardinality(F) \in Nat /\ Cardinality(G) \in Nat
  BY <1>1, FS_CardinalityType
<1>3. /\ Cardinality(F \ {s}) = IF s \in F THEN Cardinality(F) - 1 ELSE Cardinality(F)
      /\ Cardinality(G \ {s}) = IF s \in G THEN Cardinality(G) - 1 ELSE Cardinality(G)
  BY <1>1, FS_RemoveElement
<1> QED
  BY <1>2, <1>3 DEF Bit

LEMMA RefsNat ==
  ASSUME NEW m
  PROVE  /\ IsFiniteSet(Refs(m)) /\ IsFiniteSet(Holders(m))
         /\ Cardinality(Refs(m)) \in Nat /\ Cardinality(Holders(m)) \in Nat
<1>1. IsFiniteSet(Refs(m)) /\ IsFiniteSet(Holders(m))
  BY ConstAssumption, FS_Subset DEF Refs, Holders
<1> QED
  BY <1>1, FS_CardinalityType

(* A step that changes _self of at most one handle. *)
LEMMA RefsUpdate ==
  ASSUME NEW h \in Handle, \A y \in Handle \ {h} : self'[y] = self[y], NEW m
  PROVE  Cardinality(Refs(m)')
           = Cardinality(Refs(m)) + Bit(self'[h] = m) - Bit(self[h] = m)
<1>1. /\ Refs(m) \in SUBSET Handle /\ Refs(m)' \in SUBSET Handle
      /\ Refs(m) \ {h} = Refs(m)' \ {h}
      /\ h \in Refs(m)' <=> self'[h] = m
      /\ h \in Refs(m) <=> self[h] = m
  BY DEF Refs
<1>2. Cardinality(Refs(m)') = Cardinality(Refs(m)) + Bit(h \in Refs(m)') - Bit(h \in Refs(m))
  BY <1>1, OccUpdate, ConstAssumption
<1> QED
  BY <1>1, <1>2 DEF Bit

(* A step that changes two handles. *)
LEMMA RefsUpdate2 ==
  ASSUME NEW h \in Handle, NEW x \in Handle, h # x,
         \A y \in Handle \ {h, x} : self'[y] = self[y], NEW m
  PROVE  Cardinality(Refs(m)') = Cardinality(Refs(m))
                                   + Bit(self'[h] = m) - Bit(self[h] = m)
                                   + Bit(self'[x] = m) - Bit(self[x] = m)
<1> DEFINE mid == {y \in Handle : (IF y = h THEN self'[y] ELSE self[y]) = m}
<1>1. /\ Refs(m) \in SUBSET Handle /\ Refs(m)' \in SUBSET Handle /\ mid \in SUBSET Handle
      /\ Refs(m) \ {h} = mid \ {h} /\ mid \ {x} = Refs(m)' \ {x}
      /\ h \in mid <=> self'[h] = m
      /\ h \in Refs(m) <=> self[h] = m
      /\ x \in mid <=> self[x] = m
      /\ x \in Refs(m)' <=> self'[x] = m
  BY DEF Refs
<1> HIDE DEF mid
<1>2. /\ Cardinality(mid) = Cardinality(Refs(m)) + Bit(h \in mid) - Bit(h \in Refs(m))
      /\ Cardinality(mid) \in Nat /\ Cardinality(Refs(m)) \in Nat
  BY <1>1, OccUpdate, ConstAssumption
<1>3. Cardinality(Refs(m)') = Cardinality(mid) + Bit(x \in Refs(m)') - Bit(x \in mid)
  BY <1>1, OccUpdate, ConstAssumption
<1> QED
  BY <1>1, <1>2, <1>3 DEF Bit

(* A step of the call of thread t. *)
LEMMA HoldersUpdate ==
  ASSUME TypeOK, NEW t \in Thread, NEW c, Run(t, c), NEW m
  PROVE  Cardinality(Holders(m)') =
           Cardinality(Holders(m)) + Bit(c.tmp = m) - Bit(op[t].tmp = m)
<1>1. /\ Holders(m) \in SUBSET Thread /\ Holders(m)' \in SUBSET Thread
      /\ Holders(m) \ {t} = Holders(m)' \ {t}
      /\ t \in Holders(m)' <=> c.tmp = m
      /\ t \in Holders(m) <=> op[t].tmp = m
  BY DEF Holders, TypeOK, Run
<1>2. Cardinality(Holders(m)')
        = Cardinality(Holders(m)) + Bit(t \in Holders(m)') - Bit(t \in Holders(m))
  BY <1>1, OccUpdate, ConstAssumption
<1> QED
  BY <1>1, <1>2 DEF Bit

(* What a count says about who refers to a model. *)
LEMMA CountFacts ==
  ASSUME TypeOK, CountIsReferences, NEW m \in Model
  PROVE  /\ \A h \in Handle : self[h] = m => count[m] > 0
         /\ \A t \in Thread : op[t].tmp = m => count[m] > 0
         /\ count[m] = 1 => \A h, x \in Handle : self[h] = m /\ self[x] = m => h = x
         /\ \A h \in Handle, t \in Thread : self[h] = m /\ op[t].tmp = m => count[m] # 1
<1> DEFINE R == Refs(m)  K == Holders(m)
<1>1. /\ IsFiniteSet(R) /\ IsFiniteSet(K)
      /\ Cardinality(R) \in Nat /\ Cardinality(K) \in Nat
  BY RefsNat
<1>2. count[m] = Cardinality(R) + Cardinality(K)
  BY DEF CountIsReferences
<1>3. /\ \A h \in Handle : self[h] = m => h \in R
      /\ \A t \in Thread : op[t].tmp = m => t \in K
  BY DEF Refs, Holders
<1> HIDE DEF R, K
<1>4. /\ R # {} => Cardinality(R) > 0
      /\ K # {} => Cardinality(K) > 0
  BY <1>1, FS_EmptySet
<1>5. Cardinality(R) = 1 => \E h : R = {h}
  BY <1>1, FS_Singleton
<1>6. \A h \in Handle : self[h] = m => count[m] > 0
  BY <1>1, <1>2, <1>3, <1>4
<1>7. \A t \in Thread : op[t].tmp = m => count[m] > 0
  BY <1>1, <1>2, <1>3, <1>4
<1>8. ASSUME count[m] = 1, NEW h \in Handle, NEW x \in Handle, self[h] = m, self[x] = m
      PROVE  h = x
  <2>1. h \in R /\ x \in R
    BY <1>3, <1>8
  <2>2. Cardinality(R) = 1
    BY <1>1, <1>2, <1>4, <1>8, <2>1
  <2> QED
    BY <1>5, <2>1, <2>2
<1>9. ASSUME NEW h \in Handle, NEW t \in Thread, self[h] = m, op[t].tmp = m
      PROVE  count[m] # 1
  BY <1>1, <1>2, <1>3, <1>4, <1>9
<1> QED
  BY <1>6, <1>7, <1>8, <1>9

-----------------------------------------------------------------------------
(* What a step of thread t leaves intact for the others *)

(* The calls of other threads: t changes only handles it owns, and the      *)
(* count only of models its handles, or read-only ones, point to.           *)
LEMMA OtherCalls ==
  ASSUME IInv, NEW t \in Thread, NEW c, Run(t, c), owner' = owner,
         \A h \in Handle : owner[h] # t => self'[h] = self[h],
         \A m \in Model : \/ count'[m] = count[m] \/ count[m] = 0
                          \/ \E h \in Handle : self[h] = m /\ owner[h] \in {t, Everyone}
  PROVE  \A u \in Thread \ {t} : CallOK(u)'
<1> SUFFICES ASSUME NEW u \in Thread, u # t
             PROVE  CallOK(u)'
  OBVIOUS
<1>1. op'[u] = op[u] /\ op[u] \in Call
  BY DEF IInv, TypeOK, Run
<1>2. CallOK(u)
  BY DEF IInv
<1>3. op[u].dst # NoHandle => op[u].dst \in Handle /\ owner[op[u].dst] = u
  BY <1>1, <1>2 DEF CallOK, Call
<1>4. op[u].src # NoHandle => op[u].src \in Handle /\ owner[op[u].src] \in {u, Everyone}
  BY <1>1, <1>2 DEF CallOK, Call
<1>5. /\ op[u].dst # NoHandle => self'[op[u].dst] = self[op[u].dst]
      /\ op[u].src # NoHandle => self'[op[u].src] = self[op[u].src]
  BY <1>3, <1>4, ConstAssumption
<1>6. op[u].pc = "write" => count'[self'[op[u].dst]] = 1
  <2> SUFFICES ASSUME op[u].pc = "write"
               PROVE  count'[self[op[u].dst]] = 1
    BY <1>2, <1>5 DEF CallOK
  <2>1. /\ op[u].dst \in Handle /\ owner[op[u].dst] = u /\ self[op[u].dst] \in Model
        /\ count[self[op[u].dst]] = 1
    BY <1>2, <1>3 DEF CallOK
  <2>2. \A h \in Handle : self[h] = self[op[u].dst] => h = op[u].dst
    BY <2>1, CountFacts DEF IInv
  <2> QED
    BY <2>1, <2>2, ConstAssumption
<1>7. op[u].pc = "abandon" => count'[op[u].tmp] = 1
  <2> SUFFICES ASSUME op[u].pc = "abandon"
               PROVE  count'[op[u].tmp] = 1
    OBVIOUS
  <2>1. op[u].tmp \in Model /\ count[op[u].tmp] = 1
    BY <1>2 DEF CallOK
  <2>2. \A h \in Handle : self[h] # op[u].tmp
    BY <2>1, CountFacts DEF IInv
  <2> QED
    BY <2>1, <2>2
<1> QED
  BY <1>1, <1>2, <1>5, <1>6, <1>7 DEF CallOK

(* The models, when t neither starts nor ends destroying one. *)
LEMMA HeapFrame ==
  ASSUME IInv, NEW t \in Thread, NEW c, Run(t, c), op[t].victim = Null, c.victim = Null,
         \A m \in Model : Live(m) => Live(m)',
         \A m \in Model : ~Live(m)' => count'[m] = count[m],
         \A m \in Model : Live(m) /\ count[m] = 0 => count'[m] = 0,
         c.pc # "free"
  PROVE  HeapOK'
<1>1. /\ \A m \in Model : ~Live(m)' => count'[m] = 0
  BY DEF IInv, HeapOK
<1>2. ASSUME NEW u \in Thread, op'[u].pc = "free"
      PROVE  /\ made'[op'[u].victim] # NoAlloc /\ count'[op'[u].victim] = 0
             /\ \A w \in Thread \ {u} : op'[w].victim # op'[u].victim
  <2>1. u # t /\ op'[u] = op[u] /\ op[u] \in Call /\ op[u].pc = "free"
    BY <1>2 DEF Run, IInv, TypeOK
  <2>2. /\ op[u].victim \in Model
        /\ Live(op[u].victim) /\ count[op[u].victim] = 0
        /\ \A w \in Thread \ {u} : op[w].victim # op[u].victim
    BY <2>1 DEF IInv, HeapOK, CallOK, Call
  <2>3. \A w \in Thread : op'[w].victim = op[w].victim
    BY <2>1 DEF Run, IInv, TypeOK
  <2> QED
    BY <2>1, <2>2, <2>3 DEF Live
<1> QED
  BY <1>1, <1>2 DEF HeapOK, Live

(* What handles and calls know about allocators: it is enough to look at    *)
(* the handles and the call that t changes.                                 *)
LEMMA AllocFrame ==
  ASSUME IInv, NEW t \in Thread, NEW c, Run(t, c),
         \A h \in Handle : owner[h] # t => alloc'[h] = alloc[h],
         \A m \in Model :
           count[m] > 0 \/ (\E u \in Thread \ {t} : op[u].victim = m) => made'[m] = made[m],
         \A h \in Handle : self'[h] \in Model => made'[self'[h]] = alloc'[h],
         c.tmp \in Model => made'[c.tmp] = c.aft,
         c.pc = "abandon" \/ (c.pc = "clone" /\ c.src = c.dst) => c.aft = alloc'[c.dst],
         c.pc = "free" => made'[c.victim] = c.by
  PROVE  AllocOK'
<1> SUFFICES ASSUME NEW u \in Thread
             PROVE  LET o == op'[u] IN
                    /\ o.tmp \in Model => made'[o.tmp] = o.aft
                    /\ o.pc = "abandon" \/ (o.pc = "clone" /\ o.src = o.dst)
                         => o.aft = alloc'[o.dst]
                    /\ o.pc = "free" => made'[o.victim] = o.by
  BY DEF AllocOK
<1>1. CASE u = t
  BY <1>1 DEF Run, IInv, TypeOK
<1>2. CASE u # t
  <2>1. op'[u] = op[u] /\ op[u] \in Call /\ CallOK(u)
    BY <1>2 DEF Run, IInv, TypeOK
  <2>2. op[u].tmp \in Model => made'[op[u].tmp] = op[u].aft
    BY <2>1, CountFacts DEF IInv, AllocOK
  <2>3. op[u].pc = "abandon" \/ (op[u].pc = "clone" /\ op[u].src = op[u].dst)
          => op[u].aft = alloc'[op[u].dst]
    BY <1>2, <2>1 DEF IInv, AllocOK, CallOK, Call
  <2>4. op[u].pc = "free" => made'[op[u].victim] = op[u].by
    BY <1>2, <2>1 DEF IInv, AllocOK, CallOK, Call
  <2> QED
    BY <2>1, <2>2, <2>3, <2>4
<1> QED
  BY <1>1, <1>2

(* A thread outside a call. *)
LEMMA FreeCall ==
  ASSUME IInv, NEW t \in Thread, Free(t)
  PROVE  /\ op[t] = Idle /\ op[t].tmp = Null /\ op[t].victim = Null
  BY IdleFields DEF IInv, CallOK, Free

-----------------------------------------------------------------------------
(* Steps that only move a call forward: nothing shared changes, and the     *)
(* call holds no reference before or after.                                 *)
LEMMA CallStep ==
  ASSUME IInv, NEW t \in Thread, NEW c \in Call, Run(t, c),
         UNCHANGED <<self, alloc, owner, heap>>,
         op[t].tmp \notin Model, op[t].victim = Null,
         c.tmp \notin Model, c.victim = Null, c.pc \notin {"abandon", "free"},
         c.pc = "clone" /\ c.src = c.dst => c.aft = alloc[c.dst],
         CallOK(t)'
  PROVE  IInv'
<1>1. TypeOK'
  BY DEF IInv, TypeOK, Run, heap
<1>2. CountIsReferences'
  <2>1. TypeOK
    BY DEF IInv
  <2>2. ASSUME NEW m \in Model PROVE Cardinality(Holders(m)') = Cardinality(Holders(m))
    BY <2>1, HoldersUpdate, RefsNat DEF Bit
  <2>3. ASSUME NEW m \in Model PROVE Refs(m)' = Refs(m)
    BY DEF Refs
  <2> QED
    BY <2>2, <2>3 DEF IInv, CountIsReferences, heap
<1>3. HeapOK'
  BY HeapFrame DEF heap, Live, IInv, HeapOK
<1>4. \A u \in Thread : CallOK(u)'
  BY OtherCalls DEF heap
<1>5. AllocOK'
  BY AllocFrame DEF heap, IInv, AllocOK
<1> QED
  BY <1>1, <1>2, <1>3, <1>4, <1>5 DEF IInv

(* A fetch_add: the call now holds the reference it added. *)
LEMMA ShareStep ==
  ASSUME IInv, NEW t \in Thread, NEW h \in Handle, NEW x \in Handle, NEW a \in Alloc,
         Free(t), owner[h] = t, CanRead(t, x), self[x] # Null, a = alloc[x],
         Share(t, h, x, a), UNCHANGED <<self, alloc, owner, made, value>>
  PROVE  IInv'
<1> DEFINE c == Dropping(h, self[x], NoHandle, a)
<1>0. /\ TypeOK /\ self[x] \in Model /\ Run(t, c)
      /\ count' = [count EXCEPT ![self[x]] = @ + 1]
  BY DEF IInv, TypeOK, CanRead, Share
<1>c. /\ c \in Call /\ c.pc = "drop" /\ c.dst = h /\ c.src = NoHandle
      /\ c.rest = NoHandle /\ c.tmp = self[x] /\ c.victim = Null /\ c.aft = a
  BY <1>0, DroppingFields
<1> HIDE DEF c
<1>f. op[t].tmp = Null /\ op[t].victim = Null
  BY FreeCall
<1>1. TypeOK'
  BY <1>0, <1>c DEF TypeOK, Run
<1>2. CountIsReferences'
  <2> SUFFICES ASSUME NEW m \in Model
               PROVE  count'[m] = Cardinality(Refs(m)') + Cardinality(Holders(m)')
    BY DEF CountIsReferences
  <2>1. count[m] = Cardinality(Refs(m)) + Cardinality(Holders(m)) /\ count[m] \in Nat
    BY <1>0 DEF IInv, CountIsReferences, TypeOK
  <2>2. Cardinality(Holders(m)') = Cardinality(Holders(m)) + Bit(self[x] = m)
    BY <1>0, <1>c, <1>f, HoldersUpdate, RefsNat, ConstAssumption DEF Bit
  <2>3. Refs(m)' = Refs(m)
    BY DEF Refs
  <2>4. count'[m] = count[m] + Bit(self[x] = m)
    BY <1>0 DEF TypeOK, Bit
  <2> QED
    BY <2>1, <2>2, <2>3, <2>4, RefsNat DEF Bit
<1>3. HeapOK'
  <2>1. count[self[x]] > 0
    BY <1>0, CountFacts DEF IInv
  <2>2. Live(self[x])
    BY <1>0, <2>1 DEF IInv, HeapOK
  <2>3. \A m \in Model : m # self[x] => count'[m] = count[m]
    BY <1>0 DEF TypeOK
  <2> QED
    BY <1>0, <1>c, <1>f, <2>1, <2>2, <2>3, HeapFrame DEF Live
<1>4. \A u \in Thread : CallOK(u)'
  <2>1. owner[x] \in {t, Everyone} /\ \A n \in Model : n # self[x] => count'[n] = count[n]
    BY <1>0 DEF CanRead, TypeOK
  <2>2. \A u \in Thread \ {t} : CallOK(u)'
    BY <1>0, <2>1, OtherCalls
  <2>3. CallOK(t)'
    BY <1>0, <1>c, <1>1, ConstAssumption DEF CallOK, Run, TypeOK
  <2> QED
    BY <2>2, <2>3
<1>5. AllocOK'
  <2>1. made[self[x]] = a
    BY <1>0 DEF IInv, AllocOK
  <2> QED
    BY <1>0, <1>c, <2>1, AllocFrame DEF IInv, AllocOK
<1> QED
  BY <1>1, <1>2, <1>3, <1>4, <1>5 DEF IInv

(* _make_model inside a call, which now holds the reference to m. *)
LEMMA MakeStep ==
  ASSUME IInv, NEW t \in Thread, NEW m \in Model, NEW c \in Call, Run(t, c),
         made[m] = NoAlloc, made' = [made EXCEPT ![m] = c.aft],
         count' = [count EXCEPT ![m] = 1], value' \in [Model -> Value \cup {Junk}],
         UNCHANGED <<self, alloc, owner>>,
         op[t].tmp \notin Model, op[t].victim = Null,
         c.tmp = m, c.victim = Null, c.pc \in {"abandon", "drop"},
         c.pc = "abandon" => c.aft = alloc[c.dst],
         CallOK(t)'
  PROVE  IInv'
<1>0. TypeOK /\ c.aft \in Alloc /\ c.aft # NoAlloc
  BY ConstAssumption DEF IInv, Call
<1>n. count[m] = 0
  BY DEF IInv, HeapOK, Live
<1>1. TypeOK'
  BY <1>0 DEF TypeOK, Run
<1>2. CountIsReferences'
  <2> SUFFICES ASSUME NEW n \in Model
               PROVE  count'[n] = Cardinality(Refs(n)') + Cardinality(Holders(n)')
    BY DEF CountIsReferences
  <2>1. count[n] = Cardinality(Refs(n)) + Cardinality(Holders(n)) /\ count[n] \in Nat
    BY <1>0 DEF IInv, CountIsReferences, TypeOK
  <2>2. Cardinality(Holders(n)') = Cardinality(Holders(n)) + Bit(m = n)
    BY <1>0, HoldersUpdate, RefsNat DEF Bit
  <2>3. Refs(n)' = Refs(n)
    BY DEF Refs
  <2>4. count'[n] = count[n] + Bit(m = n)
    BY <1>0, <1>n DEF TypeOK, Bit
  <2> QED
    BY <2>1, <2>2, <2>3, <2>4, RefsNat DEF Bit
<1>3. HeapOK'
  BY <1>0, <1>n, HeapFrame DEF TypeOK, Live
<1>4. \A u \in Thread : CallOK(u)'
  BY <1>0, <1>n, OtherCalls DEF TypeOK
<1>5. AllocOK'
  <2>1. \A n \in Model : count[n] > 0 => n # m
    BY <1>n
  <2>2. \A u \in Thread : op[u].victim # m
    BY ConstAssumption DEF IInv, HeapOK, CallOK, Live
  <2>3. \A h \in Handle : self[h] # m
    BY <1>0, <2>1, CountFacts DEF IInv
  <2> QED
    BY <1>0, <2>1, <2>2, <2>3, AllocFrame DEF IInv, AllocOK, TypeOK
<1> QED
  BY <1>1, <1>2, <1>3, <1>4, <1>5 DEF IInv

-----------------------------------------------------------------------------
(* Constructors *)

LEMMA ConstructStep ==
  ASSUME IInv, NEW t \in Thread, NEW h \in Handle, NEW a \in Alloc, NEW v \in Value,
         NEW m \in Model, Construct(t, h, a, v, m)
  PROVE  IInv'
<1>0. /\ TypeOK /\ made[m] = NoAlloc /\ a # NoAlloc /\ owner[h] = t /\ self[h] = Dead
      /\ made' = [made EXCEPT ![m] = a] /\ count' = [count EXCEPT ![m] = 1]
      /\ value' = [value EXCEPT ![m] = v] /\ self' = [self EXCEPT ![h] = m]
      /\ alloc' = [alloc EXCEPT ![h] = a] /\ UNCHANGED <<owner, op>>
  BY ConstAssumption DEF IInv, Construct, MakeModel, Fresh
<1>f. op[t] = Idle /\ op[t].tmp = Null /\ op[t].victim = Null
  BY FreeCall DEF Construct
<1>r. Run(t, Idle)
  BY <1>0, <1>f DEF TypeOK, Run
<1>n. count[m] = 0
  BY <1>0 DEF IInv, HeapOK, Live
<1>1. TypeOK'
  BY <1>0 DEF TypeOK
<1>2. CountIsReferences'
  <2> SUFFICES ASSUME NEW n \in Model
               PROVE  count'[n] = Cardinality(Refs(n)') + Cardinality(Holders(n)')
    BY DEF CountIsReferences
  <2>1. count[n] = Cardinality(Refs(n)) + Cardinality(Holders(n)) /\ count[n] \in Nat
    BY <1>0 DEF IInv, CountIsReferences, TypeOK
  <2>2. Cardinality(Refs(n)') = Cardinality(Refs(n)) + Bit(m = n)
    <3>1. Cardinality(Refs(n)') = Cardinality(Refs(n)) + Bit(m = n) - Bit(self[h] = n)
      BY <1>0, RefsUpdate DEF Bit, TypeOK
    <3>2. self[h] # n
      BY <1>0, ConstAssumption
    <3> QED
      BY <3>1, <3>2, RefsNat DEF Bit
  <2>3. Holders(n)' = Holders(n)
    BY <1>0 DEF Holders
  <2>4. count'[n] = count[n] + Bit(m = n)
    BY <1>0, <1>n DEF TypeOK, Bit
  <2> QED
    BY <2>1, <2>2, <2>3, <2>4, RefsNat DEF Bit
<1>3. HeapOK'
  BY <1>0, <1>n, <1>f, <1>r, IdleFields, HeapFrame DEF TypeOK, Live
<1>4. \A u \in Thread : CallOK(u)'
  <2>1. \A u \in Thread \ {t} : CallOK(u)'
    BY <1>0, <1>n, <1>r, OtherCalls DEF TypeOK
  <2>2. CallOK(t)'
    BY <1>0, <1>f, IdleFields, ConstAssumption DEF CallOK
  <2> QED
    BY <2>1, <2>2
<1>5. AllocOK'
  <2>1. \A n \in Model : count[n] > 0 => n # m
    BY <1>n
  <2>2. \A u \in Thread : op[u].victim # m
    BY <1>0, ConstAssumption DEF IInv, HeapOK, CallOK, Live
  <2>3. \A y \in Handle : self[y] # m
    BY <1>0, <2>1, CountFacts DEF IInv
  <2>4. \A y \in Handle : self'[y] \in Model => made'[self'[y]] = alloc'[y]
    BY <1>0, <2>3 DEF IInv, AllocOK, TypeOK
  <2> QED
    BY <1>0, <1>r, <2>1, <2>2, <2>4, IdleFields, ConstAssumption, AllocFrame
    DEF TypeOK
<1> QED
  BY <1>1, <1>2, <1>3, <1>4, <1>5 DEF IInv

LEMMA CopyConstructStep ==
  ASSUME IInv, NEW t \in Thread, NEW h \in Handle, NEW x \in Handle, NEW a \in Alloc,
         CopyConstruct(t, h, x, a)
  PROVE  IInv'
<1>0. /\ TypeOK /\ Free(t) /\ Fresh(t, h) /\ CanRead(t, x) /\ owner[h] = t /\ self[h] = Dead
      /\ h # x /\ UNCHANGED <<self, alloc, owner, made, value>>
  BY DEF IInv, CopyConstruct, Fresh, CanRead
<1>f. op[t].tmp \notin Model /\ op[t].victim = Null
  BY <1>0, FreeCall, ConstAssumption
<1>1. CASE self[x] = Null /\ Run(t, Dropping(h, Null, NoHandle, a)) /\ UNCHANGED count
  <2> DEFINE c == Dropping(h, Null, NoHandle, a)
  <2>1. /\ c \in Call /\ c.pc = "drop" /\ c.dst = h /\ c.src = NoHandle
        /\ c.rest = NoHandle /\ c.tmp = Null /\ c.victim = Null /\ c.aft = a
    BY DroppingFields, SMTT(30)
  <2> HIDE DEF c
  <2>2. CallOK(t)'
    BY <1>0, <1>1, <2>1, ConstAssumption DEF CallOK, Run, TypeOK, c
  <2> QED
    BY <1>0, <1>1, <1>f, <2>1, <2>2, CallStep, ConstAssumption DEF heap, c
<1>2. CASE self[x] # Null /\ a = alloc[x] /\ Share(t, h, x, a)
  BY <1>0, <1>2, ShareStep
<1>3. CASE self[x] # Null /\ Run(t, Cloning(h, x, NoHandle, a)) /\ UNCHANGED count
  <2> DEFINE c == Cloning(h, x, NoHandle, a)
  <2>1. /\ c \in Call /\ c.pc = "clone" /\ c.dst = h /\ c.src = x
        /\ c.rest = NoHandle /\ c.tmp = Null /\ c.victim = Null /\ c.aft = a
    BY CloningFields
  <2> HIDE DEF c
  <2>2. CallOK(t)'
    BY <1>0, <1>3, <2>1, ConstAssumption DEF CallOK, Run, TypeOK, CanRead, c
  <2> QED
    BY <1>0, <1>3, <1>f, <2>1, <2>2, CallStep, ConstAssumption DEF heap, c
<1> QED
  BY <1>1, <1>2, <1>3 DEF CopyConstruct

LEMMA MoveConstructStep ==
  ASSUME IInv, NEW t \in Thread, NEW h \in Handle, NEW x \in Handle, NEW a \in Alloc,
         MoveConstruct(t, h, x, a)
  PROVE  IInv'
<1>0. /\ TypeOK /\ Free(t) /\ owner[h] = t /\ self[h] = Dead /\ owner[x] = t
      /\ self[x] # Dead /\ h # x /\ UNCHANGED <<owner, made, count, value>>
  BY DEF IInv, MoveConstruct, Fresh, Owns, heap
<1>f. op[t] = Idle /\ op[t].tmp \notin Model /\ op[t].victim = Null
  BY <1>0, FreeCall, ConstAssumption
<1>1. CASE self[x] = Null \/ a = alloc[x]
  <2>0. /\ self' = [self EXCEPT ![h] = self[x], ![x] = Null]
        /\ alloc' = [alloc EXCEPT ![h] = a] /\ UNCHANGED op
    BY <1>1 DEF MoveConstruct
  <2>r. Run(t, Idle)
    BY <1>0, <1>f, <2>0 DEF TypeOK, Run
  <2>1. TypeOK'
    BY <1>0, <2>0 DEF TypeOK, heap
  <2>2. CountIsReferences'
    <3> SUFFICES ASSUME NEW n \in Model
                 PROVE  count'[n] = Cardinality(Refs(n)') + Cardinality(Holders(n)')
      BY DEF CountIsReferences
    <3>1. Cardinality(Refs(n)') = Cardinality(Refs(n)) + Bit(self[x] = n) - Bit(self[h] = n)
                                    + Bit(Null = n) - Bit(self[x] = n)
      BY <1>0, <2>0, RefsUpdate2 DEF Bit, TypeOK
    <3>2. self[h] # n /\ Null # n
      BY <1>0, ConstAssumption
    <3>3. Cardinality(Refs(n)') = Cardinality(Refs(n))
      BY <3>1, <3>2, RefsNat DEF Bit
    <3>4. Holders(n)' = Holders(n)
      BY <2>0 DEF Holders
    <3> QED
      BY <1>0, <3>3, <3>4 DEF IInv, CountIsReferences, heap
  <2>3. HeapOK'
    BY <1>0, <1>f, <2>r, IdleFields, HeapFrame DEF heap, Live, IInv, HeapOK
  <2>4. \A u \in Thread : CallOK(u)'
    <3>1. \A u \in Thread \ {t} : CallOK(u)'
      BY <1>0, <2>0, <2>r, OtherCalls DEF heap, TypeOK
    <3>2. CallOK(t)'
      BY <1>f, <2>0, IdleFields, ConstAssumption DEF CallOK
    <3> QED
      BY <3>1, <3>2
  <2>5. AllocOK'
    <3>1. \A y \in Handle : self'[y] \in Model => made'[self'[y]] = alloc'[y]
      BY <1>0, <1>1, <2>0, ConstAssumption DEF IInv, AllocOK, TypeOK, heap
    <3> QED
      BY <1>0, <2>0, <2>r, <3>1, IdleFields, ConstAssumption, AllocFrame DEF heap, TypeOK
  <2> QED
    BY <2>1, <2>2, <2>3, <2>4, <2>5 DEF IInv
<1>2. CASE ~(self[x] = Null \/ a = alloc[x])
  <2> DEFINE c == Cloning(h, x, x, a)
  <2>1. /\ c \in Call /\ c.pc = "clone" /\ c.dst = h /\ c.src = x
        /\ c.rest = x /\ c.tmp = Null /\ c.victim = Null /\ c.aft = a
    BY CloningFields
  <2>2. Run(t, c) /\ UNCHANGED <<self, alloc>>
    BY <1>2 DEF MoveConstruct
  <2> HIDE DEF c
  <2>3. CallOK(t)'
    BY <1>0, <1>2, <2>1, <2>2, ConstAssumption DEF CallOK, Run, TypeOK
  <2> QED
    BY <1>0, <1>f, <2>1, <2>2, <2>3, CallStep, ConstAssumption DEF heap
<1> QED
  BY <1>1, <1>2

-----------------------------------------------------------------------------
(* Assignments *)

LEMMA CopyAssignStep ==
  ASSUME IInv, NEW t \in Thread, NEW h \in Handle, NEW x \in Handle, CopyAssign(t, h, x)
  PROVE  IInv'
<1> DEFINE a == IF Pocca THEN alloc[x] ELSE alloc[h]
<1>0. /\ TypeOK /\ Free(t) /\ owner[h] = t /\ CanRead(t, x) /\ h # x /\ a \in Alloc
      /\ UNCHANGED <<self, alloc, owner, made, value>>
  BY DEF IInv, TypeOK, CopyAssign, Owns
<1>f. op[t].tmp \notin Model /\ op[t].victim = Null
  BY <1>0, FreeCall, ConstAssumption
<1>1. CASE self[x] = Null /\ Run(t, Dropping(h, Null, NoHandle, a)) /\ UNCHANGED count
  <2> DEFINE c == Dropping(h, Null, NoHandle, a)
  <2>1. /\ c \in Call /\ c.pc = "drop" /\ c.dst = h /\ c.src = NoHandle
        /\ c.rest = NoHandle /\ c.tmp = Null /\ c.victim = Null
    BY <1>0, DroppingFields
  <2>2. Run(t, c)
    BY <1>1
  <2> HIDE DEF c, a
  <2>3. CallOK(t)'
    BY <1>0, <2>1, <2>2, ConstAssumption DEF CallOK, Run, TypeOK
  <2> QED
    BY <1>0, <1>1, <1>f, <2>1, <2>2, <2>3, CallStep, ConstAssumption DEF heap
<1>2. CASE self[x] # Null /\ (Pocca \/ alloc[h] = alloc[x]) /\ Share(t, h, x, a)
  <2>1. a = alloc[x]
    BY <1>2
  <2> HIDE DEF a
  <2> QED
    BY <1>0, <1>2, <2>1, ShareStep
<1>3. CASE self[x] # Null /\ Run(t, Cloning(h, x, NoHandle, a)) /\ UNCHANGED count
  <2> DEFINE c == Cloning(h, x, NoHandle, a)
  <2>1. /\ c \in Call /\ c.pc = "clone" /\ c.dst = h /\ c.src = x
        /\ c.rest = NoHandle /\ c.tmp = Null /\ c.victim = Null
    BY <1>0, CloningFields
  <2>2. Run(t, c)
    BY <1>3
  <2> HIDE DEF c, a
  <2>3. CallOK(t)'
    BY <1>0, <1>3, <2>1, <2>2, ConstAssumption DEF CallOK, Run, TypeOK, CanRead
  <2> QED
    BY <1>0, <1>3, <1>f, <2>1, <2>2, <2>3, CallStep, ConstAssumption DEF heap
<1> QED
  BY <1>1, <1>2, <1>3 DEF CopyAssign

LEMMA MoveAssignStep ==
  ASSUME IInv, NEW t \in Thread, NEW h \in Handle, NEW x \in Handle, MoveAssign(t, h, x)
  PROVE  IInv'
<1> DEFINE a == IF Pocma THEN alloc[x] ELSE alloc[h]
<1>0. /\ TypeOK /\ Free(t) /\ owner[h] = t /\ owner[x] = t /\ self[x] # Dead /\ h # x
      /\ a \in Alloc /\ UNCHANGED <<alloc, owner, made, count, value>>
  BY DEF IInv, TypeOK, MoveAssign, Owns, heap
<1>f. op[t].tmp = Null /\ op[t].tmp \notin Model /\ op[t].victim = Null
  BY <1>0, FreeCall, ConstAssumption
<1>1. CASE self[x] = Null \/ Pocma \/ alloc[h] = alloc[x]
  <2> DEFINE c == Dropping(h, self[x], NoHandle, a)
  <2>1. /\ c \in Call /\ c.pc = "drop" /\ c.dst = h /\ c.src = NoHandle
        /\ c.rest = NoHandle /\ c.tmp = self[x] /\ c.victim = Null /\ c.aft = a
    <3>1. self[x] \in Model \cup {Null, Dead} /\ a \in Alloc
      BY <1>0 DEF TypeOK
    <3> QED
      BY <3>1, DroppingFields, Z3T(20)
  <2>2. self' = [self EXCEPT ![x] = Null] /\ Run(t, c)
    BY <1>1 DEF MoveAssign
  <2>3. self[x] = Null \/ a = alloc[x]
    BY <1>1
  <2> HIDE DEF c, a
  <2>4. TypeOK'
    BY <1>0, <2>1, <2>2 DEF TypeOK, heap, Run
  <2>5. CountIsReferences'
    <3> SUFFICES ASSUME NEW n \in Model
                 PROVE  count'[n] = Cardinality(Refs(n)') + Cardinality(Holders(n)')
      BY DEF CountIsReferences
    <3>1. Cardinality(Refs(n)') = Cardinality(Refs(n)) + Bit(Null = n) - Bit(self[x] = n)
      BY <1>0, <2>2, RefsUpdate DEF Bit, TypeOK
    <3>2. Cardinality(Holders(n)')
            = Cardinality(Holders(n)) + Bit(self[x] = n) - Bit(op[t].tmp = n)
      BY <1>0, <2>1, <2>2, HoldersUpdate DEF Bit
    <3>3. Null # n /\ op[t].tmp # n
      BY <1>f, ConstAssumption
    <3> QED
      BY <1>0, <3>1, <3>2, <3>3, RefsNat DEF Bit, IInv, CountIsReferences, heap
  <2>6. HeapOK'
    BY <1>0, <1>f, <2>1, <2>2, HeapFrame DEF heap, Live, IInv, HeapOK
  <2>7. \A u \in Thread : CallOK(u)'
    <3>1. \A u \in Thread \ {t} : CallOK(u)'
      BY <1>0, <2>2, OtherCalls DEF heap, TypeOK
    <3>2. CallOK(t)'
      BY <1>0, <2>1, <2>2, ConstAssumption DEF CallOK, Run, TypeOK
    <3> QED
      BY <3>1, <3>2
  <2>8. AllocOK'
    <3>1. \A y \in Handle : self'[y] \in Model => made'[self'[y]] = alloc'[y]
      BY <1>0, <2>2, ConstAssumption DEF IInv, AllocOK, TypeOK, heap
    <3>2. self[x] \in Model => made[self[x]] = a
      BY <2>3, ConstAssumption DEF IInv, AllocOK
    <3> QED
      BY <1>0, <2>1, <2>2, <3>1, <3>2, AllocFrame DEF heap
  <2> QED
    BY <2>4, <2>5, <2>6, <2>7, <2>8 DEF IInv
<1>2. CASE ~(self[x] = Null \/ Pocma \/ alloc[h] = alloc[x])
  <2> DEFINE c == Stealing(h, x, a)
  <2>1. /\ c \in Call /\ c.pc = "steal" /\ c.dst = h /\ c.src = x
        /\ c.rest = x /\ c.tmp = Null /\ c.victim = Null
    BY <1>0, StealingFields
  <2>2. Run(t, c) /\ UNCHANGED self
    BY <1>2 DEF MoveAssign
  <2> HIDE DEF c, a
  <2>3. CallOK(t)'
    BY <1>0, <1>2, <2>1, <2>2, ConstAssumption DEF CallOK, Run, TypeOK
  <2> QED
    BY <1>0, <1>f, <2>1, <2>2, <2>3, CallStep, ConstAssumption DEF heap
<1> QED
  BY <1>1, <1>2

LEMMA AssignValueStep ==
  ASSUME IInv, NEW t \in Thread, NEW h \in Handle, NEW v \in Value, NEW m \in Model,
         AssignValue(t, h, v, m)
  PROVE  IInv'
<1> DEFINE a == IF Pocma THEN DefaultAlloc ELSE alloc[h]
<1>0. /\ TypeOK /\ Free(t) /\ owner[h] = t /\ a \in Alloc /\ UNCHANGED <<self, alloc, owner>>
      /\ self[h] # Dead
  BY ConstAssumption DEF IInv, TypeOK, AssignValue, Owns
<1>f. op[t].tmp \notin Model /\ op[t].victim = Null
  BY <1>0, FreeCall, ConstAssumption
<1>1. CASE self[h] # Null /\ count[self[h]] = 1
  <2> DEFINE c == Writing(h)
  <2>1. /\ c \in Call /\ c.pc = "write" /\ c.dst = h /\ c.src = NoHandle
        /\ c.rest = NoHandle /\ c.tmp = Null /\ c.victim = Null
    BY WritingFields
  <2>2. Run(t, c) /\ UNCHANGED heap
    BY <1>1 DEF AssignValue
  <2> HIDE DEF c
  <2>3. CallOK(t)'
    BY <1>0, <1>1, <2>1, <2>2, ConstAssumption DEF CallOK, Run, TypeOK, heap
  <2> QED
    BY <1>0, <1>f, <2>1, <2>2, <2>3, CallStep, ConstAssumption
<1>2. CASE ~(self[h] # Null /\ count[self[h]] = 1)
  <2> DEFINE c == Dropping(h, m, NoHandle, a)
  <2>1. /\ c \in Call /\ c.pc = "drop" /\ c.dst = h /\ c.src = NoHandle
        /\ c.rest = NoHandle /\ c.tmp = m /\ c.victim = Null /\ c.aft = a
    BY <1>0, DroppingFields
  <2>2. Run(t, c) /\ MakeModel(m, a, v)
    BY <1>2 DEF AssignValue
  <2> HIDE DEF c, a
  <2>3. CallOK(t)'
    BY <1>0, <2>1, <2>2, ConstAssumption DEF CallOK, Run, TypeOK
  <2>4. value' \in [Model -> Value \cup {Junk}]
    BY <1>0, <2>2 DEF MakeModel, TypeOK
  <2> QED
    BY <1>0, <1>f, <2>1, <2>2, <2>3, <2>4, MakeStep DEF MakeModel
<1> QED
  BY <1>1, <1>2

-----------------------------------------------------------------------------
(* Modifiers, and reads *)

LEMMA ModifyStep ==
  ASSUME IInv, NEW t \in Thread, NEW h \in Handle, Modify(t, h)
  PROVE  IInv'
<1>0. /\ TypeOK /\ Free(t) /\ owner[h] = t /\ self[h] \in Model /\ alloc[h] \in Alloc
      /\ count[self[h]] \in Nat /\ UNCHANGED <<self, alloc, owner, made, count, value>>
  BY DEF IInv, TypeOK, Modify, Owns, heap
<1>f. op[t].tmp \notin Model /\ op[t].victim = Null
  BY <1>0, FreeCall, ConstAssumption
<1>1. CASE count[self[h]] > 1
  <2> DEFINE c == Cloning(h, h, NoHandle, alloc[h])
  <2>1. /\ c \in Call /\ c.pc = "clone" /\ c.dst = h /\ c.src = h
        /\ c.rest = NoHandle /\ c.tmp = Null /\ c.victim = Null /\ c.aft = alloc[h]
    BY <1>0, CloningFields
  <2>2. Run(t, c)
    BY <1>1 DEF Modify
  <2> HIDE DEF c
  <2>3. CallOK(t)'
    BY <1>0, <2>1, <2>2, ConstAssumption DEF CallOK, Run, TypeOK
  <2> QED
    BY <1>0, <1>f, <2>1, <2>2, <2>3, CallStep, ConstAssumption DEF heap
<1>2. CASE ~(count[self[h]] > 1)
  <2> DEFINE c == Writing(h)
  <2>1. /\ c \in Call /\ c.pc = "write" /\ c.dst = h /\ c.src = NoHandle
        /\ c.rest = NoHandle /\ c.tmp = Null /\ c.victim = Null
    BY WritingFields
  <2>2. Run(t, c)
    BY <1>2 DEF Modify
  <2>3. count[self[h]] = 1
    BY <1>0, <1>2, CountFacts DEF IInv
  <2> HIDE DEF c
  <2>4. CallOK(t)'
    BY <1>0, <2>1, <2>2, <2>3, ConstAssumption DEF CallOK, Run, TypeOK
  <2> QED
    BY <1>0, <1>f, <2>1, <2>2, <2>4, CallStep, ConstAssumption DEF heap
<1> QED
  BY <1>1, <1>2

LEMMA SwapStep ==
  ASSUME IInv, NEW t \in Thread, NEW h \in Handle, NEW x \in Handle, Swap(t, h, x)
  PROVE  IInv'
<1>0. /\ TypeOK /\ Free(t) /\ owner[h] = t /\ owner[x] = t /\ h # x
      /\ self' = [self EXCEPT ![h] = self[x], ![x] = self[h]]
      /\ alloc' = [alloc EXCEPT ![h] = alloc[x], ![x] = alloc[h]]
      /\ UNCHANGED <<owner, made, count, value, op>>
  BY DEF IInv, Swap, Owns, heap
<1>f. op[t] = Idle /\ op[t].victim = Null
  BY <1>0, FreeCall
<1>r. Run(t, Idle)
  BY <1>0, <1>f DEF TypeOK, Run
<1>1. TypeOK'
  BY <1>0 DEF TypeOK
<1>2. CountIsReferences'
  <2> SUFFICES ASSUME NEW n \in Model
               PROVE  count'[n] = Cardinality(Refs(n)') + Cardinality(Holders(n)')
    BY DEF CountIsReferences
  <2>1. Cardinality(Refs(n)') = Cardinality(Refs(n)) + Bit(self[x] = n) - Bit(self[h] = n)
                                  + Bit(self[h] = n) - Bit(self[x] = n)
    BY <1>0, RefsUpdate2 DEF Bit, TypeOK
  <2>2. Cardinality(Refs(n)') = Cardinality(Refs(n))
    BY <2>1, RefsNat DEF Bit
  <2>3. Holders(n)' = Holders(n)
    BY <1>0 DEF Holders
  <2> QED
    BY <1>0, <2>2, <2>3 DEF IInv, CountIsReferences
<1>3. HeapOK'
  BY <1>0, <1>f, <1>r, IdleFields, HeapFrame DEF Live, IInv, HeapOK
<1>4. \A u \in Thread : CallOK(u)'
  <2>1. \A u \in Thread \ {t} : CallOK(u)'
    BY <1>0, <1>r, OtherCalls DEF TypeOK
  <2>2. CallOK(t)'
    BY <1>0, <1>f, IdleFields, ConstAssumption DEF CallOK
  <2> QED
    BY <2>1, <2>2
<1>5. AllocOK'
  <2>1. \A y \in Handle : self'[y] \in Model => made'[self'[y]] = alloc'[y]
    BY <1>0 DEF IInv, AllocOK, TypeOK
  <2> QED
    BY <1>0, <1>r, <2>1, IdleFields, ConstAssumption, AllocFrame DEF TypeOK
<1> QED
  BY <1>1, <1>2, <1>3, <1>4, <1>5 DEF IInv

LEMMA DestroyStep ==
  ASSUME IInv, NEW t \in Thread, NEW h \in Handle, Destroy(t, h)
  PROVE  IInv'
<1> DEFINE c == Dropping(h, Dead, NoHandle, alloc[h])
<1>0. /\ TypeOK /\ Free(t) /\ owner[h] = t /\ alloc[h] \in Alloc /\ Run(t, c)
      /\ UNCHANGED <<self, alloc, owner, heap>>
  BY DEF IInv, TypeOK, Destroy, Owns
<1>f. op[t].tmp \notin Model /\ op[t].victim = Null
  BY <1>0, FreeCall, ConstAssumption
<1>1. /\ c \in Call /\ c.pc = "drop" /\ c.dst = h /\ c.src = NoHandle
      /\ c.rest = NoHandle /\ c.tmp = Dead /\ c.victim = Null
  BY <1>0, DroppingFields
<1> HIDE DEF c
<1>2. CallOK(t)'
  BY <1>0, <1>1, ConstAssumption DEF CallOK, Run, TypeOK
<1> QED
  BY <1>0, <1>f, <1>1, <1>2, CallStep, ConstAssumption

LEMMA ReadBeginStep ==
  ASSUME IInv, NEW t \in Thread, NEW h \in Handle, ReadBegin(t, h)
  PROVE  IInv'
<1> DEFINE c == Reading(h)
<1>0. /\ TypeOK /\ Free(t) /\ owner[h] \in {t, Everyone} /\ self[h] \in Model /\ Run(t, c)
      /\ UNCHANGED <<self, alloc, owner, made, count, value>>
  BY DEF IInv, TypeOK, ReadBegin, CanRead, heap
<1>f. op[t].tmp \notin Model /\ op[t].victim = Null
  BY <1>0, FreeCall, ConstAssumption
<1>1. /\ c \in Call /\ c.pc = "read" /\ c.dst = NoHandle /\ c.src = h
      /\ c.rest = NoHandle /\ c.tmp = Null /\ c.victim = Null
  BY ReadingFields
<1> HIDE DEF c
<1>2. CallOK(t)'
  BY <1>0, <1>1, ConstAssumption DEF CallOK, Run, TypeOK
<1> QED
  BY <1>0, <1>f, <1>1, <1>2, CallStep, ConstAssumption DEF heap

-----------------------------------------------------------------------------
(* Steps inside a call *)

(* A call that holds nothing returns. *)
LEMMA ReturnStep ==
  ASSUME IInv, NEW t \in Thread, op[t].pc \in {"read", "clone", "steal"}, Run(t, Idle),
         UNCHANGED <<self, alloc, owner, heap>>
  PROVE  IInv'
<1>1. op[t] \in Call /\ CallOK(t) /\ TypeOK
  BY DEF IInv, TypeOK
<1>2. op[t].tmp \notin Model /\ op[t].victim = Null
  BY <1>1 DEF CallOK
<1>3. CallOK(t)'
  BY <1>1, IdleFields, ConstAssumption DEF CallOK, Run, TypeOK
<1> QED
  BY <1>2, <1>3, IdleFields, CallStep, ConstAssumption

LEMMA CloneEndStep ==
  ASSUME IInv, NEW t \in Thread, NEW m \in Model, CloneEnd(t, m)
  PROVE  IInv'
<1>0. /\ TypeOK /\ CallOK(t) /\ op[t] \in Call /\ op[t].pc = "clone"
      /\ MakeModel(m, op[t].aft, value[self[op[t].src]])
      /\ UNCHANGED <<self, alloc, owner>>
  BY DEF IInv, TypeOK, CloneEnd
<1>1. /\ op[t].dst \in Handle /\ owner[op[t].dst] = t /\ self[op[t].src] \in Model
      /\ op[t].rest \in Handle \cup {NoHandle} /\ op[t].aft \in Alloc
      /\ op[t].rest # NoHandle => owner[op[t].rest] = t
      /\ op[t].tmp \notin Model /\ op[t].victim = Null
  BY <1>0 DEF CallOK, Call
<1>2. value' \in [Model -> Value \cup {Junk}]
  BY <1>0, <1>1 DEF MakeModel, TypeOK
<1>3. CASE op[t].src = op[t].dst
  <2> DEFINE c == Abandoning(op[t].dst, m, op[t].aft)
  <2>1. /\ c \in Call /\ c.pc = "abandon" /\ c.dst = op[t].dst /\ c.src = NoHandle
        /\ c.rest = NoHandle /\ c.tmp = m /\ c.victim = Null /\ c.aft = op[t].aft
    BY <1>1, AbandoningFields
  <2>2. Run(t, c)
    BY <1>3 DEF CloneEnd
  <2> HIDE DEF c
  <2>3. CallOK(t)'
    BY <1>0, <1>1, <1>3, <2>1, <2>2, ConstAssumption DEF CallOK, Run, TypeOK, MakeModel
  <2>4. c.aft = alloc[c.dst]
    BY <1>0, <1>3, <2>1 DEF IInv, AllocOK
  <2>5. /\ made[m] = NoAlloc /\ made' = [made EXCEPT ![m] = c.aft]
        /\ count' = [count EXCEPT ![m] = 1]
    BY <1>0, <2>1 DEF MakeModel
  <2> QED
    BY <1>0, <1>1, <1>2, <2>1, <2>2, <2>3, <2>4, <2>5, MakeStep
<1>4. CASE op[t].src # op[t].dst
  <2> DEFINE c == Dropping(op[t].dst, m, op[t].rest, op[t].aft)
  <2>1. /\ c \in Call /\ c.pc = "drop" /\ c.dst = op[t].dst /\ c.src = NoHandle
        /\ c.rest = op[t].rest /\ c.tmp = m /\ c.victim = Null /\ c.aft = op[t].aft
    BY <1>1, DroppingFields, Z3T(20)
  <2>2. Run(t, c)
    BY <1>4 DEF CloneEnd
  <2> HIDE DEF c
  <2>3. CallOK(t)'
    BY <1>0, <1>1, <2>1, <2>2, ConstAssumption DEF CallOK, Run, TypeOK
  <2> QED
    BY <1>0, <1>1, <1>2, <2>1, <2>2, <2>3, MakeStep DEF MakeModel
<1> QED
  BY <1>3, <1>4

LEMMA StealEndStep ==
  ASSUME IInv, NEW t \in Thread, NEW m \in Model, StealEnd(t, m)
  PROVE  IInv'
<1> DEFINE c == Dropping(op[t].dst, m, op[t].rest, op[t].aft)
<1>0. /\ TypeOK /\ CallOK(t) /\ op[t] \in Call /\ op[t].pc = "steal" /\ Run(t, c)
      /\ made[m] = NoAlloc /\ made' = [made EXCEPT ![m] = op[t].aft]
      /\ count' = [count EXCEPT ![m] = 1]
      /\ value' = [value EXCEPT ![m] = value[self[op[t].src]], ![self[op[t].src]] = Junk]
      /\ UNCHANGED <<self, alloc, owner>>
  BY DEF IInv, TypeOK, StealEnd
<1>1. /\ op[t].dst \in Handle /\ owner[op[t].dst] = t /\ self[op[t].src] \in Model
      /\ op[t].rest \in Handle \cup {NoHandle} /\ op[t].aft \in Alloc
      /\ op[t].rest # NoHandle => owner[op[t].rest] = t
      /\ op[t].tmp \notin Model /\ op[t].victim = Null
  BY <1>0 DEF CallOK, Call
<1>2. value' \in [Model -> Value \cup {Junk}]
  BY <1>0, <1>1 DEF TypeOK
<1>3. /\ c \in Call /\ c.pc = "drop" /\ c.dst = op[t].dst /\ c.src = NoHandle
      /\ c.rest = op[t].rest /\ c.tmp = m /\ c.victim = Null /\ c.aft = op[t].aft
  BY <1>1, DroppingFields, Z3T(20)
<1> HIDE DEF c
<1>4. CallOK(t)'
  BY <1>0, <1>1, <1>3, ConstAssumption DEF CallOK, Run, TypeOK
<1>5. made' = [made EXCEPT ![m] = c.aft]
  BY <1>0, <1>3
<1>6. c.pc \in {"abandon", "drop"} /\ c.pc # "abandon" /\ c.tmp = m
  BY <1>3
<1> QED
  BY <1>0, <1>1, <1>2, <1>3, <1>4, <1>5, <1>6, MakeStep

LEMMA AbandonStep ==
  ASSUME IInv, NEW t \in Thread, Abandon(t)
  PROVE  IInv'
<1> DEFINE h == op[t].dst  m == op[t].tmp  old == self[h]  c == Writing(h)
<1>0. /\ TypeOK /\ CallOK(t) /\ op[t] \in Call /\ op[t].pc = "abandon" /\ Run(t, c)
      /\ count' = [count EXCEPT ![old] = @ - 1] /\ self' = [self EXCEPT ![h] = m]
      /\ UNCHANGED <<alloc, owner, made, value>>
  BY DEF IInv, TypeOK, Abandon
<1>1. /\ h \in Handle /\ owner[h] = t /\ old \in Model /\ m \in Model /\ count[m] = 1
      /\ op[t].victim = Null /\ op[t].aft = alloc[h] /\ made[m] = op[t].aft
  BY <1>0 DEF CallOK, Call, IInv, AllocOK
<1>2. /\ c \in Call /\ c.pc = "write" /\ c.dst = h /\ c.src = NoHandle
      /\ c.rest = NoHandle /\ c.tmp = Null /\ c.victim = Null
  BY <1>1, WritingFields
<1> HIDE DEF c
<1>3. count[old] > 0 /\ old # m /\ count[old] \in Nat /\ Live(old)
  BY <1>0, <1>1, CountFacts DEF IInv, TypeOK, HeapOK
<1>4. TypeOK'
  BY <1>0, <1>1, <1>2, <1>3 DEF TypeOK, Run
<1>5. CountIsReferences'
  <2> SUFFICES ASSUME NEW n \in Model
               PROVE  count'[n] = Cardinality(Refs(n)') + Cardinality(Holders(n)')
    BY DEF CountIsReferences
  <2>1. count[n] = Cardinality(Refs(n)) + Cardinality(Holders(n)) /\ count[n] \in Nat
    BY <1>0 DEF IInv, CountIsReferences, TypeOK
  <2>2. Cardinality(Refs(n)') = Cardinality(Refs(n)) + Bit(m = n) - Bit(old = n)
    BY <1>0, <1>1, RefsUpdate DEF Bit, TypeOK
  <2>3. Cardinality(Holders(n)') = Cardinality(Holders(n)) - Bit(m = n)
    <3>1. Cardinality(Holders(n)') = Cardinality(Holders(n)) + Bit(Null = n) - Bit(m = n)
      BY <1>0, <1>2, HoldersUpdate DEF Bit
    <3>2. Null # n
      BY ConstAssumption
    <3> QED
      BY <3>1, <3>2, RefsNat DEF Bit
  <2>4. count'[n] = count[n] - Bit(old = n)
    BY <1>0, <1>1 DEF TypeOK, Bit
  <2> QED
    BY <2>1, <2>2, <2>3, <2>4, RefsNat DEF Bit
<1>6. HeapOK'
  BY <1>0, <1>1, <1>2, <1>3, HeapFrame DEF TypeOK, Live
<1>7. \A u \in Thread : CallOK(u)'
  <2>1. \A u \in Thread \ {t} : CallOK(u)'
    BY <1>0, <1>1, OtherCalls DEF TypeOK
  <2>2. CallOK(t)'
    BY <1>0, <1>1, <1>2, <1>3, ConstAssumption DEF CallOK, Run, TypeOK
  <2> QED
    BY <2>1, <2>2
<1>8. AllocOK'
  <2>1. \A y \in Handle : self'[y] \in Model => made'[self'[y]] = alloc'[y]
    BY <1>0, <1>1 DEF IInv, AllocOK, TypeOK
  <2> QED
    BY <1>0, <1>2, <2>1, ConstAssumption, AllocFrame
<1> QED
  BY <1>4, <1>5, <1>6, <1>7, <1>8 DEF IInv

LEMMA WriteEndStep ==
  ASSUME IInv, NEW t \in Thread, NEW v \in Value, WriteEnd(t, v)
  PROVE  IInv'
<1>0. /\ TypeOK /\ CallOK(t) /\ op[t] \in Call /\ op[t].pc = "write" /\ Run(t, Idle)
      /\ value' = [value EXCEPT ![self[op[t].dst]] = v]
      /\ UNCHANGED <<self, alloc, owner, made, count>>
  BY DEF IInv, TypeOK, WriteEnd
<1>1. op[t].tmp \notin Model /\ op[t].victim = Null
  BY <1>0 DEF CallOK
<1>2. TypeOK'
  BY <1>0, IdleFields DEF TypeOK, Run
<1>3. CountIsReferences'
  <2> SUFFICES ASSUME NEW n \in Model
               PROVE  count'[n] = Cardinality(Refs(n)') + Cardinality(Holders(n)')
    BY DEF CountIsReferences
  <2>1. Cardinality(Holders(n)')
          = Cardinality(Holders(n)) + Bit(Null = n) - Bit(op[t].tmp = n)
    BY <1>0, IdleFields, HoldersUpdate DEF Bit
  <2>2. Null # n /\ op[t].tmp # n
    BY <1>1, ConstAssumption
  <2>3. Cardinality(Holders(n)') = Cardinality(Holders(n))
    BY <2>1, <2>2, RefsNat DEF Bit
  <2>4. Refs(n)' = Refs(n)
    BY <1>0 DEF Refs
  <2> QED
    BY <1>0, <2>3, <2>4 DEF IInv, CountIsReferences
<1>4. HeapOK'
  BY <1>0, <1>1, IdleFields, HeapFrame DEF Live, IInv, HeapOK
<1>5. \A u \in Thread : CallOK(u)'
  <2>1. \A u \in Thread \ {t} : CallOK(u)'
    BY <1>0, OtherCalls
  <2>2. CallOK(t)'
    BY <1>0, IdleFields, ConstAssumption DEF CallOK, Run, TypeOK
  <2> QED
    BY <2>1, <2>2
<1>6. AllocOK'
  BY <1>0, IdleFields, ConstAssumption, AllocFrame DEF IInv, AllocOK
<1> QED
  BY <1>2, <1>3, <1>4, <1>5, <1>6 DEF IInv

(* The release, the last one and any other. *)
LEMMA DropStep ==
  ASSUME IInv, NEW t \in Thread, Drop(t)
  PROVE  IInv'
<1> DEFINE h == op[t].dst  p == op[t].tmp  r == op[t].rest  old == self[h]
           last == old \in Model /\ count[old] = 1
           c == IF last THEN Freeing(old, r, alloc[h]) ELSE Continue(r)
<1>0. /\ TypeOK /\ CallOK(t) /\ op[t] \in Call /\ op[t].pc = "drop" /\ Run(t, c)
      /\ self' = [self EXCEPT ![h] = p] /\ alloc' = [alloc EXCEPT ![h] = op[t].aft]
      /\ count' = IF old \in Model THEN [count EXCEPT ![old] = @ - 1] ELSE count
      /\ UNCHANGED <<owner, made, value>>
  BY DEF IInv, TypeOK, Drop, LastOwner
<1>1. /\ h \in Handle /\ owner[h] = t /\ p \in Model \cup {Null, Dead}
      /\ r \in Handle \cup {NoHandle} /\ op[t].victim = Null /\ op[t].aft \in Alloc
      /\ r # NoHandle => owner[r] = t
      /\ p \in Model => made[p] = op[t].aft
      /\ alloc[h] \in Alloc
  BY <1>0 DEF CallOK, Call, IInv, AllocOK, TypeOK
<1>2. old \in Model => count[old] > 0 /\ count[old] \in Nat /\ Live(old) /\ made[old] = alloc[h]
  BY <1>0, <1>1, CountFacts DEF IInv, TypeOK, HeapOK, AllocOK
<1>3. last => /\ c \in Call /\ c.pc = "free" /\ c.dst = NoHandle /\ c.src = NoHandle
              /\ c.rest = r /\ c.tmp = Null /\ c.victim = old /\ c.by = alloc[h]
  BY <1>1, FreeingFields, Z3T(20)
<1>4. ~last => /\ c \in Call /\ c.tmp = Null /\ c.victim = Null
               /\ c.src = NoHandle /\ c.rest = NoHandle
               /\ r = NoHandle => c = Idle
               /\ r # NoHandle => c.pc = "drop" /\ c.dst = r
  BY <1>0, <1>1, ContinueFields
<1>5. c \in Call /\ c.tmp = Null
  BY <1>3, <1>4
<1> HIDE DEF c
<1>6. TypeOK'
  BY <1>0, <1>1, <1>2, <1>5 DEF TypeOK, Run
<1>7. CountIsReferences'
  <2> SUFFICES ASSUME NEW n \in Model
               PROVE  count'[n] = Cardinality(Refs(n)') + Cardinality(Holders(n)')
    BY DEF CountIsReferences
  <2>1. count[n] = Cardinality(Refs(n)) + Cardinality(Holders(n)) /\ count[n] \in Nat
    BY <1>0 DEF IInv, CountIsReferences, TypeOK
  <2>2. Cardinality(Refs(n)') = Cardinality(Refs(n)) + Bit(p = n) - Bit(old = n)
    BY <1>0, <1>1, RefsUpdate DEF Bit, TypeOK
  <2>3. Cardinality(Holders(n)') = Cardinality(Holders(n)) - Bit(p = n)
    <3>1. Cardinality(Holders(n)') = Cardinality(Holders(n)) + Bit(Null = n) - Bit(p = n)
      BY <1>0, <1>5, HoldersUpdate DEF Bit
    <3>2. Null # n
      BY ConstAssumption
    <3> QED
      BY <3>1, <3>2, RefsNat DEF Bit
  <2>4. count'[n] = count[n] - Bit(old = n)
    BY <1>0 DEF TypeOK, Bit
  <2> QED
    BY <2>1, <2>2, <2>3, <2>4, RefsNat DEF Bit
<1>8. HeapOK'
  <2>1. CASE ~last
    <3>1. c.pc # "free" /\ c.victim = Null
      BY <1>4, <2>1, IdleFields
    <3>2. /\ \A m \in Model : Live(m) => Live(m)'
          /\ \A m \in Model : ~Live(m)' => count'[m] = count[m]
          /\ \A m \in Model : Live(m) /\ count[m] = 0 => count'[m] = 0
      BY <1>0, <1>2 DEF Live, TypeOK
    <3> QED
      BY <1>0, <1>1, <3>1, <3>2, HeapFrame
  <2>2. CASE last
    <3>1. \A m \in Model : m # old => count'[m] = count[m]
      BY <1>0 DEF TypeOK
    <3>2. old \in Model /\ count'[old] = 0 /\ count[old] = 1 /\ made[old] # NoAlloc
      BY <1>0, <1>2, <2>2 DEF TypeOK, Live
    <3>3. op'[t] = c /\ \A u \in Thread \ {t} : op'[u] = op[u]
      BY <1>0 DEF Run, TypeOK
    <3>4. \A u \in Thread \ {t} : op[u].pc = "free" <=> op[u].victim # Null
      BY DEF IInv, CallOK
    <3>5. \A u \in Thread \ {t} : op[u].victim # old
      BY <3>2, <3>4, ConstAssumption DEF IInv, HeapOK
    <3>6. \A m \in Model : made'[m] = NoAlloc => count'[m] = 0
      BY <1>0, <3>1, <3>2 DEF IInv, HeapOK, Live
    <3>7. ASSUME NEW u \in Thread, op'[u].pc = "free"
          PROVE  /\ made'[op'[u].victim] # NoAlloc /\ count'[op'[u].victim] = 0
                 /\ \A w \in Thread \ {u} : op'[w].victim # op'[u].victim
      <4>1. CASE u = t
        BY <1>0, <1>3, <2>2, <3>2, <3>3, <3>5, <4>1
      <4>2. CASE u # t
        <5>1. op'[u] = op[u] /\ op[u].pc = "free" /\ op[u].victim \in Model
          BY <3>3, <3>4, <3>7, <4>2, <1>0 DEF TypeOK, Call
        <5>2. op[u].victim # old /\ count'[op[u].victim] = 0 /\ made[op[u].victim] # NoAlloc
          BY <3>1, <3>5, <4>2, <5>1 DEF IInv, HeapOK, Live
        <5>3. \A w \in Thread \ {u} : op'[w].victim # op[u].victim
          BY <1>3, <2>2, <3>3, <5>1, <5>2 DEF IInv, HeapOK
        <5> QED
          BY <1>0, <5>1, <5>2, <5>3
      <4> QED
        BY <4>1, <4>2
    <3> QED
      BY <3>6, <3>7 DEF HeapOK, Live
  <2> QED
    BY <2>1, <2>2
<1>9. \A u \in Thread : CallOK(u)'
  <2>1. \A u \in Thread \ {t} : CallOK(u)'
    <3>1. \A m \in Model : count'[m] = count[m] \/ m = old
      BY <1>0 DEF TypeOK
    <3>2. \A y \in Handle : owner[y] # t => self'[y] = self[y]
      BY <1>0, <1>1 DEF TypeOK
    <3> QED
      BY <1>0, <1>1, <3>1, <3>2, OtherCalls
  <2>2. CallOK(t)'
    <3>1. op'[t] = c
      BY <1>0 DEF Run, TypeOK
    <3>2. CASE last
      BY <1>0, <1>1, <1>3, <3>1, <3>2, ConstAssumption DEF CallOK
    <3>3. CASE ~last /\ r = NoHandle
      BY <1>4, <3>1, <3>3, IdleFields, ConstAssumption DEF CallOK
    <3>4. CASE ~last /\ r # NoHandle
      BY <1>0, <1>1, <1>4, <3>1, <3>4, ConstAssumption DEF CallOK
    <3> QED
      BY <3>2, <3>3, <3>4
  <2> QED
    BY <2>1, <2>2
<1>10. AllocOK'
  <2>1. \A y \in Handle : self'[y] \in Model => made'[self'[y]] = alloc'[y]
    BY <1>0, <1>1 DEF IInv, AllocOK, TypeOK
  <2>2. c.pc # "abandon" /\ c.pc # "clone" /\ (c.pc = "free" => made'[c.victim] = c.by)
    BY <1>0, <1>2, <1>3, <1>4, IdleFields
  <2>3. \A y \in Handle : owner[y] # t => alloc'[y] = alloc[y]
    BY <1>0, <1>1 DEF TypeOK
  <2> QED
    BY <1>0, <1>5, <2>1, <2>2, <2>3, ConstAssumption, AllocFrame
<1> QED
  BY <1>6, <1>7, <1>8, <1>9, <1>10 DEF IInv

LEMMA FreeEndStep ==
  ASSUME IInv, NEW t \in Thread, FreeEnd(t)
  PROVE  IInv'
<1> DEFINE m == op[t].victim  r == op[t].rest  c == Continue(r)
<1>0. /\ TypeOK /\ CallOK(t) /\ op[t] \in Call /\ op[t].pc = "free" /\ Run(t, c)
      /\ made' = [made EXCEPT ![m] = NoAlloc] /\ value' = [value EXCEPT ![m] = Junk]
      /\ UNCHANGED <<self, alloc, owner, count>>
  BY DEF IInv, TypeOK, FreeEnd
<1>1. /\ m \in Model /\ r \in Handle \cup {NoHandle} /\ op[t].tmp \notin Model
      /\ r # NoHandle => owner[r] = t
      /\ count[m] = 0 /\ \A u \in Thread \ {t} : op[u].victim # m
  BY <1>0 DEF CallOK, Call, IInv, HeapOK
<1>2. /\ c \in Call /\ c.tmp = Null /\ c.victim = Null
      /\ c.src = NoHandle /\ c.rest = NoHandle
      /\ r = NoHandle => c = Idle
      /\ r # NoHandle => c.pc = "drop" /\ c.dst = r
  BY <1>0, <1>1, ContinueFields
<1> HIDE DEF c
<1>3. op'[t] = c /\ \A u \in Thread \ {t} : op'[u] = op[u]
  BY <1>0 DEF Run, TypeOK
<1>4. c.pc \notin {"free", "abandon", "clone"}
  BY <1>1, <1>2, IdleFields
<1>5. TypeOK'
  BY <1>0, <1>1, <1>2 DEF TypeOK, Run
<1>6. CountIsReferences'
  <2> SUFFICES ASSUME NEW n \in Model
               PROVE  count'[n] = Cardinality(Refs(n)') + Cardinality(Holders(n)')
    BY DEF CountIsReferences
  <2>1. Cardinality(Holders(n)')
          = Cardinality(Holders(n)) + Bit(Null = n) - Bit(op[t].tmp = n)
    BY <1>0, <1>2, HoldersUpdate DEF Bit
  <2>2. Null # n /\ op[t].tmp # n
    BY <1>1, ConstAssumption
  <2>3. Cardinality(Holders(n)') = Cardinality(Holders(n))
    BY <2>1, <2>2, RefsNat DEF Bit
  <2>4. Refs(n)' = Refs(n)
    BY <1>0 DEF Refs
  <2> QED
    BY <1>0, <2>3, <2>4 DEF IInv, CountIsReferences
<1>7. HeapOK'
  <2>1. \A n \in Model : made'[n] = NoAlloc => count'[n] = 0
    BY <1>0, <1>1 DEF IInv, HeapOK, Live, TypeOK
  <2>2. ASSUME NEW u \in Thread, op'[u].pc = "free"
        PROVE  /\ made'[op'[u].victim] # NoAlloc /\ count'[op'[u].victim] = 0
               /\ \A w \in Thread \ {u} : op'[w].victim # op'[u].victim
    <3>1. u # t /\ op'[u] = op[u] /\ op[u] \in Call /\ CallOK(u) /\ op[u].pc = "free"
      BY <1>0, <1>3, <1>4, <2>2 DEF IInv, TypeOK
    <3>2. op[u].victim \in Model /\ op[u].victim # m
      BY <1>1, <3>1 DEF CallOK, Call
    <3>3. /\ made[op[u].victim] # NoAlloc /\ count[op[u].victim] = 0
          /\ \A w \in Thread \ {u} : op[w].victim # op[u].victim
      BY <3>1 DEF IInv, HeapOK, Live
    <3>4. \A w \in Thread \ {u} : op'[w].victim # op[u].victim
      BY <1>2, <1>3, <3>2, <3>3, ConstAssumption
    <3> QED
      BY <1>0, <3>1, <3>2, <3>3, <3>4 DEF TypeOK
  <2> QED
    BY <2>1, <2>2 DEF HeapOK, Live
<1>8. \A u \in Thread : CallOK(u)'
  <2>1. \A u \in Thread \ {t} : CallOK(u)'
    BY <1>0, OtherCalls
  <2>2. CASE r = NoHandle
    BY <1>2, <1>3, <2>1, <2>2, IdleFields, ConstAssumption DEF CallOK
  <2>3. CASE r # NoHandle
    <3>1. CallOK(t)'
      BY <1>0, <1>1, <1>2, <1>3, <2>3, ConstAssumption DEF CallOK
    <3> QED
      BY <2>1, <3>1
  <2> QED
    BY <2>2, <2>3
<1>9. AllocOK'
  <2>1. \A y \in Handle : self[y] # m
    BY <1>1, CountFacts DEF IInv
  <2>2. \A y \in Handle : self'[y] \in Model => made'[self'[y]] = alloc'[y]
    BY <1>0, <2>1 DEF IInv, AllocOK, TypeOK
  <2>3. \A n \in Model :
          count[n] > 0 \/ (\E u \in Thread \ {t} : op[u].victim = n) => made'[n] = made[n]
    BY <1>0, <1>1 DEF TypeOK
  <2> QED
    BY <1>0, <1>2, <1>4, <2>2, <2>3, ConstAssumption, AllocFrame
<1> QED
  BY <1>5, <1>6, <1>7, <1>8, <1>9 DEF IInv

-----------------------------------------------------------------------------
(* Handing a handle over *)

LEMMA OwnerStep ==
  ASSUME IInv, NEW t \in Thread, NEW h \in Handle, Free(t),
         owner' \in [Handle -> Thread \cup {Everyone}],
         \A x \in Handle \ {h} : owner'[x] = owner[x],
         \A u \in Thread : Uses(u, h) => /\ owner[h] = Everyone
                                         /\ owner'[h] = Everyone,
         UNCHANGED <<self, alloc, heap, op>>
  PROVE  IInv'
<1>0. TypeOK /\ UNCHANGED <<self, alloc, made, count, value, op>>
  BY DEF IInv, heap
<1>1. TypeOK'
  BY <1>0 DEF TypeOK
<1>2. CountIsReferences'
  BY <1>0 DEF IInv, CountIsReferences, Refs, Holders
<1>3. HeapOK'
  BY <1>0 DEF IInv, HeapOK, Live
<1>4. ASSUME NEW u \in Thread PROVE CallOK(u)'
  <2>1. CallOK(u) /\ op[u] \in Call
    BY <1>0 DEF IInv, TypeOK
  <2>2. op[u].dst # NoHandle => op[u].dst # h /\ op[u].dst \in Handle
    BY <2>1, ConstAssumption DEF CallOK, Uses, Call
  <2>3. op[u].rest # NoHandle => op[u].rest # h /\ op[u].rest \in Handle
    BY <2>1, ConstAssumption DEF CallOK, Uses, Call
  <2>4. op[u].src # NoHandle =>
          op[u].src \in Handle /\ (op[u].src = h => owner'[h] = Everyone)
    BY <2>1 DEF Uses, Call
  <2>5. /\ op[u].dst # NoHandle => owner'[op[u].dst] = u
        /\ op[u].rest # NoHandle => owner'[op[u].rest] = u
        /\ op[u].src # NoHandle => owner'[op[u].src] \in {u, Everyone}
    BY <2>1, <2>2, <2>3, <2>4 DEF CallOK
  <2> QED
    BY <1>0, <2>1, <2>5 DEF CallOK
<1>5. AllocOK'
  BY <1>0 DEF IInv, AllocOK
<1> QED
  BY <1>1, <1>2, <1>3, <1>4, <1>5 DEF IInv

LEMMA PublishStep ==
  ASSUME IInv, NEW t \in Thread, NEW h \in Handle, Publish(t, h)
  PROVE  IInv'
<1>0. /\ TypeOK /\ Free(t) /\ owner[h] = t /\ owner' = [owner EXCEPT ![h] = Everyone]
      /\ UNCHANGED <<self, alloc, heap, op>>
  BY DEF IInv, Publish, Owns
<1>1. ASSUME NEW u \in Thread PROVE ~Uses(u, h)
  <2>1. CallOK(u) /\ op[u] \in Call
    BY <1>0 DEF IInv, TypeOK
  <2>2. CASE u = t
    BY <1>0, <2>2, FreeCall, IdleFields, ConstAssumption DEF Uses
  <2>3. CASE u # t
    BY <1>0, <2>1, <2>3, ConstAssumption DEF Uses, CallOK
  <2> QED
    BY <2>2, <2>3
<1>2. owner' \in [Handle -> Thread \cup {Everyone}]
  BY <1>0 DEF TypeOK
<1>3. \A x \in Handle \ {h} : owner'[x] = owner[x]
  BY <1>0 DEF TypeOK
<1> QED
  BY <1>0, <1>1, <1>2, <1>3, OwnerStep

LEMMA ReclaimStep ==
  ASSUME IInv, NEW t \in Thread, NEW h \in Handle, Reclaim(t, h)
  PROVE  IInv'
<1>0. /\ TypeOK /\ Free(t) /\ owner' = [owner EXCEPT ![h] = t]
      /\ \A u \in Thread : ~Uses(u, h)
      /\ UNCHANGED <<self, alloc, heap, op>>
  BY DEF IInv, Reclaim
<1>1. owner' \in [Handle -> Thread \cup {Everyone}]
  BY <1>0 DEF TypeOK
<1>2. \A x \in Handle \ {h} : owner'[x] = owner[x]
  BY <1>0 DEF TypeOK
<1> QED
  BY <1>0, <1>1, <1>2, OwnerStep

-----------------------------------------------------------------------------
(* The theorems *)

LEMMA InitInv == Init => IInv
<1> SUFFICES ASSUME Init PROVE IInv
  OBVIOUS
<1>1. TypeOK
  BY ConstAssumption, IdleFields DEF Init, TypeOK
<1>2. CountIsReferences
  <2> SUFFICES ASSUME NEW m \in Model
               PROVE  count[m] = Cardinality(Refs(m)) + Cardinality(Holders(m))
    BY DEF CountIsReferences
  <2>1. Refs(m) = {} /\ Holders(m) = {}
    BY ConstAssumption, IdleFields DEF Init, Refs, Holders
  <2> QED
    BY <2>1, FS_EmptySet DEF Init
<1>3. HeapOK
  BY IdleFields DEF Init, HeapOK, Live
<1>4. \A t \in Thread : CallOK(t)
  BY ConstAssumption, IdleFields DEF Init, CallOK
<1>5. AllocOK
  BY ConstAssumption, IdleFields DEF Init, AllocOK
<1> QED
  BY <1>1, <1>2, <1>3, <1>4, <1>5 DEF IInv

LEMMA NextInv == IInv /\ [Next]_vars => IInv'
<1> SUFFICES ASSUME IInv, [Next]_vars PROVE IInv'
  OBVIOUS
<1>1. CASE UNCHANGED vars
  BY <1>1 DEF vars, IInv, TypeOK, CountIsReferences, Refs, Holders, HeapOK, Live, CallOK,
              AllocOK
<1>2. ASSUME NEW t \in Thread, Begin(t) PROVE IInv'
  <2> PICK h \in Handle :
        \/ \E a \in Alloc, v \in Value, m \in Model : Construct(t, h, a, v, m)
        \/ \E x \in Handle, a \in Alloc : CopyConstruct(t, h, x, a)
        \/ \E x \in Handle, a \in Alloc : MoveConstruct(t, h, x, a)
        \/ \E x \in Handle : CopyAssign(t, h, x)
        \/ \E x \in Handle : MoveAssign(t, h, x)
        \/ \E v \in Value, m \in Model : AssignValue(t, h, v, m)
        \/ Modify(t, h)
        \/ \E x \in Handle : Swap(t, h, x)
        \/ Destroy(t, h)
        \/ ReadBegin(t, h)
        \/ Publish(t, h)
        \/ Reclaim(t, h)
    BY <1>2 DEF Begin
  <2> QED
    BY ConstructStep, CopyConstructStep, MoveConstructStep, CopyAssignStep, MoveAssignStep,
       AssignValueStep, ModifyStep, SwapStep, DestroyStep, ReadBeginStep, PublishStep,
       ReclaimStep
<1>3. ASSUME NEW t \in Thread, Proceed(t) PROVE IInv'
  <2>1. CASE ReadEnd(t)
    BY <2>1, ReturnStep DEF ReadEnd
  <2>2. CASE Throw(t)
    BY <2>2, ReturnStep DEF Throw
  <2>3. CASE \E m \in Model : CloneEnd(t, m) \/ StealEnd(t, m)
    BY <2>3, CloneEndStep, StealEndStep
  <2>4. CASE Abandon(t) \/ (\E v \in Value : WriteEnd(t, v)) \/ Drop(t) \/ FreeEnd(t)
    BY <2>4, AbandonStep, WriteEndStep, DropStep, FreeEndStep
  <2> QED
    BY <1>3, <2>1, <2>2, <2>3, <2>4 DEF Proceed
<1> QED
  BY <1>1, <1>2, <1>3 DEF Next

LEMMA Invariance == Spec => []IInv
  BY InitInv, NextInv, PTL DEF Spec

(* Every step keeps every variable in its type. *)
THEOREM TypeCorrect == Spec => []TypeOK
<1>1. IInv => TypeOK
  BY DEF IInv
<1> QED
  BY <1>1, Invariance, PTL

(* The reference count is exact at every step of every interleaving. *)
THEOREM CountsExact == Spec => []CountIsReferences
<1>1. IInv => CountIsReferences
  BY DEF IInv
<1> QED
  BY <1>1, Invariance, PTL

(* A model that somebody can still reach is never freed, nor freed twice. *)
THEOREM Safe == Spec => []NoDangling
<1>1. ASSUME IInv PROVE NoDangling
  <2>1. TypeOK /\ CountIsReferences /\ HeapOK
    BY <1>1 DEF IInv
  <2>2. \A m \in Model : count[m] = 0 => Refs(m) = {} /\ Holders(m) = {}
    BY <2>1, CountFacts DEF Refs, Holders, TypeOK
  <2>3. \A m \in Model : Refs(m) # {} \/ Holders(m) # {} => Live(m)
    BY <2>1, <2>2 DEF HeapOK
  <2>4. \A t \in Thread : op[t].pc = "free" => op[t].victim \in Model
    BY <1>1 DEF IInv, TypeOK, CallOK, Call
  <2> QED
    BY <2>1, <2>2, <2>3, <2>4 DEF NoDangling, HeapOK
<1> QED
  BY <1>1, Invariance, PTL

(* Every model goes back to the allocator it came from. *)
THEOREM AllocatorsMatch == Spec => []FreedByItsAllocator
<1>1. IInv => FreedByItsAllocator
  BY DEF IInv, AllocOK, FreedByItsAllocator
<1> QED
  BY <1>1, Invariance, PTL

(* Two threads access one value in conflict only if one is moving from it   *)
(* in a move assignment between unequal allocators.                         *)
LEMMA InvRace == IInv => RaceOnlyBySteal
<1> SUFFICES ASSUME IInv, NEW t \in Thread, NEW u \in Thread, t # u, Conflict(t, u),
                    op[t].pc # "steal", op[u].pc # "steal"
             PROVE  FALSE
  BY DEF RaceOnlyBySteal
<1>0. /\ TypeOK /\ CountIsReferences /\ CallOK(t) /\ CallOK(u)
      /\ op[t] \in Call /\ op[u] \in Call
  BY DEF IInv, TypeOK
<1>1. PICK m \in Model : m \in Writes(t) /\ m \in Reads(u) \cup Writes(u)
  BY DEF Conflict, Writes
<1>2. CASE op[t].pc = "write" /\ self[op[t].dst] = m
  <2>1. op[t].dst \in Handle /\ owner[op[t].dst] = t /\ count[m] = 1
    BY <1>0, <1>2 DEF CallOK, Call
  <2>2. CASE op[u].pc = "free" /\ op[u].victim = m
    BY <2>1, <2>2 DEF IInv, HeapOK
  <2>3. CASE op[u].pc = "write" /\ self[op[u].dst] = m
    <3>1. op[u].dst \in Handle /\ owner[op[u].dst] = u
      BY <1>0, <2>3 DEF CallOK, Call
    <3> QED
      BY <1>0, <1>2, <2>1, <2>3, <3>1, CountFacts
  <2>4. CASE op[u].pc \in {"read", "clone"} /\ self[op[u].src] = m
    <3>1. op[u].src \in Handle /\ owner[op[u].src] \in {u, Everyone}
      BY <1>0, <2>4 DEF CallOK, Call
    <3>2. op[u].src = op[t].dst
      BY <1>0, <1>2, <2>1, <2>4, <3>1, CountFacts
    <3> QED
      BY <2>1, <3>1, <3>2, ConstAssumption
  <2> QED
    BY <1>1, <2>2, <2>3, <2>4 DEF Writes, Reads
<1>3. CASE op[t].pc = "free" /\ op[t].victim = m
  <2>1. count[m] = 0 /\ op[u].victim # m
    BY <1>3 DEF IInv, HeapOK
  <2>2. \A h \in Handle : self[h] # m
    BY <1>0, <2>1, CountFacts
  <2>3. /\ op[u].pc = "write" => op[u].dst \in Handle
        /\ op[u].pc \in {"read", "clone"} => op[u].src \in Handle
    BY <1>0 DEF CallOK, Call
  <2> QED
    BY <1>1, <2>1, <2>2, <2>3 DEF Writes, Reads
<1> QED
  BY <1>1, <1>2, <1>3 DEF Writes

THEOREM RacesOnlyBySteal == Spec => []RaceOnlyBySteal
  BY InvRace, Invariance, PTL

LEMMA CleanStep ==
  ASSUME EqualOrPropagating, IInv, Clean, [Next]_vars
  PROVE  Clean'
<1>0. /\ TypeOK /\ CountIsReferences
      /\ \A m \in Model : \A h \in Handle : self[h] = m => count[m] > 0
  BY CountFacts DEF IInv
<1>t. ASSUME NEW t \in Thread, NEW c, Run(t, c), c.pc # "steal"
      PROVE  \A u \in Thread : op'[u].pc # "steal"
  BY <1>0, <1>t DEF Run, TypeOK, Clean
<1>m. ASSUME NEW m \in Model, NEW a, NEW v, v # Junk, MakeModel(m, a, v)
      PROVE  \A n \in Model : count'[n] > 0 => value'[n] # Junk
  BY <1>0, <1>m DEF MakeModel, TypeOK, Clean
<1>v. ASSUME UNCHANGED <<count, value>>
      PROVE  \A n \in Model : count'[n] > 0 => value'[n] # Junk
  BY <1>v DEF Clean
<1>1. CASE UNCHANGED vars
  BY <1>1 DEF vars, Clean
<1>2. ASSUME NEW t \in Thread, NEW h \in Handle, NEW a \in Alloc, NEW v \in Value,
             NEW m \in Model, Construct(t, h, a, v, m)
      PROVE  Clean'
  BY <1>2, <1>m, ConstAssumption DEF Construct, Clean
<1>s. ASSUME NEW t \in Thread, NEW h \in Handle, NEW x \in Handle, NEW a \in Alloc,
             CanRead(t, x), self[x] # Null, Share(t, h, x, a), UNCHANGED value
      PROVE  Clean'
  <2>1. self[x] \in Model
    BY <1>0, <1>s DEF CanRead, TypeOK
  <2>2. \A n \in Model : count'[n] > 0 => count[n] > 0
    BY <1>0, <1>s, <2>1 DEF Share, TypeOK
  <2>3. Run(t, Dropping(h, self[x], NoHandle, a))
    BY <1>s DEF Share
  <2>4. Dropping(h, self[x], NoHandle, a).pc # "steal"
    BY <2>1, DroppingFields, Z3T(20)
  <2> QED
    BY <1>s, <1>t, <2>2, <2>3, <2>4 DEF Clean
<1>3. ASSUME NEW t \in Thread, NEW h \in Handle, NEW x \in Handle, NEW a \in Alloc,
             CopyConstruct(t, h, x, a)
      PROVE  Clean'
  <2>1. CASE self[x] # Null /\ a = alloc[x] /\ Share(t, h, x, a)
    BY <1>3, <1>s, <2>1 DEF CopyConstruct
  <2>2. /\ Dropping(h, Null, NoHandle, a).pc # "steal"
        /\ Cloning(h, x, NoHandle, a).pc # "steal"
    BY DroppingFields, CloningFields, Z3T(20)
  <2> QED
    BY <1>3, <1>t, <1>v, <2>1, <2>2 DEF CopyConstruct, Clean
<1>4. ASSUME NEW t \in Thread, NEW h \in Handle, NEW x \in Handle, NEW a \in Alloc,
             MoveConstruct(t, h, x, a)
      PROVE  Clean'
  <2>1. Cloning(h, x, x, a).pc # "steal"
    BY CloningFields
  <2> QED
    BY <1>4, <1>t, <1>v, <2>1 DEF MoveConstruct, Clean, heap
<1>5. ASSUME NEW t \in Thread, NEW h \in Handle, NEW x \in Handle, CopyAssign(t, h, x)
      PROVE  Clean'
  <2> DEFINE a == IF Pocca THEN alloc[x] ELSE alloc[h]
  <2>1. a \in Alloc
    BY <1>0 DEF TypeOK
  <2>2. CASE self[x] # Null /\ Share(t, h, x, a)
    <3> HIDE DEF a
    <3> QED
      BY <1>5, <1>s, <2>1, <2>2 DEF CopyAssign
  <2>3. /\ Dropping(h, Null, NoHandle, a).pc # "steal"
        /\ Cloning(h, x, NoHandle, a).pc # "steal"
    BY <2>1, DroppingFields, CloningFields, Z3T(20)
  <2>4. CASE (Run(t, Dropping(h, Null, NoHandle, a)) \/ Run(t, Cloning(h, x, NoHandle, a)))
             /\ UNCHANGED count
    <3> HIDE DEF a
    <3> QED
      BY <1>5, <1>t, <1>v, <2>3, <2>4 DEF CopyAssign, Clean
  <2> QED
    BY <1>5, <2>2, <2>4 DEF CopyAssign
<1>6. ASSUME NEW t \in Thread, NEW h \in Handle, NEW x \in Handle, MoveAssign(t, h, x)
      PROVE  Clean'
  <2> DEFINE a == IF Pocma THEN alloc[x] ELSE alloc[h]
  <2>1. /\ a \in Alloc /\ self[x] \in Model \cup {Null, Dead}
        /\ Pocma \/ alloc[h] = alloc[x]
    BY <1>0 DEF TypeOK, EqualOrPropagating
  <2>2. Run(t, Dropping(h, self[x], NoHandle, a)) /\ UNCHANGED <<count, value>>
    BY <1>6, <2>1 DEF MoveAssign, heap
  <2>3. Dropping(h, self[x], NoHandle, a).pc # "steal"
    <3> HIDE DEF a
    <3> QED
      BY <2>1, DroppingFields, Z3T(20)
  <2> HIDE DEF a
  <2> QED
    BY <1>t, <1>v, <2>2, <2>3 DEF Clean
<1>7. ASSUME NEW t \in Thread, NEW h \in Handle, NEW v \in Value, NEW m \in Model,
             AssignValue(t, h, v, m)
      PROVE  Clean'
  <2> DEFINE a == IF Pocma THEN DefaultAlloc ELSE alloc[h]
  <2>1. a \in Alloc
    BY <1>0, ConstAssumption DEF TypeOK
  <2>2. Writing(h).pc # "steal" /\ Dropping(h, m, NoHandle, a).pc # "steal"
    <3> HIDE DEF a
    <3> QED
      BY <2>1, WritingFields, DroppingFields, Z3T(20)
  <2>3. \/ Run(t, Writing(h)) /\ UNCHANGED <<count, value>>
        \/ MakeModel(m, a, v) /\ Run(t, Dropping(h, m, NoHandle, a))
    BY <1>7 DEF AssignValue, heap
  <2> HIDE DEF a
  <2> QED
    BY <1>t, <1>v, <1>m, <2>2, <2>3, ConstAssumption DEF Clean
<1>8. ASSUME NEW t \in Thread, NEW h \in Handle,
             Modify(t, h) \/ Destroy(t, h) \/ ReadBegin(t, h)
      PROVE  Clean'
  <2>1. alloc[h] \in Alloc
    BY <1>0 DEF TypeOK
  <2>2. /\ Cloning(h, h, NoHandle, alloc[h]).pc # "steal" /\ Writing(h).pc # "steal"
        /\ Dropping(h, Dead, NoHandle, alloc[h]).pc # "steal" /\ Reading(h).pc # "steal"
    BY <2>1, CloningFields, WritingFields, DroppingFields, ReadingFields
  <2> QED
    BY <1>8, <1>t, <1>v, <2>2 DEF Modify, Destroy, ReadBegin, heap, Clean
<1>9. ASSUME NEW t \in Thread, NEW h \in Handle,
             (\E x \in Handle : Swap(t, h, x)) \/ Publish(t, h) \/ Reclaim(t, h)
      PROVE  Clean'
  BY <1>9 DEF Swap, Publish, Reclaim, heap, Clean
<1>10. ASSUME NEW t \in Thread, ReadEnd(t) \/ Throw(t)
       PROVE  Clean'
  BY <1>10, <1>t, <1>v, IdleFields DEF ReadEnd, Throw, heap, Clean
<1>11. ASSUME NEW t \in Thread, NEW m \in Model, CloneEnd(t, m)
       PROVE  Clean'
  <2>1. /\ op[t].dst \in Handle /\ op[t].rest \in Handle \cup {NoHandle}
        /\ op[t].aft \in Alloc /\ op[t].src \in Handle /\ self[op[t].src] \in Model
    BY <1>11 DEF CloneEnd, IInv, TypeOK, CallOK, Call
  <2>2. value[self[op[t].src]] # Junk
    BY <1>0, <2>1 DEF Clean
  <2>3. /\ Abandoning(op[t].dst, m, op[t].aft).pc # "steal"
        /\ Dropping(op[t].dst, m, op[t].rest, op[t].aft).pc # "steal"
    BY <2>1, AbandoningFields, DroppingFields, Z3T(20)
  <2>4. \A n \in Model : count'[n] > 0 => value'[n] # Junk
    BY <1>11, <1>m, <2>2 DEF CloneEnd
  <2>5. \A u \in Thread : op'[u].pc # "steal"
    BY <1>11, <1>t, <2>3 DEF CloneEnd
  <2> QED
    BY <2>4, <2>5 DEF Clean
<1>12. ASSUME NEW t \in Thread, NEW m \in Model, StealEnd(t, m)
       PROVE  Clean'
  BY <1>12 DEF StealEnd, Clean
<1>13. ASSUME NEW t \in Thread, Abandon(t)
       PROVE  Clean'
  <2>1. op[t].dst \in Handle /\ self[op[t].dst] \in Model
    BY <1>13 DEF Abandon, IInv, TypeOK, CallOK, Call
  <2>2. \A n \in Model : count'[n] > 0 => count[n] > 0
    BY <1>0, <1>13, <2>1 DEF Abandon, TypeOK
  <2>3. Run(t, Writing(op[t].dst)) /\ Writing(op[t].dst).pc # "steal" /\ UNCHANGED value
    BY <1>13, <2>1, WritingFields DEF Abandon
  <2> QED
    BY <1>t, <2>2, <2>3 DEF Clean
<1>14. ASSUME NEW t \in Thread, NEW v \in Value, WriteEnd(t, v)
       PROVE  Clean'
  <2>1. \A n \in Model : value'[n] = value[n] \/ value'[n] = v
    BY <1>0, <1>14 DEF WriteEnd, TypeOK
  <2> QED
    BY <1>14, <1>t, <2>1, IdleFields, ConstAssumption DEF WriteEnd, Clean
<1>15. ASSUME NEW t \in Thread, Drop(t)
       PROVE  Clean'
  <2>1. /\ op[t].rest \in Handle \cup {NoHandle} /\ op[t].dst \in Handle
        /\ alloc[op[t].dst] \in Alloc
    BY <1>15 DEF Drop, IInv, TypeOK, CallOK, Call
  <2>2. \A n \in Model : count'[n] > 0 => count[n] > 0
    BY <1>0, <1>15 DEF Drop, TypeOK
  <2>3. /\ Continue(op[t].rest).pc # "steal"
        /\ self[op[t].dst] \in Model =>
             Freeing(self[op[t].dst], op[t].rest, alloc[op[t].dst]).pc # "steal"
    BY <1>0, <2>1, IdleFields, ContinueFields, FreeingFields, Z3T(20)
  <2>4. \A u \in Thread : op'[u].pc # "steal"
    BY <1>15, <1>t, <2>3 DEF Drop
  <2> QED
    BY <1>15, <2>2, <2>4 DEF Drop, Clean
<1>16. ASSUME NEW t \in Thread, FreeEnd(t)
       PROVE  Clean'
  <2>1. op[t].rest \in Handle \cup {NoHandle} /\ count[op[t].victim] = 0
    BY <1>16 DEF FreeEnd, IInv, HeapOK, TypeOK, Call
  <2>2. Continue(op[t].rest).pc # "steal"
    BY <1>0, <2>1, IdleFields, ContinueFields
  <2>3. \A n \in Model : count'[n] > 0 => value'[n] # Junk
    BY <1>0, <1>16, <2>1 DEF FreeEnd, TypeOK, Clean
  <2> QED
    BY <1>16, <1>t, <2>2, <2>3 DEF FreeEnd, Clean
<1> QED
  BY <1>1, <1>2, <1>3, <1>4, <1>5, <1>6, <1>7, <1>8, <1>9, <1>10, <1>11, <1>12, <1>13,
     <1>14, <1>15, <1>16 DEF Next, Begin, Proceed

(* With equal or propagating allocators (std::allocator is both) there is   *)
(* no data race on a value, and no handle shows a moved-from one.           *)
THEOREM RaceFree == EqualOrPropagating => (Spec => []NoRace)
<1>1. ASSUME EqualOrPropagating PROVE Spec => []NoRace
  <2>1. Init => Clean
    BY IdleFields DEF Init, Clean
  <2>2. IInv /\ Clean /\ [Next]_vars => Clean'
    BY <1>1, CleanStep
  <2>3. IInv /\ Clean => NoRace
    <3> SUFFICES ASSUME IInv, Clean PROVE NoRace
      OBVIOUS
    <3>1. \A t, u \in Thread : t # u => ~Conflict(t, u)
      BY InvRace DEF RaceOnlyBySteal, Clean
    <3>2. \A h \in Handle : self[h] \in Model => value[self[h]] # Junk
      BY CountFacts DEF IInv, Clean
    <3> QED
      BY <3>1, <3>2 DEF NoRace
  <2> QED
    BY <2>1, <2>2, <2>3, Invariance, PTL DEF Spec
<1> QED
  BY <1>1

(* What any step of thread t does to counts and to models in destruction. *)
LEMMA StepShape ==
  ASSUME IInv, NEW t \in Thread, Begin(t) \/ Proceed(t)
  PROVE  /\ \A u \in Thread \ {t} : op'[u] = op[u]
         /\ op[t].pc = "free" => FreeEnd(t)
         /\ \A n \in Model : made[n] = NoAlloc /\ made'[n] # NoAlloc => count'[n] = 1
         /\ \A n \in Model : count[n] > 0 /\ count'[n] = 0 =>
              /\ Drop(t) \/ Abandon(t)
              /\ self[op[t].dst] = n
<1>0. TypeOK /\ CallOK(t) /\ op[t] \in Call
  BY DEF IInv, TypeOK
<1>m. ASSUME NEW m \in Model, NEW a, NEW v, MakeModel(m, a, v)
      PROVE  /\ \A n \in Model : made[n] = NoAlloc /\ made'[n] # NoAlloc => count'[n] = 1
             /\ \A n \in Model : count[n] > 0 => count'[n] > 0
  BY <1>0, <1>m DEF MakeModel, TypeOK
<1>1. CASE Begin(t)
  <2>0. /\ op[t].pc # "free"
    BY <1>1 DEF Begin, Free, Construct, CopyConstruct, MoveConstruct, CopyAssign, MoveAssign,
                AssignValue, Modify, Swap, Destroy, ReadBegin, Publish, Reclaim
  <2>1. ASSUME UNCHANGED heap
        PROVE  /\ \A n \in Model : made[n] = NoAlloc /\ made'[n] # NoAlloc => count'[n] = 1
               /\ \A n \in Model : count[n] > 0 => count'[n] > 0
    BY <2>1 DEF heap
  <2>2. ASSUME NEW h \in Handle, NEW x \in Handle, NEW a, CanRead(t, x), self[x] # Null,
               Share(t, h, x, a), made' = made
        PROVE  /\ \A n \in Model : made[n] = NoAlloc /\ made'[n] # NoAlloc => count'[n] = 1
               /\ \A n \in Model : count[n] > 0 => count'[n] > 0
    BY <1>0, <2>2 DEF Share, CanRead, TypeOK
  <2>3. /\ \A n \in Model : made[n] = NoAlloc /\ made'[n] # NoAlloc => count'[n] = 1
        /\ \A n \in Model : count[n] > 0 => count'[n] > 0
    <3>1. ASSUME NEW h \in Handle, NEW a \in Alloc, NEW v \in Value, NEW m \in Model,
                 Construct(t, h, a, v, m)
          PROVE  MakeModel(m, a, v)
      BY <3>1 DEF Construct
    <3>2. ASSUME NEW h \in Handle, NEW x \in Handle, NEW a \in Alloc,
                 CopyConstruct(t, h, x, a)
          PROVE  \/ UNCHANGED heap
                 \/ CanRead(t, x) /\ self[x] # Null /\ Share(t, h, x, a) /\ made' = made
      BY <3>2 DEF CopyConstruct, heap
    <3>3. ASSUME NEW h \in Handle, NEW x \in Handle, CopyAssign(t, h, x)
          PROVE  \/ UNCHANGED heap
                 \/ \E a : CanRead(t, x) /\ self[x] # Null /\ Share(t, h, x, a) /\ made' = made
      BY <3>3 DEF CopyAssign, heap
    <3>4. ASSUME NEW h \in Handle, NEW v \in Value, NEW m \in Model, AssignValue(t, h, v, m)
          PROVE  UNCHANGED heap \/ \E a : MakeModel(m, a, v)
      BY <3>4 DEF AssignValue
    <3>5. ASSUME NEW h \in Handle, NEW x \in Handle,
                 \/ \E a \in Alloc : MoveConstruct(t, h, x, a)
                 \/ MoveAssign(t, h, x) \/ Modify(t, h) \/ Swap(t, h, x) \/ Destroy(t, h)
                 \/ ReadBegin(t, h) \/ Publish(t, h) \/ Reclaim(t, h)
          PROVE  UNCHANGED heap
      BY <3>5 DEF MoveConstruct, MoveAssign, Modify, Swap, Destroy, ReadBegin, Publish, Reclaim
    <3> QED
      BY <1>1, <1>m, <2>1, <2>2, <3>1, <3>2, <3>3, <3>4, <3>5 DEF Begin
  <2>4. \A u \in Thread \ {t} : op'[u] = op[u]
    BY <1>0, <1>1
    DEF Begin, Construct, CopyConstruct, MoveConstruct, CopyAssign, MoveAssign, AssignValue,
        Modify, Swap, Destroy, ReadBegin, Publish, Reclaim, Share, Run, TypeOK
  <2> QED
    BY <1>0, <2>0, <2>3, <2>4 DEF TypeOK
<1>2. CASE Proceed(t)
  <2>1. \A u \in Thread \ {t} : op'[u] = op[u]
    BY <1>0, <1>2, ZenonT(60) DEF Proceed, ReadEnd, CloneEnd, Throw, StealEnd, Abandon, WriteEnd, Drop,
                      FreeEnd, Run, TypeOK
  <2>2. op[t].pc = "free" => FreeEnd(t)
    BY <1>2 DEF Proceed, ReadEnd, CloneEnd, Throw, StealEnd, Abandon, WriteEnd, Drop
  <2>3. \A n \in Model : made[n] = NoAlloc /\ made'[n] # NoAlloc => count'[n] = 1
    BY <1>0, <1>2, <1>m, Zenon DEF Proceed, ReadEnd, CloneEnd, Throw, StealEnd, Abandon, WriteEnd,
                            Drop, FreeEnd, TypeOK, heap
  <2>4. ASSUME NEW n \in Model, count[n] > 0, count'[n] = 0
        PROVE  (Drop(t) \/ Abandon(t)) /\ self[op[t].dst] = n
    <3>1. ~UNCHANGED count
      BY <2>4
    <3>2. ASSUME NEW m \in Model PROVE ~CloneEnd(t, m) /\ ~StealEnd(t, m)
      BY <1>0, <2>4 DEF CloneEnd, StealEnd, MakeModel, TypeOK
    <3>3. Drop(t) \/ Abandon(t)
      BY <1>2, <3>1, <3>2 DEF Proceed, ReadEnd, Throw, WriteEnd, FreeEnd, heap
    <3>4. self[op[t].dst] = n
      BY <1>0, <2>4, <3>3 DEF Drop, Abandon, TypeOK
    <3> QED
      BY <3>3, <3>4
  <2> QED
    BY <2>1, <2>2, <2>3, <2>4, SMTT(30)
<1> QED
  BY <1>1, <1>2

LEMMA LeakStep ==
  ASSUME IInv, IInv', [Next]_vars, NEW m \in Model, ~Leaked(m), Leaked(m)'
  PROVE  \E t \in Thread : op[t].pc = "abandon" /\ self[op[t].dst] = m
<1>0. /\ TypeOK /\ TypeOK' /\ count[m] \in Nat
      /\ count[m] = Cardinality(Refs(m)) + Cardinality(Holders(m))
      /\ count'[m] = Cardinality(Refs(m)') + Cardinality(Holders(m)')
  BY DEF IInv, TypeOK, CountIsReferences
<1>1. /\ made'[m] # NoAlloc /\ count'[m] = 0
      /\ \A t \in Thread : op'[t].victim # m
  <2>1. Refs(m)' = {} /\ Holders(m)' = {}
    BY DEF Leaked
  <2> QED
    BY <1>0, <2>1, FS_EmptySet DEF Leaked, Live
<1>2. ~UNCHANGED vars
  BY DEF vars, Leaked, Live, Refs, Holders
<1>3. PICK t \in Thread : Begin(t) \/ Proceed(t)
  BY <1>2 DEF Next
<1>4. made[m] # NoAlloc
  BY <1>1, <1>3, StepShape
<1>5. \A u \in Thread : op[u].victim # m
  <2> SUFFICES ASSUME NEW u \in Thread, op[u].victim = m
               PROVE  FALSE
    OBVIOUS
  <2>1. op[u].pc = "free"
    BY ConstAssumption DEF IInv, CallOK
  <2>2. u = t /\ FreeEnd(t)
    BY <1>1, <1>3, <2>1, StepShape
  <2> QED
    BY <1>0, <1>1, <2>2 DEF FreeEnd, TypeOK
<1>6. count[m] > 0
  <2>1. Refs(m) # {} \/ Holders(m) # {}
    BY <1>4, <1>5 DEF Leaked, Live
  <2> QED
    BY <1>0, <2>1, CountFacts DEF IInv, Refs, Holders
<1>7. (Drop(t) \/ Abandon(t)) /\ self[op[t].dst] = m
  BY <1>1, <1>3, <1>6, StepShape
<1>8. ASSUME Drop(t) PROVE FALSE
  <2>1. count'[m] = count[m] - 1
    BY <1>0, <1>7, <1>8 DEF Drop, TypeOK
  <2>2. count[m] = 1
    BY <1>0, <1>1, <2>1
  <2>3. op'[t] = Freeing(m, op[t].rest, alloc[op[t].dst])
    BY <1>0, <1>7, <1>8, <2>2 DEF Drop, LastOwner, Run, TypeOK
  <2>4. Freeing(m, op[t].rest, alloc[op[t].dst]).victim = m
    BY DEF Freeing, Idle
  <2> QED
    BY <1>1, <2>3, <2>4
<1> QED
  BY <1>7, <1>8 DEF Abandon

(* Only modify can lose a model. *)
THEOREM LeaksOnlyByAbandon == Spec => LeakOnlyByAbandon
<1>1. IInv /\ IInv' /\ [Next]_vars =>
        [\A m \in Model : ~Leaked(m) /\ Leaked(m)' =>
           \E t \in Thread : op[t].pc = "abandon" /\ self[op[t].dst] = m]_vars
  BY LeakStep
<1> QED
  BY <1>1, Invariance, PTL DEF Spec, LeakOnlyByAbandon

(* A model that somebody refers to changes its value only while a call      *)
(* moves out of it or writes to it.                                         *)
LEMMA ValueStep ==
  ASSUME IInv, [Next]_vars, NEW m \in Model, count[m] > 0, value'[m] # value[m]
  PROVE  \E t \in Thread : \/ op[t].pc = "steal" /\ self[op[t].src] = m
                           \/ op[t].pc = "write" /\ self[op[t].dst] = m
<1>0. /\ TypeOK /\ \A n \in Model : made[n] = NoAlloc => count[n] = 0
  BY DEF IInv, HeapOK, Live
<1>1. ASSUME NEW n \in Model, NEW a, NEW v, MakeModel(n, a, v)
      PROVE  FALSE
  <2>1. n # m /\ value' = [value EXCEPT ![n] = v]
    BY <1>0, <1>1 DEF MakeModel
  <2> QED
    BY <1>0, <2>1 DEF TypeOK
<1>2. ~UNCHANGED value
  OBVIOUS
<1>3. PICK t \in Thread : Begin(t) \/ Proceed(t)
  BY <1>2 DEF Next, vars
<1>4. CASE Begin(t)
  <2>1. ASSUME NEW h \in Handle, NEW a \in Alloc, NEW v \in Value, NEW n \in Model,
               Construct(t, h, a, v, n)
        PROVE  FALSE
    BY <1>1, <2>1 DEF Construct
  <2>2. ASSUME NEW h \in Handle, NEW v \in Value, NEW n \in Model, AssignValue(t, h, v, n)
        PROVE  FALSE
    BY <1>1, <1>2, <2>2 DEF AssignValue, heap
  <2>3. ASSUME NEW h \in Handle, NEW x \in Handle,
               \/ \E a \in Alloc : CopyConstruct(t, h, x, a) \/ MoveConstruct(t, h, x, a)
               \/ CopyAssign(t, h, x) \/ MoveAssign(t, h, x) \/ Modify(t, h)
               \/ Swap(t, h, x) \/ Destroy(t, h) \/ ReadBegin(t, h)
               \/ Publish(t, h) \/ Reclaim(t, h)
        PROVE  FALSE
    BY <1>2, <2>3 DEF CopyConstruct, MoveConstruct, CopyAssign, MoveAssign, Modify, Swap,
                      Destroy, ReadBegin, Publish, Reclaim, heap
  <2> QED
    BY <1>4, <2>1, <2>2, <2>3 DEF Begin
<1>5. ASSUME NEW n \in Model, StealEnd(t, n)
      PROVE  op[t].pc = "steal" /\ self[op[t].src] = m
  <2>1. n # m /\ value' = [value EXCEPT ![n] = value[self[op[t].src]],
                                        ![self[op[t].src]] = Junk]
    BY <1>0, <1>5 DEF StealEnd
  <2> QED
    BY <1>0, <1>5, <2>1 DEF StealEnd, TypeOK
<1>6. ASSUME NEW v \in Value, WriteEnd(t, v)
      PROVE  op[t].pc = "write" /\ self[op[t].dst] = m
  BY <1>0, <1>6 DEF WriteEnd, TypeOK
<1>7. ~FreeEnd(t)
  <2>1. op[t].pc = "free" => op[t].victim # m
    BY DEF IInv, HeapOK
  <2> QED
    BY <1>0, <2>1 DEF FreeEnd, TypeOK
<1>8. ASSUME NEW n \in Model PROVE ~CloneEnd(t, n)
  BY <1>1 DEF CloneEnd
<1>9. ~(ReadEnd(t) \/ Throw(t) \/ Abandon(t) \/ Drop(t))
  BY <1>2 DEF ReadEnd, Throw, Abandon, Drop, heap
<1> QED
  BY <1>3, <1>4, <1>5, <1>6, <1>7, <1>8, <1>9 DEF Proceed

(* What other owners see of a shared value changes only if a move           *)
(* assignment between unequal allocators moves out of it.                   *)
THEOREM ForeignChangesOnlyBySteal == Spec => ForeignChangeOnlyBySteal
<1>1. ASSUME IInv, [Next]_vars, NEW h \in Handle, self[h] \in Model,
             self'[h] = self[h], value'[self[h]] # value[self[h]]
      PROVE  \E t \in Thread : \/ op[t].pc = "steal" /\ self[op[t].src] = self[h]
                               \/ op[t].pc = "write" /\ op[t].dst = h
  <2>1. /\ TypeOK /\ CountIsReferences /\ count[self[h]] > 0
        /\ count[self[h]] = 1 => \A x \in Handle : self[x] = self[h] => x = h
    BY <1>1, CountFacts DEF IInv
  <2>2. PICK t \in Thread : \/ op[t].pc = "steal" /\ self[op[t].src] = self[h]
                            \/ op[t].pc = "write" /\ self[op[t].dst] = self[h]
    BY <1>1, <2>1, ValueStep
  <2>3. op[t].pc = "write" => op[t].dst \in Handle /\ count[self[op[t].dst]] = 1
    BY <1>1, <2>1 DEF IInv, CallOK, TypeOK, Call
  <2> QED
    BY <2>1, <2>2, <2>3
<1>2. IInv /\ [Next]_vars =>
        [\A h \in Handle :
           /\ self[h] \in Model /\ self'[h] = self[h] /\ value'[self[h]] # value[self[h]]
           => \E t \in Thread : \/ op[t].pc = "steal" /\ self[op[t].src] = self[h]
                                \/ op[t].pc = "write" /\ op[t].dst = h]_vars
  BY <1>1
<1> QED
  BY <1>2, Invariance, PTL DEF Spec, ForeignChangeOnlyBySteal

-----------------------------------------------------------------------------
(* Refinement: every step of a call is a step of CowValue, or none there.   *)

After(p) == IF p \in Model THEN value'[p] ELSE p
ValuesKept == \A m \in Model : count[m] > 0 => value'[m] = value[m]
Silent == Shown' = Shown /\ Pending' = Pending

(* Who refers to a model sees its value kept. *)
LEMMA Kept ==
  ASSUME IInv, ValuesKept
  PROVE  /\ \A y \in Handle : After(self[y]) = Content(self[y])
         /\ \A u \in Thread : After(op[u].tmp) = Content(op[u].tmp)
<1>1. /\ \A y \in Handle : self[y] \in Model => count[self[y]] > 0
      /\ \A u \in Thread : op[u].tmp \in Model => count[op[u].tmp] > 0
  BY CountFacts DEF IInv
<1> QED
  BY <1>1 DEF After, Content, ValuesKept

(* The change of a handle that a call is about to make. *)
Change(h, w) == <<h, w>>

LEMMA PendsTo ==
  ASSUME TypeOK, NEW t \in Thread, NEW c, Run(t, c),
         \A u \in Thread \ {t} : After(op[u].tmp) = Content(op[u].tmp)
  PROVE  /\ Pending' = [Pending EXCEPT ![t] = IF c.pc \in {"drop", "abandon"}
                                                THEN <<c.dst, After(c.tmp)>> ELSE Nothing]
         /\ Pending[t] = IF op[t].pc \in {"drop", "abandon"}
                           THEN <<op[t].dst, Content(op[t].tmp)>> ELSE Nothing
<1>1. op'[t] = c /\ \A u \in Thread \ {t} : op'[u] = op[u]
  BY DEF Run, TypeOK
<1>2. \A u \in Thread :
        /\ Pending[u] = IF op[u].pc \in {"drop", "abandon"}
                          THEN Change(op[u].dst, Content(op[u].tmp)) ELSE Nothing
        /\ Pending'[u] = IF op'[u].pc \in {"drop", "abandon"}
                           THEN Change(op'[u].dst, After(op'[u].tmp)) ELSE Nothing
  BY DEF Pending, Sets, Content, After, Change
<1>3. ASSUME NEW u \in Thread \ {t} PROVE Pending'[u] = Pending[u]
  <2>1. op'[u] = op[u] /\ After(op[u].tmp) = Content(op[u].tmp) /\ u \in Thread
    BY <1>1
  <2> QED
    BY <1>2, <2>1
<1>4. /\ Pending = [u \in Thread |-> Pending[u]]
      /\ Pending' = [u \in Thread |-> Pending'[u]]
  BY DEF Pending
<1> QED
  BY <1>1, <1>2, <1>3, <1>4 DEF Change

LEMMA ShowsAs ==
  ASSUME NEW F, F = [y \in Handle |-> F[y]], \A y \in Handle : After(self'[y]) = F[y]
  PROVE  Shown' = F
<1>1. Shown' = [y \in Handle |-> After(self'[y])]
  BY DEF Shown, Content, After
<1> QED
  BY <1>1

LEMMA ShownIs ==
  /\ \A y \in Handle : Shown[y] = Content(self[y])
  /\ Shown = [y \in Handle |-> Shown[y]]
BY DEF Shown

LEMMA ShowsSame ==
  ASSUME IInv, ValuesKept, self' = self
  PROVE  Shown' = Shown
<1>1. \A y \in Handle : After(self'[y]) = Shown[y]
  BY Kept, ShownIs
<1> QED
  BY <1>1, ShownIs, ShowsAs

LEMMA ShowsOne ==
  ASSUME IInv, ValuesKept, NEW h \in Handle, NEW p, self' = [self EXCEPT ![h] = p]
  PROVE  Shown' = [Shown EXCEPT ![h] = After(p)]
<1>1. \A y \in Handle : After(self'[y]) = [Shown EXCEPT ![h] = After(p)][y]
  BY Kept, ShownIs DEF IInv, TypeOK
<1>2. [Shown EXCEPT ![h] = After(p)]
        = [y \in Handle |-> [Shown EXCEPT ![h] = After(p)][y]]
  BY ShownIs
<1> QED
  BY <1>1, <1>2, ShowsAs

(* A call that has nothing to install, and goes on having nothing.          *)
LEMMA SilentStep ==
  ASSUME IInv, ValuesKept, self' = self, NEW t \in Thread, NEW c, Run(t, c),
         op[t].pc \notin {"drop", "abandon"}, c.pc \notin {"drop", "abandon"}
  PROVE  Silent
<1>1. Shown' = Shown
  BY ShowsSame
<1>2. Pending' = [Pending EXCEPT ![t] = Nothing] /\ Pending[t] = Nothing
  BY PendsTo, Kept DEF IInv
<1>3. Pending = [u \in Thread |-> Pending[u]]
  BY DEF Pending
<1> QED
  BY <1>1, <1>2, <1>3 DEF Silent

(* A call comes to have something to install. *)
LEMMA PendStep ==
  ASSUME IInv, ValuesKept, NEW t \in Thread, NEW c, Run(t, c),
         op[t].pc \notin {"drop", "abandon"}, c.pc \in {"drop", "abandon"}
  PROVE  Abstract!Pend(t, c.dst, After(c.tmp))
<1>1. /\ Pending' = [Pending EXCEPT ![t] = <<c.dst, After(c.tmp)>>]
      /\ Pending[t] = Nothing
  BY PendsTo, Kept DEF IInv
<1> QED
  BY <1>1 DEF Abstract!Pend

LEMMA MakeKeeps ==
  ASSUME IInv, NEW m \in Model, NEW a, NEW v, MakeModel(m, a, v)
  PROVE  /\ ValuesKept /\ value'[m] = v
         /\ \A y \in Handle : self[y] # m
<1>1. TypeOK /\ made[m] = NoAlloc /\ count[m] = 0 /\ value' = [value EXCEPT ![m] = v]
  BY DEF IInv, HeapOK, Live, MakeModel
<1>2. \A y \in Handle : self[y] # m
  BY <1>1, CountFacts DEF IInv
<1> QED
  BY <1>1, <1>2 DEF ValuesKept, TypeOK

(* A step that only moves a call forward, from "idle" or inside. *)
LEMMA SameKeeps == value' = value => ValuesKept
BY DEF ValuesKept

(* What a handle that can be used shows is no dead object. *)
LEMMA NotDead ==
  ASSUME IInv, Clean, NEW x \in Handle, self[x] # Dead
  PROVE  /\ Shown[x] # Dead
         /\ self[x] \in Model => Shown[x] \in Value
         /\ self[x] = Null => Shown[x] = Null
<1>1. self[x] \in Model => value[self[x]] \in Value
  BY CountFacts DEF IInv, TypeOK, Clean
<1>2. self[x] \in Model \cup {Null} /\ Shown[x] = Content(self[x])
  BY ShownIs DEF IInv, TypeOK
<1> QED
  BY <1>1, <1>2, ConstAssumption DEF Content

LEMMA DeadShown ==
  ASSUME NEW x \in Handle, self[x] = Dead
  PROVE  Shown[x] = Dead
BY ShownIs, ConstAssumption DEF Content

(* From a call that begins or goes on to the change it will make. *)
LEMMA DropPends ==
  ASSUME IInv, ValuesKept, NEW t \in Thread, op[t].pc \notin {"drop", "abandon"},
         NEW h \in Handle, NEW p \in Model \cup {Null, Dead},
         NEW r \in Handle \cup {NoHandle}, NEW a \in Alloc,
         Run(t, Dropping(h, p, r, a))
  PROVE  Abstract!Pend(t, h, After(p))
<1> DEFINE c == Dropping(h, p, r, a)
<1>1. c.pc = "drop" /\ c.dst = h /\ c.tmp = p
  <2>1. (p \in Model \/ p \in {Null, Dead}) /\ (r \in Handle \/ r = NoHandle)
    OBVIOUS
  <2> QED
    BY <2>1 DEF Dropping, Idle
<1>2. Run(t, c)
  OBVIOUS
<1> HIDE DEF c
<1>3. Abstract!Pend(t, c.dst, After(c.tmp))
  BY <1>1, <1>2, PendStep
<1> QED
  BY <1>1, <1>3

LEMMA PendingKept ==
  ASSUME IInv, ValuesKept, op' = op
  PROVE  Pending' = Pending
<1>1. \A u \in Thread : Sets(op[u])' = Sets(op[u])
  BY Kept DEF Sets, Content, After
<1> QED
  BY <1>1 DEF Pending

-----------------------------------------------------------------------------

LEMMA ConstructRefines ==
  ASSUME IInv, Clean, NEW t \in Thread, NEW h \in Handle, NEW a \in Alloc,
         NEW v \in Value, NEW m \in Model, Construct(t, h, a, v, m)
  PROVE  Abstract!Next
<1>1. /\ MakeModel(m, a, v) /\ self' = [self EXCEPT ![h] = m] /\ op' = op /\ self[h] = Dead
  BY DEF Construct, Fresh
<1>2. ValuesKept /\ value'[m] = v
  BY <1>1, MakeKeeps
<1>3. Shown' = [Shown EXCEPT ![h] = After(m)]
  BY <1>1, <1>2, ShowsOne
<1>4. After(m) = v
  BY <1>2 DEF After
<1>5. Abstract!Make(h)
  BY <1>1, <1>2, <1>3, <1>4, DeadShown, PendingKept DEF Abstract!Make
<1> QED
  BY <1>5 DEF Abstract!Next

LEMMA CopyConstructRefines ==
  ASSUME IInv, Clean, NEW t \in Thread, NEW h \in Handle, NEW x \in Handle, NEW a \in Alloc,
         CopyConstruct(t, h, x, a)
  PROVE  Abstract!Next \/ Silent
<1>1. /\ TypeOK /\ op[t].pc = "idle" /\ CanRead(t, x) /\ self' = self /\ ValuesKept
      /\ Shown' = Shown
  BY SameKeeps, ShowsSame DEF IInv, CopyConstruct, Free
<1>2. CASE self[x] = Null /\ Run(t, Dropping(h, Null, NoHandle, a))
  <2>1. Abstract!Pend(t, h, After(Null)) /\ After(Null) = Null
    BY <1>1, <1>2, DropPends, ConstAssumption DEF After
  <2>2. Abstract!Clear(t, h)
    BY <1>1, <2>1 DEF Abstract!Clear
  <2> QED
    BY <2>2 DEF Abstract!Next
<1>3. CASE self[x] # Null /\ Share(t, h, x, a)
  <2>1. self[x] \in Model /\ Run(t, Dropping(h, self[x], NoHandle, a))
    BY <1>1, <1>3 DEF Share, CanRead, TypeOK
  <2>2. Abstract!Pend(t, h, After(self[x]))
    BY <1>1, <2>1, DropPends
  <2>3. After(self[x]) = Shown[x] /\ Shown[x] # Dead
    BY <1>1, Kept, ShownIs, NotDead DEF CanRead
  <2>4. Abstract!Copy(t, h, x)
    BY <1>1, <2>2, <2>3 DEF Abstract!Copy
  <2> QED
    BY <2>4 DEF Abstract!Next
<1>4. CASE Run(t, Cloning(h, x, NoHandle, a))
  <2>1. Cloning(h, x, NoHandle, a).pc = "clone"
    BY CloningFields
  <2> QED
    BY <1>1, <1>4, <2>1, SilentStep
<1> QED
  BY <1>2, <1>3, <1>4 DEF CopyConstruct

LEMMA MoveConstructRefines ==
  ASSUME IInv, Clean, NEW t \in Thread, NEW h \in Handle, NEW x \in Handle, NEW a \in Alloc,
         MoveConstruct(t, h, x, a)
  PROVE  Abstract!Next \/ Silent
<1>1. /\ TypeOK /\ op[t].pc = "idle" /\ self[x] # Dead /\ self[h] = Dead /\ h # x
      /\ ValuesKept
  BY SameKeeps DEF IInv, MoveConstruct, Free, Fresh, Owns, heap
<1>2. CASE self' = [self EXCEPT ![h] = self[x], ![x] = Null] /\ op' = op
  <2> DEFINE F == [Shown EXCEPT ![h] = Shown[x], ![x] = Null]
  <2>1. \A y \in Handle : After(self'[y]) = F[y]
    BY <1>1, <1>2, Kept, ShownIs, ConstAssumption DEF TypeOK, After
  <2>2. Shown' = F
    <3>1. F = [y \in Handle |-> F[y]]
      BY ShownIs
    <3> HIDE DEF F
    <3> QED
      BY <2>1, <3>1, ShowsAs
  <2>3. Shown[h] = Dead /\ Shown[x] # Dead /\ Pending' = Pending
    BY <1>1, <1>2, DeadShown, NotDead, PendingKept
  <2>4. Abstract!MoveMake(h, x)
    BY <2>2, <2>3 DEF Abstract!MoveMake
  <2> QED
    BY <2>4 DEF Abstract!Next
<1>3. CASE Run(t, Cloning(h, x, x, a)) /\ self' = self
  <2>1. Cloning(h, x, x, a).pc = "clone"
    BY CloningFields
  <2> QED
    BY <1>1, <1>3, <2>1, SilentStep
<1> QED
  BY <1>2, <1>3 DEF MoveConstruct

LEMMA CopyAssignRefines ==
  ASSUME IInv, Clean, NEW t \in Thread, NEW h \in Handle, NEW x \in Handle,
         CopyAssign(t, h, x)
  PROVE  Abstract!Next \/ Silent
<1> DEFINE a == IF Pocca THEN alloc[x] ELSE alloc[h]
<1>1. /\ TypeOK /\ op[t].pc = "idle" /\ CanRead(t, x) /\ self' = self /\ ValuesKept
      /\ Shown' = Shown /\ a \in Alloc
  BY SameKeeps, ShowsSame DEF IInv, CopyAssign, Free, TypeOK
<1>2. CASE self[x] = Null /\ Run(t, Dropping(h, Null, NoHandle, a))
  <2>1. Abstract!Pend(t, h, After(Null)) /\ After(Null) = Null
    BY <1>1, <1>2, DropPends, ConstAssumption DEF After
  <2>2. Abstract!Clear(t, h)
    BY <1>1, <2>1 DEF Abstract!Clear
  <2> QED
    BY <2>2 DEF Abstract!Next
<1>3. CASE self[x] # Null /\ Share(t, h, x, a)
  <2>1. self[x] \in Model /\ Run(t, Dropping(h, self[x], NoHandle, a))
    BY <1>1, <1>3 DEF Share, CanRead, TypeOK
  <2>2. Abstract!Pend(t, h, After(self[x]))
    BY <1>1, <2>1, DropPends
  <2>3. After(self[x]) = Shown[x] /\ Shown[x] # Dead
    BY <1>1, Kept, ShownIs, NotDead DEF CanRead
  <2>4. Abstract!Copy(t, h, x)
    BY <1>1, <2>2, <2>3 DEF Abstract!Copy
  <2> QED
    BY <2>4 DEF Abstract!Next
<1>4. CASE Run(t, Cloning(h, x, NoHandle, a))
  <2>1. Cloning(h, x, NoHandle, a).pc = "clone"
    BY <1>1, CloningFields
  <2> QED
    BY <1>1, <1>4, <2>1, SilentStep
<1> QED
  BY <1>2, <1>3, <1>4 DEF CopyAssign

(* Allocators that propagate or are equal never make a move assignment      *)
(* move out of a model.                                                     *)
LEMMA MoveAssignRefines ==
  ASSUME EqualOrPropagating, IInv, Clean, NEW t \in Thread, NEW h \in Handle,
         NEW x \in Handle, MoveAssign(t, h, x)
  PROVE  Abstract!Next
<1> DEFINE a == IF Pocma THEN alloc[x] ELSE alloc[h]
<1>1. /\ TypeOK /\ op[t].pc = "idle" /\ self[x] # Dead /\ h # x /\ ValuesKept /\ a \in Alloc
      /\ Pocma \/ alloc[h] = alloc[x]
  BY SameKeeps DEF IInv, MoveAssign, Free, Owns, heap, TypeOK, EqualOrPropagating
<1>2. /\ self' = [self EXCEPT ![x] = Null]
      /\ Run(t, Dropping(h, self[x], NoHandle, a))
  BY <1>1 DEF MoveAssign
<1>3. Abstract!Pend(t, h, After(self[x]))
  <2>1. self[x] \in Model \cup {Null, Dead}
    BY <1>1 DEF TypeOK
  <2> QED
    BY <1>1, <1>2, <2>1, DropPends
<1>4. Shown' = [Shown EXCEPT ![x] = Null]
  <2>1. Shown' = [Shown EXCEPT ![x] = After(Null)]
    BY <1>1, <1>2, ShowsOne
  <2> QED
    BY <2>1, ConstAssumption DEF After
<1>5. After(self[x]) = Shown[x] /\ Shown[x] # Dead
  BY <1>1, Kept, ShownIs, NotDead
<1>6. Abstract!Move(t, h, x)
  BY <1>1, <1>3, <1>4, <1>5 DEF Abstract!Move
<1> QED
  BY <1>6 DEF Abstract!Next

(* The value assigned is that of the model made, or written in place later. *)
LEMMA AssignValueRefines ==
  ASSUME IInv, Clean, NEW t \in Thread, NEW h \in Handle, NEW v \in Value, NEW m \in Model,
         AssignValue(t, h, v, m)
  PROVE  Abstract!Next \/ Silent
<1> DEFINE a == IF Pocma THEN DefaultAlloc ELSE alloc[h]
<1>1. /\ TypeOK /\ op[t].pc = "idle" /\ self' = self /\ a \in Alloc
  BY ConstAssumption DEF IInv, AssignValue, Free, TypeOK
<1>2. CASE Run(t, Writing(h)) /\ value' = value
  <2>1. Writing(h).pc = "write"
    BY WritingFields
  <2> QED
    BY <1>1, <1>2, <2>1, SameKeeps, SilentStep
<1>3. CASE MakeModel(m, a, v) /\ Run(t, Dropping(h, m, NoHandle, a))
  <2>1. ValuesKept /\ value'[m] = v
    BY <1>3, MakeKeeps
  <2>2. Abstract!Pend(t, h, After(m)) /\ Shown' = Shown
    BY <1>1, <1>3, <2>1, DropPends, ShowsSame
  <2>3. After(m) = v
    BY <2>1 DEF After
  <2>4. Abstract!Fresh(t, h)
    BY <2>2, <2>3 DEF Abstract!Fresh
  <2> QED
    BY <2>4 DEF Abstract!Next
<1> QED
  BY <1>2, <1>3 DEF AssignValue, heap

LEMMA ModifyRefines ==
  ASSUME IInv, NEW t \in Thread, NEW h \in Handle, Modify(t, h)
  PROVE  Silent
<1>1. /\ TypeOK /\ op[t].pc = "idle" /\ self' = self /\ ValuesKept /\ alloc[h] \in Alloc
      /\ Run(t, IF count[self[h]] > 1 THEN Cloning(h, h, NoHandle, alloc[h]) ELSE Writing(h))
  BY SameKeeps DEF IInv, Modify, Free, TypeOK, heap
<1>2. Writing(h).pc = "write" /\ Cloning(h, h, NoHandle, alloc[h]).pc = "clone"
  BY <1>1, WritingFields, CloningFields
<1> QED
  BY <1>1, <1>2, SilentStep

LEMMA SwapRefines ==
  ASSUME IInv, Clean, NEW t \in Thread, NEW h \in Handle, NEW x \in Handle, Swap(t, h, x)
  PROVE  Abstract!Next
<1> DEFINE F == [Shown EXCEPT ![h] = Shown[x], ![x] = Shown[h]]
<1>1. /\ TypeOK /\ h # x /\ self[h] # Dead /\ self[x] # Dead /\ op' = op /\ ValuesKept
      /\ self' = [self EXCEPT ![h] = self[x], ![x] = self[h]]
  BY SameKeeps DEF IInv, Swap, Owns, heap
<1>2. \A y \in Handle : After(self'[y]) = F[y]
  BY <1>1, Kept, ShownIs DEF TypeOK
<1>3. Shown' = F
  <2>1. F = [y \in Handle |-> F[y]]
    BY ShownIs
  <2> HIDE DEF F
  <2> QED
    BY <1>2, <2>1, ShowsAs
<1>4. Shown[h] # Dead /\ Shown[x] # Dead /\ Pending' = Pending
  BY <1>1, NotDead, PendingKept
<1>5. Abstract!Swap(h, x)
  BY <1>3, <1>4 DEF Abstract!Swap
<1> QED
  BY <1>5 DEF Abstract!Next

LEMMA DestroyRefines ==
  ASSUME IInv, NEW t \in Thread, NEW h \in Handle, Destroy(t, h)
  PROVE  Abstract!Next
<1>1. /\ op[t].pc = "idle" /\ self' = self /\ ValuesKept /\ alloc[h] \in Alloc
      /\ Run(t, Dropping(h, Dead, NoHandle, alloc[h]))
  BY SameKeeps DEF IInv, Destroy, Free, TypeOK, heap
<1>2. Abstract!Pend(t, h, After(Dead)) /\ After(Dead) = Dead /\ Shown' = Shown
  BY <1>1, DropPends, ShowsSame, ConstAssumption DEF After
<1>3. Abstract!Clear(t, h)
  BY <1>2 DEF Abstract!Clear
<1> QED
  BY <1>3 DEF Abstract!Next

LEMMA ReadBeginRefines ==
  ASSUME IInv, NEW t \in Thread, NEW h \in Handle, ReadBegin(t, h)
  PROVE  Silent
<1>1. op[t].pc = "idle" /\ self' = self /\ ValuesKept /\ Run(t, Reading(h))
  BY SameKeeps DEF ReadBegin, Free, heap
<1>2. Reading(h).pc = "read"
  BY ReadingFields
<1> QED
  BY <1>1, <1>2, SilentStep

(* The end of a read, and an exception. *)
LEMMA ReturnRefines ==
  ASSUME IInv, NEW t \in Thread, op[t].pc \in {"read", "clone", "steal"}, Run(t, Idle),
         UNCHANGED <<self, heap>>
  PROVE  Silent
<1>1. self' = self /\ ValuesKept
  BY SameKeeps DEF heap
<1>2. Idle.pc = "idle" /\ op[t].pc \notin {"drop", "abandon"}
  BY IdleFields
<1> QED
  BY <1>1, <1>2, SilentStep

(* Only who may use a handle changes. *)
LEMMA OwnerRefines ==
  ASSUME IInv, UNCHANGED <<self, heap, op>>
  PROVE  Silent
<1>1. ValuesKept
  BY SameKeeps DEF heap
<1> QED
  BY <1>1, ShowsSame, PendingKept DEF Silent

(* The copy that is made shows what its source shows. *)
LEMMA CloneEndRefines ==
  ASSUME IInv, Clean, NEW t \in Thread, NEW m \in Model, CloneEnd(t, m)
  PROVE  Abstract!Next
<1> DEFINE h == op[t].dst  x == op[t].src  r == op[t].rest  a == op[t].aft
           c == IF x = h THEN Abandoning(h, m, a) ELSE Dropping(h, m, r, a)
<1>1. /\ TypeOK /\ op[t].pc = "clone" /\ self' = self /\ Run(t, c)
      /\ MakeModel(m, a, value[self[x]])
  BY DEF IInv, CloneEnd
<1>2. /\ h \in Handle /\ x \in Handle /\ r \in Handle \cup {NoHandle} /\ a \in Alloc
      /\ self[x] \in Model
  BY <1>1 DEF IInv, CallOK, TypeOK, Call
<1>3. ValuesKept /\ value'[m] = value[self[x]] /\ Shown' = Shown
  BY <1>1, MakeKeeps, ShowsSame
<1>4. Abstract!Pend(t, h, After(m))
  <2>1. c.pc \in {"drop", "abandon"} /\ c.dst = h /\ c.tmp = m
    BY <1>2 DEF Dropping, Abandoning, Idle
  <2>2. Abstract!Pend(t, c.dst, After(c.tmp))
    <3> HIDE DEF c
    <3> QED
      BY <1>1, <1>3, <2>1, PendStep
  <2> QED
    BY <2>1, <2>2
<1>5. After(m) = Shown[x] /\ Shown[x] # Dead
  BY <1>2, <1>3, ShownIs, NotDead, ConstAssumption DEF After, Content
<1>6. Abstract!Copy(t, h, x)
  BY <1>3, <1>4, <1>5 DEF Abstract!Copy
<1> QED
  BY <1>2, <1>6 DEF Abstract!Next

LEMMA CommitStep ==
  ASSUME IInv, ValuesKept, NEW t \in Thread, op[t].pc \in {"drop", "abandon"},
         op[t].dst \in Handle, self' = [self EXCEPT ![op[t].dst] = op[t].tmp],
         NEW c, Run(t, c),
         \/ c.pc \notin {"drop", "abandon"}
         \/ c.pc = "drop" /\ c.dst \in Handle /\ c.tmp = Null
  PROVE  Abstract!Next
<1>1. Shown' = [Shown EXCEPT ![op[t].dst] = After(op[t].tmp)]
  BY ShowsOne
<1>2. After(op[t].tmp) = Content(op[t].tmp) /\ After(Null) = Null
  BY Kept, ConstAssumption DEF After
<1>3. /\ Pending[t] = <<op[t].dst, Content(op[t].tmp)>>
      /\ Pending' = [Pending EXCEPT ![t] = IF c.pc \in {"drop", "abandon"}
                                             THEN <<c.dst, After(c.tmp)>> ELSE Nothing]
  BY PendsTo, Kept DEF IInv
<1>4. \E p \in {Nothing} \cup (Handle \X {Null}) : Pending' = [Pending EXCEPT ![t] = p]
  BY <1>2, <1>3
<1>5. Pending[t] # Nothing /\ Pending[t][1] = op[t].dst /\ Pending[t][2] = After(op[t].tmp)
  BY <1>2, <1>3 DEF Nothing
<1>6. Abstract!Commit(t)
  BY <1>1, <1>4, <1>5 DEF Abstract!Commit
<1> QED
  BY <1>6 DEF Abstract!Next

LEMMA AbandonRefines ==
  ASSUME IInv, NEW t \in Thread, Abandon(t)
  PROVE  Abstract!Next
<1>1. /\ op[t].pc = "abandon" /\ ValuesKept /\ Run(t, Writing(op[t].dst))
      /\ self' = [self EXCEPT ![op[t].dst] = op[t].tmp]
  BY SameKeeps DEF Abandon
<1>2. op[t].dst \in Handle
  BY <1>1 DEF IInv, CallOK, TypeOK, Call
<1>3. Writing(op[t].dst).pc = "write"
  BY <1>2, WritingFields
<1> QED
  BY <1>1, <1>2, <1>3, CommitStep

LEMMA DropRefines ==
  ASSUME IInv, NEW t \in Thread, Drop(t)
  PROVE  Abstract!Next
<1> DEFINE h == op[t].dst  r == op[t].rest
           last == self[h] \in Model /\ LastOwner(count[self[h]])
           c == IF last THEN Freeing(self[h], r, alloc[h]) ELSE Continue(r)
<1>1. /\ TypeOK /\ op[t].pc = "drop" /\ ValuesKept /\ Run(t, c)
      /\ self' = [self EXCEPT ![h] = op[t].tmp]
  BY SameKeeps DEF Drop, IInv
<1>2. h \in Handle /\ r \in Handle \cup {NoHandle}
  BY <1>1 DEF IInv, CallOK, TypeOK, Call
<1>3. \/ c.pc \notin {"drop", "abandon"}
      \/ c.pc = "drop" /\ c.dst \in Handle /\ c.tmp = Null
  BY <1>2 DEF Freeing, Continue, Dropping, Idle
<1> HIDE DEF c
<1> QED
  BY <1>1, <1>2, <1>3, CommitStep

(* Only the sole owner writes: no other handle shows the new value.         *)
LEMMA WriteEndRefines ==
  ASSUME IInv, Clean, NEW t \in Thread, NEW v \in Value, WriteEnd(t, v)
  PROVE  Abstract!Next
<1> DEFINE h == op[t].dst  m == self[h]  F == [Shown EXCEPT ![h] = v]
<1>1. /\ TypeOK /\ CountIsReferences /\ op[t].pc = "write" /\ self' = self /\ Run(t, Idle)
      /\ value' = [value EXCEPT ![m] = v]
  BY DEF IInv, WriteEnd
<1>2. h \in Handle /\ m \in Model /\ count[m] = 1
  BY <1>1 DEF IInv, CallOK, TypeOK, Call
<1>3. /\ \A y \in Handle : self[y] = m => y = h
      /\ \A u \in Thread : op[u].tmp # m
  BY <1>1, <1>2, CountFacts
<1>4. \A n \in Model : value'[n] = IF n = m THEN v ELSE value[n]
  BY <1>1 DEF TypeOK
<1>5. Shown' = F
  <2>1. \A y \in Handle : After(self'[y]) = F[y]
    BY <1>1, <1>2, <1>3, <1>4, ShownIs DEF After, Content
  <2>2. F = [y \in Handle |-> F[y]]
    BY ShownIs
  <2> HIDE DEF F
  <2> QED
    BY <2>1, <2>2, ShowsAs
<1>6. Pending' = Pending
  <2>1. \A u \in Thread : After(op[u].tmp) = Content(op[u].tmp)
    BY <1>3, <1>4 DEF After, Content
  <2>2. Pending' = [Pending EXCEPT ![t] = Nothing] /\ Pending[t] = Nothing
    BY <1>1, <2>1, IdleFields, PendsTo
  <2>3. Pending = [u \in Thread |-> Pending[u]]
    BY DEF Pending
  <2> QED
    BY <2>2, <2>3
<1>7. Shown[h] \in Value
  BY <1>2, NotDead, ConstAssumption
<1>8. Abstract!Write(h)
  BY <1>5, <1>6, <1>7 DEF Abstract!Write
<1> QED
  BY <1>2, <1>8 DEF Abstract!Next

LEMMA FreeEndRefines ==
  ASSUME IInv, NEW t \in Thread, FreeEnd(t)
  PROVE  Abstract!Next \/ Silent
<1> DEFINE m == op[t].victim  r == op[t].rest
<1>1. /\ TypeOK /\ op[t].pc = "free" /\ self' = self /\ Run(t, Continue(r))
      /\ value' = [value EXCEPT ![m] = Junk]
  BY DEF IInv, FreeEnd
<1>2. r \in Handle \cup {NoHandle} /\ m \in Model /\ count[m] = 0
  BY <1>1 DEF IInv, HeapOK, CallOK, TypeOK, Call
<1>3. ValuesKept
  BY <1>1, <1>2 DEF ValuesKept, TypeOK
<1>4. CASE r = NoHandle
  <2>1. Continue(r).pc = "idle"
    BY <1>4, IdleFields DEF Continue
  <2> QED
    BY <1>1, <1>3, <2>1, SilentStep
<1>5. CASE r # NoHandle
  <2>1. r \in Handle /\ alloc[r] \in Alloc /\ Run(t, Dropping(r, Null, NoHandle, alloc[r]))
    BY <1>1, <1>2, <1>5 DEF Continue, TypeOK
  <2>2. Abstract!Pend(t, r, After(Null)) /\ After(Null) = Null /\ Shown' = Shown
    BY <1>1, <1>3, <2>1, DropPends, ShowsSame, ConstAssumption DEF After
  <2>3. Abstract!Clear(t, r)
    BY <2>2 DEF Abstract!Clear
  <2> QED
    BY <2>1, <2>3 DEF Abstract!Next
<1> QED
  BY <1>4, <1>5

LEMMA InitRefines == Init => Abstract!Init
<1> SUFFICES ASSUME Init PROVE Abstract!Init
  OBVIOUS
<1>1. \A y \in Handle : Content(self[y]) = Dead
  BY ConstAssumption DEF Init, Content
<1>2. \A u \in Thread : Sets(op[u]) = Nothing
  BY IdleFields DEF Init, Sets
<1> QED
  BY <1>1, <1>2 DEF Abstract!Init, Shown, Pending

LEMMA NextRefines ==
  ASSUME EqualOrPropagating, IInv, Clean, [Next]_vars
  PROVE  [Abstract!Next]_<<Shown, Pending>>
<1> SUFFICES Abstract!Next \/ Silent
  BY DEF Silent
<1>1. CASE UNCHANGED vars
  BY <1>1, OwnerRefines DEF vars, heap
<1>2. ASSUME NEW t \in Thread, Begin(t) PROVE Abstract!Next \/ Silent
  <2>1. PICK h \in Handle :
          \/ \E a \in Alloc, v \in Value, m \in Model : Construct(t, h, a, v, m)
          \/ \E x \in Handle, a \in Alloc : CopyConstruct(t, h, x, a)
          \/ \E x \in Handle, a \in Alloc : MoveConstruct(t, h, x, a)
          \/ \E x \in Handle : CopyAssign(t, h, x)
          \/ \E x \in Handle : MoveAssign(t, h, x)
          \/ \E v \in Value, m \in Model : AssignValue(t, h, v, m)
          \/ Modify(t, h)
          \/ \E x \in Handle : Swap(t, h, x)
          \/ Destroy(t, h)
          \/ ReadBegin(t, h)
          \/ Publish(t, h) \/ Reclaim(t, h)
    BY <1>2 DEF Begin
  <2>2. Publish(t, h) \/ Reclaim(t, h) => Silent
    BY OwnerRefines DEF Publish, Reclaim
  <2> QED
    BY <2>1, <2>2, ConstructRefines, CopyConstructRefines, MoveConstructRefines,
       CopyAssignRefines, MoveAssignRefines, AssignValueRefines, ModifyRefines, SwapRefines,
       DestroyRefines, ReadBeginRefines, Zenon
<1>3. ASSUME NEW t \in Thread, Proceed(t) PROVE Abstract!Next \/ Silent
  <2>1. ReadEnd(t) \/ Throw(t) => Silent
    BY ReturnRefines DEF ReadEnd, Throw
  <2>2. ASSUME NEW m \in Model PROVE ~StealEnd(t, m)
    BY DEF Clean, StealEnd
  <2> QED
    BY <1>3, <2>1, <2>2, CloneEndRefines, AbandonRefines, WriteEndRefines, DropRefines,
       FreeEndRefines, Zenon DEF Proceed
<1> QED
  BY <1>1, <1>2, <1>3 DEF Next

(* Copies are independent: with equal or propagating allocators no client   *)
(* can tell a handle that shares its model from a value of its own.         *)
THEOREM SharingUnobservable == EqualOrPropagating => (Spec => ValueSemantics)
<1>1. ASSUME EqualOrPropagating PROVE Spec => ValueSemantics
  <2>1. Init => Clean
    BY IdleFields DEF Init, Clean
  <2>2. IInv /\ Clean /\ [Next]_vars => Clean'
    BY <1>1, CleanStep
  <2>3. IInv /\ Clean /\ [Next]_vars => [Abstract!Next]_<<Shown, Pending>>
    BY <1>1, NextRefines
  <2> QED
    BY <2>1, <2>2, <2>3, InitRefines, Invariance, PTL
    DEF Spec, ValueSemantics, Abstract!Spec
<1> QED
  BY <1>1

=============================================================================
