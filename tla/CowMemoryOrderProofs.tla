------------------------ MODULE CowMemoryOrderProofs ------------------------
(***************************************************************************)
(* Theorems about the memory orders of copy_on_write: for every number of  *)
(* threads, of handles, and of values the count takes.                     *)
(***************************************************************************)
EXTENDS CowMemoryOrder, FiniteSets, FiniteSetTheorems, SequenceTheorems, TLAPS

-----------------------------------------------------------------------------
(* The inductive invariant: the three parts of Inv.  It is more than the    *)
(* properties because what a writer knows it has learnt from messages and   *)
(* from other handles: NothingForgotten says where every access is known    *)
(* until then, StaleOneSeen why the message that says 1 is the last.        *)

Writes == Thread \X {"write"}
Live == {h \in Handle : at[h] # Dead}
Critical == {"write", "fence", "free"}

(* An access that whoever holds handle h next will know: it is known to its *)
(* owner, to a reader of it, or was passed on or given back with it.        *)
HandleKnows(h, e) ==
  \/ \E t \in Thread : CanRead(t, h) /\ e \in clock[t].knows
  \/ at[h] = Passed /\ (e \in out[h].knows \/ e \in back[h].knows)

(* The same of having seen a message later than i. *)
HandleSaw(h, i) ==
  \/ \E t \in Thread : CanRead(t, h) /\ clock[t].seen > i
  \/ at[h] = Passed /\ (out[h].seen > i \/ back[h].seen > i)

Seen ==
  /\ \A t \in Thread : clock[t].seen \in 1 .. Len(count)
  /\ \A h \in Handle : out[h].seen <= Len(count) /\ back[h].seen <= Len(count)

(* A call between two steps still owns its handle, and only a handle that   *)
(* was lent has readers.                                                    *)
Owned ==
  /\ \A t \in Thread : pc[t] \in {"clone", "abandon", "release", "write"} =>
       arg[t] \in Handle /\ at[arg[t]] = t
  /\ \A h \in Handle : reader[h] # {} => at[h] = Passed

(* The count counts the handles, and a count of 0 is the last. *)
Counted ==
  /\ IsFiniteSet(Live) /\ Last(count).val = Cardinality(Live)
  /\ \A i \in 1 .. Len(count) - 1 : count[i].val # 0

(* Every handle comes after the end of every time in which the count was 1. *)
StaleOneSeen ==
  \A h \in Live : \A i \in 1 .. Len(count) - 1 :
    count[i].val = 1 => HandleSaw(h, i)

(* No access is forgotten: an acquire of the count and of all handles would *)
(* be told of it.                                                           *)
Remembered(e) == e \in Last(count).rel \/ \E h \in Live : HandleKnows(h, e)
NothingForgotten == Live # {} => \A e \in Access : Remembered(e)

(* What a call has acquired by the time it writes or destroys.              *)
Acquired ==
  \A t \in Thread :
    /\ pc[t] \in {"write", "free"} => clock[t].knows = Access
    /\ pc[t] = "fence" =>
         /\ clock[t].seen = Len(count) /\ Len(count) > 1
         /\ Access \subseteq clock[t].knows \cup count[Len(count) - 1].rel

(* ReadersKnowWrites, and what makes it so for whoever takes the handle.    *)
WritesKnown ==
  /\ ReadersKnowWrites
  /\ \A h \in Handle : at[h] = Passed => Writes \subseteq out[h].knows

(* The types of what an access changes, and of what only control changes.   *)
MemoryType ==
  /\ at \in [Handle -> Thread \cup {Dead, Passed}]
  /\ reader \in [Handle -> SUBSET Thread]
  /\ out \in [Handle -> Clock] /\ back \in [Handle -> Clock]
  /\ count \in Seq(Message) /\ Len(count) \in 1 .. MaxMessages
  /\ clock \in [Thread -> Clock]
ControlType == pc \in [Thread -> Pc] /\ arg \in [Thread -> Handle \cup {NoHandle}]

MemoryInv == Seen /\ Counted /\ StaleOneSeen /\ NothingForgotten /\ WritesKnown
ControlInv == Owned /\ SoleAccess /\ Acquired
Inv == TypeOK /\ MemoryInv /\ ControlInv

-----------------------------------------------------------------------------
(* Memory *)

(* What an access does to the clocks. *)
LEMMA HappensFacts ==
  ASSUME TypeOK, NEW t \in Thread, NEW e \in Access, NEW learns \in SUBSET Access,
         NEW n \in 0 .. MaxMessages, Happens(t, e, learns, n)
  PROVE  /\ clock' \in [Thread -> Clock]
         /\ out' \in [Handle -> Clock] /\ back' \in [Handle -> Clock]
         /\ clock'[t].knows = clock[t].knows \cup learns \cup {e}
         /\ clock'[t].seen = n
         /\ \A u \in Thread \ {t} : /\ clock'[u].knows = clock[u].knows \ {e}
                                    /\ clock'[u].seen = clock[u].seen
         /\ \A h \in Handle : /\ out'[h].knows = out[h].knows \ {e}
                              /\ out'[h].seen = out[h].seen
                              /\ back'[h].knows = back[h].knows \ {e}
                              /\ back'[h].seen = back[h].seen
<1>1. ASSUME NEW c \in Clock
      PROVE  /\ Unlearn(c, e) \in Clock
             /\ Unlearn(c, e).knows = c.knows \ {e}
             /\ Unlearn(c, e).seen = c.seen
  BY DEF Clock, Unlearn
<1>2. /\ \A u \in Thread : clock[u] \in Clock
      /\ \A h \in Handle : out[h] \in Clock /\ back[h] \in Clock
  BY DEF TypeOK
<1> DEFINE c == [knows |-> clock[t].knows \cup learns \cup {e}, seen |-> n]
<1>3. c \in Clock
  BY <1>2 DEF Clock
<1> QED
  BY <1>1, <1>2, <1>3 DEF Happens

(* What it does to the messages. *)
LEMMA WithoutFacts ==
  ASSUME NEW s \in Seq(Message), NEW e
  PROVE  /\ Without(s, e) \in Seq(Message)
         /\ Len(Without(s, e)) = Len(s)
         /\ \A i \in 1 .. Len(s) : /\ Without(s, e)[i] \in Message
                                   /\ Without(s, e)[i].val = s[i].val
                                   /\ Without(s, e)[i].rel = s[i].rel \ {e}
<1>1. Len(s) \in Nat /\ DOMAIN s = 1 .. Len(s) /\ \A i \in 1 .. Len(s) : s[i] \in Message
  BY LenProperties, ElementOfSeq
<1>2. ASSUME NEW m \in Message
      PROVE  /\ [m EXCEPT !.rel = @ \ {e}] \in Message
             /\ [m EXCEPT !.rel = @ \ {e}].val = m.val
             /\ [m EXCEPT !.rel = @ \ {e}].rel = m.rel \ {e}
  BY DEF Message
<1>3. Without(s, e) = [i \in 1 .. Len(s) |-> [s[i] EXCEPT !.rel = @ \ {e}]]
  BY <1>1 DEF Without
<1> DEFINE m(i) == [s[i] EXCEPT !.rel = @ \ {e}]
<1>4. \A i \in 1 .. Len(s) : m(i) \in Message /\ m(i).val = s[i].val /\ m(i).rel = s[i].rel \ {e}
  BY <1>1, <1>2
<1> HIDE DEF m
<1>5. [i \in 1 .. Len(s) |-> m(i)] \in Seq(Message)
  BY <1>1, <1>4, IsASeq
<1>6. Without(s, e) = [i \in 1 .. Len(s) |-> m(i)]
  BY <1>3 DEF m
<1>7. Len(Without(s, e)) = Len(s)
  BY <1>1, <1>5, <1>6, LenProperties
<1> QED
  BY <1>4, <1>5, <1>6, <1>7

LEMMA CountFacts ==
  ASSUME TypeOK
  PROVE  /\ Len(count) \in Nat /\ Len(count) >= 1 /\ Len(count) <= MaxMessages
         /\ \A i \in 1 .. Len(count) : /\ count[i] \in Message
                                       /\ count[i].val \in Nat
                                       /\ count[i].rel \subseteq Access
         /\ Last(count) = count[Len(count)]
<1>1. count \in Seq(Message) /\ Len(count) \in 1 .. MaxMessages /\ MaxMessages \in Int
  BY OrderAssumption DEF TypeOK
<1>2. \A i \in 1 .. Len(count) : count[i] \in Message
  BY <1>1, ElementOfSeq
<1>3. \A m \in Message : m.val \in Nat /\ m.rel \subseteq Access
  BY DEF Message
<1> QED
  BY <1>1, <1>2, <1>3 DEF Last

LEMMA ClockFacts ==
  ASSUME TypeOK
  PROVE  /\ \A t \in Thread : clock[t].seen \in Nat
         /\ \A h \in Handle : out[h].seen \in Nat /\ back[h].seen \in Nat
<1>1. \A c \in Clock : c.seen \in Nat
  BY OrderAssumption DEF Clock
<1> QED
  BY <1>1 DEF TypeOK

(* What a read-modify-write does to both. *)
LEMMA ReadModifyWriteFacts ==
  ASSUME TypeOK, NEW t \in Thread, NEW d \in Int, NEW published \in SUBSET Access,
         Last(count).val + d \in Nat, ReadModifyWrite(t, d, published)
  PROVE  /\ count' \in Seq(Message)
         /\ Len(count') = Len(count) + 1 /\ Len(count') <= MaxMessages
         /\ \A i \in 1 .. Len(count) : /\ count'[i].val = count[i].val
                                       /\ count'[i].rel = count[i].rel \ {<<t, "use">>}
         /\ Last(count') = count'[Len(count')]
         /\ Last(count').val = Last(count).val + d
         /\ Last(count').rel = (Last(count).rel \ {<<t, "use">>}) \cup published
         /\ Happens(t, <<t, "use">>, {}, Len(count'))
<1> DEFINE e == <<t, "use">>
           w == Without(count, e)
           m == [val |-> Last(count).val + d, rel |-> (Last(count).rel \ {e}) \cup published]
<1>1. /\ w \in Seq(Message) /\ Len(w) = Len(count)
      /\ \A i \in 1 .. Len(count) : w[i].val = count[i].val /\ w[i].rel = count[i].rel \ {e}
  <2>1. count \in Seq(Message)
    BY DEF TypeOK
  <2> HIDE DEF e
  <2> QED
    BY <2>1, WithoutFacts
<1>2. Len(count) \in Nat /\ Len(count) >= 1 /\ Last(count) \in Message
  BY CountFacts
<1>3. m \in Message
  BY <1>2 DEF Message
<1> HIDE DEF w, m
<1>4. count' = Append(w, m) /\ Len(count) < MaxMessages /\ Happens(t, e, {}, Len(count) + 1)
  BY DEF ReadModifyWrite, w, m
<1>5. /\ count' \in Seq(Message) /\ Len(count') = Len(count) + 1
      /\ \A i \in 1 .. Len(count) : count'[i] = w[i]
      /\ count'[Len(count) + 1] = m
  BY <1>1, <1>2, <1>3, <1>4
<1>6. Last(count') = m
  BY <1>5 DEF Last
<1>7. m.val = Last(count).val + d /\ m.rel = (Last(count).rel \ {e}) \cup published
  BY DEF m
<1> QED
  BY <1>1, <1>2, <1>4, <1>5, <1>6, <1>7, OrderAssumption

-----------------------------------------------------------------------------
(* Handles *)

LEMMA ReadableIsLive ==
  ASSUME NEW t \in Thread, NEW h \in Handle, CanRead(t, h)
  PROVE  h \in Live
  BY OrderAssumption DEF CanRead, Live

LEMMA OthersCannotRead ==
  ASSUME NEW t \in Thread, NEW h \in Handle, at[h] = t, NEW u \in Thread, CanRead(u, h)
  PROVE  u = t
  BY OrderAssumption DEF CanRead

(* While a thread may read a handle, no other is about to write or destroy. *)
LEMMA NobodyElseCritical ==
  ASSUME ControlInv, NEW t \in Thread, NEW h \in Handle, CanRead(t, h)
  PROVE  /\ \A u \in Thread \ {t} : pc[u] \notin Critical
         /\ Idle(t) => \A u \in Thread : pc[u] \notin Critical
<1>1. ASSUME NEW u \in Thread, pc[u] \in Critical, u # t
      PROVE  FALSE
  <2>1. Idle(t) /\ h \in Live
    BY <1>1, ReadableIsLive DEF ControlInv, SoleAccess, Critical
  <2>2. pc[u] = "write" /\ h = arg[u]
    BY <1>1, <2>1 DEF ControlInv, SoleAccess, Critical, Live
  <2>3. at[h] = u
    BY <2>2 DEF ControlInv, Owned
  <2> QED
    BY <1>1, <2>3, OthersCannotRead
<1> QED
  BY <1>1 DEF Idle, Critical

-----------------------------------------------------------------------------
(* Accesses that leave the handles as they are *)

LEMMA AccessKeepsMemory ==
  ASSUME TypeOK, MemoryInv, NEW t \in Thread, NEW kind \in {"use", "write"},
         NEW learns \in SUBSET Access, NEW n \in clock[t].seen .. Len(count),
         Happens(t, <<t, kind>>, learns, n), count' = Without(count, <<t, kind>>),
         UNCHANGED handles,
         Live = {} \/ \E h \in Handle : CanRead(t, h),
         kind = "write" => \A h \in Handle : at[h] \in {Dead, t}
  PROVE  /\ clock' \in [Thread -> Clock] /\ clock'[t].seen = n
         /\ clock'[t].knows = clock[t].knows \cup learns \cup {<<t, kind>>}
         /\ out' \in [Handle -> Clock] /\ back' \in [Handle -> Clock]
         /\ count' \in Seq(Message) /\ Len(count') = Len(count)
         /\ MemoryType' /\ MemoryInv'
<1> DEFINE e == <<t, kind>>
<1>1. e \in Access
  BY DEF Access
<1> HIDE DEF e
<1>2. /\ Len(count) \in Nat /\ Len(count) >= 1 /\ Len(count) <= MaxMessages
      /\ Last(count) = count[Len(count)] /\ MaxMessages \in Nat
  BY CountFacts, OrderAssumption
<1>3. clock[t].seen \in 1 .. Len(count) /\ n \in 0 .. MaxMessages
  BY <1>2 DEF MemoryInv, Seen
<1>4. Happens(t, e, learns, n) /\ count' = Without(count, e)
  BY DEF e
<1>5. /\ clock' \in [Thread -> Clock]
      /\ out' \in [Handle -> Clock] /\ back' \in [Handle -> Clock]
      /\ clock'[t].knows = clock[t].knows \cup learns \cup {e}
      /\ clock'[t].seen = n
      /\ \A u \in Thread \ {t} : /\ clock'[u].knows = clock[u].knows \ {e}
                                 /\ clock'[u].seen = clock[u].seen
      /\ \A h \in Handle : /\ out'[h].knows = out[h].knows \ {e}
                           /\ out'[h].seen = out[h].seen
                           /\ back'[h].knows = back[h].knows \ {e}
                           /\ back'[h].seen = back[h].seen
  BY <1>1, <1>3, <1>4, HappensFacts
<1>6. count \in Seq(Message)
  BY DEF TypeOK
<1>7. /\ count' \in Seq(Message) /\ Len(count') = Len(count)
      /\ \A i \in 1 .. Len(count) : /\ count'[i].val = count[i].val
                                    /\ count'[i].rel = count[i].rel \ {e}
  <2> DEFINE w == Without(count, e)
  <2>1. /\ w \in Seq(Message) /\ Len(w) = Len(count)
        /\ \A i \in 1 .. Len(count) : w[i].val = count[i].val /\ w[i].rel = count[i].rel \ {e}
    BY <1>6, WithoutFacts
  <2>2. count' = w
    BY <1>4
  <2> HIDE DEF w
  <2> QED
    BY <2>1, <2>2
<1>8. Last(count') = count'[Len(count)]
  BY <1>7 DEF Last
<1>9. /\ Live' = Live /\ at' = at /\ reader' = reader
      /\ \A u \in Thread, h \in Handle : CanRead(u, h)' <=> CanRead(u, h)
  BY DEF Live, handles, CanRead
<1>10. Seen'
  <2>1. \A u \in Thread : clock'[u].seen \in 1 .. Len(count)
    BY <1>2, <1>3, <1>5 DEF MemoryInv, Seen
  <2>2. \A h \in Handle : out'[h].seen <= Len(count) /\ back'[h].seen <= Len(count)
    BY <1>5 DEF MemoryInv, Seen
  <2> QED
    BY <2>1, <2>2, <1>7 DEF Seen
<1>11. Counted'
  <2>1. ASSUME NEW i \in 1 .. Len(count) - 1
        PROVE  count'[i].val # 0
    <3>1. i \in 1 .. Len(count)
      BY <1>2
    <3> QED
      BY <3>1, <1>7 DEF MemoryInv, Counted
  <2>2. IsFiniteSet(Live) /\ Last(count').val = Cardinality(Live)
    <3>1. count'[Len(count)].val = count[Len(count)].val
      BY <1>2, <1>7
    <3> QED
      BY <3>1, <1>2, <1>8 DEF MemoryInv, Counted
  <2> QED
    BY <2>1, <2>2, <1>7, <1>9 DEF Counted
<1>12. StaleOneSeen'
  <2> SUFFICES ASSUME NEW h \in Live, NEW i \in 1 .. Len(count) - 1, count[i].val = 1
               PROVE  HandleSaw(h, i)'
    <3>1. ASSUME NEW i \in 1 .. Len(count) - 1
          PROVE  count'[i].val = count[i].val
      <4>1. i \in 1 .. Len(count)
        BY <1>2
      <4> QED
        BY <4>1, <1>7
    <3> QED
      BY <3>1, <1>7, <1>9 DEF StaleOneSeen
  <2>1. HandleSaw(h, i) /\ h \in Handle
    BY DEF MemoryInv, StaleOneSeen, Live
  <2>2. \A u \in Thread : clock[u].seen > i => clock'[u].seen > i
    BY <1>2, <1>3, <1>5
  <2> QED
    BY <2>1, <2>2, <1>5, <1>9 DEF HandleSaw
<1>13. NothingForgotten'
  <2> SUFFICES ASSUME Live # {}, NEW f \in Access
               PROVE  Remembered(f)'
    BY <1>9 DEF NothingForgotten
  <2>1. CASE f = e
    <3>1. PICK h \in Handle : CanRead(t, h)
      OBVIOUS
    <3>2. h \in Live
      BY <3>1, ReadableIsLive
    <3> QED
      BY <2>1, <3>1, <3>2, <1>5, <1>9 DEF Remembered, HandleKnows
  <2>2. CASE f # e
    <3>1. Remembered(f)
      BY DEF MemoryInv, NothingForgotten
    <3>2. \A u \in Thread : f \in clock[u].knows => f \in clock'[u].knows
      BY <2>2, <1>5
    <3>3. \A h \in Handle : HandleKnows(h, f) => HandleKnows(h, f)'
      BY <2>2, <3>2, <1>5, <1>9 DEF HandleKnows
    <3>4. f \in Last(count).rel => f \in Last(count').rel
      BY <2>2, <1>2, <1>7, <1>8, SMTT(30)
    <3> QED
      BY <3>1, <3>3, <3>4, <1>9 DEF Remembered, Live
  <2> QED
    BY <2>1, <2>2
<1>14. WritesKnown'
  <2>1. ASSUME NEW u \in Thread, NEW h \in Handle, CanRead(u, h), NEW f \in Writes
        PROVE  f \in clock'[u].knows
    <3>1. f \in clock[u].knows
      BY <2>1 DEF MemoryInv, WritesKnown, ReadersKnowWrites, Writes
    <3>2. CASE u = t
      BY <3>1, <3>2, <1>5
    <3>3. CASE u # t
      <4>1. kind # "write"
        BY <3>3, <2>1, OrderAssumption DEF CanRead
      <4>2. f # e
        BY <4>1 DEF Writes, e
      <4> QED
        BY <3>1, <3>3, <4>2, <1>5
    <3> QED
      BY <3>2, <3>3
  <2>2. ASSUME NEW h \in Handle, at[h] = Passed, NEW f \in Writes
        PROVE  f \in out'[h].knows
    <3>1. f \in out[h].knows
      BY <2>2 DEF MemoryInv, WritesKnown
    <3>2. kind # "write"
      BY <2>2, OrderAssumption
    <3>3. f # e
      BY <3>2 DEF Writes, e
    <3> QED
      BY <3>1, <3>3, <1>5
  <2> QED
    BY <2>1, <2>2, <1>9 DEF WritesKnown, ReadersKnowWrites, Writes
<1>15. MemoryType'
  BY <1>5, <1>7 DEF TypeOK, MemoryType, handles
<1> QED
  BY <1>5, <1>7, <1>10, <1>11, <1>12, <1>13, <1>14, <1>15 DEF MemoryInv, e

-----------------------------------------------------------------------------
(* Read-modify-writes: a handle is made or given up *)

LEMMA ReadModifyWriteClocks ==
  ASSUME TypeOK, NEW t \in Thread, NEW d \in Int, NEW published \in SUBSET Access,
         Last(count).val + d \in Nat, ReadModifyWrite(t, d, published)
  PROVE  /\ clock' \in [Thread -> Clock]
         /\ out' \in [Handle -> Clock] /\ back' \in [Handle -> Clock]
         /\ clock'[t].knows = clock[t].knows \cup {<<t, "use">>}
         /\ clock'[t].seen = Len(count) + 1
         /\ \A u \in Thread \ {t} : /\ clock'[u].knows = clock[u].knows \ {<<t, "use">>}
                                    /\ clock'[u].seen = clock[u].seen
         /\ \A h \in Handle : /\ out'[h].knows = out[h].knows \ {<<t, "use">>}
                              /\ out'[h].seen = out[h].seen
                              /\ back'[h].knows = back[h].knows \ {<<t, "use">>}
                              /\ back'[h].seen = back[h].seen
<1> DEFINE e == <<t, "use">>
<1>1. e \in Access /\ {} \in SUBSET Access
  BY DEF Access
<1>2. /\ Len(count') = Len(count) + 1 /\ Len(count') <= MaxMessages
      /\ Happens(t, e, {}, Len(count'))
  BY ReadModifyWriteFacts
<1>3. Len(count) \in Nat /\ Len(count') \in 0 .. MaxMessages
  BY <1>2, CountFacts, OrderAssumption
<1> HIDE DEF e
<1>4. /\ clock' \in [Thread -> Clock]
      /\ out' \in [Handle -> Clock] /\ back' \in [Handle -> Clock]
      /\ clock'[t].knows = clock[t].knows \cup {} \cup {e}
      /\ clock'[t].seen = Len(count')
      /\ \A u \in Thread \ {t} : /\ clock'[u].knows = clock[u].knows \ {e}
                                 /\ clock'[u].seen = clock[u].seen
      /\ \A h \in Handle : /\ out'[h].knows = out[h].knows \ {e}
                           /\ out'[h].seen = out[h].seen
                           /\ back'[h].knows = back[h].knows \ {e}
                           /\ back'[h].seen = back[h].seen
  BY <1>1, <1>2, <1>3, HappensFacts
<1> QED
  BY <1>2, <1>4 DEF e

(* A step that no handle but h can lose anything by keeps what is known     *)
(* about the others.                                                        *)
LEMMA UseKeepsKnowledge ==
  ASSUME NEW t \in Thread, NEW e, NEW x \in Handle, NEW f, f # e,
         at'[x] = at[x], \A u \in Thread : CanRead(u, x) => CanRead(u, x)',
         \A u \in Thread : clock[u].knows \ {e} \subseteq clock'[u].knows,
         out'[x].knows = out[x].knows \ {e}, back'[x].knows = back[x].knows \ {e},
         HandleKnows(x, f)
  PROVE  HandleKnows(x, f)'
  BY DEF HandleKnows

LEMMA CopyKeepsMemory ==
  ASSUME TypeOK, MemoryInv, NEW t \in Thread, NEW h \in Handle, NEW new \in Handle,
         CanRead(t, h), at[new] = Dead, FetchAdd(t),
         at' = [at EXCEPT ![new] = t], reader' = reader
  PROVE  MemoryType' /\ MemoryInv'
<1> DEFINE e == <<t, "use">>
           n == Len(count)
<1>1. /\ n \in Nat /\ n >= 1 /\ Last(count) = count[n] /\ Last(count).val \in Nat
      /\ MaxMessages \in Nat
  BY CountFacts, OrderAssumption
<1>2. ReadModifyWrite(t, 1, {}) /\ Last(count).val + 1 \in Nat
  BY <1>1 DEF FetchAdd
<1>3. /\ count' \in Seq(Message) /\ Len(count') = n + 1 /\ Len(count') <= MaxMessages
      /\ \A i \in 1 .. n : count'[i].val = count[i].val
      /\ Last(count').val = Last(count).val + 1
      /\ Last(count').rel = Last(count).rel \ {e}
  <2>1. 1 \in Int /\ {} \in SUBSET Access
    OBVIOUS
  <2>2. /\ count' \in Seq(Message) /\ Len(count') = n + 1 /\ Len(count') <= MaxMessages
        /\ \A i \in 1 .. n : count'[i].val = count[i].val
        /\ Last(count').val = Last(count).val + 1
        /\ Last(count').rel = (Last(count).rel \ {e}) \cup {}
    BY <2>1, <1>2, ReadModifyWriteFacts
  <2> QED
    BY <2>2
<1>4. /\ clock' \in [Thread -> Clock]
      /\ out' \in [Handle -> Clock] /\ back' \in [Handle -> Clock]
      /\ clock'[t].knows = clock[t].knows \cup {e}
      /\ clock'[t].seen = n + 1
      /\ \A u \in Thread \ {t} : /\ clock'[u].knows = clock[u].knows \ {e}
                                 /\ clock'[u].seen = clock[u].seen
      /\ \A x \in Handle : /\ out'[x].knows = out[x].knows \ {e}
                           /\ out'[x].seen = out[x].seen
                           /\ back'[x].knows = back[x].knows \ {e}
                           /\ back'[x].seen = back[x].seen
  BY <1>2, ReadModifyWriteClocks
<1>5. /\ h # new /\ at'[new] = t
      /\ \A x \in Handle \ {new} : at'[x] = at[x]
      /\ at' \in [Handle -> Thread \cup {Dead, Passed}]
  BY OrderAssumption DEF CanRead, TypeOK
<1>6. Live' = Live \cup {new} /\ new \notin Live /\ h \in Live
  BY <1>5, ReadableIsLive, OrderAssumption DEF Live
<1>7. /\ \A u \in Thread, x \in Handle \ {new} : CanRead(u, x)' <=> CanRead(u, x)
      /\ \A u \in Thread : CanRead(u, new)' <=> u = t
  BY <1>5, OrderAssumption DEF CanRead
<1>8. MemoryType'
  BY <1>1, <1>3, <1>4, <1>5 DEF TypeOK, MemoryType
<1> HIDE DEF e
<1>9. Seen'
  <2>1. \A u \in Thread : clock'[u].seen \in 1 .. n + 1
    BY <1>1, <1>4 DEF MemoryInv, Seen
  <2>2. \A x \in Handle : out'[x].seen <= n + 1 /\ back'[x].seen <= n + 1
    BY <1>1, <1>4, ClockFacts DEF MemoryInv, Seen
  <2> QED
    BY <2>1, <2>2, <1>3 DEF Seen
<1>10. Counted'
  <2>1. IsFiniteSet(Live) /\ Last(count).val = Cardinality(Live)
    BY DEF MemoryInv, Counted
  <2>2. IsFiniteSet(Live \cup {new}) /\ Cardinality(Live \cup {new}) = Cardinality(Live) + 1
    BY <2>1, <1>6, FS_AddElement
  <2>3. Last(count).val # 0
    BY <2>1, <1>6, FS_EmptySet
  <2>4. \A i \in 1 .. n : count'[i].val # 0
    BY <2>3, <1>1, <1>3 DEF MemoryInv, Counted
  <2> QED
    BY <2>1, <2>2, <2>4, <1>1, <1>3, <1>6 DEF Counted
<1>11. StaleOneSeen'
  <2> SUFFICES ASSUME NEW x \in Live', NEW i \in 1 .. n, count'[i].val = 1
               PROVE  HandleSaw(x, i)'
    BY <1>1, <1>3 DEF StaleOneSeen
  <2>1. count[i].val = 1 /\ x \in Handle
    BY <1>3 DEF Live
  <2>2. CASE x = new
    BY <2>2, <1>1, <1>4, <1>7 DEF HandleSaw
  <2>3. CASE x # new /\ i = n
    <3>1. Cardinality(Live) = 1 /\ IsFiniteSet(Live)
      BY <2>1, <2>3, <1>1 DEF MemoryInv, Counted
    <3>2. x \in Live
      BY <2>3, <1>6
    <3>3. x = h
      BY <3>1, <3>2, <1>6, FS_Singleton
    <3> QED
      BY <3>3, <2>3, <1>1, <1>4, <1>5, <1>7 DEF HandleSaw
  <2>4. CASE x # new /\ i # n
    <3>1. x \in Live /\ i \in 1 .. n - 1
      BY <2>4, <1>1, <1>6
    <3>2. HandleSaw(x, i)
      BY <3>1, <2>1 DEF MemoryInv, StaleOneSeen
    <3>3. \A u \in Thread : clock[u].seen > i => clock'[u].seen > i
      BY <1>1, <1>4
    <3> QED
      BY <3>2, <3>3, <2>1, <2>4, <1>4, <1>5, <1>7 DEF HandleSaw
  <2> QED
    BY <2>2, <2>3, <2>4
<1>12. NothingForgotten'
  <2> SUFFICES ASSUME NEW f \in Access PROVE Remembered(f)'
    BY DEF NothingForgotten
  <2>1. CASE f = e
    BY <2>1, <1>4, <1>6, <1>7 DEF Remembered, HandleKnows
  <2>2. CASE f # e
    <3>1. Remembered(f)
      BY <1>6 DEF MemoryInv, NothingForgotten
    <3>2. CASE f \in Last(count).rel
      BY <2>2, <3>2, <1>3 DEF Remembered
    <3>3. ASSUME NEW x \in Live, HandleKnows(x, f)
          PROVE  Remembered(f)'
      <4>1. x \in Handle /\ x # new /\ x \in Live'
        BY <1>6 DEF Live
      <4>2. \A u \in Thread : clock[u].knows \ {e} \subseteq clock'[u].knows
        BY <1>4
      <4>3. HandleKnows(x, f)'
        BY <4>1, <4>2, <2>2, <3>3, <1>4, <1>5, <1>7, UseKeepsKnowledge
      <4> QED
        BY <4>1, <4>3 DEF Remembered
    <3> QED
      BY <3>1, <3>2, <3>3 DEF Remembered
  <2> QED
    BY <2>1, <2>2
<1>13. WritesKnown'
  <2>1. e \notin Writes
    BY DEF Writes, e
  <2>2. ASSUME NEW u \in Thread, NEW x \in Handle, CanRead(u, x)'
        PROVE  Writes \subseteq clock'[u].knows
    <3>1. PICK y \in Handle : CanRead(u, y)
      BY <2>2, <1>7
    <3>2. Writes \subseteq clock[u].knows
      BY <3>1 DEF MemoryInv, WritesKnown, ReadersKnowWrites, Writes
    <3> QED
      BY <3>2, <2>1, <1>4
  <2>3. ASSUME NEW x \in Handle, at'[x] = Passed
        PROVE  Writes \subseteq out'[x].knows
    <3>1. at[x] = Passed
      BY <2>3, <1>5, OrderAssumption
    <3> QED
      BY <3>1, <2>1, <1>4 DEF MemoryInv, WritesKnown
  <2> QED
    BY <2>2, <2>3 DEF WritesKnown, ReadersKnowWrites, Writes
<1> QED
  BY <1>8, <1>9, <1>10, <1>11, <1>12, <1>13 DEF MemoryInv

(* The destructor and abandon: a handle is dropped by its owner. *)
LEMMA DropKeepsMemory ==
  ASSUME TypeOK, MemoryInv, Owned, NEW t \in Thread, NEW h \in Handle,
         at[h] = t, FetchSub(t), at' = [at EXCEPT ![h] = Dead], reader' = reader
  PROVE  /\ MemoryType' /\ MemoryInv'
         /\ Len(count') = Len(count) + 1
         /\ clock'[t].seen = Len(count')
         /\ clock'[t].knows = clock[t].knows \cup {<<t, "use">>}
         /\ count'[Len(count)].rel = Last(count).rel \ {<<t, "use">>}
         /\ Live' = Live \ {h} /\ h \in Live
<1> DEFINE e == <<t, "use">>
           n == Len(count)
           published == clock[t].knows \cup {e}
<1>1. /\ n \in Nat /\ n >= 1 /\ Last(count) = count[n] /\ Last(count).val \in Nat
      /\ MaxMessages \in Nat
  BY CountFacts, OrderAssumption
<1>2. h \in Live
  BY OrderAssumption DEF Live
<1>3. /\ IsFiniteSet(Live) /\ Last(count).val = Cardinality(Live)
      /\ IsFiniteSet(Live \ {h}) /\ Cardinality(Live \ {h}) = Cardinality(Live) - 1
      /\ Cardinality(Live \ {h}) \in Nat
  BY <1>2, FS_RemoveElement, FS_CardinalityType DEF MemoryInv, Counted
<1>4. published \in SUBSET Access
  BY DEF TypeOK, Clock, Access
<1>5. ReadModifyWrite(t, -1, published) /\ Last(count).val + (-1) \in Nat /\ -1 \in Int
  BY <1>1, <1>3 DEF FetchSub
<1>6. /\ count' \in Seq(Message) /\ Len(count') = n + 1 /\ Len(count') <= MaxMessages
      /\ \A i \in 1 .. n : /\ count'[i].val = count[i].val
                          /\ count'[i].rel = count[i].rel \ {e}
      /\ Last(count').val = Last(count).val + (-1)
      /\ Last(count').rel = (Last(count).rel \ {e}) \cup published
  <2> HIDE DEF published
  <2> QED
    BY <1>4, <1>5, ReadModifyWriteFacts
<1>7. /\ clock' \in [Thread -> Clock]
      /\ out' \in [Handle -> Clock] /\ back' \in [Handle -> Clock]
      /\ clock'[t].knows = clock[t].knows \cup {e}
      /\ clock'[t].seen = n + 1
      /\ \A u \in Thread \ {t} : /\ clock'[u].knows = clock[u].knows \ {e}
                                 /\ clock'[u].seen = clock[u].seen
      /\ \A x \in Handle : /\ out'[x].knows = out[x].knows \ {e}
                           /\ out'[x].seen = out[x].seen
                           /\ back'[x].knows = back[x].knows \ {e}
                           /\ back'[x].seen = back[x].seen
  <2> HIDE DEF published
  <2> QED
    BY <1>4, <1>5, ReadModifyWriteClocks
<1>8. /\ at'[h] = Dead
      /\ \A x \in Handle \ {h} : at'[x] = at[x]
      /\ at' \in [Handle -> Thread \cup {Dead, Passed}]
  BY DEF TypeOK
<1>9. Live' = Live \ {h}
  BY <1>8 DEF Live
<1>10. /\ \A u \in Thread, x \in Handle \ {h} : CanRead(u, x)' <=> CanRead(u, x)
       /\ \A u \in Thread : ~CanRead(u, h)' /\ (CanRead(u, h) => u = t)
  BY <1>8, OrderAssumption DEF CanRead
<1>11. MemoryType'
  BY <1>1, <1>6, <1>7, <1>8 DEF TypeOK, MemoryType
<1> HIDE DEF e
<1>12. Seen'
  <2>1. \A u \in Thread : clock'[u].seen \in 1 .. n + 1
    BY <1>1, <1>7 DEF MemoryInv, Seen
  <2>2. \A x \in Handle : out'[x].seen <= n + 1 /\ back'[x].seen <= n + 1
    BY <1>1, <1>7, ClockFacts DEF MemoryInv, Seen
  <2> QED
    BY <2>1, <2>2, <1>6 DEF Seen
<1>13. Counted'
  <2>1. Last(count).val # 0
    BY <1>2, <1>3, FS_EmptySet
  <2>2. \A i \in 1 .. n : count'[i].val # 0
    BY <2>1, <1>1, <1>6 DEF MemoryInv, Counted
  <2> QED
    BY <2>2, <1>1, <1>3, <1>6, <1>9 DEF Counted
<1>14. StaleOneSeen'
  <2> SUFFICES ASSUME NEW x \in Live', NEW i \in 1 .. n, count'[i].val = 1
               PROVE  HandleSaw(x, i)'
    BY <1>1, <1>6 DEF StaleOneSeen
  <2>1. count[i].val = 1 /\ x \in Live /\ x # h /\ x \in Handle
    BY <1>6, <1>9 DEF Live
  <2>2. i # n
    BY <2>1, <1>1, <1>2, <1>3, FS_Singleton
  <2>3. HandleSaw(x, i)
    BY <2>1, <2>2, <1>1 DEF MemoryInv, StaleOneSeen
  <2>4. \A u \in Thread : clock[u].seen > i => clock'[u].seen > i
    BY <1>1, <1>7
  <2> QED
    BY <2>1, <2>3, <2>4, <1>7, <1>8, <1>10 DEF HandleSaw
<1>15. NothingForgotten'
  <2> SUFFICES ASSUME NEW f \in Access PROVE Remembered(f)'
    BY DEF NothingForgotten
  <2>1. CASE f \in published
    BY <2>1, <1>6 DEF Remembered
  <2>2. CASE f \notin published
    <3>1. Remembered(f) /\ f # e
      BY <2>2, <1>2 DEF MemoryInv, NothingForgotten
    <3>2. CASE f \in Last(count).rel
      BY <3>1, <3>2, <1>6 DEF Remembered
    <3>3. ASSUME NEW x \in Live, HandleKnows(x, f)
          PROVE  Remembered(f)'
      <4>1. x # h
        BY <2>2, <3>3, <1>10, OrderAssumption DEF HandleKnows
      <4>2. x \in Handle /\ x \in Live'
        BY <4>1, <1>9 DEF Live
      <4>3. \A u \in Thread : clock[u].knows \ {e} \subseteq clock'[u].knows
        BY <1>7
      <4>4. HandleKnows(x, f)'
        BY <4>1, <4>2, <4>3, <3>1, <3>3, <1>7, <1>8, <1>10, UseKeepsKnowledge
      <4> QED
        BY <4>2, <4>4 DEF Remembered
    <3> QED
      BY <3>1, <3>2, <3>3 DEF Remembered
  <2> QED
    BY <2>1, <2>2
<1>16. WritesKnown'
  <2>1. e \notin Writes
    BY DEF Writes, e
  <2>2. ASSUME NEW u \in Thread, NEW x \in Handle, CanRead(u, x)'
        PROVE  Writes \subseteq clock'[u].knows
    <3>1. CanRead(u, x)
      BY <2>2, <1>10
    <3>2. Writes \subseteq clock[u].knows
      BY <3>1 DEF MemoryInv, WritesKnown, ReadersKnowWrites, Writes
    <3> QED
      BY <3>2, <2>1, <1>7
  <2>3. ASSUME NEW x \in Handle, at'[x] = Passed
        PROVE  Writes \subseteq out'[x].knows
    <3>1. at[x] = Passed
      BY <2>3, <1>8, OrderAssumption
    <3> QED
      BY <3>1, <2>1, <1>7 DEF MemoryInv, WritesKnown
  <2> QED
    BY <2>2, <2>3 DEF WritesKnown, ReadersKnowWrites, Writes
<1>17. count'[n].rel = Last(count).rel \ {e} /\ clock'[t].seen = Len(count')
  BY <1>1, <1>6, <1>7
<1> QED
  BY <1>2, <1>6, <1>7, <1>9, <1>11, <1>12, <1>13, <1>14, <1>15, <1>16, <1>17 DEF MemoryInv, e

-----------------------------------------------------------------------------
(* The callers' synchronisation *)

(* Whoever is about to write or destroy has the only handle, if there is one. *)
LEMMA CriticalOwnsAll ==
  ASSUME ControlInv, NEW u \in Thread, pc[u] \in Critical, NEW h \in Live
  PROVE  at[h] = u /\ pc[u] = "write"
<1>1. pc[u] = "write" /\ h = arg[u]
  BY DEF ControlInv, SoleAccess, Critical, Live
<1> QED
  BY <1>1 DEF ControlInv, Owned

(* The four steps change the handles and the clocks of h and t alone, and   *)
(* only so that what was known about h is known still.                      *)
LEMMA SynchroniseKeepsInv ==
  ASSUME Inv, NEW t \in Thread, NEW h \in Handle,
         Idle(t), at[h] \in {t, Passed}, at'[h] \in {t, Passed},
         \A x \in Handle \ {h} : /\ at'[x] = at[x] /\ reader'[x] = reader[x]
                                /\ out'[x] = out[x] /\ back'[x] = back[x],
         \A u \in Thread \ {t} : clock'[u] = clock[u],
         clock[t].knows \subseteq clock'[t].knows, clock[t].seen <= clock'[t].seen,
         clock'[t].seen <= Len(count),
         out'[h].seen <= Len(count), back'[h].seen <= Len(count),
         reader'[h] # {} => at'[h] = Passed,
         CanRead(t, h)' => Writes \subseteq clock'[t].knows,
         \A u \in Thread \ {t} : CanRead(u, h)' => CanRead(u, h),
         at'[h] = Passed => Writes \subseteq out'[h].knows,
         \A f \in Access : HandleKnows(h, f) => HandleKnows(h, f)',
         \A i \in 1 .. Len(count) : HandleSaw(h, i) => HandleSaw(h, i)',
         MemoryType', UNCHANGED <<count, pc, arg>>
  PROVE  Inv'
<1>1. /\ Len(count) \in Nat /\ Len(count) >= 1
      /\ clock[t].seen \in 1 .. Len(count) /\ clock'[t].seen \in Nat
      /\ \A u \in Thread : clock[u].seen \in Nat /\ clock'[u].seen \in Nat
  BY CountFacts DEF Inv, MemoryInv, Seen, MemoryType, TypeOK, Clock
<1>2. Live' = Live /\ h \in Live
  BY OrderAssumption DEF Live
<1>3. \A u \in Thread : pc[u] \notin Critical
  <2> SUFFICES ASSUME NEW u \in Thread, pc[u] \in Critical PROVE FALSE
    OBVIOUS
  <2>1. at[h] = u /\ pc[u] = "write"
    BY <1>2, CriticalOwnsAll DEF Inv
  <2> QED
    BY <2>1, OrderAssumption DEF Idle
<1>4. TypeOK'
  BY DEF Inv, TypeOK, MemoryType
<1>5. Seen'
  BY <1>1 DEF Inv, MemoryInv, Seen
<1>6. Counted'
  BY <1>2 DEF Inv, MemoryInv, Counted
<1>7. \A u \in Thread, x \in Handle \ {h} : CanRead(u, x)' <=> CanRead(u, x)
  BY DEF CanRead
<1>8. StaleOneSeen'
  <2> SUFFICES ASSUME NEW x \in Live, NEW i \in 1 .. Len(count) - 1, count[i].val = 1
               PROVE  HandleSaw(x, i)'
    BY <1>2 DEF StaleOneSeen
  <2>1. HandleSaw(x, i) /\ x \in Handle /\ i \in 1 .. Len(count)
    BY <1>1 DEF Inv, MemoryInv, StaleOneSeen, Live
  <2>2. \A u \in Thread : clock[u].seen > i => clock'[u].seen > i
    BY <1>1
  <2>3. CASE x # h
    BY <2>1, <2>2, <2>3, <1>7 DEF HandleSaw
  <2> QED
    BY <2>1, <2>3
<1>9. NothingForgotten'
  <2> SUFFICES ASSUME NEW f \in Access PROVE Remembered(f)'
    BY DEF NothingForgotten
  <2>1. Remembered(f)
    BY <1>2 DEF Inv, MemoryInv, NothingForgotten
  <2>2. \A u \in Thread : f \in clock[u].knows => f \in clock'[u].knows
    OBVIOUS
  <2>3. ASSUME NEW x \in Handle, HandleKnows(x, f)
        PROVE  HandleKnows(x, f)'
    <3>1. CASE x # h
      BY <2>2, <2>3, <3>1, <1>7 DEF HandleKnows
    <3> QED
      BY <2>3, <3>1
  <2> QED
    BY <2>1, <2>3, <1>2 DEF Remembered, Live
<1>10. WritesKnown'
  <2>1. ASSUME NEW u \in Thread, NEW x \in Handle, CanRead(u, x)'
        PROVE  Writes \subseteq clock'[u].knows
    <3>1. CASE CanRead(u, x)
      <4>1. Writes \subseteq clock[u].knows
        BY <3>1 DEF Inv, MemoryInv, WritesKnown, ReadersKnowWrites, Writes
      <4> QED
        BY <4>1
    <3>2. CASE ~CanRead(u, x)
      BY <2>1, <3>2, <1>7
    <3> QED
      BY <3>1, <3>2
  <2>2. ASSUME NEW x \in Handle, at'[x] = Passed
        PROVE  Writes \subseteq out'[x].knows
    BY <2>2 DEF Inv, MemoryInv, WritesKnown
  <2> QED
    BY <2>1, <2>2 DEF WritesKnown, ReadersKnowWrites, Writes
<1>11. Owned'
  <2>1. ASSUME NEW u \in Thread, pc[u] \in {"clone", "abandon", "release", "write"}
        PROVE  arg[u] \in Handle /\ at'[arg[u]] = u
    <3>1. arg[u] \in Handle /\ at[arg[u]] = u /\ u # t
      BY <2>1 DEF Inv, ControlInv, Owned, Idle
    <3>2. arg[u] # h
      BY <3>1, OrderAssumption
    <3> QED
      BY <3>1, <3>2
  <2>2. \A x \in Handle : reader'[x] # {} => at'[x] = Passed
    BY DEF Inv, ControlInv, Owned
  <2> QED
    BY <2>1, <2>2 DEF Owned
<1>12. SoleAccess' /\ Acquired'
  BY <1>3 DEF SoleAccess, Acquired, Critical
<1> QED
  BY <1>4, <1>5, <1>6, <1>8, <1>9, <1>10, <1>11, <1>12 DEF Inv, MemoryInv, ControlInv

LEMMA PassKeepsInv ==
  ASSUME Inv, NEW t \in Thread, NEW h \in Handle, Pass(t, h)
  PROVE  Inv'
<1> USE DEF Pass
<1>1. /\ at'[h] = Passed /\ out'[h] = clock[t] /\ back'[h] = NoClock
      /\ reader[h] = {} /\ reader' = reader
      /\ \A x \in Handle \ {h} : /\ at'[x] = at[x] /\ reader'[x] = reader[x]
                                 /\ out'[x] = out[x] /\ back'[x] = back[x]
  BY OrderAssumption DEF Inv, TypeOK, ControlInv, Owned
<1>2. MemoryType'
  BY OrderAssumption DEF Inv, TypeOK, MemoryType, NoClock, Clock
<1>3. CanRead(t, h) /\ \A u \in Thread : CanRead(u, h) => u = t
  BY OrderAssumption DEF CanRead
<1>4. Writes \subseteq clock[t].knows
  BY <1>3 DEF Inv, MemoryInv, WritesKnown, ReadersKnowWrites, Writes
<1>5. /\ clock[t].seen \in Nat /\ clock[t].seen <= Len(count) /\ Len(count) \in Nat
      /\ NoClock.seen <= Len(count)
  BY CountFacts DEF Inv, MemoryInv, Seen, NoClock
<1>6. \A f \in Access : HandleKnows(h, f) => HandleKnows(h, f)'
  BY <1>1, <1>3, OrderAssumption DEF HandleKnows
<1>7. \A i \in 1 .. Len(count) : HandleSaw(h, i) => HandleSaw(h, i)'
  BY <1>1, <1>3, OrderAssumption DEF HandleSaw
<1>8. \A u \in Thread : ~CanRead(u, h)'
  BY <1>1, OrderAssumption DEF CanRead
<1> QED
  BY <1>1, <1>2, <1>4, <1>5, <1>6, <1>7, <1>8, SynchroniseKeepsInv

LEMMA JoinFacts ==
  ASSUME NEW c \in Clock, NEW d \in Clock
  PROVE  /\ Join(c, d) \in Clock
         /\ Join(c, d).knows = c.knows \cup d.knows
         /\ c.seen <= Join(c, d).seen /\ d.seen <= Join(c, d).seen
         /\ Join(c, d).seen \in {c.seen, d.seen}
  BY OrderAssumption DEF Join, Later, Clock

LEMMA BorrowKeepsInv ==
  ASSUME Inv, NEW t \in Thread, NEW h \in Handle, Borrow(t, h)
  PROVE  Inv'
<1> USE DEF Borrow
<1>1. clock[t] \in Clock /\ out[h] \in Clock
  BY DEF Inv, TypeOK
<1>2. /\ at'[h] = Passed /\ at[h] = Passed /\ out' = out /\ back' = back /\ count' = count
      /\ reader'[h] = reader[h] \cup {t}
      /\ \A x \in Handle \ {h} : at'[x] = at[x] /\ reader'[x] = reader[x]
      /\ clock'[t] = Join(clock[t], out[h])
      /\ \A u \in Thread \ {t} : clock'[u] = clock[u]
  BY DEF Inv, TypeOK
<1>3. MemoryType'
  BY <1>1, JoinFacts DEF Inv, TypeOK, MemoryType
<1>4. /\ clock'[t].knows = clock[t].knows \cup out[h].knows
      /\ clock[t].seen <= clock'[t].seen /\ clock'[t].seen \in {clock[t].seen, out[h].seen}
  BY <1>1, <1>2, JoinFacts
<1>5. /\ clock[t].seen \in Nat /\ clock[t].seen <= Len(count) /\ Len(count) \in Nat
      /\ out[h].seen <= Len(count) /\ back[h].seen <= Len(count)
      /\ \A u \in Thread : clock[u].seen \in Nat
  BY CountFacts DEF Inv, MemoryInv, Seen
<1>6. Writes \subseteq out[h].knows
  BY <1>2 DEF Inv, MemoryInv, WritesKnown
<1>7. /\ \A u \in Thread : CanRead(u, h) => CanRead(u, h)'
      /\ \A u \in Thread \ {t} : CanRead(u, h)' => CanRead(u, h)
  BY <1>2, OrderAssumption DEF CanRead
<1>8. \A f \in Access : HandleKnows(h, f) => HandleKnows(h, f)'
  BY <1>2, <1>4, <1>7 DEF HandleKnows
<1>9. ASSUME NEW i \in 1 .. Len(count), HandleSaw(h, i)
      PROVE  HandleSaw(h, i)'
  <2>1. \A u \in Thread : clock[u].seen > i => clock'[u].seen > i
    BY <1>2, <1>4, <1>5, <1>1 DEF Clock
  <2> QED
    BY <2>1, <1>2, <1>7, <1>9 DEF HandleSaw
<1>10. clock'[t].seen <= Len(count)
  BY <1>4, <1>5
<1> QED
  BY <1>2, <1>3, <1>4, <1>5, <1>6, <1>7, <1>8, <1>9, <1>10, SynchroniseKeepsInv

LEMMA GiveBackKeepsInv ==
  ASSUME Inv, NEW t \in Thread, NEW h \in Handle, GiveBack(t, h)
  PROVE  Inv'
<1> USE DEF GiveBack
<1>1. clock[t] \in Clock /\ back[h] \in Clock
  BY DEF Inv, TypeOK
<1>2. /\ at[h] = Passed /\ at' = at /\ out' = out /\ clock' = clock /\ count' = count
      /\ reader'[h] = reader[h] \ {t}
      /\ \A x \in Handle \ {h} : reader'[x] = reader[x] /\ back'[x] = back[x]
      /\ back'[h] = Join(back[h], clock[t])
  BY DEF Inv, TypeOK, ControlInv, Owned
<1>3. MemoryType'
  BY <1>1, JoinFacts DEF Inv, TypeOK, MemoryType
<1>4. /\ back'[h].knows = back[h].knows \cup clock[t].knows
      /\ back[h].seen <= back'[h].seen /\ clock[t].seen <= back'[h].seen
      /\ back'[h].seen \in {clock[t].seen, back[h].seen}
  BY <1>1, <1>2, JoinFacts
<1>5. /\ clock[t].seen \in Nat /\ clock[t].seen <= Len(count) /\ Len(count) \in Nat
      /\ out[h].seen <= Len(count) /\ back[h].seen <= Len(count) /\ back[h].seen \in Nat
  BY <1>1, CountFacts DEF Inv, MemoryInv, Seen, Clock
<1>6. Writes \subseteq out[h].knows
  BY <1>2 DEF Inv, MemoryInv, WritesKnown
<1>7. /\ \A u \in Thread \ {t} : CanRead(u, h)' <=> CanRead(u, h)
      /\ ~CanRead(t, h)'
  BY <1>2, OrderAssumption DEF CanRead
<1>8. ASSUME NEW f \in Access, HandleKnows(h, f)
      PROVE  HandleKnows(h, f)'
  BY <1>2, <1>4, <1>7, <1>8 DEF HandleKnows
<1>9. ASSUME NEW i \in 1 .. Len(count), HandleSaw(h, i)
      PROVE  HandleSaw(h, i)'
  <2>1. clock[t].seen > i \/ back[h].seen > i => back'[h].seen > i
    BY <1>4, <1>5
  <2> QED
    BY <2>1, <1>2, <1>7, <1>9 DEF HandleSaw
<1>10. back'[h].seen <= Len(count)
  BY <1>4, <1>5
<1> QED
  BY <1>2, <1>3, <1>5, <1>6, <1>7, <1>8, <1>9, <1>10, SynchroniseKeepsInv

LEMMA TakeKeepsInv ==
  ASSUME Inv, NEW t \in Thread, NEW h \in Handle, Take(t, h)
  PROVE  Inv'
<1> USE DEF Take
<1> DEFINE handed == Join(out[h], back[h])
<1>1. clock[t] \in Clock /\ back[h] \in Clock /\ out[h] \in Clock
  BY DEF Inv, TypeOK
<1>2. /\ at[h] = Passed /\ at'[h] = t /\ reader[h] = {} /\ reader' = reader /\ count' = count
      /\ \A x \in Handle \ {h} : at'[x] = at[x] /\ out'[x] = out[x] /\ back'[x] = back[x]
      /\ out'[h] = NoClock /\ back'[h] = NoClock
      /\ clock'[t] = Join(clock[t], handed)
      /\ \A u \in Thread \ {t} : clock'[u] = clock[u]
  BY DEF Inv, TypeOK
<1>3. /\ handed \in Clock /\ handed.knows = out[h].knows \cup back[h].knows
      /\ out[h].seen <= handed.seen /\ back[h].seen <= handed.seen
      /\ handed.seen \in {out[h].seen, back[h].seen}
  BY <1>1, JoinFacts
<1> HIDE DEF handed
<1>4. /\ clock'[t] \in Clock /\ clock'[t].knows = clock[t].knows \cup handed.knows
      /\ clock[t].seen <= clock'[t].seen /\ handed.seen <= clock'[t].seen
      /\ clock'[t].seen \in {clock[t].seen, handed.seen}
  BY <1>1, <1>2, <1>3, JoinFacts
<1>5. MemoryType'
  <2>1. NoClock \in Clock
    BY OrderAssumption DEF NoClock, Clock
  <2> QED
    BY <2>1, <1>2, <1>4 DEF Inv, TypeOK, MemoryType
<1>6. /\ clock[t].seen \in Nat /\ clock[t].seen <= Len(count) /\ Len(count) \in Nat
      /\ out[h].seen <= Len(count) /\ back[h].seen <= Len(count)
      /\ out[h].seen \in Nat /\ back[h].seen \in Nat
      /\ NoClock.seen <= Len(count)
  BY <1>1, CountFacts DEF Inv, MemoryInv, Seen, Clock, NoClock
<1>7. Writes \subseteq out[h].knows
  BY <1>2 DEF Inv, MemoryInv, WritesKnown
<1>8. /\ \A u \in Thread : ~CanRead(u, h)
      /\ \A u \in Thread : CanRead(u, h)' <=> u = t
  BY <1>2, OrderAssumption DEF CanRead
<1>9. ASSUME NEW f \in Access, HandleKnows(h, f)
      PROVE  HandleKnows(h, f)'
  BY <1>3, <1>4, <1>8, <1>9 DEF HandleKnows
<1>10. ASSUME NEW i \in 1 .. Len(count), HandleSaw(h, i)
       PROVE  HandleSaw(h, i)'
  <2>1. out[h].seen > i \/ back[h].seen > i => clock'[t].seen > i
    BY <1>3, <1>4, <1>6
  <2> QED
    BY <2>1, <1>8, <1>10 DEF HandleSaw
<1>11. clock'[t].seen <= Len(count)
  BY <1>3, <1>4, <1>6
<1>12. Passed \notin Thread
  BY OrderAssumption
<1> QED
  BY <1>2, <1>3, <1>4, <1>5, <1>6, <1>7, <1>8, <1>9, <1>10, <1>11, <1>12, SynchroniseKeepsInv

-----------------------------------------------------------------------------
(* Calls *)

LEMMA TypeOfParts == TypeOK <=> MemoryType /\ ControlType
  BY DEF TypeOK, MemoryType, ControlType

LEMMA TypeOfPartsNext == TypeOK' <=> MemoryType' /\ ControlType'
  BY DEF TypeOK, MemoryType, ControlType

(* A count of 1, read by an owner, is of the owner's handle: there is no    *)
(* other, no other call is under way, and everything that happened is known *)
(* to the owner or carried by the message.                                  *)
LEMMA OneIsSole ==
  ASSUME Inv, NEW t \in Thread, NEW h \in Handle, at[h] = t, Last(count).val = 1
  PROVE  /\ Live = {h}
         /\ \A u \in Thread \ {t} : Idle(u)
         /\ Access \subseteq clock[t].knows \cup Last(count).rel
<1>1. CanRead(t, h) /\ h \in Live
  BY OrderAssumption DEF CanRead, Live
<1>2. IsFiniteSet(Live) /\ Cardinality(Live) = 1
  BY DEF Inv, MemoryInv, Counted
<1>3. Live = {h}
  BY <1>1, <1>2, FS_Singleton
<1>4. ASSUME NEW u \in Thread \ {t}
      PROVE  Idle(u)
  <2>1. pc[u] \notin Critical /\ pc[u] \in Pc
    BY <1>1, NobodyElseCritical DEF Inv, TypeOK
  <2>2. CASE pc[u] \in {"clone", "abandon", "release", "write"}
    <3>1. arg[u] \in Handle /\ at[arg[u]] = u
      BY <2>2 DEF Inv, ControlInv, Owned
    <3>2. arg[u] \in Live
      BY <3>1, OrderAssumption DEF Live
    <3> QED
      BY <3>1, <3>2, <1>3
  <2> QED
    BY <2>1, <2>2 DEF Pc, Critical, Idle
<1>5. ASSUME NEW f \in Access
      PROVE  f \in clock[t].knows \cup Last(count).rel
  <2>1. f \in Last(count).rel \/ HandleKnows(h, f)
    BY <1>3 DEF Inv, MemoryInv, NothingForgotten, Remembered
  <2>2. HandleKnows(h, f) => f \in clock[t].knows
    BY OrderAssumption DEF HandleKnows, CanRead
  <2> QED
    BY <2>1, <2>2
<1> QED
  BY <1>3, <1>4, <1>5

(* An owner does not read a 1 that is no longer the count. *)
LEMMA OwnerReadsNoStaleOne ==
  ASSUME Inv, NEW t \in Thread, NEW h \in Handle, at[h] = t,
         NEW i \in clock[t].seen .. Len(count) - 1
  PROVE  count[i].val # 1
<1>1. /\ h \in Live /\ at[h] # Passed /\ \A u \in Thread : CanRead(u, h) => u = t
  BY OrderAssumption DEF Live, CanRead
<1>2. clock[t].seen \in 1 .. Len(count) /\ Len(count) \in Nat
  BY CountFacts DEF Inv, MemoryInv, Seen
<1>3. i \in 1 .. Len(count) - 1 /\ ~(clock[t].seen > i)
  BY <1>2
<1>4. ~HandleSaw(h, i)
  BY <1>1, <1>3 DEF HandleSaw
<1> QED
  BY <1>1, <1>3, <1>4 DEF Inv, MemoryInv, StaleOneSeen

(* A step of t after which nobody is about to write or destroy.             *)
LEMMA QuietStep ==
  ASSUME Inv, NEW t \in Thread, MemoryType', MemoryInv', ControlType',
         pc'[t] \notin Critical,
         \A u \in Thread \ {t} : pc[u] \notin Critical /\ pc'[u] = pc[u] /\ arg'[u] = arg[u],
         pc'[t] \in {"clone", "abandon", "release"} =>
           arg'[t] \in Handle /\ at'[arg'[t]] = t,
         \A x \in Handle : at[x] \in Thread \ {t} => at'[x] = at[x],
         \A x \in Handle : reader'[x] # {} => at'[x] = Passed
  PROVE  Inv'
<1>1. \A u \in Thread : pc'[u] \notin Critical
  OBVIOUS
<1>2. SoleAccess' /\ Acquired'
  BY <1>1 DEF SoleAccess, Acquired, Critical
<1>3. ASSUME NEW u \in Thread, pc'[u] \in {"clone", "abandon", "release", "write"}
      PROVE  arg'[u] \in Handle /\ at'[arg'[u]] = u
  <2>1. CASE u = t
    BY <2>1, <1>1, <1>3 DEF Critical
  <2>2. CASE u # t
    BY <2>2, <1>3 DEF Inv, ControlInv, Owned
  <2> QED
    BY <2>1, <2>2
<1>4. Owned'
  BY <1>3 DEF Owned
<1> QED
  BY <1>2, <1>4, TypeOfPartsNext DEF Inv, ControlInv

LEMMA ReadKeepsInv ==
  ASSUME Inv, NEW t \in Thread, NEW h \in Handle, Read(t, h)
  PROVE  Inv'
<1>1. /\ Happens(t, <<t, "use">>, {}, clock[t].seen) /\ count' = Without(count, <<t, "use">>)
      /\ UNCHANGED handles /\ UNCHANGED <<pc, arg>> /\ Idle(t) /\ CanRead(t, h)
  BY DEF Read, Touch
<1>2. clock[t].seen \in clock[t].seen .. Len(count) /\ {} \in SUBSET Access
  BY CountFacts DEF Inv, MemoryInv, Seen
<1>3. MemoryType' /\ MemoryInv'
  BY <1>1, <1>2, AccessKeepsMemory DEF Inv
<1>4. \A u \in Thread : pc[u] \notin Critical
  BY <1>1, NobodyElseCritical DEF Inv
<1>5. ControlType'
  BY <1>1 DEF Inv, TypeOK, ControlType
<1>6. at' = at /\ reader' = reader /\ pc' = pc /\ arg' = arg /\ pc[t] = "idle"
  BY <1>1 DEF handles, Idle
<1> QED
  BY <1>3, <1>4, <1>5, <1>6, QuietStep DEF Inv, ControlInv, Owned

LEMMA CopyKeepsInv ==
  ASSUME Inv, NEW t \in Thread, NEW h \in Handle, NEW new \in Handle, Copy(t, h, new)
  PROVE  Inv'
<1>1. /\ Idle(t) /\ CanRead(t, h) /\ at[new] = Dead /\ FetchAdd(t)
      /\ at' = [at EXCEPT ![new] = t] /\ reader' = reader /\ pc' = pc /\ arg' = arg
  BY DEF Copy
<1>2. MemoryType' /\ MemoryInv'
  BY <1>1, CopyKeepsMemory DEF Inv
<1>3. \A u \in Thread : pc[u] \notin Critical
  BY <1>1, NobodyElseCritical DEF Inv
<1>4. ControlType' /\ pc[t] = "idle"
  BY <1>1 DEF Inv, TypeOK, ControlType, Idle
<1>5. \A x \in Handle : at[x] # Dead => at'[x] = at[x]
  BY <1>1 DEF Inv, TypeOK
<1>6. \A x \in Handle : reader'[x] # {} => at'[x] = Passed
  BY <1>1, <1>5, OrderAssumption DEF Inv, ControlInv, Owned
<1>7. \A x \in Handle : at[x] \in Thread \ {t} => at'[x] = at[x]
  BY <1>5, OrderAssumption
<1> QED
  BY <1>1, <1>2, <1>3, <1>4, <1>6, <1>7, QuietStep

LEMMA ReleaseKeepsInv ==
  ASSUME Inv, NEW t \in Thread, NEW h \in Handle, Release(t, h)
  PROVE  Inv'
<1> DEFINE e == <<t, "use">>
<1>1. /\ at[h] = t /\ FetchSub(t) /\ at' = [at EXCEPT ![h] = Dead] /\ reader' = reader
      /\ pc[t] \in {"idle", "release"}
      /\ \A u \in Thread \ {t} : pc'[u] = pc[u] /\ arg'[u] = arg[u]
      /\ arg'[t] = NoHandle
      /\ IF Last(count).val = 1 THEN pc'[t] = "fence" ELSE pc'[t] = "idle"
      /\ ControlType'
  BY DEF Release, Goto, Return, Idle, Inv, TypeOK, ControlType, Pc
<1>2. /\ MemoryType' /\ MemoryInv'
      /\ Len(count') = Len(count) + 1
      /\ clock'[t].seen = Len(count')
      /\ clock'[t].knows = clock[t].knows \cup {e}
      /\ count'[Len(count)].rel = Last(count).rel \ {e}
      /\ Live' = Live \ {h} /\ h \in Live
  BY <1>1, DropKeepsMemory DEF Inv, ControlInv
<1>3. CanRead(t, h)
  BY <1>1 DEF CanRead
<1>4. \A u \in Thread \ {t} : pc[u] \notin Critical
  BY <1>3, NobodyElseCritical DEF Inv
<1>5. \A x \in Handle : at[x] \in Thread \ {t} => at'[x] = at[x]
  BY <1>1 DEF Inv, TypeOK
<1>6. \A x \in Handle : reader'[x] # {} => at'[x] = Passed
  BY <1>1, OrderAssumption DEF Inv, TypeOK, ControlInv, Owned
<1>7. CASE Last(count).val # 1
  <2>1. pc'[t] = "idle"
    BY <1>1, <1>7
  <2> QED
    BY <2>1, <1>1, <1>2, <1>4, <1>5, <1>6, QuietStep DEF Critical
<1>8. CASE Last(count).val = 1
  <2>1. /\ Live = {h} /\ \A u \in Thread \ {t} : Idle(u)
        /\ Access \subseteq clock[t].knows \cup Last(count).rel
    BY <1>1, <1>8, OneIsSole
  <2>2. Live' = {} /\ pc'[t] = "fence" /\ \A u \in Thread \ {t} : pc'[u] = "idle"
    BY <2>1, <1>1, <1>2, <1>8 DEF Idle
  <2>3. SoleAccess'
    BY <2>2 DEF SoleAccess, Live, Idle
  <2>4. Owned'
    BY <2>2, <1>6 DEF Owned
  <2>5. /\ Len(count') > 1 /\ Len(count') - 1 = Len(count)
    BY <1>2, CountFacts DEF Inv
  <2>6. Access \subseteq clock'[t].knows \cup count'[Len(count') - 1].rel
    BY <2>1, <2>5, <1>2
  <2>7. Acquired'
    BY <2>2, <2>5, <2>6, <1>2 DEF Acquired
  <2> QED
    BY <2>3, <2>4, <2>7, <1>1, <1>2, TypeOfPartsNext DEF Inv, ControlInv
<1> QED
  BY <1>7, <1>8

LEMMA UseCountKeepsInv ==
  ASSUME Inv, NEW t \in Thread, NEW h \in Handle,
         NEW i \in clock[t].seen .. Len(count), NEW shared \in {"clone", "release"},
         UseCount(t, h, i, shared)
  PROVE  Inv'
<1> DEFINE e == <<t, "use">>
<1>1. /\ Idle(t) /\ at[h] = t /\ UNCHANGED handles /\ at' = at /\ reader' = reader
      /\ Happens(t, e, count[i].rel, i) /\ count' = Without(count, e)
      /\ \A u \in Thread \ {t} : pc'[u] = pc[u] /\ arg'[u] = arg[u]
      /\ arg'[t] = h
      /\ IF count[i].val > 1 THEN pc'[t] = shared ELSE pc'[t] = "write"
      /\ ControlType'
  BY DEF UseCount, AcquireLoad, Goto, handles, Inv, TypeOK, ControlType, Pc
<1>2. /\ clock[t].seen \in 1 .. Len(count) /\ Len(count) \in Nat
      /\ i \in 1 .. Len(count) /\ count[i].rel \in SUBSET Access /\ count[i].val \in Nat
  BY CountFacts DEF Inv, MemoryInv, Seen
<1>3. CanRead(t, h)
  BY <1>1 DEF CanRead
<1>4. /\ clock'[t].knows = clock[t].knows \cup count[i].rel \cup {e}
      /\ MemoryType' /\ MemoryInv'
  BY <1>1, <1>2, <1>3, AccessKeepsMemory DEF Inv
<1>5. \A u \in Thread : pc[u] \notin Critical
  BY <1>1, <1>3, NobodyElseCritical DEF Inv
<1>6. \A x \in Handle : reader'[x] # {} => at'[x] = Passed
  BY <1>1 DEF Inv, ControlInv, Owned
<1>7. CASE count[i].val > 1
  BY <1>1, <1>4, <1>5, <1>6, <1>7, QuietStep DEF Critical
<1>8. CASE ~(count[i].val > 1)
  <2>1. h \in Live /\ IsFiniteSet(Live)
    BY <1>3, ReadableIsLive DEF Inv, MemoryInv, Counted
  <2>2. Last(count) = count[Len(count)] /\ Last(count).val # 0
    BY <2>1, CountFacts, FS_EmptySet DEF Inv, MemoryInv, Counted
  <2>3. count[i].val # 0
    BY <2>2, <1>2 DEF Inv, MemoryInv, Counted
  <2>4. count[i].val = 1
    BY <2>3, <1>2, <1>8
  <2>5. i = Len(count)
    BY <2>4, <1>1, <1>2, OwnerReadsNoStaleOne
  <2>6. /\ Live = {h} /\ \A u \in Thread \ {t} : Idle(u)
        /\ Access \subseteq clock[t].knows \cup count[i].rel
    BY <2>2, <2>4, <2>5, <1>1, OneIsSole
  <2>7. pc'[t] = "write" /\ \A u \in Thread \ {t} : pc'[u] = "idle"
    BY <2>6, <1>1, <1>8 DEF Idle
  <2>8. SoleAccess'
    BY <2>6, <2>7, <1>1 DEF SoleAccess, Live, Idle
  <2>9. Owned'
    BY <2>7, <1>1, <1>6 DEF Owned
  <2>10. clock'[t].knows = Access
    <3>1. clock'[t].knows \subseteq Access
      BY <1>4 DEF MemoryType, Clock
    <3> QED
      BY <3>1, <2>6, <1>4
  <2>11. Acquired'
    BY <2>7, <2>10 DEF Acquired
  <2> QED
    BY <2>8, <2>9, <2>11, <1>1, <1>4, TypeOfPartsNext DEF Inv, ControlInv
<1> QED
  BY <1>7, <1>8

LEMMA CloneKeepsInv ==
  ASSUME Inv, NEW t \in Thread, Clone(t)
  PROVE  Inv'
<1> DEFINE h == arg[t]
<1>1. h \in Handle /\ at[h] = t /\ pc[t] = "clone"
  BY DEF Clone, Inv, ControlInv, Owned
<1>2. /\ Happens(t, <<t, "use">>, {}, clock[t].seen) /\ count' = Without(count, <<t, "use">>)
      /\ UNCHANGED handles /\ at' = at /\ reader' = reader
      /\ \A u \in Thread \ {t} : pc'[u] = pc[u] /\ arg'[u] = arg[u]
      /\ (pc'[t] = "abandon" /\ arg'[t] = h) \/ pc'[t] = "idle"
      /\ ControlType'
  BY <1>1 DEF Clone, Touch, Goto, Return, handles, Inv, TypeOK, ControlType, Pc
<1> HIDE DEF h
<1>3. clock[t].seen \in clock[t].seen .. Len(count) /\ {} \in SUBSET Access
  BY CountFacts DEF Inv, MemoryInv, Seen
<1>4. CanRead(t, h)
  BY <1>1 DEF CanRead
<1>5. MemoryType' /\ MemoryInv'
  BY <1>1, <1>2, <1>3, <1>4, AccessKeepsMemory DEF Inv
<1>6. \A u \in Thread \ {t} : pc[u] \notin Critical
  BY <1>1, <1>4, NobodyElseCritical DEF Inv
<1>7. \A x \in Handle : reader'[x] # {} => at'[x] = Passed
  BY <1>2 DEF Inv, ControlInv, Owned
<1>8. pc'[t] \notin Critical /\ pc'[t] # "clone" /\ pc'[t] # "release"
  BY <1>2 DEF Critical
<1>9. pc'[t] \in {"clone", "abandon", "release"} => arg'[t] \in Handle /\ at'[arg'[t]] = t
  BY <1>1, <1>2
<1>10. \A x \in Handle : at[x] \in Thread \ {t} => at'[x] = at[x]
  BY <1>2
<1> QED
  BY <1>2, <1>5, <1>6, <1>7, <1>8, <1>9, <1>10, QuietStep

LEMMA AbandonKeepsInv ==
  ASSUME Inv, NEW t \in Thread, Abandon(t)
  PROVE  Inv'
<1> DEFINE h == arg[t]
<1>1. h \in Handle /\ at[h] = t /\ pc[t] = "abandon"
  BY DEF Abandon, Inv, ControlInv, Owned
<1>2. /\ FetchSub(t) /\ at' = [at EXCEPT ![h] = Dead] /\ reader' = reader
      /\ \A u \in Thread \ {t} : pc'[u] = pc[u] /\ arg'[u] = arg[u]
      /\ pc'[t] = "idle"
      /\ ControlType'
  BY <1>1 DEF Abandon, Goto, Return, Inv, TypeOK, ControlType, Pc
<1> HIDE DEF h
<1>3. MemoryType' /\ MemoryInv'
  BY <1>1, <1>2, DropKeepsMemory DEF Inv, ControlInv
<1>4. CanRead(t, h)
  BY <1>1 DEF CanRead
<1>5. \A u \in Thread \ {t} : pc[u] \notin Critical
  BY <1>1, <1>4, NobodyElseCritical DEF Inv
<1>6. \A x \in Handle : at[x] \in Thread \ {t} => at'[x] = at[x]
  BY <1>1, <1>2 DEF Inv, TypeOK
<1>7. \A x \in Handle : reader'[x] # {} => at'[x] = Passed
  BY <1>1, <1>2, OrderAssumption DEF Inv, TypeOK, ControlInv, Owned
<1>8. pc'[t] \notin Critical /\ pc'[t] \notin {"clone", "abandon", "release"}
  BY <1>2 DEF Critical
<1> QED
  BY <1>2, <1>3, <1>5, <1>6, <1>7, <1>8, QuietStep

LEMMA WriteKeepsInv ==
  ASSUME Inv, NEW t \in Thread, Write(t)
  PROVE  Inv'
<1> DEFINE h == arg[t]
<1>1. /\ h \in Handle /\ at[h] = t /\ pc[t] = "write"
      /\ \A x \in Handle : at[x] \in {Dead, t}
      /\ \A u \in Thread \ {t} : Idle(u)
  BY DEF Write, Inv, ControlInv, Owned, SoleAccess
<1>2. /\ Happens(t, <<t, "write">>, {}, clock[t].seen)
      /\ count' = Without(count, <<t, "write">>)
      /\ UNCHANGED handles /\ at' = at /\ reader' = reader
      /\ \A u \in Thread \ {t} : pc'[u] = pc[u] /\ arg'[u] = arg[u]
      /\ pc'[t] = "idle"
      /\ ControlType'
  BY DEF Write, Touch, Goto, Return, handles, Inv, TypeOK, ControlType, Pc
<1> HIDE DEF h
<1>3. clock[t].seen \in clock[t].seen .. Len(count) /\ {} \in SUBSET Access
  BY CountFacts DEF Inv, MemoryInv, Seen
<1>4. CanRead(t, h)
  BY <1>1 DEF CanRead
<1>5. MemoryType' /\ MemoryInv'
  BY <1>1, <1>2, <1>3, <1>4, AccessKeepsMemory DEF Inv
<1>6. \A u \in Thread \ {t} : pc[u] \notin Critical
  BY <1>1 DEF Idle, Critical
<1>7. \A x \in Handle : reader'[x] # {} => at'[x] = Passed
  BY <1>2 DEF Inv, ControlInv, Owned
<1>8. pc'[t] \notin Critical /\ pc'[t] \notin {"clone", "abandon", "release"}
  BY <1>2 DEF Critical
<1> QED
  BY <1>2, <1>5, <1>6, <1>7, <1>8, QuietStep

LEMMA FenceKeepsInv ==
  ASSUME Inv, NEW t \in Thread, Fence(t)
  PROVE  Inv'
<1>1. /\ pc[t] = "fence" /\ Live = {}
      /\ \A u \in Thread \ {t} : pc[u] = "idle"
      /\ clock[t].seen = Len(count) /\ Len(count) > 1
      /\ Access \subseteq clock[t].knows \cup count[Len(count) - 1].rel
  BY DEF Fence, Inv, ControlInv, SoleAccess, Acquired, Live, Idle
<1>2. /\ clock[t] \in Clock /\ Len(count) - 1 \in 1 .. Len(count)
      /\ count[Len(count) - 1].rel \subseteq Access
  BY <1>1, CountFacts DEF Inv, TypeOK
<1>3. /\ clock' = [clock EXCEPT ![t].knows = @ \cup count[Len(count) - 1].rel]
      /\ UNCHANGED <<out, back, count, at, reader>>
      /\ pc' = [pc EXCEPT ![t] = "free"]
      /\ \A u \in Thread \ {t} : pc'[u] = "idle"
      /\ pc'[t] = "free"
      /\ ControlType'
  BY <1>1 DEF Fence, AcquireFence, Goto, handles, Inv, TypeOK, ControlType, Pc
<1>4. /\ clock' \in [Thread -> Clock]
      /\ clock'[t].knows = Access
      /\ \A u \in Thread : clock'[u].seen = clock[u].seen
  BY <1>1, <1>2, <1>3 DEF Inv, TypeOK, Clock
<1>5. Live' = {} /\ \A x \in Handle : at[x] = Dead
  BY <1>1, <1>3 DEF Live
<1>6. MemoryType'
  BY <1>3, <1>4 DEF Inv, TypeOK, MemoryType
<1>7. Seen' /\ Counted'
  BY <1>1, <1>3, <1>4, <1>5 DEF Inv, MemoryInv, Seen, Counted
<1>8. StaleOneSeen' /\ NothingForgotten'
  BY <1>5 DEF StaleOneSeen, NothingForgotten
<1>9. \A x \in Handle : at'[x] # Passed /\ \A u \in Thread : ~CanRead(u, x)'
  BY <1>3, <1>5, OrderAssumption DEF CanRead
<1>10. WritesKnown'
  BY <1>9 DEF WritesKnown, ReadersKnowWrites
<1>11. SoleAccess'
  BY <1>3, <1>5 DEF SoleAccess, Idle
<1>12. Owned'
  BY <1>3, <1>5 DEF Owned, Inv, ControlInv
<1>13. Acquired'
  BY <1>3, <1>4 DEF Acquired
<1> QED
  BY <1>3, <1>6, <1>7, <1>8, <1>10, <1>11, <1>12, <1>13, TypeOfPartsNext
     DEF Inv, MemoryInv, ControlInv

LEMMA FreeKeepsInv ==
  ASSUME Inv, NEW t \in Thread, Free(t)
  PROVE  Inv'
<1>1. /\ pc[t] = "free" /\ Live = {} /\ \A x \in Handle : at[x] = Dead
      /\ \A u \in Thread \ {t} : Idle(u)
  BY DEF Free, Inv, ControlInv, SoleAccess, Live
<1>2. /\ Happens(t, <<t, "write">>, {}, clock[t].seen)
      /\ count' = Without(count, <<t, "write">>)
      /\ UNCHANGED handles /\ at' = at /\ reader' = reader
      /\ \A u \in Thread \ {t} : pc'[u] = pc[u] /\ arg'[u] = arg[u]
      /\ pc'[t] = "idle"
      /\ ControlType'
  BY DEF Free, Touch, Goto, Return, handles, Inv, TypeOK, ControlType, Pc
<1>3. clock[t].seen \in clock[t].seen .. Len(count) /\ {} \in SUBSET Access
  BY CountFacts DEF Inv, MemoryInv, Seen
<1>4. MemoryType' /\ MemoryInv'
  BY <1>1, <1>2, <1>3, AccessKeepsMemory DEF Inv
<1>5. \A u \in Thread \ {t} : pc[u] \notin Critical
  BY <1>1 DEF Idle, Critical
<1>6. \A x \in Handle : reader'[x] # {} => at'[x] = Passed
  BY <1>2 DEF Inv, ControlInv, Owned
<1>7. pc'[t] \notin Critical /\ pc'[t] \notin {"clone", "abandon", "release"}
  BY <1>2 DEF Critical
<1> QED
  BY <1>2, <1>4, <1>5, <1>6, <1>7, QuietStep

-----------------------------------------------------------------------------
(* The theorems *)

LEMMA InvInit == Init => Inv
<1> SUFFICES ASSUME Init PROVE Inv
  OBVIOUS
<1>1. PICK t \in Thread, h \in Handle :
    /\ at = [x \in Handle |-> IF x = h THEN t ELSE Dead]
    /\ reader = [x \in Handle |-> {}]
    /\ out = [x \in Handle |-> NoClock]
    /\ back = [x \in Handle |-> NoClock]
    /\ count = <<[val |-> 1, rel |-> {}]>>
    /\ clock = [u \in Thread |->
                 [knows |-> IF u = t THEN Access ELSE Access \ {<<t, "write">>},
                  seen |-> 1]]
    /\ pc = [u \in Thread |-> "idle"]
    /\ arg = [u \in Thread |-> NoHandle]
  BY DEF Init
<1> DEFINE m == [val |-> 1, rel |-> {}]
<1>2. m \in Message /\ m.val = 1
  BY DEF Message
<1> HIDE DEF m
<1>3. /\ count = <<m>> /\ count \in Seq(Message) /\ Len(count) = 1 /\ count[1] = m
      /\ Last(count) = m
  BY <1>1, <1>2 DEF Last, m
<1>4. /\ \A u \in Thread : clock[u] \in Clock /\ clock[u].seen = 1
      /\ clock[t].knows = Access
      /\ NoClock \in Clock /\ NoClock.seen = 0
  BY <1>1, OrderAssumption DEF Clock, NoClock
<1>5. TypeOK
  BY <1>1, <1>3, <1>4, OrderAssumption DEF TypeOK, Pc
<1>6. Live = {h}
  BY <1>1, OrderAssumption DEF Live
<1>7. \A u \in Thread, x \in Handle : CanRead(u, x) <=> u = t /\ x = h
  BY <1>1, OrderAssumption DEF CanRead
<1>8. Seen
  BY <1>1, <1>3, <1>4 DEF Seen
<1>9. Counted
  <2>1. IsFiniteSet(Live) /\ Cardinality(Live) = 1
    BY <1>6, FS_Singleton
  <2>2. \A i \in 1 .. Len(count) - 1 : count[i].val # 0
    BY <1>3
  <2> QED
    BY <2>1, <2>2, <1>2, <1>3 DEF Counted
<1>10. StaleOneSeen
  BY <1>3 DEF StaleOneSeen
<1>11. NothingForgotten
  BY <1>4, <1>6, <1>7 DEF NothingForgotten, Remembered, HandleKnows
<1>12. WritesKnown
  <2>1. \A x \in Handle : at[x] # Passed
    BY <1>1, OrderAssumption
  <2>2. Writes \subseteq Access
    BY DEF Writes, Access
  <2> QED
    BY <2>1, <2>2, <1>4, <1>7 DEF WritesKnown, ReadersKnowWrites, Writes
<1>13. Owned /\ SoleAccess /\ Acquired
  BY <1>1 DEF Owned, SoleAccess, Acquired
<1> QED
  BY <1>5, <1>8, <1>9, <1>10, <1>11, <1>12, <1>13 DEF Inv, MemoryInv, ControlInv

LEMMA InvStep == Inv /\ [Next]_vars => Inv'
<1> SUFFICES ASSUME Inv, [Next]_vars PROVE Inv'
  OBVIOUS
<1>1. ASSUME NEW t \in Thread, NEW h \in Handle, Call(t, h)
      PROVE  Inv'
  BY <1>1, ReadKeepsInv, CopyKeepsInv, ReleaseKeepsInv, UseCountKeepsInv DEF Call
<1>2. ASSUME NEW t \in Thread, Proceed(t)
      PROVE  Inv'
  BY <1>2, CloneKeepsInv, AbandonKeepsInv, WriteKeepsInv, FenceKeepsInv, FreeKeepsInv
     DEF Proceed
<1>3. ASSUME NEW t \in Thread, NEW h \in Handle, Synchronise(t, h)
      PROVE  Inv'
  BY <1>3, PassKeepsInv, BorrowKeepsInv, GiveBackKeepsInv, TakeKeepsInv DEF Synchronise
<1>4. CASE UNCHANGED vars
  BY <1>4 DEF vars, Inv, TypeOK, MemoryInv, Seen, Counted, StaleOneSeen, HandleSaw,
     NothingForgotten, Remembered, HandleKnows, WritesKnown, ReadersKnowWrites, CanRead,
     ControlInv, Owned, SoleAccess, Acquired, Live, Idle
<1> QED
  BY <1>1, <1>2, <1>3, <1>4 DEF Next

LEMMA InvAlways == Spec => []Inv
  BY InvInit, InvStep, PTL DEF Spec

(* Clocks, messages and steps keep their types; in particular the count is  *)
(* never taken below 0.                                                     *)
THEOREM OrderTypes == Spec => []TypeOK
<1>1. Inv => TypeOK
  BY DEF Inv
<1> QED
  BY <1>1, InvAlways, PTL

(* The release of the subtraction, the relaxed addition that passes on what *)
(* it read, the acquire load and the acquire fence are enough: a thread     *)
(* that writes in place or destroys the model comes after every access of   *)
(* every other thread.                                                      *)
THEOREM NoRaceWithWriters == Spec => []WritersKnowAll
<1>1. Inv => WritersKnowAll
  BY DEF Inv, ControlInv, Acquired, WritersKnowAll
<1> QED
  BY <1>1, InvAlways, PTL

(* Whoever reads the value through a handle, its own or a lent one, comes   *)
(* after every write in place.                                              *)
THEOREM NoRaceWithReaders == Spec => []ReadersKnowWrites
<1>1. Inv => ReadersKnowWrites
  BY DEF Inv, MemoryInv, WritesKnown
<1> QED
  BY <1>1, InvAlways, PTL

(* A plain load may be stale, but not in the one way that matters: an owner *)
(* that reads 1 has read the count as it is.                                *)
THEOREM NoStaleOne == Spec => []StaleOneUnread
<1>1. Inv => StaleOneUnread
  BY OwnerReadsNoStaleOne DEF StaleOneUnread
<1> QED
  BY <1>1, InvAlways, PTL

(* A write in place and a free are made while there is no other handle and  *)
(* no other call.                                                           *)
THEOREM SoleWriter == Spec => []SoleAccess
<1>1. Inv => SoleAccess
  BY DEF Inv, ControlInv
<1> QED
  BY <1>1, InvAlways, PTL
=============================================================================
