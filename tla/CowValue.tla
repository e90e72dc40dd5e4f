------------------------------ MODULE CowValue ------------------------------
(***************************************************************************)
(* What copy_on_write promises: handles are independent values.  There is  *)
(* no sharing, no count and no allocator here: a copy is the value its     *)
(* source had when it was taken, and a call changes the handle it is made  *)
(* on (and the source it moves from or swaps with), never another one.     *)
(***************************************************************************)
CONSTANTS Thread, Handle, Value, Null, Dead, Nothing

VARIABLES
  val,   \* val[h]: a value, Null (valueless after move) or Dead (no object)
  pend   \* pend[t]: the handle a call will set and to what, or Nothing

Init == /\ val = [h \in Handle |-> Dead]
        /\ pend = [t \in Thread |-> Nothing]

Pend(t, h, w) ==
  /\ pend[t] = Nothing
  /\ pend' = [pend EXCEPT ![t] = <<h, w>>]

Make(h) == /\ val[h] = Dead
           /\ \E v \in Value : val' = [val EXCEPT ![h] = v]
           /\ UNCHANGED pend

MoveMake(h, x) == /\ val[h] = Dead /\ val[x] # Dead
                  /\ val' = [val EXCEPT ![h] = val[x], ![x] = Null]
                  /\ UNCHANGED pend

Copy(t, h, x) == val[x] # Dead /\ Pend(t, h, val[x]) /\ UNCHANGED val

Move(t, h, x) == /\ h # x /\ val[x] # Dead
                 /\ Pend(t, h, val[x])
                 /\ val' = [val EXCEPT ![x] = Null]

Fresh(t, h) == \E v \in Value : Pend(t, h, v) /\ UNCHANGED val

Clear(t, h) == \E w \in {Null, Dead} : Pend(t, h, w) /\ UNCHANGED val

(* A call moving from x with an unequal allocator resets x when it is done. *)
Commit(t) ==
  /\ pend[t] # Nothing
  /\ val' = [val EXCEPT ![pend[t][1]] = pend[t][2]]
  /\ \E p \in {Nothing} \cup (Handle \X {Null}) : pend' = [pend EXCEPT ![t] = p]

Write(h) == /\ val[h] \in Value
            /\ \E v \in Value : val' = [val EXCEPT ![h] = v]
            /\ UNCHANGED pend

Swap(h, x) == /\ Dead \notin {val[h], val[x]}
              /\ val' = [val EXCEPT ![h] = val[x], ![x] = val[h]]
              /\ UNCHANGED pend

Next ==
  \/ \E h \in Handle : Make(h) \/ Write(h)
  \/ \E h, x \in Handle : MoveMake(h, x) \/ Swap(h, x)
  \/ \E t \in Thread, h, x \in Handle : Copy(t, h, x) \/ Move(t, h, x)
  \/ \E t \in Thread, h \in Handle : Fresh(t, h) \/ Clear(t, h)
  \/ \E t \in Thread : Commit(t)

Spec == Init /\ [][Next]_<<val, pend>>
=============================================================================
