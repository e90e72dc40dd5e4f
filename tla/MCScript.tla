------------------------------ MODULE MCScript ------------------------------
EXTENDS Script

(* All scripts of up to 3 bytes, and longer ones of the bytes with a role:  *)
(* lengths, the push opcodes, small integers and those of the templates.    *)
Roles == {0, 2, 3, 4, 5, 6, 9, 12, 13, 15}
AnyScript == BoundedSeq(Byte, 3) \cup SeqOf(Roles, 5)

(* Those, but of the scripts that are short enough to be appended to only   *)
(* the empty one: the iterator comes to all others behind a first opcode.   *)
EmptyOrLong == {s \in AnyScript : Len(s) \notin 1 .. 2}

Nothing == {<< >>}

(* Zeros, and bytes that look like instructions. *)
Fill(n, b) == [i \in 1 .. n |-> b]
Pushed == {Fill(n, b) : n \in {0, 1, 2, 3, 4, 15, 16, 255, 256}, b \in {0, 6}}

(* A whole instruction, and one that takes what follows as its immediate. *)
Appended == {<<12>>, <<0, 3>>}
=============================================================================
