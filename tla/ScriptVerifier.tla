--------------------------- MODULE ScriptVerifier ---------------------------
(***************************************************************************)
(* verifier::operator() for transactions and for scripts                   *)
(* (src/validate_transaction.cpp, src/validate_script.cpp), and a node     *)
(* that decides by it whether to accept a transaction: it has the          *)
(* transaction checked, and then the script of every input in turn, with   *)
(* the same flags and the same spent outputs each time.                    *)
(*                                                                         *)
(* CheckTransaction and VerifyScript are the Bitcoin kernel's, which is    *)
(* not part of the repository: what they say of a transaction is arbitrary *)
(* and the same at every call.                                             *)
(***************************************************************************)
EXTENDS Integers

CONSTANT MaxInputs   \* bound: inputs of a transaction, and spent outputs given

ASSUME ScriptVerifierAssumption == MaxInputs \in Nat \ {0}

VARIABLES
  asserts,  \* whether the build has assertions
  inputs,   \* the number of inputs of the transaction
  flags,    \* the validation_flags of every call
  spent,    \* the number of spent outputs given; 0 without prevouts
  sound,    \* whether the kernel's CheckTransaction accepts the transaction
  valid,    \* the inputs whose script the kernel's VerifyScript accepts
  next,     \* the input the node asks about next
  outcome   \* what has become of the transaction, for the node

args == <<asserts, inputs, flags, spent, sound, valid>>
txVars == <<args, next, outcome>>

(* Bits of validation_flags: dersig stands for those this code has no rule  *)
(* about; cleanstack is a bit of the kernel's that is not in the interface. *)
All == {"p2sh", "dersig", "witness", "taproot"}
Flags == All \cup {"cleanstack"}

TxInit ==
  /\ asserts \in BOOLEAN
  /\ inputs \in 1 .. MaxInputs
  /\ flags \in SUBSET Flags
  /\ spent \in 0 .. MaxInputs
  /\ sound \in BOOLEAN
  /\ valid \in SUBSET (0 .. inputs - 1)
  /\ next = 0
  /\ outcome = "asked"

-----------------------------------------------------------------------------
(* The overloads *)

(* is_valid_flag_combination *)
ValidFlagCombination(f) ==
  /\ "cleanstack" \in f => {"p2sh", "witness"} \subseteq f
  /\ "witness" \in f => "p2sh" \in f

(* prevouts.size() == tx_to.inputs().size(), when taproot is set *)
HasPrevouts(f, n) == "taproot" \in f => n = inputs

Stop(result) ==
  /\ outcome' = result
  /\ UNCHANGED <<args, next>>

(* verify(transaction) *)
VerifyTransaction ==
  /\ outcome = "asked"
  /\ Stop(IF sound THEN "checked" ELSE "rejected")

(* The two assertions at the head of verify(script, ...) *)
Asserted == next < inputs /\ flags \subseteq All

Abort ==
  /\ outcome = "checked"
  /\ asserts /\ ~Asserted
  /\ Stop("aborted")

(* The two std::invalid_argument *)
Throw ==
  /\ outcome = "checked"
  /\ asserts => Asserted
  /\ ~ValidFlagCombination(flags) \/ ~HasPrevouts(flags, spent)
  /\ Stop("thrown")

(* VerifyScript on the script of input next: a failure is a status, and the *)
(* node goes on to the next input, or is done.                              *)
EvaluateScript ==
  /\ outcome = "checked"
  /\ asserts => Asserted
  /\ ValidFlagCombination(flags) /\ HasPrevouts(flags, spent)
  /\ \/ next \notin valid /\ Stop("rejected")
     \/ /\ next \in valid
        /\ next' = next + 1
        /\ outcome' = IF next + 1 = inputs THEN "accepted" ELSE "checked"
        /\ UNCHANGED args

(* An exception may leave any call, also a late one: every call converts    *)
(* the transaction, one for taproot takes the size of the caller's range of *)
(* spent outputs and copies them, and either may throw; so may making the   *)
(* std::invalid_argument.  Only what stands before the assertions cannot.   *)
MayThrow ==
  \/ outcome = "asked"
  \/ outcome = "checked" /\ (asserts => Asserted)

(* Fault: an exception is caught and reported as a failure. *)
InterruptedAsFailure == MayThrow /\ Stop("rejected")

Interrupted == MayThrow /\ Stop("interrupted")

(* The verifier has kept nothing: the node starts over.                     *)
AskAgain ==
  /\ outcome = "interrupted"
  /\ outcome' = "asked" /\ next' = 0
  /\ UNCHANGED args

TxNext ==
  \/ VerifyTransaction \/ Abort \/ Throw \/ EvaluateScript
  \/ Interrupted \/ AskAgain

TxSpec == TxInit /\ [][TxNext]_txVars

-----------------------------------------------------------------------------
(* Properties *)

(* "An exception indicates a true failure, not a negative verification      *)
(* result" (spec/VALIDATION.md).  Whatever calls were interrupted, and      *)
(* however often the node has started over, what it decides in the end is   *)
(* what the kernel says of the transaction and of each of its scripts.      *)
VerdictIsTheKernels ==
  /\ outcome = "accepted" => sound /\ valid = 0 .. inputs - 1
  /\ outcome = "rejected" => ~sound \/ valid # 0 .. inputs - 1
=============================================================================
