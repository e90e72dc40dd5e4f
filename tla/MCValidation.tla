---------------------------- MODULE MCValidation -----------------------------
(* The two nodes that use the verifier.  They share no state, as the        *)
(* verifier keeps none: in a behaviour one of the two is at work.           *)
EXTENDS Verifier, ScriptVerifier

VARIABLE node   \* which of the two

(* The one that rests is in one of its initial states. *)
NodesInit ==
  /\ Init /\ TxInit
  /\ \/ node = "chain" /\ asserts /\ inputs = 1 /\ flags = {} /\ spent = 0
        /\ sound /\ valid = {}
     \/ node = "transaction" /\ chain = <<>> /\ now = CHOOSE t \in Time : TRUE

NodesNext ==
  /\ UNCHANGED node
  /\ \/ node = "chain" /\ Next /\ UNCHANGED txVars
     \/ node = "transaction" /\ TxNext /\ UNCHANGED vars

NodesSpec == NodesInit /\ [][NodesNext]_<<vars, txVars, node>>
=============================================================================
