SPECIFICATION Spec
CONSTANTS
 Byte = {0, 1, 2}
 Kind = {"header", "tx", "block"}
 Given <- Serialized
 None = None
 Batch = 1
 MaxLength = 11
INVARIANTS Canonical ParsesBack EqualAreSame ReservesByBatch
PROPERTY StopsOnFailure
