SPECIFICATION Spec
CONSTANTS
 Byte = {0, 1, 2}
 Kind = {}
 Given <- NoInputs
 None = None
 Batch = 1
 MaxLength = 0
INVARIANT EverythingParsesBack
