SPECIFICATION FairSpec
CONSTANTS
 BufferSize = 3
 Total = 8
INVARIANTS InOrder CompleteOnReturn AfterThrow
PROPERTY Ends
