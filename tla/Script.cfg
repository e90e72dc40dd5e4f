SPECIFICATION Spec
CONSTANTS
 Radix = 16 PushData1 = 4 MaxSmall = 2 WordBytes = 2
 OpReturn = 11 OpHash160 = 12 OpEqual = 13 OpCheckSigAdd = 14
 ScriptLimit = 40 ElementLimit = 20
 MinProgram = 2 MaxProgram = 3 KeyHash = 2 ScriptHash = 3
 Given <- EmptyOrLong
 Code = {0, 2, 5, 9, 13, 15} Data <- Pushed Number <- Int64
 Suffix <- Appended Garbage = {0, 15}
 MaxLength = 2
 None = None Unknown = Unknown
INVARIANTS TypeOK Partition PredicatesAgree Templates ReadsBack
