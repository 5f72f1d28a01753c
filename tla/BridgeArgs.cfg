SPECIFICATION ArgsSpec
CONSTANTS
  Abis = {"arm64", "arm64 M", "arm32 soft", "arm32 hard", "arm32 S", "x86"}
  CR_SIZE = 4
  FPR_SIZE = 4
  MAX_PARAMS = 5
INVARIANTS
  ArgsTypeOK
  ArgsAreThePassed
