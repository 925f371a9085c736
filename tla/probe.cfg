SPECIFICATION ProbeSpec
CONSTANTS
  Byte = 2
  DoneAtStart = {2}
  Bits <- AllBits
  FirstRegs <- Firsts
  ReadOnly = {"stat", "e4"}
  InUse = {2, 3}
  Pattern = {2, 5}
  MaskReadable = TRUE
  MaxFaults = 2
CHECK_DEADLOCK FALSE
INVARIANTS ProbeTypeOK LpcRegsRestored MasksKept DisabledOnlyAfterChannel2
PROPERTY ProgrammingKept
