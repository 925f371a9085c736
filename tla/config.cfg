SPECIFICATION ConfigSpec
CONSTANTS
  Byte = 256
  PAGE_SIZE = 4
  Pages = 6
  ChunkSize = 16
  Files = {}
  Starts = {}
  Lengths = {}
  Fixed <- FixedRegisters
  IoSpaces = 1
  MemSpaces = 1
  Options <- SmallOptions
  LineLength = 7
  MaxFaults = 1
INVARIANTS ConfigTypeOK BootsAsGenerated OptionsTakeEffect
