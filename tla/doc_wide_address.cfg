SPECIFICATION Spec
CONSTANTS
  Byte = 2
  DoneAtStart = {}
  Tpl = {4}
  Owns <- OneCallerWide
  Buffers = {}
  PoolAddrs = {}
  ClientAddrs = {2, 4}
  Sizes = {}
  Counts = {2}
  Modes = {8}
  Autos = {FALSE}
INVARIANT WideTransferHitsBuffer
