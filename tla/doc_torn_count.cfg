SPECIFICATION Spec
CONSTANTS
  Byte = 2
  DoneAtStart = {}
  Tpl = {4}
  Owns <- OneCallerNarrow
  Buffers = {}
  PoolAddrs = {}
  ClientAddrs = {4}
  Sizes = {}
  Counts = {1, 2}
  Modes = {8}
  Autos = {FALSE}
INVARIANT RemainingWithinTransfer
