SPECIFICATION Spec
CONSTANTS
  Byte = 2
  DoneAtStart = {1}
  Tpl = {4}
  Owns <- OneCallerNarrow
  Buffers = {}
  PoolAddrs = {}
  ClientAddrs = {4}
  Sizes = {}
  Counts = {2}
  Modes = {8}
  Autos = {FALSE}
PROPERTY ReportedInactiveIsStopped
