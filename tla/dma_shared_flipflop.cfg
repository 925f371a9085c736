SPECIFICATION Spec
CONSTANTS
  Byte = 2
  DoneAtStart = {}
  Tpl = {4, 8}
  Owns <- SameController
  Buffers = {}
  PoolAddrs = {}
  ClientAddrs = {6}
  Sizes = {}
  Counts = {2}
  Modes = {8}
  Autos = {FALSE}
INVARIANT RegistersMatchRecord
