SPECIFICATION RawSpec
CONSTANTS
  Byte = 2
  DoneAtStart = {1}
  Tpl = {4}
  Owns <- ChannelOne
  Buffers = {1}
  PoolAddrs = {7, 9}
  ClientAddrs = {}
  Sizes = {0, 2}
  Counts = {0, 2}
  Modes = {8}
  Autos = {TRUE, FALSE}
  ClientTpl = 8
  Ports = {3, 8, 12, 128, 255, 256}
  Widths = {1, 2, 4, 8}
  Devices = {1}
  Commands = {1}
  MaxAccesses = 1
INVARIANTS RawTypeOK HarmIsLocal
PROPERTY TasksUnlessDisturbed
