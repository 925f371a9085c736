SPECIFICATION Spec
CONSTANTS
  Byte = 2
  DoneAtStart = {1, 5}
  Tpl = {4, 8}
  Owns <- OwnController
  Buffers = {}
  PoolAddrs = {}
  ClientAddrs = {6}
  Sizes = {}
  Counts = {3}
  Modes = {8, 200}
  Autos = {FALSE}
INVARIANTS TypeOK MaskedWhileRewritten RegistersMatchRecord EnabledOnlyIfProgrammed OpenIsServed CountdownKeepsEnd
PROPERTIES ImplementsTasks OtherChannelsUntouched OnlyStartEnables
