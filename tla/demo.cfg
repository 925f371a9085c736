SPECIFICATION DemoSpec
CONSTANTS
  Byte = 4
  DoneAtStart = {1}
  Tpl = {4}
  Owns <- DemoOwns
  Buffers = {1}
  PoolAddrs = {14, 16, 60, 64, 260}
  ClientAddrs = {}
  Sizes = {8}
  Counts = {6}
  Modes = {8}
  Autos = {FALSE}
  App = 4
  DmaBuf = 1
  DemoSize = 8
  DemoCount = 6
  DemoPolls = 3
INVARIANTS DemoTypeOK TransfersFollowBuffer CompletionNotLost EndsClean FooledOnceAtMost
PROPERTY DemoEnds
