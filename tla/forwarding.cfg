SPECIFICATION Spec
CONSTANTS
  HandleCount = 2
  IsaBridge = 1
  OtherAttr = {"VGA_IO"}
CHECK_DEADLOCK FALSE
INVARIANTS TypeOK ForwardingStays ReportIsTrue PoolReturned
PROPERTIES AccessesReachBus ProgramsEnd
