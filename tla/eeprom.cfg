SPECIFICATION Spec
CONSTANTS
  Byte = 8
  PAGE_SIZE = 4
  Pages = 2
  ChunkSize = 3
  Files <- SmallFiles
  Starts <- DumpStarts
  Lengths <- DumpLengths
INVARIANTS TypeOK VerifiedMeansStored LostOnlyIfUnacknowledged NoValueError
PROPERTIES NoStrayWrite ProgramEnds
