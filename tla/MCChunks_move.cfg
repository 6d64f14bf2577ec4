\* One to four ranks, no byte to a byte more than two chunks of four.
CONSTANTS
  CHUNK_SIZE = 4
  SEND_BUFFER_MAX = 8
  Jobs <- MCJobs
SPECIFICATION Spec
INVARIANTS
  ChunksTypeOK
  EachByteInItsPlace
  AllMovedAtReturn
  BufferFitsTheChunk
  LastPieceWithinLimit
