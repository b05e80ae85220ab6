\* Inputs of up to three chunks of three bytes, both codecs and both kinds of
\* source.
CONSTANTS
  Source = {"bytes", "stream"}
  Size = {1, 2, 3, 4, 5, 6, 7, 8}
  BufferSize = 3
  MaxYield = 2
  MaxTrailer = 2
SPECIFICATION FairSpec
INVARIANTS TypeOK SuccessIsComplete
PROPERTIES ChunkConsumed Terminates
