\* A file of five bytes; buffers that are too small, just large enough and larger.
CONSTANTS
  Size = 5
  Segments <- MCSegments
  BufferSizes = {4, 5, 7}
  RXDESCS = 3
  MaxFaults = 1
  None = None
SPECIFICATION FairStreamSpec
INVARIANTS SpacesExact DataIntact ResponseCovered ReturnsWhole
PROPERTY StreamCompletes
CHECK_DEADLOCK FALSE
