SPECIFICATION Spec
CONSTANTS
  ChunkSize = 5
  DEFAULT_MAX_SIZE = 2
  WordBits = 2
  ValueBytes = 2
  RunHeaderBytes = 1
  RunBytes = 2
  ARRAY_LAZY_LOWERBOUND = 2
  XorThreshold = 2
  AndNotThreshold = 1
  KeyCount = 2
  NO_OFFSET_THRESHOLD = 2
  MAX_SERIALIZATION_ARRAY_SIZE_IN_BYTES = 30
  NaN = NaN
  Undefined = Undefined
  Lists <- MCLists
  Ranges <- MCRanges
  Steps <- MCSteps
  Offsets <- MCOffsets
  Operands <- MCOperands
  Numbers <- MCNumbers
  kChunkSize = 2
  Companions <- MCCompanions
INVARIANTS
  TypeOK
  WellFormed
  QueriesAgree
  RangesAgree
  ArraysAgree
  ComparisonsAgree
  FormatsRoundTrip
PROPERTIES
  ImplementsIntegerSet
