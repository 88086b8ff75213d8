SPECIFICATION Spec
CONSTANTS
  Contents <- MCContents
  UINT32_MAX = 12
  Base = 10
  BUFFER_SIZE = 6
  ValueRoom = 4
  Job = {1, 2}
  Descriptor = {3, 4}
  InitialFiles <- MCInitialFiles
  WriteFormats = {"unsafe_frozen_croaring", "uint32_array", "json_array"}
  ReadFormats = {"unsafe_frozen_croaring", "uint32_array", "json_array"}
  NotTaken = {0, 1}
  MaxCalls = 2
  None = None
CHECK_DEADLOCK FALSE
INVARIANTS
  TypeOK
  DescriptorsClosed
  MemoryAccounted
  BytesAreThere
  WrittenAsReported
  ReadAsWritten
PROPERTIES
  JobsEnd
