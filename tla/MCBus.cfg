SPECIFICATION Spec
CONSTANTS
  B = 4
  ByteBits = 2
  ByteAnd <- TwoBitAnd
  ByteOr <- TwoBitOr
  ByteXor <- TwoBitXor
  MemSize = 168
  MmioBase = 64
  MmioSize = 72
  Registers = 4
  LINK_REGISTER = 2
  STACK_POINTER = 3
  Decode <- DecodeTable
  VectorBase = 32
  VectorStride = 8
  Programs <- WindowPrograms
  Patches <- WindowPatches
  BreakpointSets <- NoBreaks
  Limits <- BusLimits
INVARIANTS TypeOK AccessInMemory
PROPERTIES FrameHolds NoStrayWrite StoreReadsBack CompareOrders ProgramIsStored
