SPECIFICATION AssemblySpec
CHECK_DEADLOCK FALSE
CONSTANTS
  B = 4
  MemSize = 16
  Token <- Tokens
  Literal <- Numbers
  File <- Files
  Main = "<memory>"
  Sources <- MCSources
  MaxOpen = 3
  Registers = 4
  Near = 1
  Far = 16
  OrWords <- BitOr
INVARIANTS AsmTypeOK ResolvedAlike WordsAsWritten LabelsArrive
PROPERTIES NothingLost DataContinues AssemblyEnds AssemblyShrinks
