SPECIFICATION SinkSpec
CONSTANTS
  Path = {p, q, r}
  NoPath = NoPath
INVARIANTS DisabledIsSilent
