SPECIFICATION PkgSpec
CONSTANTS
  Path <- Paths
  Extension <- Extensions
  Words <- MCWords
  Patches <- MCPatches
  Programs <- MCPrograms
  Name = "toy_homebrew"
  NoFile = NoFile
  Damaged = Damaged
  None = None
INVARIANT WroteIsWhole
