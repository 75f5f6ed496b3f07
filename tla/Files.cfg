SPECIFICATION Spec
CONSTANTS
  Process = {p1, p2}
  Name = {sh, f}
  Program = sh
  Sector = {2, 3, 4, 5}
  Sizes = {1}
  DirEntries = 2
  MaxOpens = 2
  Unlocked = {"exit"}
  Nobody = Nobody
SYMMETRY Symmetry
INVARIANTS
  SectorsOwned
  OnlyKnownLeaks
  DiskConsistent
  TextUnchanged
