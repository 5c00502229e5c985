\* After clusters() nothing is left to do.
CHECK_DEADLOCK FALSE
SPECIFICATION AllSpec
CONSTANTS
  Parts = {"unionfind", "build"}
  Chars = {c1, c2, c3, c4}
  NoChar = NoChar
  Points = {1, 2, 3, 4, 5}
  Source <- Dictionaries
  Earlier <- EarlierPairs
  NoFile = NoFile
SYMMETRY Symmetry
INVARIANTS
  AllTypeOK
  ClustersAreClasses
  LoadedIsSound
  OutputMatchesSources
PROPERTIES
  ImplementsPartition
