SPECIFICATION Spec
CONSTANTS
  MAX_LINK_LEN = 20
  BIN_SUFFIXES <- BinSuffixes
  Null = Null
  Threads = {t1, t2}
  t1 = t1
  t2 = t2
  Sites <- MCSites
  max_depth = 0
SYMMETRY Symmetry
INVARIANTS
  TypeOK
  LinkQueuedOnce
  LevelsChain
  Complete
  TargetMeansLink
  FilesApart
CHECK_DEADLOCK FALSE
