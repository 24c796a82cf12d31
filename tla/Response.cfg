SPECIFICATION Spec
CONSTANTS
  Streams <- MCStreams
  Nul = Nul
  Null = Null
  READ_MAX = 7
  HTML_MAXLEN = 13
  Modules <- MCModules
  accept_types <- Accepted
INVARIANTS
  TypeOK
  ChunksAgree
  DeathCauses
  FilterHolds
  FileWhole
CHECK_DEADLOCK FALSE
