SPECIFICATION Spec
CONSTANTS
  Threads = {t1, t2}
  Keys = {k1, k2}
  NoKey = NoKey
  None = None
  HASH_FUNC_NUM = 2
  BLOOM_SIZE = 2
  BITSIZE_PER_BLOOM = 2
  HashFunctions <- MCHashFunctions
INVARIANTS
  TypeOK
  AnswerExact
  TableExact
PROPERTY
  Refines
