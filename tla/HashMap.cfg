SPECIFICATION Spec
CONSTANTS
  Keys = {1, 2, 3, 4, 5}
  Values = {v1, v2}
  NoKey = NoKey
  NoValue = NoValue
  MinSize = 2
  HashCodes <- MCHashCodes
  FirstBytes <- MCFirstBytes
SYMMETRY Symmetry
INVARIANT
  WellFormed
PROPERTY
  IsDictionary
