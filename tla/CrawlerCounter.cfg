SPECIFICATION Spec
CONSTANTS
  Urls = {u1, u2, u3}
  MaxSeeds = 2
  JobLimits = {2}
  RmwKinds = {"split"}
  Faults = {}
  LogLevels = {1}
  u1 = u1
  u2 = u2
  u3 = u3
  u4 = u4
  Main = Main
  Parser = Parser
  None = None
SYMMETRY Symmetry
INVARIANT
  CounterKept
