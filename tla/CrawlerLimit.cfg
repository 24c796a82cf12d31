SPECIFICATION Spec
CONSTANTS
  Urls = {u1, u2, u3}
  MaxSeeds = 2
  JobLimits = {1, 2}
  RmwKinds = {"atomic"}
  Faults = {}
  LogLevels = {1}
  u1 = u1
  u2 = u2
  u3 = u3
  u4 = u4
  Main = Main
  Parser = Parser
  None = None
SYMMETRY Symmetry
INVARIANT
  TasksLimited
