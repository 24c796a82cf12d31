SPECIFICATION LiveSpec
CONSTANTS
  Urls = {u1, u2, u3, u4}
  MaxSeeds = 2
  JobLimits = {1, 2}
  RmwKinds = {"atomic", "split"}
  Faults = {}
  LogLevels = {1}
  u1 = u1
  u2 = u2
  u3 = u3
  u4 = u4
  Main = Main
  Parser = Parser
  None = None
INVARIANTS
  JobsBounded
  TasksBounded
  OurlHasTaker
PROPERTIES
  CrawlEnds
