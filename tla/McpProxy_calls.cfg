SPECIFICATION ProxySpec
CONSTANTS
  p1 = p1  p2 = p2  a = a  b = b
  pathF = pathF  pathG = pathG  f = f  g = g
  Process = {p1, p2}
  Agent = {a, b}
  AgentOf <- TwoAgents
  Surface = {pathF, pathG}
  File = {f, g}
  Covers <- Owned
  Overlap <- Clash
  RequestedId = {}
  Lifetime <- Lives
  BadTtl = BadTtl
  NoClaim = NoClaim
  MaxSkew = 1
  MaxTime = 2
  MaxClaims = 2
  Name <- Names
  LowerOf <- Lower
  Key <- Keys
  Configurations <- Configs
  Request <- Calls
  HasLog = TRUE
  MaxLog = 1
  NoRequest = NoRequest
  NoWrite = NoWrite
INVARIANTS WritesUnderLease AuditLogBounded
PROPERTIES TimelyWritesInOrder
CHECK_DEADLOCK FALSE
