CONSTANTS
  parser = parser
  pdf = pdf
  r1 = r1
  host = host
  Key = {k1}
  Proc = {parser, pdf}
  Holder = {d1, d2, r1}
  NoHolder = NoHolder
  ProcOf <- MCProcOf
  HostOf <- MCHostOf
  RoleOf <- MCRoleOf
  TTL = 2
  MaxAttempts = 4
SPECIFICATION FairSpec
INVARIANTS MutualExclusion LeaseInv
PROPERTIES ExclusionSpec LiveLeaseKept LeakedLeaseLapses
