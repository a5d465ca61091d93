SPECIFICATION Spec
CONSTANTS
  Procs = {p1}
  Instances = {i1, i2}
  Storages = {s1, s2}
  Domains = {d1}
  Names = {na}
  Sizes = {1}
  Pools = {k1}
  PoolTotal = 1
  QuotaStorage = 2
  QuotaInstance = 2
  QuotaDomain = 1
  Grant = 0
  None = None
  Servers = {p1}
  Vms = {i1}
  Ips = {1}
  NetPools = {{1}}
  PortRows = {1}
  LocalPorts = {22}
  QuotaPort = 1
  Nobody = Nobody
INVARIANTS PoolLimit
CHECK_DEADLOCK FALSE
