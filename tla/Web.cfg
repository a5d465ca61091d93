SPECIFICATION Spec
CONSTANTS
  Procs = {p1, p2}
  Instances = {i1, i2, i3}
  Storages = {s1, s2, s3}
  Domains = {d1, d2, d3}
  Names = {na, nb, nc}
  Sizes = {1, 2}
  Pools = {k1}
  PoolTotal = 2
  QuotaStorage = 1
  QuotaInstance = 0
  QuotaDomain = 1
  Grant = 1
  None = None
  Servers = {p1, p2}
  Vms = {i1, i2, i3}
  Ips = {1, 2, 3}
  NetPools = {{1}, {2, 3}}
  PortRows = {1, 2}
  LocalPorts = {22}
  QuotaPort = 2
  Nobody = Nobody
SYMMETRY Sym
INVARIANTS QTypeOK StorageOvershoot StoragePerInstance DomainOvershoot InstanceOvershoot DeleteLeaves NTypeOK ConfigMatches NetworkOvershoot MappingIsServed DeletedHasNoVhost
CHECK_DEADLOCK FALSE
