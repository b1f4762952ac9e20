SPECIFICATION Spec
CONSTANTS
  Slots = {s1}
  Tiers = {"camoufox_proxy", "remote"}
  PoolSize = 3
  MaxBrowsers = 1
  NumProxies = 2
PROPERTY FailedProxyMarked
