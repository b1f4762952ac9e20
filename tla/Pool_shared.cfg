SPECIFICATION Spec
CONSTANTS
  Slots = {s1, s2}
  Tiers = {"camoufox_proxy", "remote"}
  PoolSize = 3
  MaxBrowsers = 2
  NumProxies = 2
INVARIANTS OneBrowser NoBrowserLost NoCircularWait
PROPERTIES ProxiesTakeTurns CapturesEnd
