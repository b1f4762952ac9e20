\* One worker's loops, another worker's verdicts, proxies and frontends that
\* come and go.
SPECIFICATION Spec
CONSTANTS
  NumProxies = 2
  Datacenter = {2}
  Reverify = 1
  Kept = 1
  Batch = 1
  Threshold = 2
  Static = {1}
  Registry = {2}
  MaxFaults = 1
CHECK_DEADLOCK FALSE
PROPERTIES DeadProxyDropped PoolRefills FrontendsReverified LoopsStop
