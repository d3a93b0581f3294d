\* One thread for two calls; every operation settles.
CONSTANTS
  Call = {c1, c2}
  PoolSize = 1
SPECIFICATION FiniteSpec
PROPERTY CallEnds
