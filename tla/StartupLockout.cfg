\* One break in the first start.
SPECIFICATION Spec
CONSTANTS
  Migrations = 1
  MaxFaults = 1
  MaxSecrets = 1
INVARIANTS AdminIsReachable
