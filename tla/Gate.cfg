\* One connection with a channel on it, an account and its key; two registrations of one
\* name, two host keys; two changes of any of these, each at any moment. Two ticks to
\* the second, every timer of a tick or more, and any number of ticks between two steps.
\* The clock ends.
CHECK_DEADLOCK FALSE
SPECIFICATION Spec
CONSTANTS
  k1 = k1
  c1 = c1
  t1 = t1
  t2 = t2
  Key = {key}
  User = {u1}
  Target <- Targets
  HostKey = {h1, h2}
  Connection <- Connections
  Channel <- Channels
  ConnOf <- OnOne
  Accepting <- Targets
  Nobody = Nobody
  NoTarget = NoTarget
  NoPin = NoPin
  PerSecond = 2
  HandshakeTimeout = 1
  MaxAuthTries = 1
  StartTimeout = 2
  TargetTimeout = 1
  CertLifetime = 3
  ClockSkew = 2
  MaxTTL = 5
  DefaultCols = 2
  MaxDimension = 2
  Asked = {1}
  Drifts <- Offsets
  GrantTTL = 2
  FirstClock = 3
  MaxClock = 6
  MaxChanges = 2
SYMMETRY Interchangeable
INVARIANTS StartIsBounded WindowIsKept
PROPERTIES Warranted
