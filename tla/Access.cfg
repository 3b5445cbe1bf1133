\* One name and two registrations of it, with one or both of two principals; one
\* request to pin a host key and one to replace it, one policy for a role and one channel.
CHECK_DEADLOCK FALSE
SPECIFICATION Spec
CONSTANTS
  u1 = u1
  operator = operator
  User <- Users
  Role <- Roles
  RoleOf <- Holds
  Subject <- Roles
  Target = {t1, t2}
  Name = {"n"}
  Principal = {root, deploy}
  HostKey = {k1, k2}
  Channel = {c1}
  Trusting = {h1, h2}
  Writing = {w1}
  Replacing = {h2}
  MaxGrants = 1
SYMMETRY Interchangeable
INVARIANTS DestinationIsOne DeletedIsUnreachable PolicyFitsTarget PinIsRecorded
PROPERTIES PinIsReplacedOnDemand
