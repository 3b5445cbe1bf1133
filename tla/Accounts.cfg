\* Two accounts with one token each, or one with two; two requests at a time; two
\* additions of one public key.
SPECIFICATION Spec
CONSTANTS
  User = {u1, u2}
  Token = {t1, t2}
  FirstUser = u1
  FirstToken = t1
  Key = {k1, k2}
  Name = {a, b}
  Label = {"laptop"}
  Fingerprint = {"f"}
  GivenRole = {"operator", "admin"}
  Caller = {c1, c2}
  Connection = {"n"}
  MaxEvents = 2
SYMMETRY Interchangeable
INVARIANTS NothingOutlivesAccount EachNamesOne EventsAreTrue
PROPERTIES RevokedIsRefused
