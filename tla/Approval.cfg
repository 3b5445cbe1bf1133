\* Two requests with overlapping grants, decided and queried concurrently: of less
\* than a second, of one that ends inside the clock, and of one that outlasts it.
SPECIFICATION Spec
CONSTANTS
  a1 = a1
  c1 = c1
  c2 = c2
  op = op
  r1 = r1
  r2 = r2
  sc1 = sc1
  NoRequest = NoRequest
  User = {op, a1}
  Admin = {a1}
  Request = {r1, r2}
  Scope = {sc1}
  Caller = {c1, c2}
  TTL = {1, 2, 4}
  Second = 2
  PendingWindow = 2
  MaxTime = 3
SYMMETRY Symmetry
INVARIANTS DecisionIsWarranted EventsMatchRows
PROPERTIES DecidedOnce LongestGrantAnswers
