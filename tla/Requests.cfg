\* A request of any route and a session with any use of the store, each again and again;
\* lists of up to two rows, two attempts. The process may go down for good.
CHECK_DEADLOCK FALSE
SPECIFICATION Spec
CONSTANTS
  r1 = r1
  s1 = s1
  MaxRows = 2
  Attempts = 2
  Request = {r1}
  Session = {s1}
  Asks <- AnyRoute
  Uses <- AnyUse
  Nobody = Nobody
INVARIANTS AnswerIsTrue RecordsAgree
PROPERTIES NoLateChange EverybodyIsServed
