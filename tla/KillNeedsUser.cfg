\* Sessions are used once: with all of them over, nothing more happens.
CHECK_DEADLOCK FALSE
SPECIFICATION PatientSpec
CONSTANTS
  s1 = s1
  a1 = a1
  NoSession = NoSession
  Session = {s1}
  Admin = {a1}
  ObjectStore = FALSE
  Faults <- Nothing
PROPERTIES KilledSessionEnds
