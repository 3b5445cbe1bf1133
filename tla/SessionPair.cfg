\* Two sessions side by side, a kill, targets and uploads that may fail, and crashes.
SPECIFICATION Spec
CONSTANTS
  s1 = s1
  s2 = s2
  a1 = a1
  NoSession = NoSession
  Session = {s1, s2}
  Admin = {a1}
  ObjectStore = TRUE
  Faults <- Recordable
SYMMETRY Symmetry
INVARIANTS NoPhantomRows ClosedEventIsComplete
PROPERTIES UnrecordedOnlyIfCut
