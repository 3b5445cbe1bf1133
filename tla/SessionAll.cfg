\* Every fault but a row that cannot be closed, two kills: what no failure can break, and that
\* sessions end and their rows are closed, whether or not the target's shell ever ends.
SPECIFICATION LiveSpec
CONSTANTS
  s1 = s1
  a1 = a1
  a2 = a2
  NoSession = NoSession
  Session = {s1}
  Admin = {a1, a2}
  ObjectStore = TRUE
  Faults <- Closable
INVARIANTS ShellIsAccounted StoredCopyIsFinal
PROPERTIES MissedKillLeavesNoShell PromiseKept KilledSessionEnds OpenRowIsClosed
