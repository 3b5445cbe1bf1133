\* Events of two, two, three and five cells, in every order and torn anywhere; a window of
\* six cells and lines of less than four. All events recorded, the writer stops.
CHECK_DEADLOCK FALSE
SPECIFICATION ReaderSpec
CONSTANTS
  short1 = short1
  short2 = short2
  middle = middle
  long = long
  Entry <- Events
  Size <- Sizes
  Window = 6
  LineCap = 4
  MaxTail = 2
  DefaultLimit = 2
  Reader = {r1}
  Limit = {0, 1, 3}
  Unset = Unset
INVARIANTS AnswerIsNewest UnreadableForAReason
