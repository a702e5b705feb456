CONSTANTS
  None = None
  Conns = {c1, c2, c3}
  Browsers = {c3}
  Writers = {c1}
  Loners = {c2}
  Tables = {1, 2}
SPECIFICATION Spec
INVARIANTS LocksOK NoWaitCycle
PROPERTIES PendingKeepsReadersOut WaitersAreWoken
