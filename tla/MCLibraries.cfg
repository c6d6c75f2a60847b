SPECIFICATION MCSpec
CONSTANTS
  p1 = p1
  p2 = p2
  p3 = p3
  k1 = k1
  v1 = v1
  None = None
  Blank = Blank
  Unused = Unused
  Absent = Absent
  Torn = Torn
  NoFile = NoFile
  Process = {p1, p2}
  Key = {k1, k2}
  Value = {v1, v2}
  MaxSets = 2
  LogMax = 5
  MaxLine = 3
  MaxSecond = 2
  Label = {l1, l2}
  Word = {k1, k2}
  Number = {5, 7}
  Size = 22
  MaxFields = 3
  PinUser = {p1, p2, p3}
  MaxFlips = 4
  BufSize = 52
  Width = {1, 4}
  LineLength = {1, 3}
  MaxRows = 3
  Device <- Devices
  Wanted <- Requests
INVARIANTS LogBounded LatestIsLast FieldsReadBack ExportedWhileUsed
INVARIANTS ClosedHoldsNothing FlipsInStep PlaybackStarts ReportsParse
PROPERTIES SetsAreAtomic CutShortens RestoredIsSnapshot
CHECK_DEADLOCK FALSE
