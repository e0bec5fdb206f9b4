SPECIFICATION PeriodsSpec
CONSTANTS
  Levels = {"bon", "critique"}
  Good = "bon"
  OtherKinds = {"note"}
  Bucket = 2
  GapAfter = 1
  StaleAfter = 2
  Day = 2
  Month = 4
  EventLimit = 1
  MicroSince = 1
  Threshold = 1
  PeriodFee = 3
  Bars = 3
  Speeds = {1, 2}
  ReportEvents = 2
  MaxTime = 5
  MaxChanges = 3
INVARIANTS
  StripIsTrue
CHECK_DEADLOCK FALSE
