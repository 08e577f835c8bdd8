SPECIFICATION Spec
CHECK_DEADLOCK FALSE

CONSTANTS
  K <- MCK
  MinObs = 2
  Rich <- MCRich
  DayBars <- MCDayBars
  VolWindow = 2
  MaxBars = 4
  MaxEdits = 1
  Target <- MCTarget
  CycleSet <- MCCycles
  MaxCycles = 3
  StrikeStep = 5
  WingStrikes = 2
  IvMin = 5
  IvMax = 60
  ProfitTarget <- MCHalf
  StopLoss = 2
  TimeStop = 1
  TargetDelta = 16
  CloseSlip = 1
  Costs = 1
  Capital = 100
  MinTrades = 2
  Weeks = 3
  OpenDays = {0, 1, 3}
  MaxHolidays = 2
  PreDay = 3
  PostDay = 1
  CutoverDay = 14
  NoVix = {8}
  Warm = 1
  RecordedFrom = 7
  MaxObs = 2
  IvTolerance = 1
  EntryDte = 3
  WeekSet <- MCWeeks
  Names <- MCNames
  MaxPlaced = 3
  SpanPct <- MCSpan
  SlipPart = 4
  DaySet <- MCDays
  MaxTable = 4
  RoutedSet <- MCRouted
  MaxRouted = 2
  MaxReports = 2
  MaWindow = 2
  RankMin = 2
  AllowedSets <- MCAllowed
  SurfaceSet <- MCSurface
  MaxSurface = 4
  PutDelta = 12
  CallDelta = 18
  PutWings = 3
  CallWings = 2
  NearDelta = 30
  FarOffset = 2
  IvFloor = 1
  IvCeil = 60
  TakeSet <- MCTakes
  OtherSet <- MCOthers
  MaxTakes = 3
  MaxOthers = 2
  MinOos = 1
  BlockLen = 2
  TrialBar <- MCBar
  Listed = {1, 2}
  BarSet <- MCBars
  Minutes = 3
  MaxDays = 2
  Grids <- MCGrids
  Equity = 60
  TradePart = 10
  DayPart = 8
  WeekPart = 5
  NotionalPart = 1
  AdvPart = 3
  MinStop = 1
  SlipTick = 1
  Fee = 1
  MaxPositions = 2
  MaxOrders = 2
  Stops = {2}
  MaxEntries = 2
  OptionBars <- MCQuotes
  LastMinute = 7
  EodExit = 6
  NoNewEntry = 5
  WarmUp = 1
  StopPct <- MCStop
  TargetPct <- MCTargetUp
  TrailPct <- MCTrail
  TimeStopMin = 2
  HalfSpread = 1
  SlipPct <- MCSlip
  ScalpFee = 1
  MaxScalps = 3

INVARIANTS VolsAgree CondorRunSound CyclesSound StrategiesSound RoutersSound EdgeSound ReplaysSound
