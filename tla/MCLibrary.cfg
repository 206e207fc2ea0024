SPECIFICATION LibrarySpec
CONSTANTS
  BufferSize = 3
  SampleRate = 100000
  Durations = {40}
  Quantum = 20
  SlopeDurations = {20}
  Frequencies = {1}
  Circle = 3
  Volume = 4
  Generators = {g1, g2}
  SampleRates <- MCRates
  ShortestDot = 20000
  PeriodSizes = {64, 512}
  Faults = {"open", "configure", "memory"}
  MaxProbes = 1
  FinalizationDelay = 3
  Signals = {s1}
  Callbacks = {f1}
  OtherThread = FALSE
  HashLengths = {6, 7}
  UCharMax = 255
  MaxMarks = 8
  UsecsPerSec = 4
  IntMax = 15
  MaxSec = 5
  GeneratorObjects = {g1, g2, g3}
  KeyObjects = {k0, k1, k2}
  GlobalKey = k0
  Gaps = {0, 1}
  InitialGap = 0
  Careful = TRUE
  CarefulClient = TRUE
  StatsCapacity = 3
  Units = {2, 3}
  StatDurations = {2, 5}
  StatIntMax = 15
  None = None
INVARIANTS
  TableCoversSlopes
  TablesAgree
  IntervalsAreTold
  ObjectsAgree
  StatisticsAreOfLatest
PROPERTIES
  SoundIsStreamed
  SinksAreSound
  
CHECK_DEADLOCK FALSE
