SPECIFICATION ProgramsSpec
CONSTANTS
  QueueCapacity = 3
  WindowSize = 3
  Keys = {"a", "b", "x"}
  Sendable = {"a", "b"}
  DictionaryWords <- MCWords
  GroupSize = 1
  Modes <- MCModes
  MaxPracticeTime = 2
  WindowNames = {v1, v2}
  Speeds = {1, 2}
  MaxQueued = 1
  NoWindow = NoWindow
  Careful = TRUE
  Whole = TRUE
  Undivided = TRUE
  CharacterTones = 3
  Tidy = TRUE
  Programs = {"cw", "cwcp"}
  Words <- MCOptions
  MaxWords = 2
  Lines <- MCLines
  MaxLines = 4
  DefaultWords <- MCDefault
  LineWidth = 3
  Options <- MCGroupOptions
  MaxOptions = 3
  MaxGroups = 2
  DefaultCharset = {"A", "1"}
  DefaultSize = 2
  TextLength = 6
  CharacterSizes = {3, 5}
  InitialCount = 3
  CharactersToEnqueue = 2
  LowLevel = 5
  Prompt = TRUE
  MemorySize = 3
  MaxElements = 3
  MaxSamples = 13
  MaxText = 6
  Representations <- MCRepresentations
  ReceivedLetters = {"P", "Q"}
  Lower <- MCLower
  SentTexts <- MCSent
  ReceivedSize = 8
  AcceptableRate = 34
  AcceptableIndex = 1
  RangeMin = 2
  RangeMax = 9
  RangeStep = 3
  Plateaus = {0, 2}
  Intervals = {0, 2}
INVARIANTS
  WindowsShareLibrary
  OptionsAreHonoured
  DictionariesAreKept
  ElementsAreRight
  
PROPERTIES
  TutorIsSound
  KeysBecomeText
  StreamIsSent
  LegacyTextArrives
CHECK_DEADLOCK FALSE
