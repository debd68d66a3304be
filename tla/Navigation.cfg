SPECIFICATION NavSpec
CONSTANTS
  CellSize = 2
  GridCells = 2
  Capacity = 3
  Matches = 2
  InitMapSize = 2
  FewPoints = 1
  SleepScans = 1
  Priors <- PriorMaps
  TakenScans <- GroupedScans
  Moves <- Shifts
  MaxTaken = 3
  LastStamp = 3
  MaxRewinds = 1
  QueueBound = 2
  Speed = 2
  Listeners = 2
  Converter = "to_scan"
  Half = 5
  View = 4
  Unit = 2
  Drive <- DrivenPlaces
  Returns <- ReturnedPoints
  UpdateThre = 2
  TimeThre = 3
  Decay = 2
  NoDecayDis = 2
  ClearingDis = 3
  Stamps <- CloudStamps
  PlanarWidth = 7
  MinRelZ = 0
  MaxRelZ = 9
  QuantileNum = 1
  QuantileDen = 3
  LimitGroundLift = TRUE
  MaxGroundLift = 1
  MinBlockPointNum = 2
  MinDyObsPointNum = 1
  VehicleHeight = 3
  NoDataBlockSkipNum = 2
  Reach = 3
  TerrainUnderVehicle = 3
  TerrainConnThre = 3
  CeilingFilteringThre = 3
  Clouds <- AnalysedClouds
  ExtClouds <- SteppedRows
  Res = 2
  WindowSize = 6
  ZVoxels = 2
  MarkThreshold = 0
  MinHeight <- MinusOne
  MaxHeight = 3
  MinIntensity = 1
  MaxIntensity = 2
  MinRange = 1
  MaxRange = 9
  FootprintHalf = 1
  InflationRadius = 1
  Places <- RobotPlaces
  Observed <- ObservedClouds
  Candidates = 8
  MinObs = 2
  OccThreshold = 50
  TrackingTimeout = 1
  StartTime = 2
  LastTime = 5
  LocalMaps <- LocalArcs
  GlobalMaps <- GlobalArcs
  Plans <- UTurn
  Sways <- Straying
  Stride = 1
  HalfX = 3
  HalfY = 3
  Blocks <- Walls
  SearchDist = 3
  Looks = {1, 2}
  MaxLook = 2
  SamplePoints = 3
  Kp = 2
  Ki = 1
  Kd = 0
  VMax = 4
  VMin <- MinusOne
  MaxSum = 1
  RatioNum = 1
  RatioDen = 2
  Rate = 1
  MinApproach = 1
  ApproachDist = 3
  Launches <- TriedLaunches
  MaxCrashes = 1
  Configs <- MockConfigs
  Typed <- TypedHp
  Rates = {5, 500}
  Outputs = {"spin"}
  Payloads = {"on"}
  StaleAfter = 1
  LastSecond = 4
  Topics = {"a"}
  Types = {"t"}
  Distances = {1, 2}
  Buttons = {"undo"}
  MaxClicks = 3
INVARIANTS
  MapKeepsUp
  SpeedIsTrue
  TerrainIsSound
  CostmapShowsLayer
  AttackIsSound
  PursuitIsSafe
  WiringIsComplete
  MockIsTruthful
  ClickRestoresAgreement
PROPERTIES
  ConverterFollows
  StopsWithoutManager
CHECK_DEADLOCK FALSE
