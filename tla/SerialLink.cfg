SPECIFICATION NodesSpec
CONSTANTS
  SOF = sof
  EOF = eof
  Byte = {sof, eof, data}
  FrameSize = 4
  MaxChunk = 3
  Chunks <- ShortChunks
  MaxBytes = 8
  Angles = 7
  Ahead = 4
  MaxCmds = 4
  Yaws = {0}
  SpinSpeeds = {0}
  MaxPlans = 2
  OdomAlive = TRUE
  SpinValues = {0}
  Postures = {3}
  Goals = {"g1", "g2", "g3"}
  Place <- PlaceOf
  Modes = {"manual_pose", "hold", "succeed", "abort"}
  Threads = 2
  Positions = {0, 2}
  Commands = {"", "go"}
  Empty = ""
  MinDist = 1
  MaxLength = 2
  MaxEdits = 3
  Texts <- ShortTexts
  Lidars = {1, 2}
  Options = {"type", "blind"}
  Unmarked = {"mode", "imu"}
  MaxInfos = 2
  Sensors = {1, 2}
  PacketTimes = {1, 2, 4}
  Interval = 2
  Tolerance = 1
  MaxPackets = 3
  Bases = {1, 2, 4}
  PointSets <- Offsets
  Slop = 2
  MaxOffset = 4
  MaxStamp = 6
  ImuStamps = {0, 2, 3, 5, 8}
  ScanStamps = {0, 3, 4}
  RawScans <- Overlapping
  Origin = 0
  FilterNum = 2
  Jitter = 1
  MaxIniCount = 1
  MaxImu = 5
  MaxScans = 3
INVARIANTS
  NoFrameDropped
  StopIsFinal
  FreeDirection
  DisplaysAreTrue
  FilesKeepCommands
  SamplesAsConfigured
  FramesCarryEachPacketOnce
  SamplesIntegratedOnce
PROPERTIES
  ImplementsFrameStream
  QuietMeansStill
  ImplementsGoalService
  ThreadBecomesFree
  ImplementsEditHistory
  MergeKeepsPoints
