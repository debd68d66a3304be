SPECIFICATION SensingSpec
CONSTANTS
  Modes = {"gicp", "slam", "static"}
  Times <- ClockTimes
  Stamps <- SourceStamps
  Timeout = 1
  FutureTol = 1
  Scanned <- ScannedStamps
  MaxResults = 1
  Lidars = {1, 2}
  Options = {"type"}
  Unmarked = {}
  MaxInfos = 0
  Size = 2
  Wrap = 4
  MaxFrames = 4
INVARIANTS
  TimesInOrder
  OnlyMatchesHeld
PROPERTIES
  NoRegression
  TrackingIsFresh
  PublisherNotStalled
  ImplementsFrameQueue
  FramesGoOut
CHECK_DEADLOCK FALSE
