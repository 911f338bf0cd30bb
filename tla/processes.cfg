\* Each part on its own small instance.
CONSTANTS
  Directories = {{}, {1, 2, 3, 4, 5}, {2, 5}}
  ImageNames = {1, 2, 3, 5}
  Broken = {2}
  TeamNames = {1, 2, 3}
  MaxTeams = 2
  TeamEdits = 3
  ChiLimit = 3
  LambdaLimit = 1
  Corners = {1, 2}
  PictureWidth = 3
  Pointers = {0, 2, 4}
  LogSizes = {1, 3}
  PressLimit = 3
  PostLimit = 2
  MAX_ROBOTS = 2
  MAX_BALLS = 2
  Counts <- SomeCounts
  MessageLimit = 3
  DetectionFrames <- MixedFrames
  XShift = 0
  YShift = 0
  Scale = 1
SPECIFICATION ProcessesSpec
INVARIANTS
  NoSyncMarker
  UnpackInvertsSend
  OnlyNegativeRaises
PROPERTIES
  FilesAreShown
  
  
  RecordPlays
  RobotIsTold
CHECK_DEADLOCK FALSE
