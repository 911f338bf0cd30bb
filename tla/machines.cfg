\* Each part on its own small instance.
CONSTANTS
  Values = {0, 1}
  Absolutes = {1, 2}
  Configs <- SomeConfigs
  Supported <- SomeSupported
  CapsChoices <- SomeCaps
  ImageObjects = {a, b}
  Sides = {0, 1, 2}
  Buffers = {1, 2, 3}
  LiveFrames = 2
  Limits = {0, 2}
  LoadedFrames = 1
  Jogs <- SomeJogs
  LutPoints <- SomePoints
  LutChannels = {0, 1}
  UNDO_SIZE = 0
  Nodes = {1, 2, 3}
  Strings = {10, 11}
  MaxContents = 3
  MaxHandles = 1
  CameraIds = {0, 1}
  EditedMeasures = {"field_length", "goal_width"}
  EnteredValues = {0, 701}
  FieldEditLimit = 3
  Detections <- SomeDetections
  FieldLengths = {4000}
  VisBins = {1, 2}
  PictureSizes = {0, 2, 3}
  ShownFrames = 2
  DrawnSizes <- SomeDrawn
  WindowSizes <- SomeWindows
  MousePoints <- SomeMice
  WindowEvents = 4
SPECIFICATION MachinesSpec
INVARIANTS
  CameraFollowsGui
  PixelsAreOwned
  RecorderIsSound
  EditorIsSound
  
  FieldIsSound
  ViewFollowsDetections
  PictureIsOfFrame
PROPERTY StepsKeepWhatIsShown
CHECK_DEADLOCK FALSE
