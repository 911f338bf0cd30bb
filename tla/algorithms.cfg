\* Pictures of up to twelve pixels, pairs of samples, teams of five robots,
\* small whole numbers and fractions, short texts.
SPECIFICATION AlgorithmsSpec
CONSTANTS
  LeafSize = 1
  MaxDepth = 3
INVARIANTS
  ImagesAreSound
  ColoursAreSegmented
  RobotsAreFound
  FieldAndPictureAgree
  
