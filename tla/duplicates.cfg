\* Two centres of robots too near to each other, of which one is surer.
SPECIFICATION AlgorithmsSpec
CONSTANTS
  LeafSize = 1
  MaxDepth = 3
INVARIANT SurerDuplicateIsKept
