CONSTANTS
  Layouts <- MCLayouts
  Replays <- MCReplays
  Chunks = {1, 2, 3, 5}
SPECIFICATION ReplaySpec
INVARIANTS
  HitIsUsable
  HitIsLongest
  ReplayHits
PROPERTIES
  SearchEnds
CHECK_DEADLOCK FALSE
