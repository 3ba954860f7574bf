CONSTANTS
  Cards <- AllCards
  MaxDepth = 2
SPECIFICATION Spec
INVARIANTS
  TypeOK
  PathMirrorsCwd
  LaunchesShown
  CompleteCardServes
