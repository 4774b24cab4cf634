CONSTANTS
  Elements = {1, 2, 3}
  MaxSize = 5
SPECIFICATION Spec
INVARIANTS TypeOK SplitIsWhole FirstOccurrence GroupsAreFolds ExtSubsumes
