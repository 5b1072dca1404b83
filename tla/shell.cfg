SPECIFICATION ShellFairSpec
CONSTANTS
  Nobody = nobody
  NoData = nodata
  Users = {ann, bob} Roots = {ann} Admins = {}
  MaxFocus = 1
  Parts = {"session", "cards", "reports"}
  Ranges = {"week", "month"} FirstRange = "week" MaxChanges = 3
  Messages = {"m"} MaxErrors = 2
CHECK_DEADLOCK FALSE
INVARIANTS
  ShellTyped UserIsThere ShellNamesSession CardsTruthful
PROPERTIES SubmitIsAnswered SkeletonEnds RecordingEnds
