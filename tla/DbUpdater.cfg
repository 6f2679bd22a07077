CONSTANTS
  Request = {q1, q2, q3}
  OldUser = OldUser
  Start = {0,1,2,3,4,5}
  MaxCuts = 1
SPECIFICATION FairSpec
INVARIANTS TypeOK VersionHonest UpgradedIsComplete OneConnection FailsOnlyDisturbed DefaultUserReady
PROPERTIES EveryRequestEnds SetBackOnlyByChange
CHECK_DEADLOCK FALSE
