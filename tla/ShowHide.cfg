CONSTANTS
  a1 = a1  a2 = a2
  Activities <- TwoActivities
  PermissionActivity = PermissionActivity
  AtLeastM = TRUE
  MaxTasks = 2
  None = None
SPECIFICATION FairSpec
INVARIANTS OneTask Settled
PROPERTIES FollowsActivities
