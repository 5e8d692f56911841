SPECIFICATION FairSpec
INVARIANTS TeardownItemRuns RunInPostingOrder
PROPERTIES StopExits
CONSTANTS
  Posters = {p1, p2}
  Worker = w
  Joiners = {j1}
  PerPoster = 2
  SelfPosts = 2
  JoinCalls = 2
  Capacity = 2
  Quiet = TRUE
  Null = null
CHECK_DEADLOCK FALSE
