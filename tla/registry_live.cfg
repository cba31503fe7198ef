SPECIFICATION FairSpec
CONSTANTS
    v1 = v1
    v2 = v2
    old = old
    new = new
    broken = broken
    Nothing = nothing
    Validators = {v1}
    Lists = {old, new, broken}
    WellFormed = {old, new}
    HasFlags = {v1}
    Faults = {"outage", "disk", "crash"}
    Publisher = "any"
    InForce = nothing
    MaxHeight = 3
    MaxCommits = 3
INVARIANTS TypeOK OnlyCommittedLists
PROPERTIES FollowsSchedule NeverBackToFlags Converges
