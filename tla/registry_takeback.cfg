SPECIFICATION Spec
CONSTANTS
    v1 = v1
    v2 = v2
    old = old
    new = new
    broken = broken
    Nothing = nothing
    Validators = {v1, v2}
    Lists = {old, new}
    WellFormed = {old, new}
    HasFlags = {v1}
    Faults = {}
    Publisher = "ahead"
    InForce <- OldInForce
    MaxHeight = 5
    MaxCommits = 3
INVARIANTS AgreeAtEachBlock
