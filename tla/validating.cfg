SPECIFICATION FairSpec
CONSTANTS
    amdArk = amdArk
    amdAsk = amdAsk
    chip = chip
    ownKey = ownKey
    ownRoot = ownRoot
    good = good
    tampered = tampered
    truth = truth
    lie = lie
    noHash = noHash
    noKey = noKey
    oddKey = oddKey
    Keys = {amdArk, amdAsk, chip, ownKey, ownRoot}
    NoKey = noKey
    OddKey = oddKey
    Measurements = {good, tampered}
    Bindings = {}
    PinnedRoot = amdArk
    Miners = {1, 2, 3}
    Honest = {2}
    Truth = truth
    Hashes = {truth, lie}
    NoHash = noHash
    Lists <- Lists2
    MinTcb = 7
    TcbFloors <- Floors
    Target = 2
    Ceiling = 4
    Behaviours <- Three
    Unsteady = {1, 2}
    DryRun = FALSE
    None = none
INVARIANTS TypeOK LiarsOutvoted
PROPERTIES PaidForFreshProof HonestPaid
