SPECIFICATION Spec
CONSTANTS
    amdArk = amdArk
    amdAsk = amdAsk
    vcek = vcek
    evilArk = evilArk
    evilAsk = evilAsk
    evilVcek = evilVcek
    chip = chip
    noKey = noKey
    oddKey = oddKey
    good = good
    tampered = tampered
    analytics = analytics
    payments = payments
    nowhere = nowhere
    t1 = t1
    t2 = t2
    n1 = n1
    n2 = n2
    made_up = made_up
    Keys <- MCKeys
    NoKey = noKey
    OddKey = oddKey
    Measurements = {good, tampered}
    Bindings = {analytics, payments, nowhere}
    PinnedRoot = amdArk
    Threads = {t1, t2}
    Nonces = {n1}
    ForeignNonces = {made_up}
    Resources = {analytics, payments, nowhere}
    Secrets = {analytics, payments}
    ReleaseBinding <- MCBinding
    TrustedChips <- MCTrustedChips
    Verifier = "factory"
    HostChain <- MCHostChain
    HostCerts <- NoCertificates
    AmdKeys <- MCAmdKeys
    ApprovedMeasurements = {good}
    MinTcb = 7
    TcbFloors <- MCFloors
    Ttl = 1
    Requests <- AllRequests
    MaxTime = 2
SYMMETRY ThreadSymmetry
INVARIANTS TypeOK ReleasedOnlyToApprovedCode
PROPERTIES DoubleNeedsOverlap LoneCallsAnswered
