SPECIFICATION FairSpec
CONSTANTS
    operator = operator
    validator = validator
    support = support
    analytics = analytics
    payments = payments
    t1 = t1
    t2 = t2
    None = none
    Threads = {t1, t2}
    Hotkeys = {operator, validator}
    Stakers = {validator}
    Named = {operator}
    AllowAny = FALSE
    ReadsValidators = TRUE
    Labels = {support}
    Scopes = {analytics, payments}
    KeyFile <- SupportKey
    Requests <- Calls
    MaxAge = 1
    AllowedSkew = 0
    Ahead = 1
    MaxTime = 3
    MaxBoots = 2
INVARIANTS TypeOK OnlyListed OncePerBoot
PROPERTIES ListedRefusedOnlyMidRefresh PermitsTakeEffect
