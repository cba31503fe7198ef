SPECIFICATION FairSpec
CONSTANTS
    Tasks = {t1, t2}
    Last = 2
    Ttft = 1
    AttemptTimeout = 1
    Budget = 1
    GroqTimeout = 1
INVARIANTS TypeOK FirstTokenInTime BackstopOnlyWhenExhausted
PROPERTY Answered
