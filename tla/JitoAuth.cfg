SPECIFICATION AuthFairSpec
CONSTANTS
    Margin = 12
    MinSleep = 2
    MaxSleep = 60
    Retry = 6
    ReauthBelow = 24
    CallTime = 1
    AccessLife = 90
    RefreshLife = 140
INVARIANTS OneMissSurvived
PROPERTIES Recovers
