\* Two callbacks at a time; a violation is allowed one retry more than a failed check.
SPECIFICATION FairSpec
CONSTANTS
    Request = {r1, r2}
    Context <- MCContext
    NoContext = NoContext
    Profile = "web"
    Default <- MCDefault
    Override <- MCOverride
    SeverityMultiplier <- MCSeverity
    ProfileMultiplier <- MCProfile
    GracePeriod = 1
    Second = 1
    MaxDelay = 2
    Policy = "on-failure"
    MaxResets = 1
INVARIANTS GraceKept OpenOnlyAtLimit OvershootBounded RestartsCounted
PROPERTIES OpenStopsRestarts RequestsEnd Attended
CHECK_DEADLOCK FALSE
