\* A restart that helps: a new process, and a new monitor that never saw it fail.
SPECIFICATION FairSpec
CONSTANTS
    Request = {r1, r2}
    Context <- MCHealth
    NoContext = NoContext
    Profile = "web"
    Default <- MCDefault
    Override <- MCOverride
    SeverityMultiplier <- MCSeverity
    ProfileMultiplier <- MCProfile
    GracePeriod = 1
    Second = 1
    MaxDelay = 3
    Policy = "on-failure"
    MaxResets = 1
PROPERTY ResetWhenHealthy
CHECK_DEADLOCK FALSE
