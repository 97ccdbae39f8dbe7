SPECIFICATION Spec
CONSTANTS
    r1 = r1
    r2 = r2
    Runs = {r1, r2}
    MaxCalls = 3
    MaxChanges = 1
    MaxRetries = 1
    Mishaps = {"create", "resume", "recreate", "timeout", "refused", "reload", "crash"}
    MaxMishaps = 2
    MaxEvents = 2
SYMMETRY AlikeRuns
CHECK_DEADLOCK FALSE
INVARIANTS FirstProviderKnown NeverStuck NewestSettingsUsed NobodyForgotten
