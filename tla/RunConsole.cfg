CONSTANTS
    Runs <- TwoRuns
    NoRun = 0
    Accounts = {a}
    Verdicts = {"failed"}
    MaxJobs = 2
    MaxFaults = 1
SPECIFICATION Spec
INVARIANT AnnouncedOnceWhenOver
PROPERTIES TrackedUntilOver TrackingEnds EveryGuardIsReleased
