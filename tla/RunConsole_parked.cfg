CONSTANTS
    Runs <- TwoRuns
    NoRun = 0
    Accounts = {a}
    Verdicts = {"failed"}
    MaxJobs = 2
    MaxFaults = 0
SPECIFICATION InsistentSpec
PROPERTY ParkedRunCanBeFreed
CHECK_DEADLOCK FALSE
