SPECIFICATION PersistentSpec
CONSTANTS
    Accounts <- TwoAccounts
    NoAccount = 0
    TwoFactor <- SecondOnly
    First <- FirstOnly
    MaxSlips = 2
    MaxFaults = 1
INVARIANTS ChoicesAreListed
PROPERTIES LoginSucceeds
CHECK_DEADLOCK FALSE
