SPECIFICATION Spec
CONSTANTS
    Accounts <- TwoAccounts
    Chats <- TwoChats
    None = None
    All = All
    Messages <- Three
    Of <- OfThem
    In <- InThem
    Id <- IdOfThem
    Owned = {"m1"}
    Targeted <- FromSchedules
    Lists <- SomeLists
    MAX_TARGETS_PER_STEP = 2
    MAX_STEPS = 3
    MAX_OPS = 4
    max_operations = 3
    MaxClicks = 6
    MaxNews = 2
INVARIANTS PanelShowsItsChat PlanCopiesTheSource
PROPERTIES ReadsAfterTheDeletion
CHECK_DEADLOCK FALSE
