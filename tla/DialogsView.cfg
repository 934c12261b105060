CONSTANTS
    Accounts <- TwoAccounts
    NoAccount = 0
    Chats <- ThreeChats
    Owner <- OwnerOf
    Kind <- KindOf
    Offers <- LeaveAndBlock
    Selections <- SomeSelections
    MaxSwitches = 3
    MaxFaults = 1
SPECIFICATION Spec
INVARIANTS QuickActionsFit
PROPERTIES SelectionStaysHome ListFollowsTheAccount
CHECK_DEADLOCK FALSE
