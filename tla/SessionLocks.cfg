CONSTANTS
  Account <- ThreeAccounts
  Task = {t1, t2, t3}
SPECIFICATION FairSpec
INVARIANT LockLedger
PROPERTIES NoOvertaking ImplementsMutex EveryWaiterEnters
