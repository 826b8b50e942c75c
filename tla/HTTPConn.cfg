SPECIFICATION Spec
CONSTANTS
  Callers = {"a", "b"}
  MaxRetries = 2
  MaxDeploys = 1
  MaxFaults = 1
INVARIANTS RenewalIsTold
PROPERTIES LiveSessionIsKept HTTPCallsKeepPromise HTTPCallsReturn
CHECK_DEADLOCK FALSE
