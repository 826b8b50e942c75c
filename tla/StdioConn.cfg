SPECIFICATION Spec
CONSTANTS
  Callers = {"a", "b"}
  Calling <- MCCalling
  MaxChanges = 1
INVARIANT SubscribedIsTold
PROPERTIES CallsKeepPromise NoCallHangs LegacyServed
CHECK_DEADLOCK FALSE
