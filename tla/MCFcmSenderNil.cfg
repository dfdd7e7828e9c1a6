SPECIFICATION FairSpec
CONSTANTS
  ATTEMPTS = 3
  Targets = {"token", "nil"}
  TokenCodes = {"OK", "FAILED"}
  MaxNotifications = 2
  MaxFaults = 0
PROPERTY
  EveryNotificationSent
CHECK_DEADLOCK FALSE
