SPECIFICATION ExchangesSpec
CONSTANTS
  ATTEMPTS = 3
  Targets = {"token", "nil"}
  TokenCodes = {"OK", "REJECTED", "FAILED"}
  MaxNotifications = 3
  MaxFaults = 4
  ACCOUNTS = 4
  CLIENTS = 3
  SENDERS = 2
  CORRESPONDENTS = 2
  BuildStep = 2
  SetupStep = 1
  MaxRequests = 2
INVARIANTS
  TypesOK
  OneThread
  AnswerIsForHead
PROPERTIES
  DoneOnceAtTheEnd
  OnlyStopBlocks
  QueueDrains
CHECK_DEADLOCK FALSE
