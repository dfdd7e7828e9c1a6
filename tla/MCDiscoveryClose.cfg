SPECIFICATION AnsweringSpec
CONSTANTS
  n1 = n1
  n2 = n2
  Numbers <- MCNumbers
  Lists <- MCLists
  BATCH_SIZE = 2
  BlockSize = 2
  MaxChunks = 3
PROPERTY ServerCloseEnds
CHECK_DEADLOCK FALSE
