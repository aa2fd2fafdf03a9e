SPECIFICATION Spec
CONSTANTS
  Inputs <- MCInputs
  MaxInputDataLen = 3
  TH = 2
  Rivals = {}
  Empty = 0
  Itoa <- MCItoa
  Concat <- MCConcat
  Md5 <- MCMd5
  Crc32 <- MCCrc32
  Joined <- MCJoined
  Before <- MCBefore
INVARIANTS
  TypeOK
  OneMd5AtATime
  NeverSendsOnClosed
  JoinedAreHashes
  ResultIgnoresSchedule
  ReturnsWhenDrained
PROPERTIES
  IsHashFarm
