SPECIFICATION FairSpec
CONSTANTS
  Inputs <- MCTwo
  MaxInputDataLen = 2
  TH = 1
  Rivals = {rival}
  Empty = 0
  Itoa <- MCItoa
  Concat <- MCConcat
  Md5 <- MCMd5
  Crc32 <- MCCrc32
  Joined <- MCJoined
  Before <- MCBefore
PROPERTIES
  FreeFlow
  DrainsAfterTheSource
