SPECIFICATION FairSpec
CONSTANTS
  r1 = r1  r2 = r2  r3 = r3
  ivan = ivan  short = short  bad = bad  badname = badname
  name1 = name1  name2 = name2
  Requests = {r1, r2, r3}
  NoRequest = NoRequest
  Absent = Absent  NotInt = NotInt
  Rvasily = Rvasily  VasilyRomanov = VasilyRomanov
  Names = {name1, name2, VasilyRomanov}
  BadUser = bad  BadUsername = badname
  Inputs <- MCInputs
  Logins <- MCLogins
  Length <- MCLength
  Lower <- MCLower
  Statuses <- MCStatuses
INVARIANTS
  TypeOK
  NoConcurrentMapAccess
  IdsWithoutGaps
  ValidationFollowsTheTags
PROPERTIES
  IsAtomicRegistry
  EveryRequestAnswered
CHECK_DEADLOCK FALSE
