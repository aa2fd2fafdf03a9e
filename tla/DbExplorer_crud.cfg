SPECIFICATION Spec
CONSTANTS
  r1 = r1  r2 = r2  r3 = r3
  items = items  events = events  id = id  title = title  size = size
  updated = updated  at = at  note = note
  a = a  b = b  seven = seven  yes = yes  list = list
  Requests = {r1, r2, r3}
  Tables = {items, events}
  Strings = {Empty, a, b, seven}
  Numbers = {0, 1, 7}
  Others = {yes, list}
  Unbindable = {list}
  Null = Null  Empty = Empty  Unknown = Unknown  NotANumber = NotANumber
  Rejected = Rejected  NoAnswer = NoAnswer
  Inputs <- MCInputs
  FieldOrdered <- MCFields
  Id <- MCId
  Type <- MCType
  Required <- MCRequired
  Stored <- MCStored
  InitialRows <- MCRows
  InitialKey <- MCKey
INVARIANTS
  TypeOK
  RowsConform
  EveryKeyIsAccountedFor
  ValuesStemFromRequests
  RecordsWereStored
  GoodRequestsSucceed
PROPERTIES
  OnlyWhatWasSent
CHECK_DEADLOCK FALSE
