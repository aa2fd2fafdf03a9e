SPECIFICATION ExerciseSpec
CONSTANTS
  Consumers = {c1, c2}  Methods = {m1, m2}  Intervals = {0, 1, 20, 26}
  Second = 10  Half = 128  MaxMessages = 2  MaxReports = 2
  android = android  msie = msie  both = both  other = other  ann = ann  bob = bob
  Unset = Unset  Wrong = Wrong
  Browsers = {android, msie, both, other}  MSIEs = {msie, both}  Androids = {android, both}
  Emails <- MCEmails  UserNames = {ann, bob}  Files <- MCFiles
  MaxLimit = 2  Datasets <- MCDatasets  Searches <- MCSearches  OtherReplies <- MCOtherReplies
  NotInt = NotInt  TextTypes = {"string"}
  Sources <- MCSources  Requests <- MCRequests  Atoi <- MCAtoi  Length <- MCLength  Lower <- MCLower
  Calls <- MCCalls
  Disks <- MCDisks  MaxSpare = 1
INVARIANTS
  MessagesReportedOnce FastPrintsWhatSlowPrints PageAskedFor HandlersFollowTags CopiesOrFails
  TreeIsDrawn
CHECK_DEADLOCK FALSE
