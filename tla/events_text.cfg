\* Texts with line ends, labels or letters outside ASCII are not saved as reported.
CONSTANTS
  NonAscii <- MCNonAscii
  Null = Null
  Digit <- MCDigit
  Users <- MCUsers
  User <- Ann
  Channel <- Police
  Reports <- UglyReports
  MaxReports = 1
  SubscriptionIds <- One
  ConnectionIds <- One
SPECIFICATION Spec
INVARIANT SavedAsReported
CHECK_DEADLOCK FALSE
