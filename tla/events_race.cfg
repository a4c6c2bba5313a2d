\* A message arrives while a summary is written: its numbers are not those of its list.
CONSTANTS
  NonAscii <- MCNonAscii
  Null = Null
  Digit <- MCDigit
  Users <- MCUsers
  User <- Ann
  Channel <- Police
  Reports <- PlainReports
  MaxReports = 2
  SubscriptionIds <- One
  ConnectionIds <- One
SPECIFICATION Spec
INVARIANT SummaryConsistent
CHECK_DEADLOCK FALSE
