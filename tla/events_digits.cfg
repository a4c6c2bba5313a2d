\* A subscription has the digits of the date: they are replaced, the date stays.
CONSTANTS
  NonAscii <- MCNonAscii
  Null = Null
  Digit <- MCDigit
  Users <- MCUsers
  User <- Ann
  Channel <- Police
  Reports <- PlainReports
  MaxReports = 1
  SubscriptionIds <- Numbers
  ConnectionIds <- One
SPECIFICATION Spec
INVARIANT DateReadable
CHECK_DEADLOCK FALSE
