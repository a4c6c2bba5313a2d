\* Two users report plain events; one of them asks for summaries.
CONSTANTS
  NonAscii <- MCNonAscii
  Null = Null
  Digit <- MCDigit
  Users <- MCUsers
  User <- Ann
  Channel <- Police
  Reports <- MCReports
  MaxReports = 3
  SubscriptionIds <- One
  ConnectionIds <- One
SPECIFICATION Spec
INVARIANTS
  SavedAsReported
  SummaryExact
CHECK_DEADLOCK FALSE
