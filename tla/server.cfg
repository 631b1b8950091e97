SPECIFICATION FairSpec
CONSTANTS
  A = a
  B = b
  C = c
  Fields = fields
  OtherFields = other_fields
  RowTypes <- MCRowTypes
  Tables = {a, b, c}
  NoExtent = NoExtent
  NotOpened = NotOpened
  Limit = 2
  MaxServed = 2
  Requests <- MCRequests
  Imported <- MCImported
CHECK_DEADLOCK FALSE
INVARIANTS ResultIsCorrect TablesStayWhole DiesOnlyAsKnown
PROPERTIES RequestsEnd
