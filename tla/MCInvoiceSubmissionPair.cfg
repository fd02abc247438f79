SPECIFICATION FairSpec
CONSTANTS
  r1 = r1
  r2 = r2
  Rows <- MCRows
  NoRow = NoRow
  BillOf <- MCBillOf
  Photos <- MCRows
  Sends = {s1}
  Ids = {x1}
  NoId = NoId
  MaxVersion = 0
  Routes = {}
  MayForce = TRUE
INVARIANTS
  SetAsideHasOriginal
PROPERTIES
  SendsEnd
