SPECIFICATION Spec
CONSTANTS
  r1 = r1
  r2 = r2
  Rows <- MCOneRow
  NoRow = NoRow
  BillOf <- MCOneBillOf
  Photos = {}
  Sends = {s1, s2}
  Ids = {x1, x2}
  NoId = NoId
  MaxVersion = 1
  Routes = {"all"}
  MayForce = TRUE
SYMMETRY Symmetry
INVARIANTS
  NoBillLeftBehind
  InXeroIsPosted
  
PROPERTIES
  NoBlindRepeat
  
