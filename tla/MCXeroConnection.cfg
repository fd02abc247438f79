SPECIFICATION Spec
CONSTANTS
  Calls = {c1, c2}
  NoCall = NoCall
  Tenants <- TwoTenants
  Order <- TwoInOrder
  Apps = {a1, a2}
  MaxGrants = 2
  MaxBarred = 1
  MaxPosts = 2
  MaxCrashes = 1
SYMMETRY Symmetry
INVARIANTS
  TokenOnFileWorks
  NeverAskedInVain
  OrganisationsAgree
  NobodyStranded
PROPERTIES
  RefreshIsShared
