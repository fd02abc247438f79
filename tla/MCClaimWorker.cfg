SPECIFICATION Spec
CONSTANTS
  taxi = taxi
  hotel = hotel
  parking = parking
  rent = rent
  MaxAttempts = 2
  Batches <- ClaimOnly
  NoBatch = NoBatch
  Jobs <- TwoJobs
  Workers = {w1, w2}
  NoWorker = NoWorker
  Items <- PairItems
  NoItem = NoItem
  Kind <- PairKind
  ItemsOf <- PairItemsOf
  Touched = {}
  BatchSize = 1
  MaxQueued = 2
SYMMETRY Alike
INVARIANTS
  DoneMeansHandled
PROPERTIES
  EndedStays
  JobsAreRetried
