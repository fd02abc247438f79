SPECIFICATION FairSpec
CONSTANTS
  taxi = taxi
  hotel = hotel
  parking = parking
  rent = rent
  MaxAttempts = 1
  Batches <- MCBatches
  NoBatch = NoBatch
  Jobs <- TwoJobs
  Workers = {w1, w2}
  NoWorker = NoWorker
  Items <- MixedItems
  NoItem = NoItem
  Kind <- MixedKind
  ItemsOf <- MixedItemsOf
  Touched <- MixedItems
  BatchSize = 1
  MaxQueued = 2
INVARIANTS
  OneRowPerFile
PROPERTIES
  EveryImportEnds
