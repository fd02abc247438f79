SPECIFICATION Spec
CONSTANTS
  MaxAttempts = 2
  Mails <- MCMails
  NoMail = NoMail
  Jobs <- TwoJobs
  Workers = {w1, w2}
  NoWorker = NoWorker
  Docs <- MCDocs
  NoDoc = NoDoc
  DocsOf <- MCDocsOf
  Kind <- MCKind
  NameOf <- MCNameOf
  BillOf <- MCBillOf
SYMMETRY WorkerSymmetry
INVARIANTS
  OneRunPerJob
  RunsBounded
  DoneMeansBilled
  OneRowPerBill
PROPERTIES
  NoTextRowWhileDisabled
  JobsAreRetried
