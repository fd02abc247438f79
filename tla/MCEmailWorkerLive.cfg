SPECIFICATION FairSpec
CONSTANTS
  MaxAttempts = 2
  Mails <- SnapMails
  NoMail = NoMail
  Jobs <- TwoJobs
  Workers = {w1, w2}
  NoWorker = NoWorker
  Docs <- SnapDocs
  NoDoc = NoDoc
  DocsOf <- SnapDocsOf
  Kind <- SnapKind
  NameOf <- SnapNameOf
  BillOf <- SnapBillOf
PROPERTIES
  EveryJobSettles
