--------------------------- MODULE MCEmailWorker ---------------------------
(***************************************************************************)
(* A small mailbox for EmailWorker. The order comes with a PDF and a photo,*)
(* the reminder with another file of the same bill as that PDF, the note   *)
(* is read from its body. Each may be delivered in any order and more than *)
(* once, up to the number of job files.                                    *)
(***************************************************************************)
EXTENDS EmailWorker, TLC

MCMails  == {"order", "reminder", "note"}
MCDocs   == {"bill", "snap", "copy", "text"}
MCDocsOf == [order |-> {"bill", "snap"}, reminder |-> {"copy"}, note |-> {"text"}]
MCKind   == [bill |-> "pdf", snap |-> "photo", copy |-> "pdf", text |-> "body"]
MCBillOf == [bill |-> "B1", snap |-> "B2", copy |-> "B1", text |-> "B3"]
MCNameOf == [bill |-> "bill.pdf", snap |-> "snap.jpg", copy |-> "copy.pdf", text |-> "body"]

\* Two job files: two mails, or one mail delivered twice.
TwoJobs == 1..2

WorkerSymmetry == Permutations(Workers)

\* One photographed bill, delivered twice, for the run about time.
SnapMails  == {"snapshot"}
SnapDocs   == {"snap"}
SnapDocsOf == [snapshot |-> {"snap"}]
SnapKind   == [snap |-> "photo"]
SnapBillOf == [snap |-> "B2"]
SnapNameOf == [snap |-> "snap.jpg"]

\* A message that forwards two others as attachments, each with a PDF of its
\* own that has the usual name.
ForwardMails  == {"forward"}
ForwardDocs   == {"first", "second"}
ForwardDocsOf == [forward |-> {"first", "second"}]
ForwardKind   == [first |-> "pdf", second |-> "pdf"]
ForwardBillOf == [first |-> "B1", second |-> "B2"]
ForwardNameOf == [first |-> "invoice.pdf", second |-> "invoice.pdf"]
=============================================================================
