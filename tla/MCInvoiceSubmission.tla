------------------------ MODULE MCInvoiceSubmission ------------------------
(***************************************************************************)
(* One row that several senders meet on, and two rows read from photos of  *)
(* one bill, which may be stored at any time next to each other.           *)
(***************************************************************************)
EXTENDS InvoiceSubmission, TLC

CONSTANTS r1, r2

MCRows   == {r1, r2}
MCBillOf == [r \in MCRows |-> "bill"]
MCOneRow == {r1}
MCOneBillOf == [r \in MCOneRow |-> "bill"]

Symmetry == Permutations(Sends) \cup Permutations(Ids)
=============================================================================
