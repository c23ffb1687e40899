-------------------------- MODULE MCInvoiceExport --------------------------
(***************************************************************************)
(* Values of the constants of InvoiceExport for TLC.                       *)
(***************************************************************************)
EXTENDS InvoiceExport, TLC

CONSTANTS a, b, accepted, retry

Symmetry == Permutations(Organisations)

=============================================================================
