-------------------------- MODULE MCOrderLifecycle --------------------------
(***************************************************************************)
(* Values of the constants of OrderLifecycle for TLC.                      *)
(***************************************************************************)
EXTENDS OrderLifecycle

Invoice(state, settled, due) ==
  [state |-> state, total |-> 2, settled |-> settled, due |-> due]

\* Unpaid, credited in full but not yet marked paid, and
\* paid.
MCInvoiceFacts ==
  {Invoice("AWAITING_PAYMENT", 0, 2), Invoice("AWAITING_PAYMENT", 2, 0),
   Invoice("PAID", 2, 0)}

=============================================================================
