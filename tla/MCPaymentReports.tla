------------------------- MODULE MCPaymentReports -------------------------
(* Small instances of PaymentReports for TLC.                              *)
EXTENDS PaymentReports

\* A day, and a period of two days.
MCPeriod == {[from |-> 1, to |-> 1], [from |-> 1, to |-> 2]}
=============================================================================
