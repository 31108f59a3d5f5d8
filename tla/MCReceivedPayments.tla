------------------------- MODULE MCReceivedPayments -------------------------
(* Small instances of ReceivedPayments for TLC.                            *)
EXTENDS ReceivedPayments, TLC

CONSTANTS p1, p2, p3

\* Payments recorded by the app are interchangeable, imported ones are not;
\* amounts are only compared for equality.
MCSymmetry == Permutations(Payment \ Imported) \cup Permutations(Income)
              \cup Permutations(Request) \cup Permutations(Amount)
=============================================================================
