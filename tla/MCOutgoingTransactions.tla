----------------------- MODULE MCOutgoingTransactions -----------------------
(* Small instances of OutgoingTransactions for TLC.                        *)
EXTENDS OutgoingTransactions, TLC

CONSTANTS low, high, terms, ref, declined

\* What the provider's SMS may say of a payment of the low amount.
MCResult ==
    {[to |-> "COMPLETED", amount |-> low, reference |-> ref, failure |-> None],
     [to |-> "FAILED", amount |-> low, reference |-> None, failure |-> declined]}

MCSymmetry == Permutations(Transaction) \cup Permutations(Request)
              \cup Permutations(ClientEvent)
=============================================================================
