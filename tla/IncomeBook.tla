----------------------------- MODULE IncomeBook -----------------------------
(***************************************************************************)
(* What a user is promised about money received: a payment, once heard of, *)
(* says for ever what was first said of it; an income may be restated      *)
(* until it is booked from one payment of its amount; from then on the two *)
(* belong to each other.                                                   *)
(***************************************************************************)
CONSTANTS
    Payment,    \* payments a user may receive
    Income,     \* incomes a user may book
    Reference,  \* names the provider gives payments
    Amount,     \* what is paid
    Nothing     \* no reference, no amount, no payment

VARIABLES
    heard,      \* reference and amount of each payment, <<>> until it is heard of
    stated,     \* what each income is said to be
    booked      \* the payment each income is booked from

vars == <<heard, stated, booked>>

Init ==
    /\ heard = [p \in Payment |-> <<>>]
    /\ stated = [i \in Income |-> Nothing]
    /\ booked = [i \in Income |-> Nothing]

\* One reference is one payment.
Unheard(reference) ==
    reference = Nothing \/ \A q \in Payment : heard[q] # <<>> => heard[q][1] # reference

Hear(p, reference, amount) ==
    /\ heard[p] = <<>> /\ Unheard(reference)
    /\ heard' = [heard EXCEPT ![p] = <<reference, amount>>]

State(i, amount) ==
    /\ booked[i] = Nothing
    /\ stated' = [stated EXCEPT ![i] = amount]

Book(i, p) ==
    /\ booked[i] = Nothing /\ \A j \in Income : booked[j] # p
    /\ booked' = [booked EXCEPT ![i] = p]

\* An income may be stated and booked in the step that hears of its payment.
Next ==
    \/ UNCHANGED vars  \* a step of the system that shows nothing
    \/ \E p \in Payment, reference \in Reference \cup {Nothing}, amount \in Amount :
          /\ Hear(p, reference, amount)
          /\ \/ UNCHANGED <<stated, booked>>
             \/ \E i \in Income : State(i, amount) /\ Book(i, p)
    \/ \E i \in Income, amount \in Amount : State(i, amount) /\ UNCHANGED <<heard, booked>>
    \/ \E i \in Income, p \in Payment :
          /\ heard[p] # <<>> /\ stated[i] = heard[p][2]
          /\ Book(i, p)
          /\ UNCHANGED <<heard, stated>>

Spec == Init /\ [][Next]_vars
=============================================================================
