-------------------------- MODULE PaymentLifecycle --------------------------
(***************************************************************************)
(* What the app promises about a payment its user makes by USSD: it starts *)
(* pending, may be seen under way, and is settled at most once, by the     *)
(* provider's message or by the user, with one outcome that never changes. *)
(***************************************************************************)
CONSTANTS
    Transaction,  \* payments
    Outcome,      \* what a settlement says
    Nothing       \* no outcome

VARIABLES
    stage,        \* how far each payment has got
    outcome       \* what it was settled with

vars == <<stage, outcome>>

Init ==
    /\ stage = [t \in Transaction |-> "none"]
    /\ outcome = [t \in Transaction |-> Nothing]

Create(t) ==
    /\ stage[t] = "none"
    /\ stage' = [stage EXCEPT ![t] = "pending"]
    /\ UNCHANGED outcome

Start(t) ==
    /\ stage[t] = "pending"
    /\ stage' = [stage EXCEPT ![t] = "processing"]
    /\ UNCHANGED outcome

Settle(t, o) ==
    /\ stage[t] \in {"pending", "processing"}
    /\ stage' = [stage EXCEPT ![t] = "settled"]
    /\ outcome' = [outcome EXCEPT ![t] = o]

Next ==
    \E t \in Transaction :
        \/ Create(t) \/ Start(t)
        \/ \E o \in Outcome : Settle(t, o)

Spec == Init /\ [][Next]_vars
=============================================================================
