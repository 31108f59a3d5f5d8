-------------------------- MODULE ImportLifecycle --------------------------
(***************************************************************************)
(* What the import feature promises its user, without rows, transactions   *)
(* or requests: a delivered message waits as a draft its owner may         *)
(* correct, and ends either in the books, with exactly the content the     *)
(* draft had at that moment, or discarded.  An end is final, the books are *)
(* written once, and a discarded message never reaches them.               *)
(***************************************************************************)
CONSTANTS
    Import,   \* delivered messages
    Content,  \* what a draft or an entry in the books says
    Nothing   \* no content

VARIABLES
    outcome,  \* where each message has got to
    draft,    \* what its owner currently sees while it waits
    book      \* what was entered in the books for it

vars == <<outcome, draft, book>>

Outcome == {"none", "pending", "recorded", "discarded"}

TypeOK ==
    /\ outcome \in [Import -> Outcome]
    /\ draft \in [Import -> Content \cup {Nothing}]
    /\ book \in [Import -> Content \cup {Nothing}]

Init ==
    /\ outcome = [i \in Import |-> "none"]
    /\ draft = [i \in Import |-> Nothing]
    /\ book = [i \in Import |-> Nothing]

Deliver(i, c) ==
    /\ outcome[i] = "none"
    /\ outcome' = [outcome EXCEPT ![i] = "pending"]
    /\ draft' = [draft EXCEPT ![i] = c]
    /\ UNCHANGED book

Correct(i, c) ==
    /\ outcome[i] = "pending"
    /\ draft' = [draft EXCEPT ![i] = c]
    /\ UNCHANGED <<outcome, book>>

Record(i) ==
    /\ outcome[i] = "pending"
    /\ outcome' = [outcome EXCEPT ![i] = "recorded"]
    /\ book' = [book EXCEPT ![i] = draft[i]]
    /\ draft' = [draft EXCEPT ![i] = Nothing]

\* Its owner drops one message, or the retention sweep retires several.
Discard(S) ==
    /\ \A i \in S : outcome[i] = "pending"
    /\ outcome' = [i \in Import |-> IF i \in S THEN "discarded" ELSE outcome[i]]
    /\ draft' = [i \in Import |-> IF i \in S THEN Nothing ELSE draft[i]]
    /\ UNCHANGED book

Next ==
    \/ UNCHANGED vars  \* a step of the system that shows nothing
    \/ \E i \in Import, c \in Content : Deliver(i, c) \/ Correct(i, c)
    \/ \E i \in Import : Record(i)
    \/ \E S \in SUBSET Import : Discard(S)

Spec == Init /\ [][Next]_vars

\* Nothing waits for ever.
NothingWaits == \A i \in Import : outcome[i] = "pending" ~> outcome[i] # "pending"
=============================================================================
