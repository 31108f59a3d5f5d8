---------------------------- MODULE MailboxProof ----------------------------
(***************************************************************************)
(* What a user can rely on about codes sent by e-mail, without rows,       *)
(* clocks or requests: what was sent is outstanding until it is used up by *)
(* one proof of the mailbox; whoever proves it presents a code sent to it; *)
(* the proof opens the one account of its address and may buy its owner a  *)
(* grant; and the newest grant of an owner, and no other, sets one         *)
(* password.  Not promised: that the code presented is the one outstanding *)
(* and not an earlier one, so that a code might be accepted twice.         *)
(***************************************************************************)
EXTENDS Naturals

CONSTANTS
    Address,  \* mailboxes
    Code,     \* what may be sent to them
    Grant,    \* permissions to set a password
    Nothing   \* no owner

VARIABLES
    accounts,     \* the addresses that have an account
    outstanding,  \* what was sent and not yet used: pairs of address and purpose
    sent,         \* how often each code was sent to each address
    accepted,     \* how often each code has proved each address
    holder,       \* whom each grant was given to
    unspent,      \* the grants that may still set a password
    passwords     \* how many passwords each grant has set

vars == <<accounts, outstanding, sent, accepted, holder, unspent, passwords>>

Init ==
    /\ accounts = {}
    /\ outstanding = {}
    /\ sent = [x \in Address \X Code |-> 0]
    /\ accepted = [x \in Address \X Code |-> 0]
    /\ holder = [g \in Grant |-> Nothing]
    /\ unspent = {}
    /\ passwords = [g \in Grant |-> 0]

Send(a, purpose, code) ==
    /\ purpose = "login" => a \in accounts
    /\ outstanding' = outstanding \cup {<<a, purpose>>}
    /\ sent' = [sent EXCEPT ![<<a, code>>] = @ + 1]
    /\ UNCHANGED <<accounts, accepted, holder, unspent, passwords>>

\* An address that has no account gets one; one that has is let in.
Admit(a, purpose) ==
    \/ purpose = "login" /\ a \in accounts /\ UNCHANGED accounts
    \/ purpose = "register" /\ a \notin accounts /\ accounts' = accounts \cup {a}

\* A new grant takes the place of those its owner had.
Give(g, a) ==
    /\ holder[g] = Nothing
    /\ holder' = [holder EXCEPT ![g] = a]
    /\ unspent' = {h \in unspent : holder[h] # a} \cup {g}

\* One thing outstanding is used up, by a code that was sent to the mailbox.
Prove(a, purpose, code) ==
    /\ <<a, purpose>> \in outstanding
    /\ outstanding' = outstanding \ {<<a, purpose>>}
    /\ sent[<<a, code>>] > 0
    /\ accepted' = [accepted EXCEPT ![<<a, code>>] = @ + 1]
    /\ Admit(a, purpose)
    /\ UNCHANGED <<holder, unspent>> \/ \E g \in Grant : Give(g, a)
    /\ UNCHANGED <<sent, passwords>>

\* An account made without a code.
Join(a) ==
    /\ a \notin accounts
    /\ accounts' = accounts \cup {a}
    /\ UNCHANGED <<outstanding, sent, accepted, holder, unspent, passwords>>

SetPassword(g) ==
    /\ g \in unspent
    /\ unspent' = unspent \ {g}
    /\ passwords' = [passwords EXCEPT ![g] = @ + 1]
    /\ UNCHANGED <<accounts, outstanding, sent, accepted, holder>>

Next ==
    \/ UNCHANGED vars  \* a step of the system that shows nothing
    \/ \E a \in Address, purpose \in {"login", "register"}, code \in Code :
          Send(a, purpose, code) \/ Prove(a, purpose, code)
    \/ \E a \in Address : Join(a)
    \/ \E g \in Grant : SetPassword(g)

Spec == Init /\ [][Next]_vars
=============================================================================
