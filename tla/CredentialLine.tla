--------------------------- MODULE CredentialLine ---------------------------
(***************************************************************************)
(* What a user is promised about the credentials of an iPhone, without     *)
(* clocks, rows or requests: a credential serves until it is replaced by   *)
(* one new credential or disconnected, for good and never both, and one    *)
(* whose owner was told it is disconnected does not serve.                 *)
(***************************************************************************)
CONSTANTS
    Credential,  \* credentials a user may be issued
    Nothing      \* no credential

VARIABLES
    standing,    \* where each credential has got to
    heir,        \* the credential that replaced each one
    told         \* those the user was told are disconnected

vars == <<standing, heir, told>>

Init ==
    /\ standing = [c \in Credential |-> "unissued"]
    /\ heir = [c \in Credential |-> Nothing]
    /\ told = {}

Issue(c) ==
    /\ standing[c] = "unissued"
    /\ standing' = [standing EXCEPT ![c] = "serving"]
    /\ UNCHANGED <<heir, told>>

\* In one step: the two are never both serving, and never neither.
Replace(old, new) ==
    /\ standing[old] = "serving" /\ standing[new] = "unissued"
    /\ standing' = [standing EXCEPT ![old] = "replaced", ![new] = "serving"]
    /\ heir' = [heir EXCEPT ![old] = new]
    /\ UNCHANGED told

Disconnect(c) ==
    /\ standing[c] = "serving"
    /\ standing' = [standing EXCEPT ![c] = "disconnected"]
    /\ told' = told \cup {c}
    /\ UNCHANGED heir

\* A user may be told of a credential that had stopped serving before; what
\* replaced it serves on.
Tell(c) ==
    /\ standing[c] \in {"replaced", "disconnected"}
    /\ told' = told \cup {c}
    /\ UNCHANGED <<standing, heir>>

Next ==
    \/ \E c \in Credential : Issue(c) \/ Disconnect(c) \/ Tell(c)
    \/ \E old, new \in Credential : Replace(old, new)

Spec == Init /\ [][Next]_vars

\* Nobody was told that a credential is disconnected which serves (revoke,
\* shortcut-import-credentials.service.ts:126-148).
NoneToldServes == \A c \in told : standing[c] \in {"replaced", "disconnected"}

\* Two lines never meet: a credential was issued or replaces exactly one
\* other, and that one no longer serves (rotate,
\* shortcut-import-credentials.service.ts:163-197).
LinesAreApart ==
    \A c, d \in Credential : heir[c] # Nothing =>
        /\ standing[c] = "replaced" /\ standing[heir[c]] # "unissued"
        /\ heir[c] = heir[d] => c = d

\* Every line ends: among any credentials there is one that none of them
\* replaced, so no rotation leads back to a credential that was replaced
\* (rotate, shortcut-import-credentials.service.ts:163-197).
LinesEnd == \A S \in SUBSET Credential : S # {} => \E c \in S : heir[c] \notin S
=============================================================================
