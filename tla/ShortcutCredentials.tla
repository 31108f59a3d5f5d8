------------------------ MODULE ShortcutCredentials ------------------------
(***************************************************************************)
(* The credentials of a user's iPhones: created, rotated, revoked, and     *)
(* presented by the Shortcut that delivers messages.                       *)
(*                                                                         *)
(* Creating and rotating run SERIALIZABLE with a bounded number of         *)
(* attempts; revoking and presenting run READ COMMITTED, so PostgreSQL     *)
(* does not order them with the others.  Every attempt reads the server's  *)
(* clock some time before its transaction takes a snapshot: the reading    *)
(* "at" is any earlier value of the clock.                                 *)
(***************************************************************************)
EXTENDS Naturals, FiniteSets

CONSTANTS
    Credential,     \* primary keys of ShortcutImportCredential
    Request,        \* HTTP requests the server can have open at once
    MaximumActive,  \* maximumActiveCredentials
    Lifetime,       \* credentialLifetimeDays
    MaxAttempts,    \* MAX_TRANSACTION_ATTEMPTS
    MaxTime,        \* bound: the clock stops there
    None            \* SQL NULL

ASSUME NumbersAssumption ==
    /\ MaximumActive \in Nat \ {0} /\ Lifetime \in Nat \ {0}
    /\ MaxAttempts \in Nat \ {0} /\ MaxTime \in Nat

ASSUME NoneAssumption == None \notin Credential

ASSUME FiniteAssumption == IsFiniteSet(Credential)

VARIABLES
    credentials,  \* the ShortcutImportCredential table
    requests,     \* the open transaction of every request
    now,          \* the clock, in days
    disconnected, \* history: credentials the user was told are revoked
    straddled     \* history: a rotation committed after its credential expired

vars == <<credentials, requests, now, disconnected, straddled>>

-----------------------------------------------------------------------------
(* Rows and open transactions.                                             *)

\* "replaces" is what the row was created for: it is not a column.
Row == [exists: BOOLEAN, revoked: BOOLEAN, used: BOOLEAN,
        expires: 0..(MaxTime + Lifetime), replaces: Credential \cup {None}]

NoRow == [exists |-> FALSE, revoked |-> FALSE, used |-> FALSE,
          expires |-> 0, replaces |-> None]

Idle == [op |-> "idle"]
CreateTx == [op: {"create"}, at: 0..MaxTime, seen: SUBSET Credential,
             attempt: 1..MaxAttempts]
RotateTx == [op: {"rotate"}, credential: Credential, at: 0..MaxTime,
             attempt: 1..MaxAttempts]
TouchTx == [op: {"revoke", "use"}, credential: Credential]
Tx == {Idle} \cup CreateTx \cup RotateTx \cup TouchTx

Open(r, tx) == requests[r] = Idle /\ requests' = [requests EXCEPT ![r] = tx]
Close(r) == requests' = [requests EXCEPT ![r] = Idle]

Exists(c) == credentials[c].exists

\* status: ACTIVE, neither REVOKED nor EXPIRED, at a clock reading.
ActiveAt(c, at) ==
    Exists(c) /\ ~credentials[c].revoked /\ credentials[c].expires > at

HasRoom(at) == Cardinality({c \in Credential : ActiveAt(c, at)}) < MaximumActive

NewRow(at, old) ==
    [NoRow EXCEPT !.exists = TRUE, !.expires = at + Lifetime, !.replaces = old]

\* Mutant: one attempt too many.
AttemptLeftInclusive(tx) == tx.attempt <= MaxAttempts

AttemptLeft(tx) == tx.attempt < MaxAttempts

Init ==
    /\ credentials = [c \in Credential |-> NoRow]
    /\ requests = [r \in Request |-> Idle]
    /\ now = 0
    /\ disconnected = {}
    /\ straddled = FALSE

-----------------------------------------------------------------------------
(* Creating.                                                               *)

Created == {c \in Credential : Exists(c) /\ credentials[c].replaces = None}

\* One attempt: the clock, then the snapshot and the count made on it.
CountedAt(at, attempt) ==
    [op |-> "create", at |-> at, seen |-> Created, attempt |-> attempt]

CreateBegin(r, at) ==
    /\ HasRoom(at) /\ Open(r, CountedAt(at, 1))
    /\ UNCHANGED <<credentials, now, disconnected, straddled>>

\* Mutant: creating runs READ COMMITTED.
CreateUnordered(tx) == TRUE

\* Two creates that both counted before either inserted read what the other
\* writes: one of them is aborted.  A rotation that commits in between is
\* simply ordered after the create, and a revocation is not ordered at all.
CreateSerializable(tx) == Created = tx.seen

CreateCommit(r) ==
    /\ requests[r].op = "create" /\ CreateSerializable(requests[r])
    /\ \E c \in Credential :
          /\ ~Exists(c)
          /\ credentials' = [credentials EXCEPT ![c] = NewRow(requests[r].at, None)]
    /\ Close(r)
    /\ UNCHANGED <<now, disconnected, straddled>>

\* P2034, or P2002 when the generated token is taken: PostgreSQL may abort
\* any attempt.  The next one counts again and is refused when there is no
\* room; after the last one the request is refused.
CreateAbort(r, at) ==
    /\ requests[r].op = "create" /\ at >= requests[r].at
    /\ LET again == AttemptLeft(requests[r]) /\ HasRoom(at) IN
       \/ again /\ requests' = [requests EXCEPT ![r] = CountedAt(at, requests[r].attempt + 1)]
       \/ ~again /\ Close(r)
    /\ UNCHANGED <<credentials, now, disconnected, straddled>>

-----------------------------------------------------------------------------
(* Rotating.                                                               *)

ReadAt(c, at, attempt) ==
    [op |-> "rotate", credential |-> c, at |-> at, attempt |-> attempt]

RotateBegin(r, c, at) ==
    /\ ActiveAt(c, at)
    /\ Open(r, ReadAt(c, at, 1))
    /\ UNCHANGED <<credentials, now, disconnected, straddled>>

\* Mutant: rotating runs READ COMMITTED.
RotateCurrentById(tx) == TRUE

\* A row that was revoked or rotated since the snapshot cannot be updated.
RotateCurrent(tx) == ~credentials[tx.credential].revoked

RotateCommit(r) ==
    /\ requests[r].op = "rotate" /\ RotateCurrent(requests[r])
    /\ LET old == requests[r].credential IN
       /\ \E c \in Credential :
             /\ ~Exists(c)
             /\ credentials' = [credentials EXCEPT ![old].revoked = TRUE,
                                                   ![c] = NewRow(requests[r].at, old)]
       /\ straddled' = (straddled \/ credentials[old].expires <= now)
    /\ Close(r)
    /\ UNCHANGED <<now, disconnected>>

\* The next attempt reads the row again: one that is no longer active is
\* refused.
RotateAbort(r, at) ==
    /\ requests[r].op = "rotate" /\ at >= requests[r].at
    /\ LET c == requests[r].credential
           again == AttemptLeft(requests[r]) /\ ActiveAt(c, at) IN
       \/ again /\ requests' = [requests EXCEPT ![r] = ReadAt(c, at, requests[r].attempt + 1)]
       \/ ~again /\ Close(r)
    /\ UNCHANGED <<credentials, now, disconnected, straddled>>

-----------------------------------------------------------------------------
(* Revoking and presenting: a read, then an UPDATE by id.                  *)

\* A credential that is revoked already is answered without a write.
RevokeBegin(r, c) ==
    /\ Exists(c)
    /\ \/ /\ credentials[c].revoked
          /\ disconnected' = disconnected \cup {c}
          /\ requests[r] = Idle /\ UNCHANGED requests
       \/ /\ ~credentials[c].revoked
          /\ Open(r, [op |-> "revoke", credential |-> c])
          /\ UNCHANGED disconnected
    /\ UNCHANGED <<credentials, now, straddled>>

RevokeWrite(r) ==
    /\ requests[r].op = "revoke"
    /\ credentials' = [credentials EXCEPT ![requests[r].credential].revoked = TRUE]
    /\ disconnected' = disconnected \cup {requests[r].credential}
    /\ Close(r)
    /\ UNCHANGED <<now, straddled>>

\* canActivate of the guard in front of ingest.
UseBegin(r, c) ==
    /\ ActiveAt(c, now)
    /\ Open(r, [op |-> "use", credential |-> c])
    /\ UNCHANGED <<credentials, now, disconnected, straddled>>

UseWrite(r) ==
    /\ requests[r].op = "use"
    /\ credentials' = [credentials EXCEPT ![requests[r].credential].used = TRUE]
    /\ Close(r)
    /\ UNCHANGED <<now, disconnected, straddled>>

-----------------------------------------------------------------------------

Tick ==
    /\ now < MaxTime
    /\ now' = now + 1
    /\ UNCHANGED <<credentials, requests, disconnected, straddled>>

Restart ==
    /\ requests' = [r \in Request |-> Idle]
    /\ UNCHANGED <<credentials, now, disconnected, straddled>>

Next ==
    \/ Tick \/ Restart
    \/ \E r \in Request :
        \/ CreateCommit(r) \/ RotateCommit(r) \/ RevokeWrite(r) \/ UseWrite(r)
        \/ \E at \in 0..now : CreateBegin(r, at) \/ CreateAbort(r, at) \/ RotateAbort(r, at)
        \/ \E c \in Credential :
            \/ \E at \in 0..now : RotateBegin(r, c, at)
            \/ RevokeBegin(r, c) \/ UseBegin(r, c)

Spec == Init /\ [][Next]_vars

-----------------------------------------------------------------------------
(* Properties.                                                             *)

TypeOK ==
    /\ credentials \in [Credential -> Row]
    /\ requests \in [Request -> Tx]
    /\ now \in 0..MaxTime
    /\ disconnected \subseteq Credential
    /\ straddled \in BOOLEAN

\* A user never has more active credentials than the maximum, however creates,
\* rotations and revocations interleave and retry; only a rotation that read
\* the clock before its credential expired and committed afterwards can add
\* one, because a create in between has counted the place as free
\* (create and rotate, shortcut-import-credentials.service.ts:48-61 and 175).
ActiveWithinMaximum ==
    ~straddled => Cardinality({c \in Credential : ActiveAt(c, now)}) <= MaximumActive

\* A credential goes out of service because its user revoked it or because
\* exactly one other replaced it, never half a rotation and never two
\* (rotate, shortcut-import-credentials.service.ts:163-197).
OutOfServiceForAReason ==
    \A c \in Credential :
        LET heirs == {d \in Credential : credentials[d].replaces = c} IN
        /\ Cardinality(heirs) <= 1
        /\ credentials[c].revoked <=> (c \in disconnected \/ heirs # {})

-----------------------------------------------------------------------------
(* The lines of credentials these tables implement.                        *)

HeirsOf(c) == {d \in Credential : credentials[d].replaces = c}

StandingOf(c) ==
    IF HeirsOf(c) # {} THEN "replaced"
    ELSE IF credentials[c].revoked THEN "disconnected"
    ELSE IF Exists(c) THEN "serving" ELSE "unissued"

Standings == [c \in Credential |-> StandingOf(c)]

HeirOf(c) == IF HeirsOf(c) = {} THEN None ELSE CHOOSE d \in HeirsOf(c) : TRUE

Heirs == [c \in Credential |-> HeirOf(c)]

Line == INSTANCE CredentialLine
    WITH Nothing <- None, standing <- Standings, heir <- Heirs, told <- disconnected

\* Whatever creates, rotations and revocations interleave and retry, every
\* credential runs through the line promised for it: a rotation that races a
\* revocation brings nothing back into service, one that races a rotation adds
\* no second replacement, and who is told that a credential is disconnected
\* cannot use it again (revoke and rotate,
\* shortcut-import-credentials.service.ts:126-228).
ImplementsLine == Line!Spec
=============================================================================
