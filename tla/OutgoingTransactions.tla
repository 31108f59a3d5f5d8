------------------------ MODULE OutgoingTransactions ------------------------
(***************************************************************************)
(* Payments a user makes by USSD.  The app creates a transaction, reports  *)
(* that the dialler opened, and later reports the outcome, read from the   *)
(* provider's SMS or chosen by hand.  Every report carries a client event  *)
(* id so that it can be repeated, and leaves one event in a ledger.        *)
(*                                                                         *)
(* The handlers run READ COMMITTED: each reads the row and the event of    *)
(* its id, then writes.  A conditional UPDATE on the status it read takes  *)
(* the row's lock, so from there to the commit a handler is one step.      *)
(***************************************************************************)
EXTENDS Naturals, FiniteSets

CONSTANTS
    Transaction,  \* primary keys of Transaction
    Request,      \* HTTP requests the server can have open at once
    ClientEvent,  \* clientEventId values the app generates
    Key,          \* idempotency keys the app generates
    Amount,       \* amounts of money
    Terms,        \* the other fields a repeated create must agree on
    Reference,    \* provider references
    Failure,      \* failure codes and reasons
    Result,       \* the provider messages the app reports
    None          \* SQL NULL

Body == [amount: Amount, terms: Terms]
Outcome == {"COMPLETED", "FAILED", "CANCELLED"}
Status == {"PENDING", "PROCESSING"} \cup Outcome
EventType == {"CREATED", "USSD_OPENED", "PROVIDER_RESULT_RECEIVED", "STATUS_CHANGED"}

Results == [to: Outcome, amount: Amount,
            reference: Reference \cup {None}, failure: Failure \cup {None}]

ASSUME ResultAssumption == Result \subseteq Results

VARIABLES
    transactions,  \* the Transaction table
    ledger,        \* the TransactionEvent table, by transaction and client event id
    requests,      \* the open transaction of every request
    created,       \* history: creates that were answered, with the row answered
    acknowledged   \* history: reports that were answered

vars == <<transactions, ledger, requests, created, acknowledged>>

-----------------------------------------------------------------------------
(* Rows, events and open transactions.                                     *)

Row == [status: Status \cup {"ABSENT"}, key: Key \cup {None}, body: Body \cup {None},
        reference: Reference \cup {None}, failure: Failure \cup {None}]

NoRow == [status |-> "ABSENT", key |-> None, body |-> None,
          reference |-> None, failure |-> None]

\* What a report says, and what a repeated report must agree with.
Asked == [type: EventType, to: Status,
          reference: Reference \cup {None}, failure: Failure \cup {None}]

\* The ledger keeps it with the status the transaction had before.
Event == [from: Status \cup {None}, asked: Asked]

ASSUME NoneAssumption ==
    /\ None \notin ClientEvent \cup Key \cup Reference \cup Failure \cup Body \cup Status
    /\ None \notin Event

\* The app's event id, or None for the event the server writes at creation:
\* the unique index on (transactionId, clientEventId).
EventId == ClientEvent \cup {None}

Idle == [op |-> "idle"]
CreateTx == [op: {"create"}, key: Key \cup {None}, body: Body]
ReportTx == [op: {"open", "result"}, transaction: Transaction, id: ClientEvent,
             asked: Asked, seen: {"PENDING", "PROCESSING"}]
\* A reader of one payment: the row and the events it has read so far.
DetailTx == [op: {"detail"}, transaction: Transaction, row: Row \cup {None},
             events: [EventId -> Event \cup {None}] \cup {None}]
Tx == {Idle} \cup CreateTx \cup ReportTx \cup DetailTx

Says(type, to, reference, failure) ==
    [type |-> type, to |-> to, reference |-> reference, failure |-> failure]

Present(t) == transactions[t].status # "ABSENT"

\* Mutant: a settled transaction still takes reports.
UnsettledIfPresent(t) == Present(t)

Unsettled(t) == transactions[t].status \in {"PENDING", "PROCESSING"}

Open(r, tx) == requests[r] = Idle /\ requests' = [requests EXCEPT ![r] = tx]
Close(r) == requests' = [requests EXCEPT ![r] = Idle]

Init ==
    /\ transactions = [t \in Transaction |-> NoRow]
    /\ ledger = [t \in Transaction |-> [c \in EventId |-> None]]
    /\ requests = [r \in Request |-> Idle]
    /\ created = {}
    /\ acknowledged = {}

-----------------------------------------------------------------------------
(* Create.                                                                 *)

Holders(key) == {t \in Transaction : key # None /\ transactions[t].key = key}

\* Mutant: a repeated key is answered without comparing the requests.
ReplayedUnchecked(key, body) ==
    created' = created \cup {[body |-> body, transaction |-> t] : t \in Holders(key)}

\* A key seen before answers with its transaction when the requests agree,
\* and with a conflict when they do not.
Replayed(key, body) ==
    created' = created \cup
        {[body |-> body, transaction |-> t] :
            t \in {h \in Holders(key) : transactions[h].body = body}}

CreateBegin(r, key, body) ==
    /\ \/ /\ Holders(key) = {}
          /\ Open(r, [op |-> "create", key |-> key, body |-> body])
          /\ UNCHANGED created
       \/ /\ Holders(key) # {}
          /\ Replayed(key, body)
          /\ requests[r] = Idle /\ UNCHANGED requests
    /\ UNCHANGED <<transactions, ledger, acknowledged>>

\* The unique index on (userId, idempotencyKey).
KeyFree(key) == Holders(key) = {}

\* The row and its CREATED event, or the answer to a race that was lost.
CreateCommit(r) ==
    /\ requests[r].op = "create"
    /\ LET tx == requests[r] IN
       \/ /\ KeyFree(tx.key)
          /\ \E t \in Transaction :
                /\ ~Present(t)
                /\ transactions' = [transactions EXCEPT ![t] =
                       [NoRow EXCEPT !.status = "PENDING", !.key = tx.key, !.body = tx.body]]
                /\ ledger' = [ledger EXCEPT ![t][None] =
                       [from |-> None, asked |-> Says("CREATED", "PENDING", None, None)]]
                /\ created' = created \cup {[body |-> tx.body, transaction |-> t]}
       \/ /\ ~KeyFree(tx.key)
          /\ Replayed(tx.key, tx.body)
          /\ UNCHANGED <<transactions, ledger>>
    /\ Close(r)
    /\ UNCHANGED acknowledged

-----------------------------------------------------------------------------
(* Reports: the dialler opened, the provider answered, the user decided.   *)

Receipt(t, c, asked) == [transaction |-> t, id |-> c, asked |-> asked]
Acknowledge(t, c, asked) == acknowledged' = acknowledged \cup {Receipt(t, c, asked)}

Known(t, c) == ledger[t][c] # None

\* The event of this id is known already: the report is answered when it says
\* the same and refused when it does not.
Repeated(t, c, asked) ==
    /\ Known(t, c)
    /\ IF ledger[t][c].asked = asked
       THEN Acknowledge(t, c, asked) ELSE UNCHANGED acknowledged

\* Mutant: an existing event is taken for this report's own.
AgreesUnchecked(t, c, asked) == TRUE

\* The upsert keeps an event that another request wrote meanwhile, and the
\* handler compares what it gets back with what it was asked.
Agrees(t, c, asked) == Known(t, c) => ledger[t][c].asked = asked

\* Mutant: the upsert updates an event that is there.
UpsertOverwriting(t, c, from, asked) ==
    ledger' = [ledger EXCEPT ![t][c] = [from |-> from, asked |-> asked]]

Upsert(t, c, from, asked) ==
    ledger' = [ledger EXCEPT ![t][c] =
                   IF @ = None THEN [from |-> from, asked |-> asked] ELSE @]

\* An unknown report is taken further if its handler accepts it.
ReportBegin(r, op, t, c, asked, accepted) ==
    /\ \/ /\ Repeated(t, c, asked)
          /\ requests[r] = Idle /\ UNCHANGED requests
       \/ /\ ~Known(t, c) /\ Unsettled(t) /\ accepted
          /\ Open(r, [op |-> op, transaction |-> t, id |-> c, asked |-> asked,
                      seen |-> transactions[t].status])
          /\ UNCHANGED acknowledged
    /\ UNCHANGED <<transactions, ledger, created>>

OpenedReport == Says("USSD_OPENED", "PROCESSING", None, None)

OpenBegin(r, t, c) == ReportBegin(r, "open", t, c, OpenedReport, TRUE)

MovedOn(t) == transactions' = [transactions EXCEPT ![t].status = "PROCESSING"]

\* recordOpened moves a pending transaction on.  The row is not looked at
\* again when it was PROCESSING before, and the event that comes back from
\* the upsert is not compared.
OpenCommit(r) ==
    /\ requests[r].op = "open"
    /\ LET tx == requests[r]
           t == tx.transaction IN
       \/ /\ tx.seen = "PENDING" /\ transactions[t].status = "PENDING"
          /\ MovedOn(t)
          /\ Upsert(t, tx.id, "PENDING", tx.asked)
          /\ Acknowledge(t, tx.id, tx.asked)
       \/ /\ tx.seen = "PROCESSING" \/ transactions[t].status = "PROCESSING"
          /\ Upsert(t, tx.id, "PROCESSING", tx.asked)
          /\ Acknowledge(t, tx.id, tx.asked)
          /\ UNCHANGED transactions
       \/ /\ tx.seen = "PENDING" /\ ~Unsettled(t)
          /\ UNCHANGED <<transactions, ledger, acknowledged>>
    /\ Close(r)
    /\ UNCHANGED created

\* A completed result carries a reference and no failure.
WellFormed(result) ==
    result.to = "COMPLETED" => result.reference # None /\ result.failure = None

ProviderBegin(r, t, c, result) ==
    ReportBegin(r, "result", t, c,
        Says("PROVIDER_RESULT_RECEIVED", result.to, result.reference, result.failure),
        transactions[t].body.amount = result.amount /\ WellFormed(result))

ManualBegin(r, t, c, to) ==
    ReportBegin(r, "result", t, c, Says("STATUS_CHANGED", to, None, None), TRUE)

\* Mutant: no unique index, only the lookup made before the UPDATE.
ReferenceFreeUnindexed(t, reference) == TRUE

\* The unique index on providerReference, over every user.
ReferenceFree(t, reference) ==
    reference = None \/ \A u \in Transaction \ {t} : transactions[u].reference # reference

Settled(row, asked) ==
    [row EXCEPT !.status = asked.to, !.failure = asked.failure,
                !.reference = IF asked.reference # None THEN asked.reference ELSE @]

\* Mutant: the UPDATE is not conditional on the status that was read.
StillSeenById(tx) == Present(tx.transaction)

\* The UPDATE matches only if the status is the one that was read.
StillSeen(tx) == transactions[tx.transaction].status = tx.seen

\* A report that lost the race is answered if the winner is its own repetition.
Outrun(tx) ==
    /\ ~StillSeen(tx)
    /\ \/ Repeated(tx.transaction, tx.id, tx.asked)
       \/ ~Known(tx.transaction, tx.id) /\ UNCHANGED acknowledged
    /\ UNCHANGED <<transactions, ledger>>

\* One conditional UPDATE and one event, both or neither.
ResultCommit(r) ==
    /\ requests[r].op = "result"
    /\ LET tx == requests[r]
           t == tx.transaction IN
       \/ /\ StillSeen(tx)
          /\ ReferenceFree(t, tx.asked.reference)
          /\ Agrees(t, tx.id, tx.asked)
          /\ transactions' = [transactions EXCEPT ![t] = Settled(@, tx.asked)]
          /\ Upsert(t, tx.id, tx.seen, tx.asked)
          /\ Acknowledge(t, tx.id, tx.asked)
       \/ /\ StillSeen(tx)
          /\ ~(ReferenceFree(t, tx.asked.reference) /\ Agrees(t, tx.id, tx.asked))
          /\ UNCHANGED <<transactions, ledger, acknowledged>>
       \/ Outrun(tx)
    /\ Close(r)
    /\ UNCHANGED created

-----------------------------------------------------------------------------
(* The detail of a payment: its row and its events, by two queries.        *)

\* Mutant: the events before the row.
DetailOrderReversed == <<"events", "row">>

DetailOrder == <<"row", "events">>

DetailRead(tx, part) ==
    [tx EXCEPT ![part] = IF part = "row" THEN transactions[tx.transaction]
                                         ELSE ledger[tx.transaction]]

DetailBegin(r, t) ==
    /\ Present(t)
    /\ Open(r, DetailRead([op |-> "detail", transaction |-> t, row |-> None, events |-> None],
                          DetailOrder[1]))
    /\ UNCHANGED <<transactions, ledger, created, acknowledged>>

DetailShown(r) ==
    requests[r].op = "detail" /\ requests[r].row # None /\ requests[r].events # None

DetailQuery(r) ==
    /\ requests[r].op = "detail" /\ ~DetailShown(r)
    /\ requests' = [requests EXCEPT ![r] = DetailRead(@, DetailOrder[2])]
    /\ UNCHANGED <<transactions, ledger, created, acknowledged>>

DetailAnswer(r) ==
    /\ DetailShown(r)
    /\ Close(r)
    /\ UNCHANGED <<transactions, ledger, created, acknowledged>>

-----------------------------------------------------------------------------

\* The process dies: its connections roll back, the tables stay.
Restart ==
    /\ requests' = [r \in Request |-> Idle]
    /\ UNCHANGED <<transactions, ledger, created, acknowledged>>

Next ==
    \/ Restart
    \/ \E r \in Request :
        \/ \E key \in Key \cup {None}, body \in Body : CreateBegin(r, key, body)
        \/ \E t \in Transaction, c \in ClientEvent :
            \/ OpenBegin(r, t, c)
            \/ \E result \in Result : ProviderBegin(r, t, c, result)
            \/ \E to \in {"COMPLETED", "FAILED"} : ManualBegin(r, t, c, to)
        \/ CreateCommit(r) \/ OpenCommit(r) \/ ResultCommit(r)
        \/ \E t \in Transaction : DetailBegin(r, t)
        \/ DetailQuery(r) \/ DetailAnswer(r)

Spec == Init /\ [][Next]_vars

-----------------------------------------------------------------------------
(* Properties.                                                             *)

TypeOK ==
    /\ transactions \in [Transaction -> Row]
    /\ ledger \in [Transaction -> [EventId -> Event \cup {None}]]
    /\ requests \in [Request -> Tx]
    /\ created \subseteq [body: Body, transaction: Transaction]
    /\ acknowledged \subseteq [transaction: Transaction, id: ClientEvent, asked: Asked]

Changes(t) == {c \in EventId : ledger[t][c] # None /\ ledger[t][c].from # ledger[t][c].asked.to}

\* The ledger accounts for the row: the events that changed the status form
\* one path that ends in it, one event per status passed, whatever reports
\* ran at once, and the last one carries the row's reference and failure
\* (record, transaction-provider-sms-result.service.ts:81-160).
LedgerExplainsStatus ==
    \A t \in Transaction : Present(t) =>
        /\ \E c \in Changes(t) : /\ ledger[t][c].asked.to = transactions[t].status
                                 /\ ledger[t][c].asked.reference = transactions[t].reference
                                 /\ ledger[t][c].asked.failure = transactions[t].failure
        /\ \A c \in Changes(t) :
              /\ ledger[t][c].asked.to = transactions[t].status
                    \/ \E d \in Changes(t) : ledger[t][d].from = ledger[t][c].asked.to
              /\ ledger[t][c].from = None
                    \/ \E d \in Changes(t) : ledger[t][d].asked.to = ledger[t][c].from
        /\ \A c, d \in Changes(t) :
              \/ c = d
              \/ /\ ledger[t][c].asked.to # ledger[t][d].asked.to
                 /\ ledger[t][c].from # ledger[t][d].from

\* Who looks at a payment while reports come in is shown no status without the
\* event it comes from, although row and events are read by two queries of no
\* transaction (getDetail, transaction-query.service.ts:108-130).
DetailIsExplained ==
    \A r \in Request : DetailShown(r) =>
        LET row == requests[r].row
            events == requests[r].events IN
        \E c \in EventId : /\ events[c] # None
                           /\ events[c].asked.to = row.status
                           /\ events[c].asked.reference = row.reference
                           /\ events[c].asked.failure = row.failure

\* An answered result is in the ledger as it was reported: no report is
\* answered on the strength of another one that used its id
\* (assertEventMatches, transaction-provider-sms-result.service.ts:243-272).
ResultsAreKept ==
    \A receipt \in acknowledged : receipt.asked # OpenedReport =>
        /\ ledger[receipt.transaction][receipt.id] # None
        /\ ledger[receipt.transaction][receipt.id].asked = receipt.asked
        /\ transactions[receipt.transaction].status = receipt.asked.to

\* A create that was answered got a transaction of its own terms, and two
\* that used one key got the same one, though they ran at once
\* (create, transaction-creation.service.ts:51-147).
CreatedAsAsked ==
    \A a \in created :
        /\ transactions[a.transaction].body = a.body
        /\ \A t \in Transaction :
              transactions[t].key # None /\ transactions[t].key = transactions[a.transaction].key
                  => t = a.transaction

\* A provider reference settles one transaction: the lookup of two reports
\* may find it free for both (record, transaction-provider-sms-result.service.ts:67-79).
ReferenceSettlesOne ==
    \A t, u \in Transaction :
        transactions[t].reference # None /\ transactions[t].reference = transactions[u].reference
            => t = u

-----------------------------------------------------------------------------
(* The lifecycle these tables implement.                                   *)

StageOf(row) ==
    CASE row.status = "ABSENT" -> "none"
      [] row.status = "PENDING" -> "pending"
      [] row.status = "PROCESSING" -> "processing"
      [] OTHER -> "settled"

Stages == [t \in Transaction |-> StageOf(transactions[t])]

Outcomes ==
    [t \in Transaction |->
        IF transactions[t].status \in Outcome
        THEN <<transactions[t].status, transactions[t].reference, transactions[t].failure>>
        ELSE None]

Lifecycle == INSTANCE PaymentLifecycle
    WITH Nothing <- None, stage <- Stages, outcome <- Outcomes,
         Outcome <- Outcome \X (Reference \cup {None}) \X (Failure \cup {None})

\* The handlers, however they interleave, implement the promised lifecycle: a
\* payment is settled once and its outcome never changes.
ImplementsLifecycle == Lifecycle!Spec
=============================================================================
