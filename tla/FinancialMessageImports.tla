---------------------- MODULE FinancialMessageImports ----------------------
(***************************************************************************)
(* The life of an imported payment message: an iPhone Shortcut delivers an *)
(* SMS (ingest), its owner corrects it (update), records it as a received  *)
(* payment (confirm) or drops it (dismiss), and a timer retires what       *)
(* nobody looked at (runOnce).  One user's rows; every query of the code   *)
(* is scoped by userId.                                                    *)
(*                                                                         *)
(* Each handler is split where PostgreSQL lets another request in.  update *)
(* and dismiss run READ COMMITTED: they read the row, then write it by     *)
(* primary key whatever it has become.  ingest and confirm run             *)
(* SERIALIZABLE: they read a snapshot and commit only if nothing they read *)
(* has changed; an aborted attempt leaves no trace and is retried.         *)
(***************************************************************************)
EXTENDS Naturals, FiniteSets

CONSTANTS
    Import,       \* primary keys of FinancialMessageImport
    Payment,      \* primary keys of ReceivedTransaction
    Request,      \* HTTP requests the server can have open at once
    Event,        \* clientEventId values a Shortcut generates
    Message,      \* the deliverable messages, with the time they carry
    Parse,        \* [Message -> Parsed]: what the parser and rollout make of one
    Text,         \* fingerprints of message texts
    Provider,     \* provider codes
    Reference,    \* provider references
    Value,        \* values of a detail of a payment
    Unrecordable, \* the amounts a received transaction cannot hold
    Patch,        \* the corrections a user submits
    Class,        \* classifications of a received payment
    None,         \* SQL NULL
    Lifetime,     \* pendingImportLifetimeDays
    Lookback,     \* DUPLICATE_LOOKBACK_DAYS
    MaximumAge,   \* maximumMessageAgeDays
    MaxAttempts,  \* MAX_TRANSACTION_ATTEMPTS
    MaxTime       \* bound of the clock

Detail == {"amount", "occurredAt", "sender"}
Details == [Detail -> Value \cup {None}]
Status == {"PENDING", "CONFIRMED", "DISMISSED", "EXPIRED"}
DuplicateStatus == {"CLEAR", "POSSIBLE_DUPLICATE", "CONFIRMED_DUPLICATE"}
ParseStatus == {"PARSED", "NEEDS_DETAILS", "REJECTED"}

Parsed == [text: Text, provider: Provider \cup {None}, at: Nat,
           reference: Reference \cup {None}, details: Details, status: ParseStatus]

\* A correction gives a column a value, leaves it out, or sends null for it.  A
\* null is written to the amount, the sender's name and the reference; sent for
\* the date or the sender's number it is ignored, and so leaves out.  (A null
\* name of a sender with a number leaves a sender, and is left out as well.)
Erasable == {"amount", "sender", "reference"}

Patches ==
    {patch \in [details: Details, reference: Reference \cup {None}, erases: SUBSET Erasable] :
        /\ \A d \in Detail \cap patch.erases : patch.details[d] = None
        /\ "reference" \in patch.erases => patch.reference = None}

ASSUME BoundsAssumption ==
    /\ Lifetime \in Nat \ {0} /\ Lookback \in Nat /\ MaximumAge \in Nat
    /\ MaxAttempts \in Nat \ {0} /\ MaxTime \in Nat

ASSUME NoneAssumption ==
    None \notin Import \cup Payment \cup Event \cup Message
                \cup Provider \cup Reference \cup Value \cup Class

ASSUME InputAssumption ==
    /\ Parse \in [Message -> Parsed]
    /\ Patch \subseteq Patches
    /\ "INCOME" \in Class

\* The confirmation bodies that assertIncomeRequest lets through.
Choice == {c \in [class: Class, income: BOOLEAN] : c.income => c.class = "INCOME"}

VARIABLES
    imports,   \* the FinancialMessageImport table
    payments,  \* the ReceivedTransaction table
    requests,  \* the open transaction of every request
    now        \* the clock, in days

vars == <<imports, payments, requests, now>>

-----------------------------------------------------------------------------
(* Rows and open transactions.                                             *)

ImportRow ==
    [status: Status \cup {"ABSENT"}, event: Event \cup {None}, message: Message \cup {None},
     reference: Reference \cup {None}, details: Details, parse: ParseStatus,
     duplicate: DuplicateStatus, raw: BOOLEAN, createdAt: 0..MaxTime,
     received: Payment \cup {None}, income: BOOLEAN,
     erased: SUBSET Detail]  \* history: lost to a null

NoDetails == [d \in Detail |-> None]

NoImport ==
    [status |-> "ABSENT", event |-> None, message |-> None, reference |-> None,
     details |-> NoDetails, parse |-> "NEEDS_DETAILS", duplicate |-> "CLEAR",
     raw |-> FALSE, createdAt |-> 0, received |-> None, income |-> FALSE, erased |-> {}]

PaymentRow ==
    [exists: BOOLEAN, import: Import \cup {None}, reference: Reference \cup {None},
     details: Details, class: Class \cup {None}, income: BOOLEAN]

NoPayment ==
    [exists |-> FALSE, import |-> None, reference |-> None,
     details |-> NoDetails, class |-> None, income |-> FALSE]

Lookups == [event: SUBSET Import, reference: SUBSET Import, twin: BOOLEAN]

Idle == [op |-> "idle"]
IngestTx == [op: {"ingest"}, event: Event, message: Message, start: 0..MaxTime,
             seen: Lookups, attempt: 1..MaxAttempts]
UpdateTx == [op: {"update"}, import: Import, patch: Patch, parse: ParseStatus]
DismissTx == [op: {"dismiss"}, import: Import]
ConfirmTx == [op: {"confirm"}, import: Import, seen: ImportRow, choice: Choice,
              attempt: 1..MaxAttempts]
Tx == {Idle} \cup IngestTx \cup UpdateTx \cup DismissTx \cup ConfirmTx

Present(i) == imports[i].status # "ABSENT"
ProviderOf(i) == Parse[imports[i].message].provider
TextOf(i) == Parse[imports[i].message].text

\* Mutant: one attempt too many.
AttemptLeftInclusive(tx) == tx.attempt <= MaxAttempts

AttemptLeft(tx) == tx.attempt < MaxAttempts

Open(r, tx) == requests[r] = Idle /\ requests' = [requests EXCEPT ![r] = tx]
Close(r) == requests' = [requests EXCEPT ![r] = Idle]

Init ==
    /\ imports = [i \in Import |-> NoImport]
    /\ payments = [p \in Payment |-> NoPayment]
    /\ requests = [r \in Request |-> Idle]
    /\ now = 0

-----------------------------------------------------------------------------
(* Expiry.  A conditional UPDATE re-checks its WHERE on the row it locks,  *)
(* so retiring a row is one step; it purges the raw text with the status.  *)

\* Mutant: an import expires only after the instant it is due.
OverdueStrictly(row) == row.status = "PENDING" /\ row.createdAt + Lifetime < now

Overdue(row) == row.status = "PENDING" /\ row.createdAt + Lifetime <= now

\* Mutant: the status changes but the raw text stays.
ExpiredUnpurged(row) == IF Overdue(row) THEN [row EXCEPT !.status = "EXPIRED"] ELSE row

Expired(row) ==
    IF Overdue(row) THEN [row EXCEPT !.status = "EXPIRED", !.raw = FALSE] ELSE row

ExpireOne(i) == imports' = [imports EXCEPT ![i] = Expired(imports[i])]

ExpirePending == imports' = [i \in Import |-> Expired(imports[i])]

\* Reading one import retires it first when it is overdue.
DetailView(i) ==
    /\ Present(i)
    /\ ExpireOne(i)
    /\ UNCHANGED <<payments, requests, now>>

\* Listing the imports retires every overdue one first.
List ==
    /\ ExpirePending
    /\ UNCHANGED <<payments, requests, now>>

\* The raw text of a row that the first statement of the sweep did not purge.
Purged(row) ==
    IF row.status \in {"CONFIRMED", "DISMISSED", "EXPIRED"}
    THEN [row EXCEPT !.raw = FALSE] ELSE row

\* The retention timer: both updates commit together, one sweep at a time.
RunOnce ==
    /\ imports' = [i \in Import |-> Purged(Expired(imports[i]))]
    /\ UNCHANGED <<payments, requests, now>>

-----------------------------------------------------------------------------
(* Ingest: a Shortcut delivers message m under client event id e.          *)

\* What an attempt reads: the row of this event, the row that holds the
\* message's provider reference, and whether the text arrived recently.
Lookup(e, m, start) ==
    [event |-> {i \in Import : Present(i) /\ imports[i].event = e},
     reference |->
        {i \in Import : /\ Present(i)
                        /\ Parse[m].provider # None /\ ProviderOf(i) = Parse[m].provider
                        /\ Parse[m].reference # None
                        /\ imports[i].reference = Parse[m].reference},
     twin |->
        \E i \in Import : /\ Present(i) /\ TextOf(i) = Parse[m].text
                          /\ imports[i].createdAt + Lookback >= start]

IngestTxAt(e, m, start, attempt) ==
    [op |-> "ingest", event |-> e, message |-> m, start |-> start,
     seen |-> Lookup(e, m, start), attempt |-> attempt]

\* Accepted messages only (assertMessageTime); the bound keeps expiry in reach.
IngestBegin(r, e, m) ==
    /\ Parse[m].at <= now /\ now <= Parse[m].at + MaximumAge
    /\ now + Lifetime <= MaxTime
    /\ Open(r, IngestTxAt(e, m, now, 1))
    /\ UNCHANGED <<imports, payments, now>>

NewImport(tx) ==
    [status |-> "PENDING", event |-> tx.event, message |-> tx.message,
     reference |-> Parse[tx.message].reference, details |-> Parse[tx.message].details,
     parse |-> Parse[tx.message].status,
     duplicate |-> IF tx.seen.twin THEN "POSSIBLE_DUPLICATE" ELSE "CLEAR",
     raw |-> TRUE, createdAt |-> tx.start, received |-> None, income |-> FALSE, erased |-> {}]

\* Mutant: READ COMMITTED, where only the unique indexes stop a late insert.
IngestCurrentByIndex(tx) ==
    /\ tx.seen.event = Lookup(tx.event, tx.message, tx.start).event
    /\ tx.seen.reference = Lookup(tx.event, tx.message, tx.start).reference

\* The snapshot still holds: two ingests that miss each other cannot both commit.
IngestCurrent(tx) == tx.seen = Lookup(tx.event, tx.message, tx.start)

\* A replay changes nothing, a known reference is flagged on the row that
\* holds it, anything else becomes a pending row.
IngestCommit(r) ==
    /\ requests[r].op = "ingest"
    /\ LET tx == requests[r] IN
       /\ IngestCurrent(tx)
       /\ \/ tx.seen.event # {} /\ UNCHANGED imports
          \/ /\ tx.seen.event = {} /\ tx.seen.reference # {}
             /\ \E i \in tx.seen.reference :
                   imports' = [imports EXCEPT ![i].duplicate = "CONFIRMED_DUPLICATE"]
          \/ /\ tx.seen.event = {} /\ tx.seen.reference = {}
             /\ \E i \in Import :
                   ~Present(i) /\ imports' = [imports EXCEPT ![i] = NewImport(tx)]
    /\ Close(r)
    /\ UNCHANGED <<payments, now>>

\* P2002 or P2034: a fresh snapshot while attempts are left, then a conflict.
IngestAbort(r) ==
    /\ requests[r].op = "ingest"
    /\ LET tx == requests[r] IN
       requests' = [requests EXCEPT ![r] =
           IF AttemptLeft(tx)
           THEN IngestTxAt(tx.event, tx.message, tx.start, tx.attempt + 1) ELSE Idle]
    /\ UNCHANGED <<imports, payments, now>>

-----------------------------------------------------------------------------
(* Update and dismiss: expireOne, read and assertPending, write by id.     *)

Complete(details) == \A d \in Detail : details[d] # None

\* What the handler takes a correction to say: body.x ?? existing.x.
Corrected(details, patch) ==
    [d \in Detail |-> IF patch.details[d] # None THEN patch.details[d] ELSE details[d]]

\* What it writes: body.x, a null included.
Written(details, patch) ==
    [d \in Detail |-> IF d \in patch.erases THEN None ELSE Corrected(details, patch)[d]]

WrittenReference(reference, patch) ==
    IF "reference" \in patch.erases THEN None
    ELSE IF patch.reference # None THEN patch.reference ELSE reference

\* Mutant: what is not submitted is erased.
UpdatedErasing(row, tx) ==
    [row EXCEPT
        !.details = tx.patch.details,
        !.reference = WrittenReference(@, tx.patch),
        !.parse = tx.parse]

\* The columns the write sets: those submitted, and a parse status that was
\* derived from the row as it was read, as if no null had been sent.
Updated(row, tx) ==
    [row EXCEPT
        !.details = Written(@, tx.patch),
        !.reference = WrittenReference(@, tx.patch),
        !.parse = tx.parse,
        !.erased = {d \in @ : tx.patch.details[d] = None} \cup (tx.patch.erases \cap Detail)]

\* The unique index on (userId, providerCode, providerReference).
ReferenceFree(i, reference) ==
    \/ reference = None \/ ProviderOf(i) = None
    \/ \A j \in Import \ {i} : Present(j) /\ ProviderOf(j) = ProviderOf(i)
                                   => imports[j].reference # reference

\* A transaction that finds its row retired or decided ends with an error.
BeginOnPending(r, i, tx) ==
    /\ Present(i)
    /\ ExpireOne(i)
    /\ IF Expired(imports[i]).status = "PENDING"
       THEN Open(r, tx)
       ELSE requests[r] = Idle /\ UNCHANGED requests
    /\ UNCHANGED <<payments, now>>

UpdateBegin(r, i, patch) ==
    BeginOnPending(r, i,
        [op |-> "update", import |-> i, patch |-> patch,
         parse |-> IF Complete(Corrected(imports[i].details, patch))
                   THEN "PARSED" ELSE "NEEDS_DETAILS"])

UpdateWrite(r) ==
    /\ requests[r].op = "update"
    /\ LET tx == requests[r]
           row == Updated(imports[tx.import], tx) IN
       imports' = IF ReferenceFree(tx.import, row.reference)
                  THEN [imports EXCEPT ![tx.import] = row] ELSE imports
    /\ Close(r)
    /\ UNCHANGED <<payments, now>>

DismissBegin(r, i) ==
    BeginOnPending(r, i, [op |-> "dismiss", import |-> i])

\* Mutant: dismissing also clears the link to a payment.
DismissedUnlinked(row) ==
    [row EXCEPT !.status = "DISMISSED", !.raw = FALSE, !.received = None]

Dismissed(row) == [row EXCEPT !.status = "DISMISSED", !.raw = FALSE]

DismissWrite(r) ==
    /\ requests[r].op = "dismiss"
    /\ imports' = [imports EXCEPT ![requests[r].import] = Dismissed(@)]
    /\ Close(r)
    /\ UNCHANGED <<payments, now>>

-----------------------------------------------------------------------------
(* Confirm: one received transaction, and an income when asked for.        *)

\* Mutant: only a second confirmation is refused.
ConfirmableUnlessConfirmed(row) ==
    /\ row.status # "CONFIRMED"
    /\ Complete(row.details) /\ row.details["amount"] \notin Unrecordable
    /\ row.duplicate # "CONFIRMED_DUPLICATE"

\* Every check of the attempt, on the row of its snapshot.
Confirmable(row) ==
    /\ row.status = "PENDING"
    /\ Complete(row.details) /\ row.details["amount"] \notin Unrecordable
    /\ row.duplicate # "CONFIRMED_DUPLICATE"

ConfirmTxAt(i, row, choice, attempt) ==
    [op |-> "confirm", import |-> i, seen |-> row, choice |-> choice, attempt |-> attempt]

\* A confirmed row is replayed and any other refusal is an error: no change.
ConfirmBegin(r, i, choice) ==
    /\ Present(i)
    /\ ExpireOne(i)
    /\ IF Confirmable(Expired(imports[i]))
       THEN Open(r, ConfirmTxAt(i, imports[i], choice, 1))
       ELSE requests[r] = Idle /\ UNCHANGED requests
    /\ UNCHANGED <<payments, now>>

\* Mutant: no unique index on (userId, providerReference).
PaymentKeysFreeByEvent(i, reference) ==
    \A p \in Payment : payments[p].exists => payments[p].import # i

\* The unique indexes on (userId, clientEventId) and (userId, providerReference).
PaymentKeysFree(i, reference) ==
    \A p \in Payment : payments[p].exists =>
        /\ payments[p].import # i
        /\ reference = None \/ payments[p].reference # reference

NewPayment(tx) ==
    [exists |-> TRUE, import |-> tx.import, reference |-> tx.seen.reference,
     details |-> tx.seen.details, class |-> tx.choice.class, income |-> tx.choice.income]

Confirmed(row, p, choice) ==
    [row EXCEPT !.status = "CONFIRMED", !.parse = "PARSED", !.duplicate = "CLEAR",
                !.received = p, !.income = choice.income, !.raw = FALSE]

\* Mutant: READ COMMITTED, the row may have changed since it was checked.
ConfirmCurrentReadCommitted(tx) == Present(tx.import)

\* The snapshot's row is the row being updated: PostgreSQL refuses a
\* serializable UPDATE of a row that changed under it.
ConfirmCurrent(tx) == imports[tx.import] = tx.seen

ConfirmCommit(r) ==
    /\ requests[r].op = "confirm"
    /\ LET tx == requests[r] IN
       /\ ConfirmCurrent(tx)
       /\ PaymentKeysFree(tx.import, tx.seen.reference)
       /\ \E p \in Payment :
             /\ ~payments[p].exists
             /\ payments' = [payments EXCEPT ![p] = NewPayment(tx)]
             /\ imports' = [imports EXCEPT ![tx.import] = Confirmed(@, p, tx.choice)]
    /\ Close(r)
    /\ UNCHANGED now

\* P2002: the payment is already recorded; the request ends with a conflict.
ConfirmConflict(r) ==
    /\ requests[r].op = "confirm"
    /\ ~PaymentKeysFree(requests[r].import, requests[r].seen.reference)
    /\ Close(r)
    /\ UNCHANGED <<imports, payments, now>>

\* P2034: the checks run again on a fresh snapshot while attempts are left.
ConfirmAbort(r) ==
    /\ requests[r].op = "confirm"
    /\ LET tx == requests[r]
           row == imports[tx.import] IN
       requests' = [requests EXCEPT ![r] =
           IF AttemptLeft(tx) /\ Confirmable(row)
           THEN ConfirmTxAt(tx.import, row, tx.choice, tx.attempt + 1) ELSE Idle]
    /\ UNCHANGED <<imports, payments, now>>

\* A payment recorded by hand or by the Android SMS path, possibly one that an
\* import also describes: it competes for the provider reference.  A client that
\* gave it the event id of an import would only make more confirmations end in
\* a conflict, as ConfirmAbort may already; ReceivedPayments has such clients.
RecordElsewhere(reference, class) ==
    /\ \A p \in Payment : payments[p].exists => payments[p].reference # reference
    /\ \E p \in Payment :
          /\ ~payments[p].exists
          /\ payments' = [payments EXCEPT ![p] =
                [NoPayment EXCEPT !.exists = TRUE, !.reference = reference, !.class = class]]
    /\ UNCHANGED <<imports, requests, now>>

-----------------------------------------------------------------------------
(* The environment and the specification.                                  *)

Tick ==
    /\ now < MaxTime
    /\ now' = now + 1
    /\ UNCHANGED <<imports, payments, requests>>

\* The process dies: its connections roll back, the tables stay.
Restart ==
    /\ requests' = [r \in Request |-> Idle]
    /\ UNCHANGED <<imports, payments, now>>

Next ==
    \/ Tick \/ Restart \/ List \/ RunOnce
    \/ \E i \in Import : DetailView(i)
    \/ \E reference \in Reference, class \in Class : RecordElsewhere(reference, class)
    \/ \E r \in Request :
        \/ \E e \in Event, m \in Message : IngestBegin(r, e, m)
        \/ \E i \in Import, patch \in Patch : UpdateBegin(r, i, patch)
        \/ \E i \in Import, choice \in Choice : ConfirmBegin(r, i, choice)
        \/ \E i \in Import : DismissBegin(r, i)
        \/ IngestCommit(r) \/ IngestAbort(r)
        \/ UpdateWrite(r) \/ DismissWrite(r)
        \/ ConfirmCommit(r) \/ ConfirmConflict(r) \/ ConfirmAbort(r)

Spec == Init /\ [][Next]_vars

\* The clock advances and the retention interval keeps firing: setInterval
\* rearms itself whatever a sweep does, and a restart sweeps at bootstrap.
FairSpec == Spec /\ WF_vars(Tick) /\ WF_vars(RunOnce)

-----------------------------------------------------------------------------
(* Properties.                                                             *)

\* Every table holds rows of its type and every open request a transaction.
TypeOK ==
    /\ imports \in [Import -> ImportRow]
    /\ payments \in [Payment -> PaymentRow]
    /\ requests \in [Request -> Tx]
    /\ now \in 0..MaxTime

\* An import and the payment recorded from it name each other, so no import is
\* counted twice and no payment outlives its evidence, whatever confirm,
\* dismiss, update, ingest and the sweep interleave (confirm,
\* financial-message-review.service.ts:221-274).
MoneyFollowsConfirmation ==
    /\ \A i \in Import :
          /\ imports[i].status = "CONFIRMED" => imports[i].received # None
          /\ imports[i].received # None =>
                LET payment == payments[imports[i].received] IN
                payment.exists /\ payment.import = i /\ payment.income = imports[i].income
    /\ \A p \in Payment :
          payments[p].exists /\ payments[p].import # None
              => imports[payments[p].import].received = p

\* Raw message text is held for a pending import only: every way out of
\* PENDING purges it in the same statement, so the second statement of the
\* sweep never finds anything (retention.service.ts:65-96).
RawTextOnlyWhilePending ==
    \A i \in Import : imports[i].raw => imports[i].status = "PENDING"

\* Two unrecorded imports of the same text within the lookback window are
\* never both shown as clear, even when two deliveries run at once: the
\* duplicate search of one cannot miss the row of the other
\* (ingest, financial-message-imports.service.ts:120-149).
RepeatedTextIsFlagged ==
    \A i, j \in Import :
        /\ i # j /\ Present(i) /\ Present(j) /\ TextOf(i) = TextOf(j)
        /\ imports[i].createdAt <= imports[j].createdAt
        /\ imports[j].createdAt <= imports[i].createdAt + Lookback
        /\ imports[i].received = None /\ imports[j].received = None
        => ~(imports[i].duplicate = "CLEAR" /\ imports[j].duplicate = "CLEAR")

\* A payment is recorded from an import that is pending at that very moment
\* and with the details and reference it then has: a dismissal, an expiry, a
\* correction or a duplicate mark that commits while confirm runs is never
\* overlooked (confirm, financial-message-review.service.ts:182-240).
RecordsWhatIsPending ==
    [][\A p \in Payment :
        ~payments[p].exists /\ payments'[p].exists /\ payments'[p].import # None =>
            LET row == imports[payments'[p].import] IN
            /\ row.status = "PENDING" /\ row.duplicate # "CONFIRMED_DUPLICATE"
            /\ row.details = payments'[p].details
            /\ row.reference = payments'[p].reference]_vars

\* One provider reference is paid for once, although two imports may carry it
\* (its index ignores rows without a provider) and it may also be recorded by
\* hand or by Android SMS while an import of it is being confirmed
\* (confirm, financial-message-review.service.ts:221-240, 288-296).
ReferencePaidOnce ==
    \A p, q \in Payment :
        /\ payments[p].exists /\ payments[q].exists
        /\ payments[p].reference # None /\ payments[p].reference = payments[q].reference
        => p = q

\* What a user's correction or dismissal touches.
Reviewed(row) == <<row.status, row.details, row.reference>>

\* "Only pending imported messages can be changed."
\* (assertPending, financial-message-review.service.ts:413): once confirmed, an
\* import keeps its status, details and reference.
ConfirmedIsFinal ==
    [][\A i \in Import : imports[i].status = "CONFIRMED"
            => Reviewed(imports'[i]) = Reviewed(imports[i])]_vars

-----------------------------------------------------------------------------
(* The lifecycle these tables implement.                                   *)

OutcomeOf(i) ==
    IF imports[i].received # None THEN "recorded"
    ELSE CASE imports[i].status = "ABSENT" -> "none"
           [] imports[i].status = "PENDING" -> "pending"
           [] OTHER -> "discarded"

Content == [details: Details, reference: Reference \cup {None}]

Shown(row) == [details |-> row.details, reference |-> row.reference]

Outcomes == [i \in Import |-> OutcomeOf(i)]

Drafts == [i \in Import |-> IF OutcomeOf(i) = "pending" THEN Shown(imports[i]) ELSE None]

Books == [i \in Import |-> IF imports[i].received # None
                           THEN Shown(payments[imports[i].received]) ELSE None]

Lifecycle == INSTANCE ImportLifecycle
    WITH Nothing <- None, outcome <- Outcomes, draft <- Drafts, book <- Books

\* The tables, their races included, implement the promised lifecycle.
ImplementsLifecycle == Lifecycle!Spec

\* The book of receipts the payments implement: the income of a confirmation
\* is named by its payment.
Heard == [p \in Payment |-> IF payments[p].exists
                            THEN <<payments[p].reference, payments[p].details>> ELSE <<>>]

IsIncome(p) == payments[p].exists /\ payments[p].income

Stated == [p \in Payment |-> IF IsIncome(p) THEN payments[p].details ELSE None]

BookedFrom == [p \in Payment |-> IF IsIncome(p) THEN p ELSE None]

Receipts == INSTANCE IncomeBook
    WITH Income <- Payment, Amount <- Details, Nothing <- None,
         heard <- Heard, stated <- Stated, booked <- BookedFrom

\* Whatever of confirmations, their retries and payments recorded elsewhere
\* interleaves, the user's book of receipts stays what it promises: a
\* reference is heard of once, what was said of a payment stands for ever, and
\* the income booked with a confirmation says what its payment says
\* (confirm, financial-message-review.service.ts:221-296).
ImplementsReceipts == Receipts!Spec

\* No import stays pending for ever, raw text and all: the sweep retires it
\* once its lifetime is over (runOnce, retention.service.ts:57-96).
NothingWaits == Lifecycle!NothingWaits
=============================================================================
