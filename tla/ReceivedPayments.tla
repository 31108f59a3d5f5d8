-------------------------- MODULE ReceivedPayments --------------------------
(***************************************************************************)
(* Money a user received, recorded by hand, from an SMS or by confirming   *)
(* an import, and the incomes it is booked as.                             *)
(*                                                                         *)
(* Recording and classifying run without a transaction: each statement     *)
(* sees what is committed when it starts, and a write waits for the row's  *)
(* lock.  Every operation on incomes runs SERIALIZABLE and updates the     *)
(* rows it relies on, so one that commits is one step; one that is         *)
(* aborted three times changes nothing.                                    *)
(***************************************************************************)
EXTENDS Naturals, FiniteSets

CONSTANTS
    Payment,    \* received payments, named by their clientEventId
    Imported,   \* those whose clientEventId is made from an import's id
    Income,     \* incomes, named by their clientEventId
    Request,    \* HTTP requests the server can have open at once
    Reference,  \* provider references
    Amount,     \* amounts of money, with the moment they were received
    Class,      \* classifications of a received payment
    None        \* SQL NULL

ASSUME ImportedAssumption == Imported \subseteq Payment

ASSUME ClassAssumption == {"UNCLASSIFIED", "INCOME"} \subseteq Class

ASSUME NoneAssumption == None \notin Income \cup Payment \cup Reference \cup Amount

VARIABLES
    payments,  \* the ReceivedTransaction table
    incomes,   \* the Income table
    requests,  \* the statements under way
    answers    \* history: recordings that were answered, with the payment answered

vars == <<payments, incomes, requests, answers>>

-----------------------------------------------------------------------------
(* Rows, requests and the bodies of a recording.                           *)

Source == {"MANUAL", "PROVIDER_SMS"}

PaymentRow == [exists: BOOLEAN, source: Source, reference: Reference \cup {None},
               amount: Amount \cup {None}, class: Class]

NoPayment == [exists |-> FALSE, source |-> "MANUAL", reference |-> None,
              amount |-> None, class |-> "UNCLASSIFIED"]

IncomeRow == [exists: BOOLEAN, amount: Amount \cup {None}, received: BOOLEAN,
              payment: Payment \cup {None}, archived: BOOLEAN]

NoIncome == [exists |-> FALSE, amount |-> None, received |-> FALSE,
             payment |-> None, archived |-> FALSE]

\* Mutant: the source is taken from the client.
BodyOfAnySource == [source: Source \cup {"PROVIDER_API"}, reference: Reference \cup {None},
                    amount: Amount]

\* A provider's SMS always carries a reference, a recording by hand need not.
Body == {b \in [source: Source, reference: Reference \cup {None}, amount: Amount] :
            b.source = "PROVIDER_SMS" => b.reference # None}

Idle == [op |-> "idle"]
RecordTx == [op: {"record"}, payment: Payment, body: Body]
ClassifyTx == [op: {"classify"}, payment: Payment, class: Class]
Tx == {Idle} \cup RecordTx \cup ClassifyTx

Answer == [body: Body, payment: Payment]

Open(r, tx) == requests[r] = Idle /\ requests' = [requests EXCEPT ![r] = tx]
Close(r) == requests' = [requests EXCEPT ![r] = Idle]

Init ==
    /\ payments = [p \in Payment |-> NoPayment]
    /\ incomes = [i \in Income |-> NoIncome]
    /\ requests = [r \in Request |-> Idle]
    /\ answers = {}

-----------------------------------------------------------------------------
(* Recording.                                                              *)

\* Mutant: the row that holds the reference answers whatever it says.
ReferenceMatchesUnchecked(row, body) == TRUE

\* assertProviderReferenceMatches: an SMS is answered only by an SMS.
ReferenceMatches(row, body) ==
    /\ row.amount = body.amount
    /\ body.source = "PROVIDER_SMS" => row.source = "PROVIDER_SMS"

\* assertClientEventMatches.
EventMatches(row, body) ==
    /\ row.source = body.source
    /\ row.reference = body.reference /\ row.amount = body.amount

Holders(reference) ==
    {p \in Payment : payments[p].exists /\ reference # None /\ payments[p].reference = reference}

\* Mutant: only the lookup keeps a reference unique.
KnownByEvent(e, body) == payments[e].exists

\* What the lookups find, and what a unique index would refuse: a row of the
\* client event id or one of the provider reference.
Known(e, body) == payments[e].exists \/ Holders(body.reference) # {}

\* A known recording is answered with the row it agrees with, the row of the
\* client event id before that of the reference, or refused.
AnswerKnown(e, body) ==
    answers' = answers \cup
        IF payments[e].exists
        THEN {[body |-> body, payment |-> p] : p \in {q \in {e} : EventMatches(payments[q], body)}}
        ELSE {[body |-> body, payment |-> p] :
                 p \in {q \in Holders(body.reference) : ReferenceMatches(payments[q], body)}}

\* Any client event id may be sent, also the one a confirmation would make.
RecordBegin(r, e, body) ==
    /\ \/ /\ payments[e].exists \/ Holders(body.reference) # {}
          /\ AnswerKnown(e, body)
          /\ requests[r] = Idle /\ UNCHANGED requests
       \/ /\ ~payments[e].exists /\ Holders(body.reference) = {}
          /\ Open(r, [op |-> "record", payment |-> e, body |-> body])
          /\ UNCHANGED answers
    /\ UNCHANGED <<payments, incomes>>

Recorded(body, class) ==
    [exists |-> TRUE, source |-> body.source, reference |-> body.reference,
     amount |-> body.amount, class |-> class]

\* One INSERT; when a unique index refuses it, both lookups run again.
RecordCommit(r) ==
    /\ requests[r].op = "record"
    /\ LET e == requests[r].payment
           body == requests[r].body IN
       \/ /\ ~Known(e, body)
          /\ payments' = [payments EXCEPT ![e] = Recorded(body, "UNCLASSIFIED")]
          /\ answers' = answers \cup {[body |-> body, payment |-> e]}
       \/ Known(e, body) /\ AnswerKnown(e, body) /\ UNCHANGED payments
    /\ Close(r)
    /\ UNCHANGED incomes

\* Confirming an import records a payment and, when asked to, a received
\* income of it, in one serializable transaction.  An import need not have a
\* reference.
ConfirmImport(e, body, class, income) ==
    /\ e \in Imported
    /\ ~Known(e, body)
    /\ payments' = [payments EXCEPT ![e] = Recorded(body, class)]
    /\ \/ income = None /\ UNCHANGED incomes
       \/ /\ income # None /\ class = "INCOME" /\ ~incomes[income].exists
          /\ incomes' = [incomes EXCEPT ![income] =
                [NoIncome EXCEPT !.exists = TRUE, !.amount = body.amount,
                                 !.received = TRUE, !.payment = e]]
    /\ UNCHANGED <<requests, answers>>

-----------------------------------------------------------------------------
(* Classification.                                                         *)

Linked(p) == \E i \in Income : incomes[i].payment = p

\* The UPDATE's own condition on incomes, as of the start of the statement: a
\* row that is locked is waited for and its own columns read again, but not
\* the other table's.
ClassifyBegin(r, p, class) ==
    /\ payments[p].exists /\ payments[p].class # class
    /\ class # "INCOME" => ~Linked(p)
    /\ Open(r, [op |-> "classify", payment |-> p, class |-> class])
    /\ UNCHANGED <<payments, incomes, answers>>

ClassifyWrite(r) ==
    /\ requests[r].op = "classify"
    /\ payments' = [payments EXCEPT ![requests[r].payment].class = requests[r].class]
    /\ Close(r)
    /\ UNCHANGED <<incomes, answers>>

-----------------------------------------------------------------------------
(* Incomes.  Only an income that is not archived is found (owned).         *)

Owned(i) == incomes[i].exists /\ ~incomes[i].archived

\* A repeated create changes nothing, whether it is answered or refused.
CreateIncome(i, amount, received) ==
    /\ ~incomes[i].exists
    /\ incomes' = [incomes EXCEPT ![i] =
           [NoIncome EXCEPT !.exists = TRUE, !.amount = amount, !.received = received]]
    /\ UNCHANGED <<payments, requests, answers>>

\* Mutant: the amount of a received income may be edited.
AmountEditableAlways(row) == TRUE

\* The amount of a received income is locked.
AmountEditable(row) == ~row.received

UpdateIncome(i, amount) ==
    /\ Owned(i) /\ AmountEditable(incomes[i])
    /\ incomes' = [incomes EXCEPT ![i].amount = amount]
    /\ UNCHANGED <<payments, requests, answers>>

ReceiveIncome(i) ==
    /\ Owned(i) /\ ~incomes[i].received
    /\ incomes' = [incomes EXCEPT ![i].received = TRUE]
    /\ UNCHANGED <<payments, requests, answers>>

\* The payments offered for an income.
Candidates(i) ==
    {p \in Payment : /\ Owned(i) /\ incomes[i].payment = None
                     /\ payments[p].exists /\ payments[p].amount = incomes[i].amount
                     /\ ~Linked(p)
                     /\ payments[p].class \in {"UNCLASSIFIED", "INCOME"}}

\* What link accepts.
Linkable(i, p) ==
    /\ Owned(i) /\ incomes[i].payment = None
    /\ payments[p].exists /\ ~Linked(p)
    /\ incomes[i].amount = payments[p].amount
    /\ payments[p].class \in {"UNCLASSIFIED", "INCOME"}

LinkIncome(i, p) ==
    /\ Linkable(i, p)
    /\ payments' = [payments EXCEPT ![p].class = "INCOME"]
    /\ incomes' = [incomes EXCEPT ![i].payment = p, ![i].received = TRUE]
    /\ UNCHANGED <<requests, answers>>

\* Mutant: archiving an income releases its payment.
ArchivedReleased(row) == [row EXCEPT !.archived = TRUE, !.payment = None]

\* An archived income keeps its payment.
Archived(row) == [row EXCEPT !.archived = TRUE]

ArchiveIncome(i) ==
    /\ Owned(i)
    /\ incomes' = [incomes EXCEPT ![i] = Archived(incomes[i])]
    /\ UNCHANGED <<payments, requests, answers>>

-----------------------------------------------------------------------------

Restart ==
    /\ requests' = [r \in Request |-> Idle]
    /\ UNCHANGED <<payments, incomes, answers>>

Next ==
    \/ Restart
    \/ \E r \in Request :
        \/ \E e \in Payment, body \in Body : RecordBegin(r, e, body)
        \/ \E p \in Payment, class \in Class : ClassifyBegin(r, p, class)
        \/ RecordCommit(r) \/ ClassifyWrite(r)
    \/ \E e \in Payment, body \in [source: {"PROVIDER_SMS"}, reference: Reference \cup {None},
                                   amount: Amount], class \in Class, i \in Income \cup {None} :
          ConfirmImport(e, body, class, i)
    \/ \E i \in Income :
        \/ \E amount \in Amount : UpdateIncome(i, amount)
        \/ \E amount \in Amount, received \in BOOLEAN : CreateIncome(i, amount, received)
        \/ \E p \in Payment : LinkIncome(i, p)
        \/ ReceiveIncome(i) \/ ArchiveIncome(i)

Spec == Init /\ [][Next]_vars

-----------------------------------------------------------------------------
(* Properties.                                                             *)

TypeOK ==
    /\ payments \in [Payment -> PaymentRow]
    /\ incomes \in [Income -> IncomeRow]
    /\ requests \in [Request -> Tx]
    /\ answers \subseteq Answer

\* An income booked from a payment says what the payment says, and a payment
\* is booked once: linking, editing, receiving, archiving and confirming an
\* import keep the two books in step (link, update, incomes.service.ts:220-347).
BookedAsReceived ==
    /\ \A i \in Income : incomes[i].payment # None =>
          /\ incomes[i].received
          /\ payments[incomes[i].payment].exists
          /\ incomes[i].amount = payments[incomes[i].payment].amount
    /\ \A i, j \in Income :
          incomes[i].payment # None /\ incomes[i].payment = incomes[j].payment => i = j

\* A recording that is answered names a payment that says what it said, even
\* when it lost a race or repeats an earlier one: an SMS heard twice, or heard
\* and recorded by hand, answers with one payment
\* (resolveUniqueRace, received-provider-sms-recording.service.ts:116-151).
AnsweredAsRecorded ==
    /\ \A a \in answers :
          LET row == payments[a.payment] IN
          /\ row.exists /\ row.amount = a.body.amount
          /\ row.reference = a.body.reference
          /\ a.body.source = "PROVIDER_SMS" => row.source = "PROVIDER_SMS"
    /\ \A a, b \in answers :
          a.body.reference # None /\ a.body.reference = b.body.reference
              => a.payment = b.payment

\* Money heard of by several ways under one reference is one payment
\* (record, received-provider-sms-recording.service.ts:58-113;
\* confirm, financial-message-review.service.ts:235).
ReferenceReceivedOnce ==
    \A p, q \in Payment :
        /\ payments[p].exists /\ payments[q].exists
        /\ payments[p].reference # None /\ payments[p].reference = payments[q].reference
        => p = q

\* A payment that is offered for an income can be linked to it
\* (candidates and link, incomes.service.ts:271-347, state their conditions apart).
CandidatesAreLinkable ==
    \A i \in Income : \A p \in Candidates(i) : Linkable(i, p)

\* The two tables as a book of receipts.
Heard ==
    [p \in Payment |->
        IF payments[p].exists THEN <<payments[p].reference, payments[p].amount>> ELSE <<>>]

Stated == [i \in Income |-> incomes[i].amount]

BookedFrom == [i \in Income |-> incomes[i].payment]

Book == INSTANCE IncomeBook
    WITH Nothing <- None, heard <- Heard, stated <- Stated, booked <- BookedFrom

\* The tables implement IncomeBook: whatever is recorded, classified, edited,
\* linked, archived or confirmed, and in whichever order it interleaves, what a
\* payment says never changes and a booked income stays booked, from the same
\* payment and with its amount, even when it is archived
\* (update, link and archive, incomes.service.ts:220-358).
ImplementsBook == Book!Spec

\* "A payment linked to an income record must remain classified as income."
\* (updateOwnedClassification, received-transaction-write.repository.ts:53)
LinkedIsIncome ==
    \A p \in Payment : Linked(p) => payments[p].class = "INCOME"
=============================================================================
