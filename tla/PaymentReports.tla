--------------------------- MODULE PaymentReports ---------------------------
(***************************************************************************)
(* What a user reads of their payments: the history, page after page, cut  *)
(* from two tables, the list of either table, and the analytics of a       *)
(* period next to the one before.                                          *)
(*                                                                         *)
(* All read without a transaction: every query of a request sees the      *)
(* tables as they are when it runs, and payments go on being made, settled *)
(* and received between two queries.                                       *)
(***************************************************************************)
EXTENDS PaymentRules, FiniteSets

CONSTANTS
    Sent,       \* primary keys of Transaction, in their order
    Received,   \* primary keys of ReceivedTransaction, in their order
    Period,     \* the periods users ask for
    Limit,      \* query.limit
    Skew,       \* the five minutes a reported time may be off the clock
    MaxTime,    \* bound of the clock
    None        \* SQL NULL

ASSUME KeysAssumption ==
    /\ Sent \subseteq Nat /\ IsFiniteSet(Sent)
    /\ Received \subseteq Nat /\ IsFiniteSet(Received)

ASSUME NumbersAssumption ==
    /\ Limit \in Nat \ {0} /\ Skew \in Nat /\ MaxTime \in Nat
    /\ \A period \in Period : period \in [from: Int, to: Int] /\ period.from <= period.to

VARIABLES
    sent,      \* the Transaction table, with what its ledger says of completion
    received,  \* the ReceivedTransaction table: when a payment occurred
    reader,    \* the request that reads
    now        \* the clock

vars == <<sent, received, reader, now>>

-----------------------------------------------------------------------------
(* The tables, as far as the reports read them.                            *)

Moment == -Skew..(MaxTime + Skew)

SentRow == [status: {"ABSENT", "PENDING", "FAILED", "COMPLETED"}, createdAt: 0..MaxTime,
            completedAt: Moment \cup {None}, evidence: {"PROVIDER_SMS", "MOBILE_APP", None}]

NoPayment == [status |-> "ABSENT", createdAt |-> 0, completedAt |-> None, evidence |-> None]

Item == ({"SENT"} \X Sent) \cup ({"RECEIVED"} \X Received)

ASSUME NoneAssumption ==
    /\ None \notin Int \cup {"SENT", "RECEIVED", "PENDING", "COMPLETED", "PROVIDER_SMS", "MOBILE_APP"}
    /\ \A items \in SUBSET Item : items # None

SentItems == {<<"SENT", s>> : s \in {t \in Sent : sent[t].status # "ABSENT"}}
ReceivedItems == {<<"RECEIVED", q>> : q \in {p \in Received : received[p] # None}}

StatusOf(item) == IF item[1] = "SENT" THEN sent[item[2]].status ELSE "COMPLETED"

\* Mutant: the history follows the settlement of a payment.
ActivityAtSettlement(item) ==
    IF item[1] = "RECEIVED" THEN received[item[2]]
    ELSE IF sent[item[2]].completedAt # None THEN sent[item[2]].completedAt
    ELSE sent[item[2]].createdAt

ActivityAt(item) ==
    IF item[1] = "SENT" THEN sent[item[2]].createdAt ELSE received[item[2]]

-----------------------------------------------------------------------------
(* Readers.                                                                *)

\* classified: by classification, which a user changes whenever they like.
Filter == [direction: {"SENT", "RECEIVED", None}, status: {"PENDING", "COMPLETED", None},
           classified: BOOLEAN]

\* The list of one table filters by that table's own columns, the history by
\* what the two have in common.
HistoryFilter == {filter \in Filter : ~filter.classified}
SentListFilter == {filter \in HistoryFilter : filter.direction = "SENT"}
ReceivedListFilter ==
    {filter \in Filter : filter.direction = "RECEIVED" /\ filter.status # "PENDING"}

Part == {"totals", "groups", "sms", "manual", "previous", "receivedTotals", "receivedGroups"}

Idle == [op |-> "idle"]
PageReader ==
    [op: {"page", "lastPage"}, of: {"history", "list"}, filter: Filter, page: Nat \ {0},
     sent: (SUBSET Item) \cup {None}, received: (SUBSET Item) \cup {None},
     sentTotal: Nat \cup {None}, receivedTotal: Nat \cup {None},
     known: SUBSET Item,  \* what the history holds when the user opens it
     shown: SUBSET Item,  \* what the pages have shown
     news: SUBSET Item]   \* what enters the history while this page is read
ReportReader == [op: {"report"}, period: Period, parts: [Part -> (SUBSET Item) \cup {None}],
                 news: SUBSET Item]  \* what enters a report while this one runs

Init ==
    /\ sent = [s \in Sent |-> NoPayment]
    /\ received = [q \in Received |-> None]
    /\ reader = Idle
    /\ now = 0

-----------------------------------------------------------------------------
(* Payments are made, settled and received meanwhile.                      *)

\* The item enters a report, or the history under one of the filters.
News(item, statuses) ==
    IF \/ reader.op = "report" /\ "COMPLETED" \in statuses
       \/ reader.op = "page" /\ reader.filter.direction \in {None, item[1]}
              /\ reader.filter.status \in statuses
    THEN [reader EXCEPT !.news = @ \cup {item}] ELSE reader

Create(s) ==
    /\ sent[s] = NoPayment
    /\ sent' = [sent EXCEPT ![s].status = "PENDING", ![s].createdAt = now]
    /\ reader' = News(<<"SENT", s>>, {None, "PENDING"})
    /\ UNCHANGED <<received, now>>

\* Mutant: the payment is completed and nothing says when.
SettleUntimed(s, at, evidence) ==
    /\ sent[s].status = "PENDING"
    /\ sent[s].createdAt - Skew <= at /\ at <= now + Skew
    /\ sent' = [sent EXCEPT ![s].status = "COMPLETED", ![s].evidence = evidence]
    /\ reader' = News(<<"SENT", s>>, {"COMPLETED"})
    /\ UNCHANGED <<received, now>>

\* A provider's message carries the time of the payment; a result the user
\* enters takes the time of the request.
Settle(s, at, evidence) ==
    /\ sent[s].status = "PENDING"
    /\ IF evidence = "MOBILE_APP" THEN at = now
       ELSE sent[s].createdAt - Skew <= at /\ at <= now + Skew
    /\ sent' = [sent EXCEPT ![s].status = "COMPLETED", ![s].completedAt = at,
                            ![s].evidence = evidence]
    /\ reader' = News(<<"SENT", s>>, {"COMPLETED"})
    /\ UNCHANGED <<received, now>>

Fail(s) ==
    /\ sent[s].status = "PENDING"
    /\ sent' = [sent EXCEPT ![s].status = "FAILED"]
    /\ UNCHANGED <<received, reader, now>>

Receive(q, at) ==
    /\ received[q] = None /\ at <= now + Skew
    /\ received' = [received EXCEPT ![q] = at]
    /\ reader' = News(<<"RECEIVED", q>>, {None, "COMPLETED"})
    /\ UNCHANGED <<sent, now>>

Tick ==
    /\ now < MaxTime
    /\ now' = now + 1
    /\ UNCHANGED <<sent, received, reader>>

-----------------------------------------------------------------------------
(* The history and the lists.                                              *)

\* Newest first; at one instant sent before received, then by key.
Before(a, b) ==
    \/ ActivityAt(a) > ActivityAt(b)
    \/ ActivityAt(a) = ActivityAt(b) /\ a[1] = "SENT" /\ b[1] = "RECEIVED"
    \/ ActivityAt(a) = ActivityAt(b) /\ a[1] = b[1] /\ a[2] > b[2]

Position(item, items) == Cardinality({other \in items : Before(other, item)})

Matching(filter, items) ==
    {item \in items : filter.status # None => StatusOf(item) = filter.status}

\* The tables that are read: a received payment is never pending.
Asks(filter, table) ==
    filter.direction \in {table, None} /\ (table = "RECEIVED" => filter.status # "PENDING")

SentMatching(filter) ==
    IF Asks(filter, "SENT") THEN Matching(filter, SentItems) ELSE {}
ReceivedMatching(filter) ==
    IF Asks(filter, "RECEIVED") THEN Matching(filter, ReceivedItems) ELSE {}

\* What a query of received payments may find.  Their classification is not
\* kept: between two queries any of them may get, or lose, the one asked for.
ReceivedFound(filter) ==
    IF filter.classified THEN SUBSET ReceivedMatching(filter) ELSE {ReceivedMatching(filter)}

\* Mutant: only as many rows as the page holds.
TakeOnePage(page) == Limit

\* The rows asked of each table: any of them may be on the page.
Take(page) == page * Limit

First(items, count) == {item \in items : Position(item, items) < count}

\* The combined list, cut to the page.
Cut(items, page) ==
    {item \in items : (page - 1) * Limit <= Position(item, items)
                        /\ Position(item, items) < page * Limit}

\* The query of a list skips and takes.
ListPage(tx) == Cut(tx.sent \cup tx.received, tx.page)

PageOf(tx) ==
    IF tx.of = "list" THEN ListPage(tx)
    ELSE Cut(First(tx.sent, Take(tx.page)) \cup First(tx.received, Take(tx.page)), tx.page)

\* What is not asked is empty from the start.
Reading(of, filter, page, known, shown) ==
    LET rows(table) == IF Asks(filter, table) THEN None ELSE {}
        count(table) == IF Asks(filter, table) THEN None ELSE 0 IN
    [op |-> "page", of |-> of, filter |-> filter, page |-> page,
     sent |-> rows("SENT"), received |-> rows("RECEIVED"),
     sentTotal |-> count("SENT"), receivedTotal |-> count("RECEIVED"),
     known |-> known, shown |-> shown, news |-> {}]

Turn(of, filter) ==
    /\ reader = Idle
    /\ \E items \in ReceivedFound(filter) :
          reader' = Reading(of, filter, 1, SentMatching(filter) \cup items, {})
    /\ UNCHANGED <<sent, received, now>>

HistoryBegin(filter) == Turn("history", filter)

SentListBegin == \E filter \in SentListFilter : Turn("list", filter)

ReceivedListBegin == \E filter \in ReceivedListFilter : Turn("list", filter)

\* One of the page's four queries: rows and count of either table, in any order.
PageQuery(field, result) ==
    /\ reader.op = "page" /\ reader[field] = None
    /\ reader' = [reader EXCEPT ![field] = result]
    /\ UNCHANGED <<sent, received, now>>

ListSent == PageQuery("sent", SentMatching(reader.filter))
ListReceived ==
    /\ reader.op = "page"
    /\ \E items \in ReceivedFound(reader.filter) : PageQuery("received", items)
CountSent == PageQuery("sentTotal", Cardinality(SentMatching(reader.filter)))
CountReceived ==
    /\ reader.op = "page"
    /\ \E items \in ReceivedFound(reader.filter) : PageQuery("receivedTotal", Cardinality(items))

Listed == reader.op = "page" /\ reader.sent # None /\ reader.received # None

HasNextPage(page, total) == page * Limit < total

\* The user turns the page as long as the response says there is another.
Answer ==
    /\ Listed /\ reader.sentTotal # None /\ reader.receivedTotal # None
    /\ LET shown == reader.shown \cup PageOf(reader) IN
       reader' = IF HasNextPage(reader.page, reader.sentTotal + reader.receivedTotal)
                 THEN Reading(reader.of, reader.filter, reader.page + 1, reader.known, shown)
                 ELSE [reader EXCEPT !.op = "lastPage", !.shown = shown]
    /\ UNCHANGED <<sent, received, now>>

-----------------------------------------------------------------------------
(* The analytics of a period.                                              *)

\* By the time the payment was created: for the mutant below.
CompletedByCreation(period) ==
    {item \in SentItems : StatusOf(item) = "COMPLETED" /\ In(sent[item[2]].createdAt, period)}

Completed(period) ==
    {item \in SentItems : StatusOf(item) = "COMPLETED" /\ In(sent[item[2]].completedAt, period)}

ReceivedIn(period) == {item \in ReceivedItems : In(received[item[2]], period)}

\* Mutant: any evidence counts as either.
ConfirmedByAny(evidence, period) == Completed(period)

ConfirmedBy(evidence, period) ==
    {item \in SentItems : StatusOf(item) = "COMPLETED" /\ In(sent[item[2]].completedAt, period)
                             /\ sent[item[2]].evidence = evidence}

\* Mutant: the groups are counted by creation.
CountedByCreation(part, period) ==
    CASE part = "groups" -> CompletedByCreation(period)
      [] part = "totals" -> Completed(period)
      [] part = "sms" -> ConfirmedBy("PROVIDER_SMS", period)
      [] part = "manual" -> ConfirmedBy("MOBILE_APP", period)
      [] part = "previous" -> Completed(Previous(period))
      [] OTHER -> ReceivedIn(period)

\* The payments a query of the report counts, sums or groups.
Counted(part, period) ==
    CASE part \in {"totals", "groups"} -> Completed(period)
      [] part = "sms" -> ConfirmedBy("PROVIDER_SMS", period)
      [] part = "manual" -> ConfirmedBy("MOBILE_APP", period)
      [] part = "previous" -> Completed(Previous(period))
      [] OTHER -> ReceivedIn(period)

ReportBegin(period) ==
    /\ reader = Idle
    /\ reader' = [op |-> "report", period |-> period,
                  parts |-> [part \in Part |-> None], news |-> {}]
    /\ UNCHANGED <<sent, received, now>>

Query(part) ==
    /\ reader.op = "report" /\ reader.parts[part] = None
    /\ reader' = [reader EXCEPT !.parts[part] = Counted(part, reader.period)]
    /\ UNCHANGED <<sent, received, now>>

Answered == reader.op = "report" /\ \A part \in Part : reader.parts[part] # None

\* What the response says of completions it has no evidence of.
Unclassified ==
    LET rest == Cardinality(reader.parts["totals"])
                    - Cardinality(reader.parts["sms"]) - Cardinality(reader.parts["manual"]) IN
    IF rest > 0 THEN rest ELSE 0

\* The response is sent.
Finish ==
    /\ Answered \/ reader.op = "lastPage"
    /\ reader' = Idle
    /\ UNCHANGED <<sent, received, now>>

Next ==
    \/ Tick
    \/ \E s \in Sent :
        \/ Create(s) \/ Fail(s)
        \/ \E at \in Moment, evidence \in {"PROVIDER_SMS", "MOBILE_APP"} : Settle(s, at, evidence)
    \/ \E q \in Received, at \in Moment : Receive(q, at)
    \/ \E filter \in HistoryFilter : HistoryBegin(filter)
    \/ SentListBegin \/ ReceivedListBegin
    \/ ListSent \/ ListReceived \/ CountSent \/ CountReceived \/ Answer
    \/ \E period \in Period : ReportBegin(period)
    \/ \E part \in Part : Query(part)
    \/ Finish

Spec == Init /\ [][Next]_vars

-----------------------------------------------------------------------------
(* Properties.                                                             *)

\* Both tables and the reader have their types; a settled payment, and no
\* other, has a settlement time and the evidence of it.
TypeOK ==
    /\ sent \in [Sent -> SentRow]
    /\ \A s \in Sent : (sent[s].status = "COMPLETED") = (sent[s].completedAt # None)
    /\ received \in [Received -> Moment \cup {None}]
    /\ reader \in {Idle} \cup PageReader \cup ReportReader
    /\ now \in 0..MaxTime

\* A page is what the whole history would show there, although each table is
\* cut before the two are combined and another order breaks the ties
\* (TransactionHistoryService.list, transaction-history.service.ts:41-75).
PageIsCutOfWhole ==
    Listed => PageOf(reader) = Cut(reader.sent \cup reader.received, reader.page)

\* Who turns the pages of a history or a list, while the response says there
\* is a next page, misses no more of the payments that were there at the start
\* than have entered while the last page was read: rows and counts come from
\* separate queries, so that a count may be short of the rows.  Two filters are
\* excepted, since payments leave them and move the others up: pending payments,
\* which are settled, and a classification, which is changed
\* (getCandidates, transaction-history.repository.ts:45-81;
\* hasNextPage, transaction-history.service.ts:89; listOwned,
\* transaction-read.repository.ts:175-196).
PagingMissesOnlyForNews ==
    reader.op = "lastPage" /\ reader.filter.status # "PENDING" /\ ~reader.filter.classified
        => Cardinality(reader.known \ reader.shown) <= Cardinality(reader.news)

SameRows == {{"totals", "groups"}, {"receivedTotals", "receivedGroups"}}

\* Figures of a report that count the same payments differ by news only:
\* payments settled or received while the queries of the report ran
\* (getAnalytics, transaction-analytics.service.ts:41-90).
ReportAddsUp ==
    Answered => \A pair \in SameRows : \A part, other \in pair :
        reader.parts[part] \ reader.parts[other] \subseteq reader.news

\* Every settled payment is confirmed by one kind of evidence, and what the
\* report calls unclassified is news too
\* (getAnalytics, transaction-analytics.service.ts:227-238).
ConfirmationsAddUp ==
    Answered =>
        LET confirmed == reader.parts["sms"] \cup reader.parts["manual"] IN
        /\ reader.parts["sms"] \cap reader.parts["manual"] = {}
        /\ confirmed \ reader.parts["totals"] \subseteq reader.news
        /\ Unclassified <= Cardinality(reader.news)

\* The period of a report and the one it is compared with leave no settled
\* payment out and count none twice, except for news
\* (getAnalytics, transaction-analytics.service.ts:35-39).
PeriodsMeet ==
    Answered =>
        LET both == [from |-> Previous(reader.period).from, to |-> reader.period.to] IN
        /\ reader.parts["previous"] \cap reader.parts["totals"] = {}
        /\ Completed(both) \ (reader.parts["previous"] \cup reader.parts["totals"])
              \subseteq reader.news
=============================================================================
