--------------------- MODULE OutgoingTransactionsProofs ---------------------
(***************************************************************************)
(* What OutgoingTransactions does for any number of payments, requests,    *)
(* client events and keys: its ledger explains every row, answers are      *)
(* kept, and it implements PaymentLifecycle.                               *)
(*                                                                         *)
(* A step of the handlers does one of five things to the tables            *)
(* (TableStep); each part of the invariant is shown once for these.        *)
(***************************************************************************)
EXTENDS OutgoingTransactions, TLAPS

-----------------------------------------------------------------------------
(* The invariant.                                                          *)

CreatedEvent == [from |-> None, asked |-> Says("CREATED", "PENDING", None, None)]
OpenedEvent == [from |-> "PENDING", asked |-> OpenedReport]

\* A row that no report has settled says nothing of a settlement.
Bare(t) == transactions[t].reference = None /\ transactions[t].failure = None

\* The client events of a payment, by what they moved.
FirstIs(t, p) ==
    /\ p \in ClientEvent /\ ledger[t][p] # None /\ ledger[t][p].from = "PENDING"
    /\ \A c \in ClientEvent : ledger[t][c] # None /\ ledger[t][c].from = "PENDING" => c = p

LastIs(t, f) ==
    /\ f \in ClientEvent /\ ledger[t][f] # None
    /\ ledger[t][f].asked.to = transactions[t].status
    /\ ledger[t][f].asked.reference = transactions[t].reference
    /\ ledger[t][f].asked.failure = transactions[t].failure
    /\ \A c \in ClientEvent : ledger[t][c] # None /\ ledger[t][c].asked.to \in Outcome => c = f

\* What an event a client reported can look like.
ClientEventFits(event) ==
    /\ event.from \in {"PENDING", "PROCESSING"}
    /\ event.asked.to \in Outcome \/ event.asked = OpenedReport

LedgerFits(t) ==
    /\ transactions[t].status = "ABSENT" =>
          transactions[t] = NoRow /\ \A c \in EventId : ledger[t][c] = None
    /\ Present(t) => ledger[t][None] = CreatedEvent
    /\ \A c \in ClientEvent : ledger[t][c] # None => ClientEventFits(ledger[t][c])
    /\ transactions[t].status = "PENDING" =>
          Bare(t) /\ \A c \in ClientEvent : ledger[t][c] = None
    /\ transactions[t].status = "PROCESSING" =>
          /\ Bare(t)
          /\ \E p \in ClientEvent : FirstIs(t, p)
          /\ \A c \in ClientEvent : ledger[t][c] # None => ledger[t][c].asked = OpenedReport
    /\ transactions[t].status \in Outcome =>
          \E p, f \in ClientEvent :
              /\ FirstIs(t, p) /\ LastIs(t, f)
              /\ f # p => ledger[t][p].asked = OpenedReport /\ ledger[t][f].from = "PROCESSING"

\* A status, reference and failure that some of the events report.
Explained(events, row) ==
    \E c \in EventId : /\ events[c] # None
                       /\ events[c].asked.to = row.status
                       /\ events[c].asked.reference = row.reference
                       /\ events[c].asked.failure = row.failure

\* What an open transaction has seen is still true of the tables.
FitsIn(tx, rows, events) ==
    /\ tx.op = "open" =>
          /\ tx.asked = OpenedReport /\ rows[tx.transaction].status # "ABSENT"
          /\ tx.seen = "PROCESSING" => rows[tx.transaction].status # "PENDING"
    /\ tx.op = "result" => tx.asked.to \in Outcome /\ tx.asked.type # "USSD_OPENED"
    /\ tx.op = "detail" =>
          /\ Explained(events[tx.transaction], tx.row)
          /\ tx.events # None => Explained(tx.events, tx.row)

Fits(tx) == FitsIn(tx, transactions, ledger)

AnswersFit ==
    /\ \A receipt \in acknowledged : receipt.asked # OpenedReport =>
          /\ ledger[receipt.transaction][receipt.id] # None
          /\ ledger[receipt.transaction][receipt.id].asked = receipt.asked
    /\ \A a \in created : Present(a.transaction) /\ transactions[a.transaction].body = a.body

KeysDiffer ==
    \A t, u \in Transaction :
        transactions[t].key # None /\ transactions[t].key = transactions[u].key => t = u

IInv ==
    /\ TypeOK
    /\ \A t \in Transaction : LedgerFits(t)
    /\ \A r \in Request : Fits(requests[r])
    /\ AnswersFit
    /\ KeysDiffer
    /\ ReferenceSettlesOne

-----------------------------------------------------------------------------
(* Types.                                                                  *)

LEMMA Constants ==
    /\ OpenedReport \in Asked
    /\ CreatedEvent \in Event
    /\ CreatedEvent.from = None /\ CreatedEvent.asked.to = "PENDING"
    /\ CreatedEvent.asked.reference = None /\ CreatedEvent.asked.failure = None
    /\ OpenedReport.type = "USSD_OPENED" /\ OpenedReport.to = "PROCESSING"
    /\ NoRow \in Row /\ NoRow.status = "ABSENT" /\ NoRow.key = None
    /\ NoRow.reference = None /\ NoRow.failure = None
    /\ Idle \in Tx /\ Idle.op = "idle"
    /\ None \in EventId /\ None \notin ClientEvent /\ None \notin Body
    /\ None # "PENDING" /\ None # "PROCESSING"
  BY NoneAssumption, SMT
  DEF OpenedReport, CreatedEvent, Says, Asked, Event, EventType, Status, Outcome, NoRow, Row,
      Idle, Tx, EventId

LEMMA TxOfOp ==
    ASSUME NEW tx \in Tx
    PROVE  /\ tx.op = "create" => tx \in CreateTx
           /\ tx.op \in {"open", "result"} => tx \in ReportTx
           /\ tx.op = "detail" => tx \in DetailTx
  BY SMT DEF Tx, Idle, CreateTx, ReportTx, DetailTx

-----------------------------------------------------------------------------
(* What a step does to the tables.                                         *)

Stays == UNCHANGED <<transactions, ledger>>

Creates(t, key, body) ==
    /\ ~Present(t) /\ KeyFree(key)
    /\ transactions' = [transactions EXCEPT ![t] =
           [NoRow EXCEPT !.status = "PENDING", !.key = key, !.body = body]]
    /\ ledger' = [ledger EXCEPT ![t][None] = CreatedEvent]

Moves(t, c) ==
    /\ transactions[t].status = "PENDING"
    /\ MovedOn(t)
    /\ Upsert(t, c, "PENDING", OpenedReport)

Notes(t, c) ==
    /\ transactions[t].status \in {"PROCESSING"} \cup Outcome
    /\ UNCHANGED transactions
    /\ Upsert(t, c, "PROCESSING", OpenedReport)

Settles(t, c, asked) ==
    /\ transactions[t].status \in {"PENDING", "PROCESSING"}
    /\ asked.to \in Outcome /\ asked.type # "USSD_OPENED"
    /\ ReferenceFree(t, asked.reference) /\ Agrees(t, c, asked)
    /\ transactions' = [transactions EXCEPT ![t] = Settled(@, asked)]
    /\ Upsert(t, c, transactions[t].status, asked)

TableStep ==
    \/ Stays
    \/ \E t \in Transaction, key \in Key \cup {None}, body \in Body : Creates(t, key, body)
    \/ \E t \in Transaction, c \in ClientEvent : Moves(t, c) \/ Notes(t, c)
    \/ \E t \in Transaction, c \in ClientEvent, asked \in Asked : Settles(t, c, asked)

LEMMA OpenCommits ==
    ASSUME IInv, NEW r \in Request, OpenCommit(r)
    PROVE  /\ TableStep
           /\ requests' = [requests EXCEPT ![r] = Idle]
           /\ requests[r] \in ReportTx
           /\ UNCHANGED created
           /\ \/ UNCHANGED acknowledged
              \/ Acknowledge(requests[r].transaction, requests[r].id, OpenedReport)
<1>1. requests[r] \in ReportTx /\ requests[r].asked = OpenedReport
      /\ Present(requests[r].transaction) /\ requests[r].op = "open"
      /\ (requests[r].seen = "PROCESSING" =>
             transactions[requests[r].transaction].status # "PENDING")
  BY TxOfOp DEF IInv, TypeOK, OpenCommit, Fits, FitsIn, Present
<1> DEFINE t == requests[r].transaction
           c == requests[r].id
<1>2. t \in Transaction /\ c \in ClientEvent /\ requests[r].seen \in {"PENDING", "PROCESSING"}
  BY <1>1, SMT DEF ReportTx
<1>3. transactions[t].status \in Status
  BY <1>1, <1>2, SMT DEF IInv, TypeOK, Row, Present
<1>4. requests' = [requests EXCEPT ![r] = Idle] /\ UNCHANGED created
  BY DEF OpenCommit, Close
<1> HIDE DEF t, c
<1>5. \/ Moves(t, c) /\ Acknowledge(t, c, OpenedReport)
      \/ Notes(t, c) /\ Acknowledge(t, c, OpenedReport)
      \/ Stays /\ UNCHANGED acknowledged
  <2>1. CASE requests[r].seen = "PENDING" /\ transactions[t].status = "PENDING"
             /\ MovedOn(t) /\ Upsert(t, c, "PENDING", OpenedReport)
             /\ Acknowledge(t, c, OpenedReport)
    BY <2>1 DEF Moves
  <2>2. CASE /\ requests[r].seen = "PROCESSING" \/ transactions[t].status = "PROCESSING"
             /\ Upsert(t, c, "PROCESSING", OpenedReport)
             /\ Acknowledge(t, c, OpenedReport)
             /\ UNCHANGED transactions
    <3>1. transactions[t].status \in {"PROCESSING"} \cup Outcome
      BY <1>1, <1>3, <2>2, SMT DEF Status, t
    <3>2. QED BY <2>2, <3>1 DEF Notes
  <2>3. CASE UNCHANGED <<transactions, ledger, acknowledged>>
    BY <2>3 DEF Stays
  <2>4. QED BY <1>1, <2>1, <2>2, <2>3 DEF OpenCommit, t, c
<1>6. QED BY <1>1, <1>2, <1>4, <1>5 DEF TableStep, t, c

LEMMA ResultCommits ==
    ASSUME IInv, NEW r \in Request, ResultCommit(r)
    PROVE  /\ requests' = [requests EXCEPT ![r] = Idle]
           /\ requests[r] \in ReportTx
           /\ UNCHANGED created
           /\ LET tx == requests[r] IN
              \/ Settles(tx.transaction, tx.id, tx.asked)
                   /\ Acknowledge(tx.transaction, tx.id, tx.asked)
              \/ Stays /\ Repeated(tx.transaction, tx.id, tx.asked)
              \/ Stays /\ UNCHANGED acknowledged
<1> DEFINE tx == requests[r]
           t == tx.transaction
<1>1. tx \in ReportTx /\ tx.asked.to \in Outcome /\ tx.asked.type # "USSD_OPENED"
  BY TxOfOp DEF IInv, TypeOK, ResultCommit, Fits, FitsIn
<1>2. tx.seen \in {"PENDING", "PROCESSING"}
  BY <1>1, SMT DEF ReportTx
<1>3. requests' = [requests EXCEPT ![r] = Idle] /\ UNCHANGED created
  BY DEF ResultCommit, Close
<1>4. CASE /\ StillSeen(tx)
           /\ ReferenceFree(t, tx.asked.reference)
           /\ Agrees(t, tx.id, tx.asked)
           /\ transactions' = [transactions EXCEPT ![t] = Settled(@, tx.asked)]
           /\ Upsert(t, tx.id, tx.seen, tx.asked)
           /\ Acknowledge(t, tx.id, tx.asked)
  <2>1. Settles(t, tx.id, tx.asked)
    BY <1>1, <1>2, <1>4 DEF Settles, StillSeen
  <2>2. QED BY <1>1, <1>3, <1>4, <2>1
<1>5. CASE UNCHANGED <<transactions, ledger, acknowledged>>
  BY <1>1, <1>3, <1>5 DEF Stays
<1>6. CASE Outrun(tx)
  BY <1>1, <1>3, <1>6 DEF Stays, Outrun
<1>7. QED BY <1>4, <1>5, <1>6 DEF ResultCommit

LEMMA TablesStep == IInv /\ [Next]_vars => TableStep
<1> SUFFICES ASSUME IInv, [Next]_vars PROVE TableStep
  OBVIOUS
<1>1. ASSUME NEW r \in Request, CreateCommit(r) PROVE TableStep
  <2>1. requests[r] \in CreateTx
    BY <1>1, TxOfOp DEF IInv, TypeOK, CreateCommit
  <2>2. requests[r].key \in Key \cup {None} /\ requests[r].body \in Body
    BY <2>1, SMT DEF CreateTx
  <2>3. QED BY <1>1, <2>2 DEF CreateCommit, TableStep, Creates, Stays, CreatedEvent
<1>2. ASSUME NEW r \in Request, ResultCommit(r) PROVE TableStep
  <2>1. requests[r] \in ReportTx
    BY <1>2, ResultCommits
  <2>2. /\ requests[r].transaction \in Transaction /\ requests[r].id \in ClientEvent
        /\ requests[r].asked \in Asked
    BY <2>1, SMT DEF ReportTx
  <2>3. Settles(requests[r].transaction, requests[r].id, requests[r].asked) \/ Stays
    BY <1>2, ResultCommits
  <2>4. QED BY <2>2, <2>3 DEF TableStep
<1>3. ASSUME NEW r \in Request, NEW key \in Key \cup {None}, NEW body \in Body,
             CreateBegin(r, key, body)
      PROVE  Stays
  BY <1>3 DEF CreateBegin, Stays
<1>4. ASSUME NEW r \in Request, NEW t \in Transaction, NEW c \in ClientEvent, NEW op,
             NEW asked, NEW accepted, ReportBegin(r, op, t, c, asked, accepted)
      PROVE  Stays
  BY <1>4 DEF ReportBegin, Stays
<1>5. ASSUME NEW r \in Request, NEW t \in Transaction, NEW c \in ClientEvent,
             \/ OpenBegin(r, t, c)
             \/ \E result \in Result : ProviderBegin(r, t, c, result)
             \/ \E to \in {"COMPLETED", "FAILED"} : ManualBegin(r, t, c, to)
      PROVE  Stays
  BY <1>4, <1>5 DEF OpenBegin, ProviderBegin, ManualBegin
<1>6. ASSUME NEW r \in Request,
             (\E t \in Transaction : DetailBegin(r, t)) \/ DetailQuery(r) \/ DetailAnswer(r)
      PROVE  Stays
  BY <1>6 DEF DetailBegin, DetailQuery, DetailAnswer, Stays
<1>7. CASE Restart \/ UNCHANGED vars
  BY <1>7 DEF Restart, vars, TableStep, Stays
<1>8. QED
  BY <1>1, <1>2, <1>3, <1>5, <1>6, <1>7, OpenCommits DEF Next, TableStep

LEMMA Upserts ==
    ASSUME TypeOK, NEW t \in Transaction, NEW c \in ClientEvent, NEW from \in Status,
           NEW asked \in Asked, Upsert(t, c, from, asked)
    PROVE  /\ ledger' \in [Transaction -> [EventId -> Event \cup {None}]]
           /\ \A u \in Transaction, d \in EventId :
                 ledger'[u][d] = IF u = t /\ d = c /\ ledger[t][c] = None
                                 THEN [from |-> from, asked |-> asked] ELSE ledger[u][d]
<1>1. ledger \in [Transaction -> [EventId -> Event \cup {None}]] /\ c \in EventId
  BY DEF TypeOK, EventId
<1> DEFINE event == IF ledger[t][c] = None THEN [from |-> from, asked |-> asked] ELSE ledger[t][c]
<1>2. event \in Event \cup {None}
  BY <1>1 DEF Event
<1>3. ledger' = [ledger EXCEPT ![t][c] = event]
  BY DEF Upsert
<1> HIDE DEF event
<1>4. /\ ledger' \in [Transaction -> [EventId -> Event \cup {None}]]
      /\ \A u \in Transaction, d \in EventId :
            ledger'[u][d] = IF u = t /\ d = c THEN event ELSE ledger[u][d]
  BY <1>1, <1>2, <1>3
<1>5. QED BY <1>4 DEF event

LEMMA Rows ==
    ASSUME IInv, NEW t \in Transaction
    PROVE  /\ transactions[t] \in Row
           /\ transactions[t].status \in Status \cup {"ABSENT"}
           /\ Present(t) => transactions[t].status \in Status
  BY SMT DEF IInv, TypeOK, Row, Present

LEMMA SettledRow ==
    ASSUME NEW row \in Row, NEW asked \in Asked, asked.to \in Outcome
    PROVE  /\ Settled(row, asked) \in Row
           /\ Settled(row, asked).status = asked.to
           /\ Settled(row, asked).failure = asked.failure
           /\ Settled(row, asked).key = row.key
           /\ Settled(row, asked).body = row.body
           /\ Settled(row, asked).reference = IF asked.reference # None
                                              THEN asked.reference ELSE row.reference
<1>1. /\ asked.failure \in Failure \cup {None} /\ asked.to \in Status \cup {"ABSENT"}
      /\ (IF asked.reference # None THEN asked.reference ELSE row.reference)
             \in Reference \cup {None}
  BY SMT DEF Asked, Row, Status
<1>2. Settled(row, asked) \in Row
  BY <1>1, Zenon DEF Settled, Row
<1>3. QED BY <1>2, SMT DEF Settled, Row

LEMMA CreatedRow ==
    ASSUME NEW key \in Key \cup {None}, NEW body \in Body
    PROVE  LET row == [NoRow EXCEPT !.status = "PENDING", !.key = key, !.body = body] IN
           /\ row \in Row /\ row.status = "PENDING" /\ row.key = key /\ row.body = body
           /\ row.reference = None /\ row.failure = None
<1> DEFINE row == [NoRow EXCEPT !.status = "PENDING", !.key = key, !.body = body]
<1>1. NoRow \in Row /\ "PENDING" \in Status \cup {"ABSENT"}
  BY Constants DEF Status
<1>2. row \in Row
  BY <1>1, Zenon DEF Row
<1>3. QED BY <1>2, SMT DEF NoRow

LEMMA TablesType ==
    IInv /\ TableStep =>
        /\ transactions' \in [Transaction -> Row]
        /\ ledger' \in [Transaction -> [EventId -> Event \cup {None}]]
<1> SUFFICES ASSUME IInv, TableStep
             PROVE  /\ transactions' \in [Transaction -> Row]
                    /\ ledger' \in [Transaction -> [EventId -> Event \cup {None}]]
  OBVIOUS
<1>1. /\ transactions \in [Transaction -> Row] /\ TypeOK
      /\ ledger \in [Transaction -> [EventId -> Event \cup {None}]]
  BY DEF IInv, TypeOK
<1>2. ASSUME NEW t \in Transaction, NEW key \in Key \cup {None}, NEW body \in Body,
             Creates(t, key, body)
      PROVE  /\ transactions' \in [Transaction -> Row]
             /\ ledger' \in [Transaction -> [EventId -> Event \cup {None}]]
  <2>1. None \in EventId /\ CreatedEvent \in Event
    BY Constants
  <2> HIDE DEF CreatedEvent
  <2>2. QED BY <1>1, <1>2, <2>1, CreatedRow DEF Creates
<1>3. ASSUME NEW t \in Transaction, NEW c \in ClientEvent, Moves(t, c)
      PROVE  /\ transactions' \in [Transaction -> Row]
             /\ ledger' \in [Transaction -> [EventId -> Event \cup {None}]]
  <2>1. [transactions[t] EXCEPT !.status = "PROCESSING"] \in Row
    BY <1>1, Zenon DEF Row, Status
  <2>2. transactions' = [transactions EXCEPT ![t] = [transactions[t] EXCEPT !.status = "PROCESSING"]]
    BY <1>3 DEF Moves, MovedOn
  <2>3. "PENDING" \in Status /\ OpenedReport \in Asked
    BY Constants DEF Status
  <2>4. QED BY <1>1, <1>3, <2>1, <2>2, <2>3, Upserts DEF Moves
<1>4. ASSUME NEW t \in Transaction, NEW c \in ClientEvent, Notes(t, c)
      PROVE  /\ transactions' \in [Transaction -> Row]
             /\ ledger' \in [Transaction -> [EventId -> Event \cup {None}]]
  <2>1. "PROCESSING" \in Status /\ OpenedReport \in Asked
    BY Constants DEF Status
  <2>2. QED BY <1>1, <1>4, <2>1, Upserts DEF Notes
<1>5. ASSUME NEW t \in Transaction, NEW c \in ClientEvent, NEW asked \in Asked,
             Settles(t, c, asked)
      PROVE  /\ transactions' \in [Transaction -> Row]
             /\ ledger' \in [Transaction -> [EventId -> Event \cup {None}]]
  <2>1. Settled(transactions[t], asked) \in Row
    BY <1>1, <1>5, SettledRow DEF Settles
  <2>2. transactions[t].status \in Status
    BY <1>5 DEF Settles, Status
  <2>3. QED BY <1>1, <1>5, <2>1, <2>2, Upserts DEF Settles
<1>6. QED BY <1>1, <1>2, <1>3, <1>4, <1>5 DEF TableStep, Stays

-----------------------------------------------------------------------------
(* The effect of each kind of step, payment by payment.                    *)

\* Nothing happens to a payment.
Same(u) ==
    /\ transactions'[u] = transactions[u]
    /\ \A d \in EventId : ledger'[u][d] = ledger[u][d]

\* A client event is written unless it is there.
Writes(t, c, event) ==
    \A d \in EventId :
        ledger'[t][d] = IF d = c /\ ledger[t][c] = None THEN event ELSE ledger[t][d]

LEMMA CreatesEffect ==
    ASSUME IInv, NEW t \in Transaction, NEW key \in Key \cup {None}, NEW body \in Body,
           Creates(t, key, body)
    PROVE  /\ \A u \in Transaction : u # t => Same(u)
           /\ transactions[t] = NoRow /\ KeyFree(key) /\ ~Present(t)
           /\ transactions'[t].status = "PENDING" /\ transactions'[t].body = body
           /\ transactions'[t].key = key
           /\ transactions'[t].reference = None /\ transactions'[t].failure = None
           /\ ledger'[t][None] = CreatedEvent
           /\ \A d \in EventId : ledger[t][d] = None
           /\ \A d \in ClientEvent : ledger'[t][d] = None
<1>1. /\ transactions \in [Transaction -> Row]
      /\ ledger \in [Transaction -> [EventId -> Event \cup {None}]]
      /\ LedgerFits(t)
  BY DEF IInv, TypeOK
<1>2. None \in EventId /\ None \notin ClientEvent /\ ClientEvent \subseteq EventId
  BY Constants DEF EventId
<1> DEFINE row == [NoRow EXCEPT !.status = "PENDING", !.key = key, !.body = body]
<1>3. transactions[t] = NoRow /\ \A d \in EventId : ledger[t][d] = None
  BY <1>1 DEF Creates, Present, LedgerFits
<1>4. /\ row.status = "PENDING" /\ row.body = body /\ row.key = key
      /\ row.reference = None /\ row.failure = None
  BY CreatedRow
<1>5. transactions' = [transactions EXCEPT ![t] = row]
      /\ ledger' = [ledger EXCEPT ![t][None] = CreatedEvent] /\ KeyFree(key) /\ ~Present(t)
  BY DEF Creates
<1> HIDE DEF row, CreatedEvent
<1>6. transactions'[t] = row /\ ledger'[t][None] = CreatedEvent
  BY <1>1, <1>2, <1>5
<1>7. \A d \in ClientEvent : ledger'[t][d] = None
  BY <1>1, <1>2, <1>3, <1>5
<1>8. \A u \in Transaction : u # t => Same(u)
  BY <1>1, <1>5 DEF Same
<1>9. QED BY <1>3, <1>4, <1>5, <1>6, <1>7, <1>8

LEMMA MovesEffect ==
    ASSUME IInv, NEW t \in Transaction, NEW c \in ClientEvent, Moves(t, c)
    PROVE  /\ \A u \in Transaction : u # t => Same(u)
           /\ transactions[t].status = "PENDING"
           /\ transactions'[t].status = "PROCESSING"
           /\ transactions'[t].key = transactions[t].key
           /\ transactions'[t].body = transactions[t].body
           /\ transactions'[t].reference = transactions[t].reference
           /\ transactions'[t].failure = transactions[t].failure
           /\ Writes(t, c, OpenedEvent)
<1>1. transactions \in [Transaction -> Row] /\ TypeOK
  BY DEF IInv, TypeOK
<1>2. "PENDING" \in Status /\ OpenedReport \in Asked /\ Upsert(t, c, "PENDING", OpenedReport)
  BY Constants DEF Status, Moves
<1>3. \A u \in Transaction, d \in EventId :
         ledger'[u][d] = IF u = t /\ d = c /\ ledger[t][c] = None
                         THEN OpenedEvent ELSE ledger[u][d]
  BY <1>1, <1>2, Upserts DEF OpenedEvent
<1>4. transactions' = [transactions EXCEPT ![t] = [transactions[t] EXCEPT !.status = "PROCESSING"]]
  BY DEF Moves, MovedOn
<1>5. transactions'[t] = [transactions[t] EXCEPT !.status = "PROCESSING"]
      /\ \A u \in Transaction : u # t => transactions'[u] = transactions[u]
  BY <1>1, <1>4
<1>6. transactions[t] \in Row
  BY <1>1
<1>7. /\ transactions'[t].status = "PROCESSING"
      /\ transactions'[t].key = transactions[t].key
      /\ transactions'[t].body = transactions[t].body
      /\ transactions'[t].reference = transactions[t].reference
      /\ transactions'[t].failure = transactions[t].failure
  BY <1>5, <1>6, SMT DEF Row
<1>8. \A u \in Transaction : u # t => Same(u)
  BY <1>3, <1>5 DEF Same
<1>9. Writes(t, c, OpenedEvent)
  BY <1>3 DEF Writes
<1>10. QED BY <1>7, <1>8, <1>9 DEF Moves

LEMMA NotesEffect ==
    ASSUME IInv, NEW t \in Transaction, NEW c \in ClientEvent, Notes(t, c)
    PROVE  /\ \A u \in Transaction : u # t => Same(u)
           /\ UNCHANGED transactions
           /\ Writes(t, c, [from |-> "PROCESSING", asked |-> OpenedReport])
<1>1. "PROCESSING" \in Status /\ OpenedReport \in Asked /\ Upsert(t, c, "PROCESSING", OpenedReport)
  BY Constants DEF Status, Notes
<1>2. \A u \in Transaction, d \in EventId :
         ledger'[u][d] = IF u = t /\ d = c /\ ledger[t][c] = None
                         THEN [from |-> "PROCESSING", asked |-> OpenedReport] ELSE ledger[u][d]
  BY <1>1, Upserts DEF IInv
<1>3. QED BY <1>2 DEF Notes, Same, Writes

LEMMA SettlesEffect ==
    ASSUME IInv, NEW t \in Transaction, NEW c \in ClientEvent, NEW asked \in Asked,
           Settles(t, c, asked)
    PROVE  /\ \A u \in Transaction : u # t => Same(u)
           /\ transactions'[t].status = asked.to
           /\ transactions'[t].key = transactions[t].key
           /\ transactions'[t].body = transactions[t].body
           /\ transactions'[t].reference = asked.reference
           /\ transactions'[t].failure = asked.failure
           /\ ledger[t][c] = None
           /\ Writes(t, c, [from |-> transactions[t].status, asked |-> asked])
<1>1. transactions \in [Transaction -> Row] /\ TypeOK /\ LedgerFits(t)
  BY DEF IInv, TypeOK
<1>2. transactions[t].status \in Status /\ Upsert(t, c, transactions[t].status, asked)
  BY DEF Settles, Status
<1>3. \A u \in Transaction, d \in EventId :
         ledger'[u][d] = IF u = t /\ d = c /\ ledger[t][c] = None
                         THEN [from |-> transactions[t].status, asked |-> asked]
                         ELSE ledger[u][d]
  BY <1>1, <1>2, Upserts
<1>4. transactions'[t] = Settled(transactions[t], asked)
      /\ \A u \in Transaction : u # t => transactions'[u] = transactions[u]
  BY <1>1 DEF Settles
<1>5. transactions[t].reference = None
  BY <1>1 DEF Settles, LedgerFits, Bare
<1>6. asked.to \in Outcome
  BY DEF Settles
<1>7. /\ transactions'[t].status = asked.to
      /\ transactions'[t].key = transactions[t].key
      /\ transactions'[t].body = transactions[t].body
      /\ transactions'[t].reference = asked.reference
      /\ transactions'[t].failure = asked.failure
  BY <1>1, <1>4, <1>5, <1>6, SettledRow
<1>8. ledger[t][c] = None
  <2>1. asked # OpenedReport
    BY Constants DEF Settles
  <2>2. ledger[t][c] # None => ledger[t][c].asked = OpenedReport
    BY <1>1 DEF Settles, LedgerFits
  <2>3. QED BY <2>1, <2>2 DEF Settles, Agrees, Known
<1>9. \A u \in Transaction : u # t => Same(u)
  BY <1>3, <1>4 DEF Same
<1>10. QED BY <1>3, <1>7, <1>8, <1>9 DEF Writes

-----------------------------------------------------------------------------
(* The ledger goes on fitting the rows.                                    *)

LEMMA SameFits ==
    ASSUME NEW u \in Transaction, LedgerFits(u), Same(u)
    PROVE  LedgerFits(u)'
<1>1. transactions'[u] = transactions[u] /\ \A d \in EventId : ledger'[u][d] = ledger[u][d]
  BY DEF Same
<1>2. ClientEvent \subseteq EventId /\ None \in EventId
  BY DEF EventId
<1>3. \A p \in ClientEvent : FirstIs(u, p) => FirstIs(u, p)'
  BY <1>1, <1>2 DEF FirstIs
<1>4. \A f \in ClientEvent : LastIs(u, f) => LastIs(u, f)'
  BY <1>1, <1>2 DEF LastIs
<1>5. Present(u)' = Present(u) /\ Bare(u)' = Bare(u)
  BY <1>1 DEF Present, Bare
<1>6. QED
  <2>1. /\ transactions'[u].status = "ABSENT" =>
              transactions'[u] = NoRow /\ \A c \in EventId : ledger'[u][c] = None
        /\ Present(u)' => ledger'[u][None] = CreatedEvent
        /\ \A c \in ClientEvent : ledger'[u][c] # None => ClientEventFits(ledger'[u][c])
        /\ transactions'[u].status = "PENDING" =>
              Bare(u)' /\ \A c \in ClientEvent : ledger'[u][c] = None
    BY <1>1, <1>2, <1>5 DEF LedgerFits
  <2>2. transactions'[u].status = "PROCESSING" =>
              /\ Bare(u)'
              /\ \E p \in ClientEvent : FirstIs(u, p)'
              /\ \A c \in ClientEvent :
                    ledger'[u][c] # None => ledger'[u][c].asked = OpenedReport
    BY <1>1, <1>2, <1>3, <1>5 DEF LedgerFits
  <2>3. transactions'[u].status \in Outcome =>
          \E p, f \in ClientEvent :
              /\ FirstIs(u, p)' /\ LastIs(u, f)'
              /\ f # p => ledger'[u][p].asked = OpenedReport /\ ledger'[u][f].from = "PROCESSING"
    <3>1. SUFFICES ASSUME transactions[u].status \in Outcome
                   PROVE  \E p, f \in ClientEvent :
                            /\ FirstIs(u, p)' /\ LastIs(u, f)'
                            /\ f # p => /\ ledger'[u][p].asked = OpenedReport
                                        /\ ledger'[u][f].from = "PROCESSING"
      BY <1>1
    <3>2. PICK p \in ClientEvent, f \in ClientEvent :
              /\ FirstIs(u, p) /\ LastIs(u, f)
              /\ f # p => ledger[u][p].asked = OpenedReport /\ ledger[u][f].from = "PROCESSING"
      BY <3>1 DEF LedgerFits
    <3>3. QED BY <1>1, <1>2, <1>3, <1>4, <3>2
  <2>4. QED BY <2>1, <2>2, <2>3 DEF LedgerFits

LEMMA Distinct ==
    /\ "PENDING" \notin Outcome /\ "PROCESSING" \notin Outcome /\ "ABSENT" \notin Outcome
    /\ OpenedReport.to \notin Outcome
    /\ OpenedEvent.from = "PENDING" /\ OpenedEvent.asked = OpenedReport
    /\ CreatedEvent # None /\ OpenedEvent # None
    /\ \A from \in Status, asked \in Asked : [from |-> from, asked |-> asked] # None
<1>1. CreatedEvent \in Event /\ OpenedReport \in Asked /\ "PENDING" \in Status
  BY Constants DEF Status
<1>2. \A from \in Status, asked \in Asked : [from |-> from, asked |-> asked] \in Event
  BY DEF Event
<1>3. OpenedEvent \in Event
  BY <1>1, <1>2 DEF OpenedEvent
<1>4. OpenedEvent.from = "PENDING" /\ OpenedEvent.asked = OpenedReport
  BY DEF OpenedEvent
<1>5. "PENDING" \notin Outcome /\ "PROCESSING" \notin Outcome /\ "ABSENT" \notin Outcome
  BY SMT DEF Outcome
<1>6. QED BY <1>1, <1>2, <1>3, <1>4, <1>5, NoneAssumption, Constants

LEMMA LedgerStep == IInv /\ TableStep => \A u \in Transaction : LedgerFits(u)'
<1> SUFFICES ASSUME IInv, TableStep, NEW u \in Transaction PROVE LedgerFits(u)'
  OBVIOUS
<1>1. LedgerFits(u) /\ transactions[u] \in Row /\ transactions[u].status \in Status \cup {"ABSENT"}
  BY Rows DEF IInv
<1>2. ClientEvent \subseteq EventId /\ None \in EventId /\ None \notin ClientEvent
  BY Constants DEF EventId
<1>3. CASE Stays
  BY <1>1, <1>3, SameFits DEF Stays, Same
<1>4. ASSUME NEW key \in Key \cup {None}, NEW body \in Body, Creates(u, key, body)
      PROVE  LedgerFits(u)'
  <2>1. /\ transactions'[u].status = "PENDING"
        /\ transactions'[u].reference = None /\ transactions'[u].failure = None
        /\ ledger'[u][None] = CreatedEvent
        /\ \A d \in ClientEvent : ledger'[u][d] = None
    BY <1>4, CreatesEffect
  <2>2. QED BY <2>1, Distinct DEF LedgerFits, Bare
<1>5. ASSUME NEW c \in ClientEvent, Moves(u, c) PROVE LedgerFits(u)'
  <2>1. /\ transactions[u].status = "PENDING" /\ transactions'[u].status = "PROCESSING"
        /\ transactions'[u].reference = transactions[u].reference
        /\ transactions'[u].failure = transactions[u].failure
        /\ Writes(u, c, OpenedEvent)
    BY <1>5, MovesEffect
  <2>2. Bare(u) /\ Present(u) /\ \A d \in ClientEvent : ledger[u][d] = None
    BY <1>1, <2>1 DEF LedgerFits, Present
  <2>3. /\ ledger'[u][c] = OpenedEvent
        /\ \A d \in ClientEvent : d # c => ledger'[u][d] = None
        /\ ledger'[u][None] = ledger[u][None]
    BY <1>2, <2>1, <2>2 DEF Writes
  <2>4. FirstIs(u, c)'
    BY <2>3, Distinct DEF FirstIs
  <2>5. Bare(u)'
    BY <2>1, <2>2 DEF Bare
  <2>6. \A d \in ClientEvent : ledger'[u][d] # None =>
            ledger'[u][d].asked = OpenedReport /\ ClientEventFits(ledger'[u][d])
    BY <2>3, Distinct DEF ClientEventFits
  <2>7. QED
    BY <1>1, <2>1, <2>2, <2>3, <2>4, <2>5, <2>6, Distinct DEF LedgerFits
<1>6. ASSUME NEW c \in ClientEvent, Notes(u, c) PROVE LedgerFits(u)'
  <2> DEFINE event == [from |-> "PROCESSING", asked |-> OpenedReport]
  <2>1. transactions' = transactions /\ Writes(u, c, event)
    BY <1>6, NotesEffect
  <2>2. event.from = "PROCESSING" /\ event.asked = OpenedReport
    OBVIOUS
  <2> HIDE DEF event
  <2>3. transactions[u].status \in {"PROCESSING"} \cup Outcome
    BY <1>6 DEF Notes
  <2>4. /\ ledger'[u][None] = ledger[u][None]
        /\ \A d \in ClientEvent : ledger'[u][d] = ledger[u][d] \/ ledger'[u][d] = event
        /\ \A d \in ClientEvent : ledger[u][d] # None => ledger'[u][d] = ledger[u][d]
    BY <1>2, <2>1 DEF Writes
  <2>5. \A p \in ClientEvent : FirstIs(u, p) => FirstIs(u, p)'
    BY <2>2, <2>4, SMT DEF FirstIs
  <2>6. \A f \in ClientEvent : LastIs(u, f) => LastIs(u, f)'
    BY <2>1, <2>2, <2>4, Distinct DEF LastIs
  <2>7. \A d \in ClientEvent : ledger'[u][d] # None => ClientEventFits(ledger'[u][d])
    BY <1>1, <2>2, <2>4 DEF LedgerFits, ClientEventFits
  <2>8. CASE transactions[u].status = "PROCESSING"
    BY <1>1, <2>1, <2>2, <2>4, <2>5, <2>7, <2>8, Distinct DEF LedgerFits, Bare, Present
  <2>9. CASE transactions[u].status \in Outcome
    <3>1. PICK p \in ClientEvent, f \in ClientEvent :
              /\ FirstIs(u, p) /\ LastIs(u, f)
              /\ f # p => ledger[u][p].asked = OpenedReport /\ ledger[u][f].from = "PROCESSING"
      BY <1>1, <2>9 DEF LedgerFits
    <3>2. /\ FirstIs(u, p)' /\ LastIs(u, f)'
          /\ f # p => ledger'[u][p].asked = OpenedReport /\ ledger'[u][f].from = "PROCESSING"
      BY <2>4, <2>5, <2>6, <3>1 DEF FirstIs, LastIs
    <3>3. Present(u) /\ Present(u)' /\ transactions'[u].status \in Outcome
      BY <2>1, <2>9, Distinct DEF Present
    <3>4. QED
      BY <1>1, <2>4, <2>7, <3>2, <3>3, Distinct DEF LedgerFits
  <2>10. QED BY <2>3, <2>8, <2>9
<1>7. ASSUME NEW c \in ClientEvent, NEW asked \in Asked, Settles(u, c, asked)
      PROVE  LedgerFits(u)'
  <2> DEFINE event == [from |-> transactions[u].status, asked |-> asked]
  <2>1. /\ transactions'[u].status = asked.to /\ asked.to \in Outcome
        /\ transactions'[u].reference = asked.reference
        /\ transactions'[u].failure = asked.failure
        /\ ledger[u][c] = None /\ Writes(u, c, event)
    BY <1>7, SettlesEffect DEF Settles
  <2>2. transactions[u].status \in {"PENDING", "PROCESSING"} /\ Present(u)
    BY <1>7 DEF Settles, Present
  <2>3. event.from = transactions[u].status /\ event.asked = asked
    OBVIOUS
  <2>4. event # None
    BY <2>2, Distinct DEF Status
  <2> HIDE DEF event
  <2>5. /\ ledger'[u][c] = event /\ ledger'[u][None] = ledger[u][None]
        /\ \A d \in ClientEvent : d # c => ledger'[u][d] = ledger[u][d]
    BY <1>2, <2>1 DEF Writes
  <2>6. \A d \in ClientEvent : ledger[u][d] # None => ledger[u][d].asked = OpenedReport
    BY <1>1, <2>2 DEF LedgerFits
  <2>7. LastIs(u, c)'
    BY <2>1, <2>3, <2>4, <2>5, <2>6, Distinct DEF LastIs
  <2>8. \A d \in ClientEvent : ledger'[u][d] # None => ClientEventFits(ledger'[u][d])
    BY <1>1, <2>1, <2>2, <2>3, <2>5 DEF LedgerFits, ClientEventFits
  <2>9. \E p \in ClientEvent :
           /\ FirstIs(u, p)'
           /\ c # p => ledger'[u][p].asked = OpenedReport /\ ledger'[u][c].from = "PROCESSING"
    <3>1. CASE transactions[u].status = "PENDING"
      <4>1. \A d \in ClientEvent : ledger[u][d] = None
        BY <1>1, <3>1 DEF LedgerFits
      <4>2. FirstIs(u, c)'
        BY <2>3, <2>4, <2>5, <3>1, <4>1 DEF FirstIs
      <4>3. QED BY <4>2
    <3>2. CASE transactions[u].status = "PROCESSING"
      <4>1. PICK p \in ClientEvent : FirstIs(u, p)
        BY <1>1, <3>2 DEF LedgerFits
      <4>2. p # c
        BY <2>1, <4>1 DEF FirstIs
      <4>3. FirstIs(u, p)' /\ ledger'[u][p].asked = OpenedReport
        BY <2>3, <2>5, <2>6, <3>2, <4>1, <4>2 DEF FirstIs
      <4>4. QED BY <2>3, <2>5, <3>2, <4>3
    <3>3. QED BY <2>2, <3>1, <3>2
  <2>10. Present(u)' /\ transactions'[u].status \in Outcome
    BY <2>1, Distinct DEF Present
  <2>11. QED
    BY <1>1, <2>1, <2>2, <2>5, <2>7, <2>8, <2>9, <2>10, Distinct DEF LedgerFits
<1>8. ASSUME NEW t \in Transaction, u # t, NEW key \in Key \cup {None}, NEW body \in Body,
             Creates(t, key, body)
      PROVE  LedgerFits(u)'
  BY <1>1, <1>8, CreatesEffect, SameFits
<1>9. ASSUME NEW t \in Transaction, u # t, NEW c \in ClientEvent, Moves(t, c) \/ Notes(t, c)
      PROVE  LedgerFits(u)'
  BY <1>1, <1>9, MovesEffect, NotesEffect, SameFits
<1>10. ASSUME NEW t \in Transaction, u # t, NEW c \in ClientEvent, NEW asked \in Asked,
              Settles(t, c, asked)
       PROVE  LedgerFits(u)'
  BY <1>1, <1>10, SettlesEffect, SameFits
<1>11. QED
  BY <1>3, <1>4, <1>5, <1>6, <1>7, <1>8, <1>9, <1>10 DEF TableStep

-----------------------------------------------------------------------------
(* Tables only grow; keys and references stay apart.                       *)

\* What is known of a payment stays known.
Grown(u) ==
    /\ \A d \in EventId : ledger[u][d] # None => ledger'[u][d] = ledger[u][d]
    /\ Present(u) => /\ Present(u)'
                     /\ transactions'[u].key = transactions[u].key
                     /\ transactions'[u].body = transactions[u].body
    /\ Present(u) /\ transactions[u].status # "PENDING" => transactions'[u].status # "PENDING"

LEMMA Growth == IInv /\ TableStep => \A u \in Transaction : Grown(u)
<1> SUFFICES ASSUME IInv, TableStep, NEW u \in Transaction PROVE Grown(u)
  OBVIOUS
<1>1. ASSUME Same(u) PROVE Grown(u)
  BY <1>1 DEF Same, Grown, Present
<1>2. CASE Stays
  BY <1>1, <1>2 DEF Stays, Same
<1>3. ASSUME NEW key \in Key \cup {None}, NEW body \in Body, Creates(u, key, body)
      PROVE  Grown(u)
  BY <1>3, CreatesEffect DEF Grown
<1>4. ASSUME NEW c \in ClientEvent, Moves(u, c) PROVE Grown(u)
  BY <1>4, MovesEffect DEF Grown, Writes, Present
<1>5. ASSUME NEW c \in ClientEvent, Notes(u, c) PROVE Grown(u)
  BY <1>5, NotesEffect DEF Grown, Writes, Present
<1>6. ASSUME NEW c \in ClientEvent, NEW asked \in Asked, Settles(u, c, asked) PROVE Grown(u)
  <2>1. asked.to # "ABSENT" /\ asked.to # "PENDING"
    BY <1>6, Distinct DEF Settles
  <2>2. \A d \in EventId : ledger[u][d] # None => ledger'[u][d] = ledger[u][d]
    <3> DEFINE event == [from |-> transactions[u].status, asked |-> asked]
    <3>1. Writes(u, c, event)
      BY <1>6, SettlesEffect
    <3> HIDE DEF event
    <3>2. QED BY <3>1 DEF Writes
  <2>3. QED BY <1>6, <2>1, <2>2, SettlesEffect DEF Grown, Present
<1>7. ASSUME NEW t \in Transaction, u # t, NEW key \in Key \cup {None}, NEW body \in Body,
             Creates(t, key, body)
      PROVE  Grown(u)
  BY <1>1, <1>7, CreatesEffect
<1>8. ASSUME NEW t \in Transaction, u # t, NEW c \in ClientEvent, Moves(t, c) \/ Notes(t, c)
      PROVE  Grown(u)
  BY <1>1, <1>8, MovesEffect, NotesEffect
<1>9. ASSUME NEW t \in Transaction, u # t, NEW c \in ClientEvent, NEW asked \in Asked,
             Settles(t, c, asked)
      PROVE  Grown(u)
  BY <1>1, <1>9, SettlesEffect
<1>10. QED
  BY <1>2, <1>3, <1>4, <1>5, <1>6, <1>7, <1>8, <1>9 DEF TableStep

\* A step that leaves keys alone.
LEMMA KeysStep == IInv /\ TableStep => KeysDiffer'
<1> SUFFICES ASSUME IInv, TableStep PROVE KeysDiffer'
  OBVIOUS
<1>1. ASSUME \A t \in Transaction : transactions'[t].key = transactions[t].key
      PROVE  KeysDiffer'
  BY <1>1 DEF IInv, KeysDiffer
<1>2. CASE Stays
  BY <1>1, <1>2 DEF Stays
<1>3. ASSUME NEW t \in Transaction, NEW key \in Key \cup {None}, NEW body \in Body,
             Creates(t, key, body)
      PROVE  KeysDiffer'
  <2>1. \A u \in Transaction : u # t => transactions'[u].key = transactions[u].key
    BY <1>3, CreatesEffect DEF Same
  <2>2. transactions'[t].key = key
    BY <1>3, CreatesEffect
  <2>3. key # None => \A u \in Transaction : transactions[u].key # key
    BY <1>3 DEF Creates, KeyFree, Holders
  <2>4. QED BY <2>1, <2>2, <2>3 DEF IInv, KeysDiffer
<1>4. ASSUME NEW t \in Transaction, NEW c \in ClientEvent, Moves(t, c) PROVE KeysDiffer'
  BY <1>1, <1>4, MovesEffect DEF Same
<1>5. ASSUME NEW t \in Transaction, NEW c \in ClientEvent, Notes(t, c) PROVE KeysDiffer'
  BY <1>1, <1>5, NotesEffect
<1>6. ASSUME NEW t \in Transaction, NEW c \in ClientEvent, NEW asked \in Asked,
             Settles(t, c, asked)
      PROVE  KeysDiffer'
  BY <1>1, <1>6, SettlesEffect DEF Same
<1>7. QED
  BY <1>2, <1>3, <1>4, <1>5, <1>6 DEF TableStep

LEMMA ReferencesStep == IInv /\ TableStep => ReferenceSettlesOne'
<1> SUFFICES ASSUME IInv, TableStep PROVE ReferenceSettlesOne'
  OBVIOUS
<1>1. ASSUME \A t \in Transaction : \/ transactions'[t].reference = transactions[t].reference
                                    \/ transactions'[t].reference = None
      PROVE  ReferenceSettlesOne'
  BY <1>1 DEF IInv, ReferenceSettlesOne
<1>2. CASE Stays
  BY <1>1, <1>2 DEF Stays
<1>3. ASSUME NEW t \in Transaction, NEW key \in Key \cup {None}, NEW body \in Body,
             Creates(t, key, body)
      PROVE  ReferenceSettlesOne'
  BY <1>1, <1>3, CreatesEffect DEF Same
<1>4. ASSUME NEW t \in Transaction, NEW c \in ClientEvent, Moves(t, c)
      PROVE  ReferenceSettlesOne'
  BY <1>1, <1>4, MovesEffect DEF Same
<1>5. ASSUME NEW t \in Transaction, NEW c \in ClientEvent, Notes(t, c)
      PROVE  ReferenceSettlesOne'
  BY <1>1, <1>5, NotesEffect
<1>6. ASSUME NEW t \in Transaction, NEW c \in ClientEvent, NEW asked \in Asked,
             Settles(t, c, asked)
      PROVE  ReferenceSettlesOne'
  <2>1. \A u \in Transaction : u # t => transactions'[u].reference = transactions[u].reference
    BY <1>6, SettlesEffect DEF Same
  <2>2. transactions'[t].reference = asked.reference
    BY <1>6, SettlesEffect
  <2>3. asked.reference # None =>
            \A u \in Transaction : u # t => transactions[u].reference # asked.reference
    BY <1>6 DEF Settles, ReferenceFree
  <2>4. QED BY <2>1, <2>2, <2>3 DEF IInv, ReferenceSettlesOne
<1>7. QED
  BY <1>2, <1>3, <1>4, <1>5, <1>6 DEF TableStep

-----------------------------------------------------------------------------
(* Requests and answers.                                                   *)

\* What is true of an open transaction stays true.
LEMMA FitsStays ==
    ASSUME NEW tx \in Tx, Fits(tx), \A u \in Transaction : Grown(u)
    PROVE  FitsIn(tx, transactions', ledger')
<1>1. CASE tx.op = "open"
  <2>1. tx.transaction \in Transaction
    BY <1>1, TxOfOp, SMT DEF ReportTx
  <2>2. Grown(tx.transaction)
    BY <2>1
  <2>3. QED BY <1>1, <2>2 DEF Fits, FitsIn, Grown, Present
<1>2. CASE tx.op = "detail"
  <2>1. tx.transaction \in Transaction
    BY <1>2, TxOfOp, SMT DEF DetailTx
  <2>2. Grown(tx.transaction)
    BY <2>1
  <2>3. Explained(ledger[tx.transaction], tx.row) => Explained(ledger'[tx.transaction], tx.row)
    BY <2>2 DEF Grown, Explained
  <2>4. QED BY <1>2, <2>3 DEF Fits, FitsIn
<1>3. CASE tx.op \notin {"open", "detail"}
  BY <1>3 DEF Fits, FitsIn
<1>4. QED BY <1>1, <1>2, <1>3

\* A row is explained by its events, at any moment.
LEMMA RowExplained ==
    ASSUME IInv, NEW t \in Transaction, Present(t)
    PROVE  Explained(ledger[t], transactions[t])
<1>1. LedgerFits(t) /\ transactions[t].status \in Status
  BY Rows DEF IInv
<1>2. ClientEvent \subseteq EventId /\ None \in EventId
  BY DEF EventId
<1>3. CASE transactions[t].status = "PENDING"
  <2>1. ledger[t][None] = CreatedEvent /\ Bare(t)
    BY <1>1, <1>3 DEF LedgerFits
  <2> HIDE DEF CreatedEvent
  <2>2. QED BY <1>2, <1>3, <2>1, Constants, Distinct DEF Bare, Explained
<1>4. CASE transactions[t].status = "PROCESSING"
  <2>1. PICK p \in ClientEvent : FirstIs(t, p)
    BY <1>1, <1>4 DEF LedgerFits
  <2>2. ledger[t][p] # None /\ ledger[t][p].asked = OpenedReport /\ Bare(t)
    BY <1>1, <1>4, <2>1 DEF LedgerFits, FirstIs
  <2>3. OpenedReport.to = "PROCESSING" /\ OpenedReport.reference = None
        /\ OpenedReport.failure = None
    BY DEF OpenedReport, Says
  <2>4. QED BY <1>2, <1>4, <2>2, <2>3 DEF Bare, Explained
<1>5. CASE transactions[t].status \in Outcome
  BY <1>1, <1>2, <1>5 DEF LedgerFits, LastIs, Explained
<1>6. QED BY <1>1, <1>3, <1>4, <1>5 DEF Status

RequestStep ==
    \/ UNCHANGED requests
    \/ requests' = [r \in Request |-> Idle]
    \/ \E r \in Request : requests' = [requests EXCEPT ![r] = Idle]
    \/ \E r \in Request, tx \in Tx : Fits(tx) /\ requests' = [requests EXCEPT ![r] = tx]

\* A report that begins is answered or opened.
LEMMA ReportBegins ==
    ASSUME IInv, NEW r \in Request, NEW t \in Transaction, NEW c \in ClientEvent,
           NEW op \in {"open", "result"}, NEW asked \in Asked, NEW accepted,
           op = "open" => asked = OpenedReport,
           op = "result" => asked.to \in Outcome /\ asked.type # "USSD_OPENED",
           ReportBegin(r, op, t, c, asked, accepted)
    PROVE  RequestStep
<1>1. CASE UNCHANGED requests
  BY <1>1 DEF RequestStep
<1>2. CASE Unsettled(t)
             /\ Open(r, [op |-> op, transaction |-> t, id |-> c, asked |-> asked,
                         seen |-> transactions[t].status])
  <2> DEFINE tx == [op |-> op, transaction |-> t, id |-> c, asked |-> asked,
                    seen |-> transactions[t].status]
  <2>1. tx \in ReportTx
    BY <1>2 DEF ReportTx, Unsettled
  <2>2. /\ tx.op = op /\ tx.asked = asked /\ tx.transaction = t
        /\ tx.seen = transactions[t].status
    OBVIOUS
  <2>3. requests' = [requests EXCEPT ![r] = tx]
    BY <1>2 DEF Open
  <2> HIDE DEF tx
  <2>4. Fits(tx)
    BY <1>2, <2>2, SMT DEF Fits, FitsIn, Unsettled, Present
  <2>5. QED BY <2>1, <2>3, <2>4 DEF RequestStep, Tx
<1>3. QED BY <1>1, <1>2 DEF ReportBegin

LEMMA DetailOpened ==
    ASSUME NEW t \in Transaction
    PROVE  DetailRead([op |-> "detail", transaction |-> t, row |-> None, events |-> None],
                      DetailOrder[1])
             = [op |-> "detail", transaction |-> t, row |-> transactions[t], events |-> None]
  BY SMT DEF DetailRead, DetailOrder

LEMMA DetailGoesOn ==
    ASSUME NEW tx \in DetailTx
    PROVE  DetailRead(tx, DetailOrder[2])
             = [op |-> "detail", transaction |-> tx.transaction, row |-> tx.row,
                events |-> ledger[tx.transaction]]
<1>1. DetailRead(tx, DetailOrder[2]) = [tx EXCEPT !.events = ledger[tx.transaction]]
  BY SMT DEF DetailRead, DetailOrder
<1>2. DOMAIN tx = {"op", "transaction", "row", "events"} /\ tx.op = "detail"
  BY SMT DEF DetailTx
<1>3. tx = [x \in {"op", "transaction", "row", "events"} |-> tx[x]]
  BY <1>2, Zenon DEF DetailTx
<1>4. QED BY <1>1, <1>2, <1>3, SMT

LEMMA RequestsStep == IInv /\ [Next]_vars => RequestStep
<1> SUFFICES ASSUME IInv, [Next]_vars PROVE RequestStep
  OBVIOUS
<1>1. /\ transactions \in [Transaction -> Row] /\ requests \in [Request -> Tx]
      /\ ledger \in [Transaction -> [EventId -> Event \cup {None}]]
  BY DEF IInv, TypeOK
<1>2. ASSUME NEW r \in Request, NEW key \in Key \cup {None}, NEW body \in Body,
             CreateBegin(r, key, body)
      PROVE  RequestStep
  <2>1. CASE UNCHANGED requests
    BY <2>1 DEF RequestStep
  <2>2. CASE Open(r, [op |-> "create", key |-> key, body |-> body])
    <3> DEFINE tx == [op |-> "create", key |-> key, body |-> body]
    <3>1. tx \in Tx /\ tx.op = "create" /\ requests' = [requests EXCEPT ![r] = tx]
      BY <2>2 DEF Open, Tx, CreateTx
    <3> HIDE DEF tx
    <3>2. Fits(tx)
      BY <3>1 DEF Fits, FitsIn
    <3>3. QED BY <3>1, <3>2 DEF RequestStep
  <2>3. QED BY <1>2, <2>1, <2>2 DEF CreateBegin
<1>3. ASSUME NEW r \in Request, NEW t \in Transaction, NEW c \in ClientEvent, OpenBegin(r, t, c)
      PROVE  RequestStep
  BY <1>3, Constants, ReportBegins DEF OpenBegin
<1>4. ASSUME NEW r \in Request, NEW t \in Transaction, NEW c \in ClientEvent,
             NEW result \in Result, ProviderBegin(r, t, c, result)
      PROVE  RequestStep
  <2> DEFINE asked == Says("PROVIDER_RESULT_RECEIVED", result.to, result.reference, result.failure)
  <2>1. result \in Results
    BY ResultAssumption
  <2>2. asked \in Asked /\ asked.to \in Outcome /\ asked.type # "USSD_OPENED"
    BY <2>1, SMT DEF Results, Says, Asked, EventType, Status
  <2>3. ReportBegin(r, "result", t, c, asked,
                    transactions[t].body.amount = result.amount /\ WellFormed(result))
    BY <1>4 DEF ProviderBegin
  <2> HIDE DEF asked
  <2>4. QED BY <2>2, <2>3, ReportBegins
<1>5. ASSUME NEW r \in Request, NEW t \in Transaction, NEW c \in ClientEvent,
             NEW to \in {"COMPLETED", "FAILED"}, ManualBegin(r, t, c, to)
      PROVE  RequestStep
  <2> DEFINE asked == Says("STATUS_CHANGED", to, None, None)
  <2>1. asked \in Asked /\ asked.to \in Outcome /\ asked.type # "USSD_OPENED"
    BY SMT DEF Says, Asked, EventType, Status, Outcome
  <2>2. ReportBegin(r, "result", t, c, asked, TRUE)
    BY <1>5 DEF ManualBegin
  <2> HIDE DEF asked
  <2>3. QED BY <2>1, <2>2, ReportBegins
<1>6. ASSUME NEW r \in Request, NEW t \in Transaction, DetailBegin(r, t) PROVE RequestStep
  <2> DEFINE tx == [op |-> "detail", transaction |-> t, row |-> transactions[t], events |-> None]
  <2>1. tx \in DetailTx
    BY <1>1 DEF DetailTx
  <2>2. tx.op = "detail" /\ tx.transaction = t /\ tx.row = transactions[t] /\ tx.events = None
    OBVIOUS
  <2>3. requests' = [requests EXCEPT ![r] = tx] /\ Present(t)
    BY <1>6, DetailOpened DEF DetailBegin, Open
  <2> HIDE DEF tx
  <2>4. Fits(tx)
    BY <2>2, <2>3, RowExplained DEF Fits, FitsIn
  <2>5. QED BY <2>1, <2>3, <2>4 DEF RequestStep, Tx
<1>7. ASSUME NEW r \in Request, DetailQuery(r) PROVE RequestStep
  <2>1. requests[r] \in DetailTx /\ requests[r].op = "detail" /\ Fits(requests[r])
    BY <1>7, TxOfOp DEF IInv, TypeOK, DetailQuery
  <2>2. requests[r].transaction \in Transaction /\ requests[r].row \in Row \cup {None}
    BY <2>1, SMT DEF DetailTx
  <2> DEFINE t == requests[r].transaction
             tx == [op |-> "detail", transaction |-> t, row |-> requests[r].row,
                    events |-> ledger[t]]
  <2>3. tx \in DetailTx
    BY <1>1, <2>2 DEF DetailTx
  <2>4. tx.op = "detail" /\ tx.transaction = t /\ tx.row = requests[r].row /\ tx.events = ledger[t]
    OBVIOUS
  <2>5. requests' = [requests EXCEPT ![r] = tx]
    BY <1>7, <2>1, DetailGoesOn DEF DetailQuery
  <2> HIDE DEF tx
  <2>6. Fits(tx)
    BY <2>1, <2>4 DEF Fits, FitsIn
  <2>7. QED BY <2>3, <2>5, <2>6 DEF RequestStep, Tx
<1>8. ASSUME NEW r \in Request, CreateCommit(r) \/ DetailAnswer(r) PROVE RequestStep
  BY <1>8 DEF CreateCommit, DetailAnswer, Close, RequestStep
<1>9. CASE Restart \/ UNCHANGED vars
  BY <1>9 DEF Restart, vars, RequestStep
<1>10. ASSUME NEW r \in Request, OpenCommit(r) \/ ResultCommit(r) PROVE RequestStep
  BY <1>10, OpenCommits, ResultCommits DEF RequestStep
<1>11. QED
  BY <1>2, <1>3, <1>4, <1>5, <1>6, <1>7, <1>8, <1>9, <1>10 DEF Next

\* Answers that are new are right when they are given.
NewCreations(s) ==
    /\ created' = created \cup s
    /\ s \subseteq [body: Body, transaction: Transaction]
    /\ \A a \in s : Present(a.transaction)' /\ transactions'[a.transaction].body = a.body

NewReceipt(t, c, asked) ==
    /\ Acknowledge(t, c, asked)
    /\ asked # OpenedReport => ledger'[t][c] # None /\ ledger'[t][c].asked = asked

AnswerStep ==
    /\ UNCHANGED created \/ \E s : NewCreations(s)
    /\ \/ UNCHANGED acknowledged
       \/ \E t \in Transaction, c \in ClientEvent, asked \in Asked : NewReceipt(t, c, asked)

LEMMA Replays ==
    ASSUME IInv, NEW key \in Key \cup {None}, NEW body \in Body, Replayed(key, body), Stays
    PROVE  \E s : NewCreations(s)
<1> DEFINE holders == {h \in Holders(key) : transactions[h].body = body}
           s == {[body |-> body, transaction |-> t] : t \in holders}
<1>1. created' = created \cup s
  BY DEF Replayed
<1>2. \A h \in holders : h \in Transaction /\ transactions[h].key = key /\ key # None
                           /\ transactions[h].body = body
  BY DEF Holders
<1>3. \A h \in holders : Present(h)
  BY <1>2, Constants DEF IInv, LedgerFits, Present
<1> HIDE DEF holders
<1>4. \A a \in s : \E h \in holders : a = [body |-> body, transaction |-> h]
  OBVIOUS
<1>5. s \subseteq [body: Body, transaction: Transaction]
  BY <1>2, <1>4
<1>6. \A a \in s : Present(a.transaction)' /\ transactions'[a.transaction].body = a.body
  BY <1>2, <1>3, <1>4 DEF Stays, Present
<1> HIDE DEF s
<1>7. QED BY <1>1, <1>5, <1>6 DEF NewCreations

LEMMA RepeatedAnswer ==
    ASSUME NEW t \in Transaction, NEW c \in ClientEvent, NEW asked \in Asked,
           Repeated(t, c, asked), UNCHANGED ledger
    PROVE  UNCHANGED acknowledged \/ NewReceipt(t, c, asked)
  BY DEF Repeated, Known, NewReceipt

LEMMA AnswersStep == IInv /\ [Next]_vars => AnswerStep
<1> SUFFICES ASSUME IInv, [Next]_vars PROVE AnswerStep
  OBVIOUS
<1>1. ASSUME NEW r \in Request, NEW key \in Key \cup {None}, NEW body \in Body,
             CreateBegin(r, key, body)
      PROVE  AnswerStep
  <2>1. UNCHANGED acknowledged /\ Stays
    BY <1>1 DEF CreateBegin, Stays
  <2>2. UNCHANGED created \/ Replayed(key, body)
    BY <1>1 DEF CreateBegin
  <2>3. QED BY <2>1, <2>2, Replays DEF AnswerStep
<1>2. ASSUME NEW r \in Request, CreateCommit(r) PROVE AnswerStep
  <2>1. requests[r] \in CreateTx
    BY <1>2, TxOfOp DEF IInv, TypeOK, CreateCommit
  <2> DEFINE key == requests[r].key
             body == requests[r].body
  <2>2. key \in Key \cup {None} /\ body \in Body
    BY <2>1, SMT DEF CreateTx
  <2>3. UNCHANGED acknowledged
    BY <1>2 DEF CreateCommit
  <2>4. ASSUME NEW t \in Transaction, Creates(t, key, body),
               created' = created \cup {[body |-> body, transaction |-> t]}
        PROVE  \E s : NewCreations(s)
    <3> DEFINE a == [body |-> body, transaction |-> t]
    <3>1. a \in [body: Body, transaction: Transaction] /\ a.body = body /\ a.transaction = t
      BY <2>2
    <3>2. transactions'[t].body = body /\ Present(t)'
      BY <2>2, <2>4, CreatesEffect DEF Present
    <3> HIDE DEF a
    <3>3. NewCreations({a})
      BY <2>4, <3>1, <3>2 DEF NewCreations, a
    <3>4. QED BY <3>3
  <2>5. ASSUME Replayed(key, body), UNCHANGED <<transactions, ledger>>
        PROVE  \E s : NewCreations(s)
    BY <2>2, <2>5, Replays DEF Stays
  <2>6. QED
    BY <1>2, <2>3, <2>4, <2>5 DEF CreateCommit, AnswerStep, Creates, CreatedEvent
<1>3. ASSUME NEW r \in Request, NEW t \in Transaction, NEW c \in ClientEvent, NEW op,
             NEW asked \in Asked, NEW accepted, ReportBegin(r, op, t, c, asked, accepted)
      PROVE  AnswerStep
  <2>1. UNCHANGED created /\ UNCHANGED ledger
    BY <1>3 DEF ReportBegin
  <2>2. UNCHANGED acknowledged \/ Repeated(t, c, asked)
    BY <1>3 DEF ReportBegin
  <2>3. QED BY <2>1, <2>2, RepeatedAnswer DEF AnswerStep
<1>4. ASSUME NEW r \in Request, NEW t \in Transaction, NEW c \in ClientEvent,
             \/ OpenBegin(r, t, c)
             \/ \E result \in Result : ProviderBegin(r, t, c, result)
             \/ \E to \in {"COMPLETED", "FAILED"} : ManualBegin(r, t, c, to)
      PROVE  AnswerStep
  <2>1. OpenedReport \in Asked
    BY Constants
  <2>2. \A result \in Result :
           Says("PROVIDER_RESULT_RECEIVED", result.to, result.reference, result.failure) \in Asked
    BY ResultAssumption, SMT DEF Results, Says, Asked, EventType, Status
  <2>3. \A to \in {"COMPLETED", "FAILED"} : Says("STATUS_CHANGED", to, None, None) \in Asked
    BY SMT DEF Says, Asked, EventType, Status, Outcome
  <2>4. QED BY <1>3, <1>4, <2>1, <2>2, <2>3 DEF OpenBegin, ProviderBegin, ManualBegin
<1>5. ASSUME NEW r \in Request, OpenCommit(r) PROVE AnswerStep
  <2>1. requests[r] \in ReportTx /\ UNCHANGED created
        /\ \/ UNCHANGED acknowledged
           \/ Acknowledge(requests[r].transaction, requests[r].id, OpenedReport)
    BY <1>5, OpenCommits
  <2>2. requests[r].transaction \in Transaction /\ requests[r].id \in ClientEvent
    BY <2>1, SMT DEF ReportTx
  <2>3. QED BY <2>1, <2>2, Constants DEF AnswerStep, NewReceipt
<1>6. ASSUME NEW r \in Request, ResultCommit(r) PROVE AnswerStep
  <2> DEFINE t == requests[r].transaction
             c == requests[r].id
             asked == requests[r].asked
  <2>1. /\ requests[r] \in ReportTx /\ UNCHANGED created
        /\ \/ Settles(t, c, asked) /\ Acknowledge(t, c, asked)
           \/ Stays /\ Repeated(t, c, asked)
           \/ Stays /\ UNCHANGED acknowledged
    BY <1>6, ResultCommits
  <2>2. t \in Transaction /\ c \in ClientEvent /\ asked \in Asked
    BY <2>1, SMT DEF ReportTx
  <2> HIDE DEF t, c, asked
  <2>3. ASSUME Settles(t, c, asked), Acknowledge(t, c, asked) PROVE NewReceipt(t, c, asked)
    <3> DEFINE event == [from |-> transactions[t].status, asked |-> asked]
    <3>1. Writes(t, c, event) /\ ledger[t][c] = None
      BY <2>2, <2>3, SettlesEffect
    <3>2. event # None /\ event.asked = asked
      BY <2>2, <2>3, Distinct DEF Settles, Status
    <3> HIDE DEF event
    <3>3. c \in EventId
      BY <2>2 DEF EventId
    <3>4. QED BY <2>3, <3>1, <3>2, <3>3 DEF Writes, NewReceipt
  <2>4. QED BY <2>1, <2>2, <2>3, RepeatedAnswer DEF AnswerStep, Stays
<1>7. CASE \/ Restart \/ UNCHANGED vars
           \/ \E r \in Request : DetailQuery(r) \/ DetailAnswer(r)
           \/ \E r \in Request, t \in Transaction : DetailBegin(r, t)
  BY <1>7 DEF Restart, vars, DetailQuery, DetailAnswer, DetailBegin, AnswerStep
<1>8. QED
  BY <1>1, <1>2, <1>4, <1>5, <1>6, <1>7 DEF Next

-----------------------------------------------------------------------------
(* The invariant holds.                                                    *)

LEMMA Initially == Init => IInv
<1> SUFFICES ASSUME Init PROVE IInv
  OBVIOUS
<1>1. TypeOK
  BY Constants DEF Init, TypeOK
<1>2. \A t \in Transaction : transactions[t] = NoRow /\ \A c \in EventId : ledger[t][c] = None
  BY DEF Init
<1>3. \A t \in Transaction : LedgerFits(t)
  BY <1>2, Constants, Distinct DEF LedgerFits, Present, EventId
<1>4. \A r \in Request : Fits(requests[r])
  BY Constants DEF Init, Fits, FitsIn
<1>5. AnswersFit
  BY DEF Init, AnswersFit
<1>6. KeysDiffer /\ ReferenceSettlesOne
  BY <1>2, Constants DEF KeysDiffer, ReferenceSettlesOne
<1>7. QED BY <1>1, <1>3, <1>4, <1>5, <1>6 DEF IInv

LEMMA InvariantStep == IInv /\ [Next]_vars => IInv'
<1> SUFFICES ASSUME IInv, [Next]_vars PROVE IInv'
  OBVIOUS
<1>1. TableStep /\ RequestStep /\ AnswerStep
  BY TablesStep, RequestsStep, AnswersStep
<1>2. \A u \in Transaction : Grown(u)
  BY <1>1, Growth
<1>3. requests' \in [Request -> Tx] /\ \A r \in Request : Fits(requests[r])'
  <2>1. requests \in [Request -> Tx] /\ \A r \in Request : Fits(requests[r])
    BY DEF IInv, TypeOK
  <2>2. Idle \in Tx /\ Fits(Idle)
    BY Constants DEF Fits, FitsIn
  <2> HIDE DEF Idle
  <2>3. requests' \in [Request -> Tx] /\ \A r \in Request : Fits(requests'[r])
    BY <1>1, <2>1, <2>2 DEF RequestStep
  <2>4. \A tx \in Tx : Fits(tx) => FitsIn(tx, transactions', ledger')
    BY <1>2, FitsStays
  <2>5. \A r \in Request : FitsIn(requests'[r], transactions', ledger')
    BY <2>3, <2>4
  <2>6. QED BY <2>3, <2>5 DEF Fits
<1>4. /\ created' \subseteq [body: Body, transaction: Transaction]
      /\ \A a \in created' : Present(a.transaction)' /\ transactions'[a.transaction].body = a.body
  <2>1. /\ created \subseteq [body: Body, transaction: Transaction]
        /\ \A a \in created : Present(a.transaction) /\ transactions[a.transaction].body = a.body
    BY DEF IInv, TypeOK, AnswersFit
  <2>2. \A a \in created :
           Present(a.transaction)' /\ transactions'[a.transaction].body = a.body
    <3>1. \A a \in created : a.transaction \in Transaction
      BY <2>1
    <3>2. QED BY <1>2, <2>1, <3>1 DEF Grown
  <2>3. QED BY <1>1, <2>1, <2>2 DEF AnswerStep, NewCreations
<1>5. /\ acknowledged' \subseteq [transaction: Transaction, id: ClientEvent, asked: Asked]
      /\ \A receipt \in acknowledged' : receipt.asked # OpenedReport =>
            /\ ledger'[receipt.transaction][receipt.id] # None
            /\ ledger'[receipt.transaction][receipt.id].asked = receipt.asked
  <2>1. /\ acknowledged \subseteq [transaction: Transaction, id: ClientEvent, asked: Asked]
        /\ \A receipt \in acknowledged : receipt.asked # OpenedReport =>
              /\ ledger[receipt.transaction][receipt.id] # None
              /\ ledger[receipt.transaction][receipt.id].asked = receipt.asked
    BY DEF IInv, TypeOK, AnswersFit
  <2>2. \A receipt \in acknowledged : receipt.asked # OpenedReport =>
            /\ ledger'[receipt.transaction][receipt.id] # None
            /\ ledger'[receipt.transaction][receipt.id].asked = receipt.asked
    <3>1. \A receipt \in acknowledged : receipt.transaction \in Transaction /\ receipt.id \in EventId
      BY <2>1 DEF EventId
    <3>2. QED BY <1>2, <2>1, <3>1 DEF Grown
  <2>3. ASSUME NEW t \in Transaction, NEW c \in ClientEvent, NEW asked \in Asked,
               NewReceipt(t, c, asked)
        PROVE  /\ acknowledged' \subseteq [transaction: Transaction, id: ClientEvent, asked: Asked]
               /\ \A receipt \in acknowledged' : receipt.asked # OpenedReport =>
                     /\ ledger'[receipt.transaction][receipt.id] # None
                     /\ ledger'[receipt.transaction][receipt.id].asked = receipt.asked
    <3> DEFINE new == Receipt(t, c, asked)
    <3>1. /\ new \in [transaction: Transaction, id: ClientEvent, asked: Asked]
          /\ new.transaction = t /\ new.id = c /\ new.asked = asked
      BY DEF Receipt
    <3>2. acknowledged' = acknowledged \cup {new}
          /\ (asked # OpenedReport => ledger'[t][c] # None /\ ledger'[t][c].asked = asked)
      BY <2>3 DEF NewReceipt, Acknowledge
    <3> HIDE DEF new
    <3>3. QED BY <2>1, <2>2, <3>1, <3>2
  <2>4. QED BY <1>1, <2>1, <2>2, <2>3 DEF AnswerStep
<1>6. TypeOK'
  BY <1>1, <1>3, <1>4, <1>5, TablesType DEF TypeOK
<1>7. AnswersFit'
  BY <1>4, <1>5 DEF AnswersFit
<1>8. QED
  BY <1>1, <1>3, <1>6, <1>7, LedgerStep, KeysStep, ReferencesStep DEF IInv

LEMMA Invariance == Spec => []IInv
<1>1. QED BY Initially, InvariantStep, PTL DEF Spec

\* Rows, events and open transactions are what their types say, whatever the
\* handlers interleave (transactions and TransactionEvent, prisma/schema.prisma).
THEOREM TypeCorrect == Spec => []TypeOK
<1>1. IInv => TypeOK
  BY DEF IInv
<1>2. QED BY <1>1, Invariance, PTL

\* A provider reference settles one transaction, though the lookups of two
\* reports may both find it free
\* (record, transaction-provider-sms-result.service.ts:67-79).
THEOREM ReferencesDiffer == Spec => []ReferenceSettlesOne
<1>1. IInv => ReferenceSettlesOne
  BY DEF IInv
<1>2. QED BY <1>1, Invariance, PTL

\* An answered create got a transaction of its own terms, and one key one
\* transaction (create, transaction-creation.service.ts:51-147).
THEOREM CreationsAsAsked == Spec => []CreatedAsAsked
<1>1. IInv => CreatedAsAsked
  BY DEF IInv, TypeOK, AnswersFit, KeysDiffer, CreatedAsAsked
<1>2. QED BY <1>1, Invariance, PTL

\* Row and events read by two queries explain each other
\* (getDetail, transaction-query.service.ts:108-130).
THEOREM DetailExplained == Spec => []DetailIsExplained
<1>1. IInv => DetailIsExplained
  BY DEF IInv, Fits, FitsIn, Explained, DetailIsExplained, DetailShown
<1>2. QED BY <1>1, Invariance, PTL

\* An answered result is in the ledger as it was reported, and the row has its
\* outcome (assertEventMatches, transaction-provider-sms-result.service.ts:243-272).
THEOREM ResultsStay == Spec => []ResultsAreKept
<1>1. ASSUME IInv, NEW receipt \in acknowledged, receipt.asked # OpenedReport
      PROVE  /\ ledger[receipt.transaction][receipt.id] # None
             /\ ledger[receipt.transaction][receipt.id].asked = receipt.asked
             /\ transactions[receipt.transaction].status = receipt.asked.to
  <2> DEFINE t == receipt.transaction
             c == receipt.id
  <2>1. t \in Transaction /\ c \in ClientEvent
    BY <1>1 DEF IInv, TypeOK
  <2>2. ledger[t][c] # None /\ ledger[t][c].asked = receipt.asked
    BY <1>1 DEF IInv, AnswersFit
  <2>3. LedgerFits(t) /\ transactions[t].status \in Status \cup {"ABSENT"}
    BY <1>1, <2>1, Rows DEF IInv
  <2> HIDE DEF t, c
  <2>4. receipt.asked.to \in Outcome
    BY <1>1, <2>1, <2>2, <2>3 DEF LedgerFits, ClientEventFits
  <2>5. transactions[t].status \in Outcome
    BY <1>1, <2>1, <2>2, <2>3 DEF LedgerFits, EventId, Status
  <2>6. PICK f \in ClientEvent : LastIs(t, f)
    BY <2>3, <2>5 DEF LedgerFits
  <2>7. f = c
    BY <2>1, <2>2, <2>4, <2>6 DEF LastIs
  <2>8. QED BY <2>2, <2>6, <2>7 DEF LastIs, t, c
<1>2. IInv => ResultsAreKept
  BY <1>1 DEF ResultsAreKept
<1>3. QED BY <1>2, Invariance, PTL

-----------------------------------------------------------------------------
(* The ledger explains the status.                                         *)

\* The events that changed a payment's status: its creation, the one that
\* found it pending, and the one that settled it.
LEMMA ChangesOf ==
    ASSUME IInv, NEW t \in Transaction, Present(t)
    PROVE  /\ None \in Changes(t) /\ ledger[t][None] = CreatedEvent
           /\ \A c \in Changes(t) : c # None =>
                 /\ c \in ClientEvent /\ ledger[t][c] # None
                 /\ \/ ledger[t][c].asked.to \in Outcome
                    \/ ledger[t][c].asked = OpenedReport /\ ledger[t][c].from = "PENDING"
                 /\ ledger[t][c].from \in {"PENDING", "PROCESSING"}
<1>1. LedgerFits(t) /\ ledger[t][None] = CreatedEvent
  BY DEF IInv, LedgerFits
<1>2. None \in Changes(t)
  BY <1>1, Constants, Distinct DEF Changes
<1>3. ASSUME NEW c \in Changes(t), c # None
      PROVE  /\ c \in ClientEvent /\ ledger[t][c] # None
             /\ \/ ledger[t][c].asked.to \in Outcome
                \/ ledger[t][c].asked = OpenedReport /\ ledger[t][c].from = "PENDING"
             /\ ledger[t][c].from \in {"PENDING", "PROCESSING"}
  <2>1. c \in ClientEvent /\ ledger[t][c] # None /\ ledger[t][c].from # ledger[t][c].asked.to
    BY <1>3 DEF Changes, EventId
  <2>2. ClientEventFits(ledger[t][c])
    BY <1>1, <2>1 DEF LedgerFits
  <2>3. QED BY <2>1, <2>2, Constants DEF ClientEventFits
<1>4. QED BY <1>1, <1>2, <1>3

\* LedgerExplainsStatus, for one payment.
Explains(t) ==
    /\ \E c \in Changes(t) : /\ ledger[t][c].asked.to = transactions[t].status
                             /\ ledger[t][c].asked.reference = transactions[t].reference
                             /\ ledger[t][c].asked.failure = transactions[t].failure
    /\ \A c \in Changes(t) :
          /\ ledger[t][c].asked.to = transactions[t].status
                \/ \E d \in Changes(t) : ledger[t][d].from = ledger[t][c].asked.to
          /\ ledger[t][c].from = None
                \/ \E d \in Changes(t) : ledger[t][d].asked.to = ledger[t][c].from
    /\ \A c, d \in Changes(t) :
          \/ c = d
          \/ /\ ledger[t][c].asked.to # ledger[t][d].asked.to
             /\ ledger[t][c].from # ledger[t][d].from

LEMMA Explanation ==
    ASSUME IInv, NEW t \in Transaction, Present(t)
    PROVE  Explains(t)
<1>1. LedgerFits(t) /\ transactions[t].status \in Status
  BY Rows DEF IInv
<1>2. /\ None \in Changes(t) /\ ledger[t][None] = CreatedEvent
      /\ \A c \in Changes(t) : c # None =>
            /\ c \in ClientEvent /\ ledger[t][c] # None
            /\ \/ ledger[t][c].asked.to \in Outcome
               \/ ledger[t][c].asked = OpenedReport /\ ledger[t][c].from = "PENDING"
            /\ ledger[t][c].from \in {"PENDING", "PROCESSING"}
  BY ChangesOf
<1>3. /\ ledger[t][None].from = None /\ ledger[t][None].asked.to = "PENDING"
      /\ ledger[t][None].asked.reference = None /\ ledger[t][None].asked.failure = None
  BY <1>2, Constants
<1>4. CASE transactions[t].status = "PENDING"
  <2>1. Bare(t) /\ Changes(t) = {None}
    BY <1>1, <1>2, <1>4 DEF LedgerFits
  <2>2. QED BY <1>3, <1>4, <2>1 DEF Bare, Explains
<1>5. CASE transactions[t].status = "PROCESSING"
  <2>1. PICK p \in ClientEvent : FirstIs(t, p)
    BY <1>1, <1>5 DEF LedgerFits
  <2>2. /\ Bare(t) /\ ledger[t][p].from = "PENDING" /\ ledger[t][p].asked = OpenedReport
        /\ ledger[t][p] # None
    BY <1>1, <1>5, <2>1 DEF LedgerFits, FirstIs
  <2>3. p \in Changes(t)
    BY <2>2, Constants DEF Changes, EventId
  <2>4. \A c \in Changes(t) : c = None \/ c = p
    <3>1. \A c \in Changes(t) : c # None => ledger[t][c].asked = OpenedReport
      BY <1>1, <1>2, <1>5 DEF LedgerFits
    <3>2. QED BY <1>2, <2>1, <3>1, Distinct DEF FirstIs
  <2>5. Changes(t) = {None, p}
    BY <1>2, <2>3, <2>4
  <2>6. /\ ledger[t][p].asked.to = "PROCESSING"
        /\ ledger[t][p].asked.reference = None /\ ledger[t][p].asked.failure = None
    BY <2>2 DEF OpenedReport, Says
  <2>7. QED BY <1>3, <1>5, <2>2, <2>5, <2>6, Constants DEF Bare, Explains
<1>6. CASE transactions[t].status \in Outcome
  <2>1. PICK p \in ClientEvent, f \in ClientEvent :
            /\ FirstIs(t, p) /\ LastIs(t, f)
            /\ f # p => ledger[t][p].asked = OpenedReport /\ ledger[t][f].from = "PROCESSING"
    BY <1>1, <1>6 DEF LedgerFits
  <2>2. /\ ledger[t][p] # None /\ ledger[t][p].from = "PENDING" /\ ledger[t][f] # None
        /\ ledger[t][f].asked.to = transactions[t].status
        /\ ledger[t][f].asked.reference = transactions[t].reference
        /\ ledger[t][f].asked.failure = transactions[t].failure
    BY <2>1 DEF FirstIs, LastIs
  <2>3. \A c \in Changes(t) : c = None \/ c = p \/ c = f
    BY <1>2, <2>1 DEF FirstIs, LastIs
  <2>4. transactions[t].status # "PENDING" /\ transactions[t].status # "PROCESSING"
    BY <1>6, Distinct
  <2>5. p \in EventId /\ f \in EventId
    BY DEF EventId
  <2>6. CASE f = p
    <3>1. p \in Changes(t)
      BY <2>2, <2>4, <2>5, <2>6 DEF Changes
    <3>2. Changes(t) = {None, p}
      BY <1>2, <2>3, <2>6, <3>1
    <3>3. QED BY <1>3, <2>2, <2>4, <2>6, <3>2, Constants DEF Explains
  <2>7. CASE f # p
    <3>1. ledger[t][p].asked.to = "PROCESSING" /\ ledger[t][f].from = "PROCESSING"
      BY <2>1, <2>7 DEF OpenedReport, Says
    <3>2. p \in Changes(t) /\ f \in Changes(t)
      BY <2>2, <2>4, <2>5, <3>1 DEF Changes
    <3>3. Changes(t) = {None, p, f}
      BY <1>2, <2>3, <3>2
    <3>4. QED BY <1>3, <2>2, <2>4, <3>1, <3>3, Constants DEF Explains
  <2>8. QED BY <2>6, <2>7
<1>7. QED BY <1>1, <1>4, <1>5, <1>6 DEF Status

\* The events that changed a payment's status form one path that ends in it,
\* however many reports ran at once
\* (record, transaction-provider-sms-result.service.ts:81-160).
THEOREM LedgerExplains == Spec => []LedgerExplainsStatus
<1>1. IInv => LedgerExplainsStatus
  BY Explanation DEF LedgerExplainsStatus, Explains
<1>2. QED BY <1>1, Invariance, PTL

-----------------------------------------------------------------------------
(* The handlers implement the promised lifecycle.                          *)

LEMMA Mapped ==
    ASSUME IInv, NEW t \in Transaction
    PROVE  /\ Stages[t] = StageOf(transactions[t])
           /\ Outcomes[t] = IF transactions[t].status \in Outcome
                            THEN <<transactions[t].status, transactions[t].reference,
                                   transactions[t].failure>>
                            ELSE None
  BY DEF Stages, Outcomes

\* What a row shows of the lifecycle.
Shown(row) ==
    IF row.status \in Outcome THEN <<row.status, row.reference, row.failure>> ELSE None

\* A step that changes at most one row changes at most its image.
LEMMA OneRow ==
    ASSUME IInv, NEW t \in Transaction,
           \A u \in Transaction : u # t => transactions'[u] = transactions[u]
    PROVE  /\ Stages' = [Stages EXCEPT ![t] = StageOf(transactions'[t])]
           /\ Outcomes' = [Outcomes EXCEPT ![t] = Shown(transactions'[t])]
<1>1. /\ Stages = [u \in Transaction |-> StageOf(transactions[u])]
      /\ Stages' = [u \in Transaction |-> StageOf(transactions'[u])]
  BY DEF Stages, StageOf
<1>2. /\ Outcomes = [u \in Transaction |-> Shown(transactions[u])]
      /\ Outcomes' = [u \in Transaction |-> Shown(transactions'[u])]
  BY DEF Outcomes, Shown
<1>3. /\ \A u \in Transaction : u # t => StageOf(transactions'[u]) = StageOf(transactions[u])
      /\ \A u \in Transaction : u # t => Shown(transactions'[u]) = Shown(transactions[u])
  OBVIOUS
<1>4. QED BY <1>1, <1>2, <1>3

LEMMA LifecycleStep == IInv /\ TableStep => [Lifecycle!Next]_(Lifecycle!vars)
<1> SUFFICES ASSUME IInv, TableStep PROVE Lifecycle!Next \/ UNCHANGED Lifecycle!vars
  OBVIOUS
<1>1. ASSUME UNCHANGED transactions PROVE UNCHANGED Lifecycle!vars
  BY <1>1 DEF Lifecycle!vars, Stages, Outcomes, StageOf
<1>2. CASE Stays
  BY <1>1, <1>2 DEF Stays
<1>3. ASSUME NEW t \in Transaction, NEW key \in Key \cup {None}, NEW body \in Body,
             Creates(t, key, body)
      PROVE  Lifecycle!Next
  <2>1. /\ transactions[t] = NoRow /\ transactions'[t].status = "PENDING"
        /\ \A u \in Transaction : u # t => transactions'[u] = transactions[u]
    BY <1>3, CreatesEffect DEF Same
  <2>2. Stages[t] = "none" /\ Outcomes[t] = None
    BY <2>1, Constants, Distinct, Mapped DEF StageOf
  <2>3. StageOf(transactions'[t]) = "pending" /\ Shown(transactions'[t]) = None
    BY <2>1, Distinct DEF StageOf, Shown
  <2>4. Lifecycle!Create(t)
    BY <2>1, <2>2, <2>3, OneRow DEF Lifecycle!Create, Outcomes
  <2>5. QED BY <2>4 DEF Lifecycle!Next
<1>4. ASSUME NEW t \in Transaction, NEW c \in ClientEvent, Moves(t, c)
      PROVE  Lifecycle!Next
  <2>1. /\ transactions[t].status = "PENDING" /\ transactions'[t].status = "PROCESSING"
        /\ \A u \in Transaction : u # t => transactions'[u] = transactions[u]
    BY <1>4, MovesEffect DEF Same
  <2>2. Stages[t] = "pending" /\ Outcomes[t] = None
    BY <2>1, Distinct, Mapped DEF StageOf
  <2>3. StageOf(transactions'[t]) = "processing" /\ Shown(transactions'[t]) = None
    BY <2>1, Distinct DEF StageOf, Shown
  <2>4. Lifecycle!Start(t)
    BY <2>1, <2>2, <2>3, OneRow DEF Lifecycle!Start, Outcomes
  <2>5. QED BY <2>4 DEF Lifecycle!Next
<1>5. ASSUME NEW t \in Transaction, NEW c \in ClientEvent, Notes(t, c)
      PROVE  UNCHANGED Lifecycle!vars
  BY <1>1, <1>5, NotesEffect
<1>6. ASSUME NEW t \in Transaction, NEW c \in ClientEvent, NEW asked \in Asked,
             Settles(t, c, asked)
      PROVE  Lifecycle!Next
  <2>1. /\ transactions[t].status \in {"PENDING", "PROCESSING"} /\ asked.to \in Outcome
        /\ transactions'[t].status = asked.to
        /\ transactions'[t].reference = asked.reference
        /\ transactions'[t].failure = asked.failure
        /\ \A u \in Transaction : u # t => transactions'[u] = transactions[u]
    BY <1>6, SettlesEffect DEF Settles, Same
  <2>2. Stages[t] \in {"pending", "processing"}
    BY <2>1, Mapped DEF StageOf
  <2> DEFINE o == <<asked.to, asked.reference, asked.failure>>
  <2>3. StageOf(transactions'[t]) = "settled"
    BY <2>1, Distinct DEF StageOf
  <2>4. Shown(transactions'[t]) = o
    BY <2>1 DEF Shown
  <2>5. o \in Outcome \X (Reference \cup {None}) \X (Failure \cup {None})
    BY <2>1, SMT DEF Asked
  <2> HIDE DEF o
  <2>6. Lifecycle!Settle(t, o)
    BY <2>1, <2>2, <2>3, <2>4, OneRow DEF Lifecycle!Settle
  <2>7. QED BY <2>5, <2>6 DEF Lifecycle!Next
<1>7. QED
  BY <1>2, <1>3, <1>4, <1>5, <1>6 DEF TableStep

\* However the handlers interleave, a payment is settled at most once and its
\* outcome never changes: the tables implement PaymentLifecycle.
THEOREM Implementation == Spec => ImplementsLifecycle
<1>1. Init => Lifecycle!Init
  BY Constants, Distinct DEF Init, Lifecycle!Init, Stages, Outcomes, StageOf
<1>2. IInv /\ [Next]_vars => [Lifecycle!Next]_(Lifecycle!vars)
  BY TablesStep, LifecycleStep
<1>3. QED BY <1>1, <1>2, Invariance, PTL DEF Spec, ImplementsLifecycle, Lifecycle!Spec
=============================================================================
