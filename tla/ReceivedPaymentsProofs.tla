----------------------- MODULE ReceivedPaymentsProofs -----------------------
(***************************************************************************)
(* What ReceivedPayments promises for any number of payments, incomes and  *)
(* requests: the two books agree, an answered recording is in the table as *)
(* it was answered, and money heard of twice is one payment.               *)
(*                                                                         *)
(* A step records one payment, classifies one, or leaves the table alone;  *)
(* what a payment says of its money never changes.                         *)
(***************************************************************************)
EXTENDS ReceivedPayments, TLAPS

-----------------------------------------------------------------------------
(* The invariant.                                                          *)

\* A recording that was answered names a payment that says the same.
AnswersFit ==
    \A a \in answers :
        LET row == payments[a.payment] IN
        /\ row.exists /\ row.amount = a.body.amount
        /\ row.reference = a.body.reference
        /\ a.body.source = "PROVIDER_SMS" => row.source = "PROVIDER_SMS"

\* Only an income that was created is booked.
BookedExists ==
    \A i \in Income : incomes[i].payment # None => incomes[i].exists

IInv == TypeOK /\ BookedAsReceived /\ BookedExists /\ AnswersFit /\ ReferenceReceivedOnce

-----------------------------------------------------------------------------
(* Types.                                                                  *)

LEMMA Constants ==
    /\ NoPayment \in PaymentRow /\ NoPayment.exists = FALSE
    /\ NoIncome \in IncomeRow /\ NoIncome.payment = None
    /\ Idle \in Tx /\ Idle.op = "idle"
    /\ "UNCLASSIFIED" \in Class /\ "INCOME" \in Class
    /\ None \notin Payment
  BY ClassAssumption, NoneAssumption, SMT
  DEF NoPayment, PaymentRow, Source, NoIncome, IncomeRow, Idle, Tx

LEMMA TxOfOp ==
    ASSUME NEW tx \in Tx
    PROVE  /\ tx.op = "record" => tx \in RecordTx /\ tx.payment \in Payment /\ tx.body \in Body
           /\ tx.op = "classify" => tx \in ClassifyTx /\ tx.payment \in Payment /\ tx.class \in Class
  BY SMT DEF Tx, Idle, RecordTx, ClassifyTx

\* What a recording says.
Said == [source: Source, reference: Reference \cup {None}, amount: Amount]

LEMMA BodyIsSaid == Body \subseteq Said
  BY DEF Body, Said

LEMMA RecordedRow ==
    ASSUME NEW body \in Said, NEW class \in Class
    PROVE  LET row == Recorded(body, class) IN
           /\ row \in PaymentRow /\ row.exists
           /\ row.source = body.source /\ row.reference = body.reference
           /\ row.amount = body.amount /\ row.class = class
  BY SMT DEF Said, Recorded, PaymentRow

LEMMA ClassifiedRow ==
    ASSUME NEW row \in PaymentRow, NEW class \in Class
    PROVE  LET new == [row EXCEPT !.class = class] IN
           /\ new \in PaymentRow /\ new.exists = row.exists
           /\ new.source = row.source /\ new.reference = row.reference
           /\ new.amount = row.amount
<1>1. [row EXCEPT !.class = class] \in PaymentRow
  BY Zenon DEF PaymentRow
<1>2. QED BY <1>1, SMT DEF PaymentRow

-----------------------------------------------------------------------------
(* Payments.                                                               *)

Records(e, body, class) ==
    /\ ~Known(e, body)
    /\ payments' = [payments EXCEPT ![e] = Recorded(body, class)]

PaymentStep ==
    \/ UNCHANGED payments
    \/ \E e \in Payment, body \in Said, class \in Class : Records(e, body, class)
    \/ \E p \in Payment, class \in Class :
          payments' = [payments EXCEPT ![p].class = class]

LEMMA PaymentsStep == IInv /\ [Next]_vars => PaymentStep
<1> SUFFICES ASSUME IInv, [Next]_vars PROVE PaymentStep
  OBVIOUS
<1>1. ASSUME NEW r \in Request, RecordCommit(r) PROVE PaymentStep
  <2>1. requests[r].payment \in Payment /\ requests[r].body \in Said
    BY <1>1, TxOfOp, BodyIsSaid DEF IInv, TypeOK, RecordCommit
  <2>2. QED BY <1>1, <2>1, Constants DEF RecordCommit, PaymentStep, Records
<1>2. ASSUME NEW r \in Request, ClassifyWrite(r) PROVE PaymentStep
  <2>1. requests[r].payment \in Payment /\ requests[r].class \in Class
    BY <1>2, TxOfOp DEF IInv, TypeOK, ClassifyWrite
  <2>2. QED BY <1>2, <2>1 DEF ClassifyWrite, PaymentStep
<1>3. ASSUME NEW e \in Payment, NEW class \in Class, NEW i,
             NEW body \in [source: {"PROVIDER_SMS"}, reference: Reference \cup {None}, amount: Amount],
             ConfirmImport(e, body, class, i)
      PROVE  PaymentStep
  <2>1. body \in Said
    BY DEF Said, Source
  <2>2. QED BY <1>3, <2>1 DEF ConfirmImport, PaymentStep, Records
<1>4. ASSUME NEW i \in Income, NEW p \in Payment, LinkIncome(i, p) PROVE PaymentStep
  BY <1>4, Constants DEF LinkIncome, PaymentStep
<1>5. QED
  BY <1>1, <1>2, <1>3, <1>4 DEF Next, vars, PaymentStep, Restart, RecordBegin, ClassifyBegin,
     UpdateIncome, CreateIncome, ReceiveIncome, ArchiveIncome

\* What a payment says of its money never changes.
Kept(p) ==
    payments[p].exists => /\ payments'[p].exists
                          /\ payments'[p].source = payments[p].source
                          /\ payments'[p].reference = payments[p].reference
                          /\ payments'[p].amount = payments[p].amount

PaymentsRight ==
    /\ payments' \in [Payment -> PaymentRow]
    /\ \A p \in Payment : Kept(p)
    /\ ReferenceReceivedOnce'

LEMMA PaymentsStayRight == IInv /\ [Next]_vars => PaymentsRight
<1> SUFFICES ASSUME IInv, PaymentStep PROVE PaymentsRight
  BY PaymentsStep
<1>1. payments \in [Payment -> PaymentRow] /\ ReferenceReceivedOnce
  BY DEF IInv, TypeOK
<1>2. CASE UNCHANGED payments
  BY <1>1, <1>2 DEF PaymentsRight, Kept, ReferenceReceivedOnce
<1>3. ASSUME NEW e \in Payment, NEW body \in Said, NEW class \in Class, Records(e, body, class)
      PROVE  PaymentsRight
  <2> DEFINE row == Recorded(body, class)
  <2>1. row \in PaymentRow /\ row.exists /\ row.reference = body.reference
    BY RecordedRow
  <2>2. payments' = [payments EXCEPT ![e] = row]
    BY <1>3 DEF Records
  <2> HIDE DEF row
  <2>3. /\ payments' \in [Payment -> PaymentRow] /\ payments'[e] = row
        /\ \A p \in Payment : p # e => payments'[p] = payments[p]
    BY <1>1, <2>1, <2>2
  <2>4. ~payments[e].exists
    BY <1>3 DEF Records, Known
  <2>5. \A p \in Payment :
           payments[p].exists /\ body.reference # None => payments[p].reference # body.reference
    BY <1>3 DEF Records, Known, Holders
  <2>6. \A p \in Payment : Kept(p)
    BY <2>3, <2>4 DEF Kept
  <2>7. ReferenceReceivedOnce'
    BY <1>1, <2>1, <2>3, <2>5 DEF ReferenceReceivedOnce
  <2>8. QED BY <2>3, <2>6, <2>7 DEF PaymentsRight
<1>4. ASSUME NEW e \in Payment, NEW class \in Class,
             payments' = [payments EXCEPT ![e].class = class]
      PROVE  PaymentsRight
  <2> DEFINE row == [payments[e] EXCEPT !.class = class]
  <2>1. /\ row \in PaymentRow /\ row.exists = payments[e].exists
        /\ row.source = payments[e].source /\ row.reference = payments[e].reference
        /\ row.amount = payments[e].amount
    BY <1>1, ClassifiedRow
  <2>2. payments' = [payments EXCEPT ![e] = row]
    BY <1>4
  <2> HIDE DEF row
  <2>3. /\ payments' \in [Payment -> PaymentRow]
        /\ \A p \in Payment : /\ payments'[p].exists = payments[p].exists
                              /\ payments'[p].source = payments[p].source
                              /\ payments'[p].reference = payments[p].reference
                              /\ payments'[p].amount = payments[p].amount
    BY <1>1, <2>1, <2>2
  <2>4. ReferenceReceivedOnce'
    BY <1>1, <2>3 DEF ReferenceReceivedOnce
  <2>5. QED BY <2>3, <2>4 DEF PaymentsRight, Kept
<1>5. QED BY <1>2, <1>3, <1>4 DEF PaymentStep

-----------------------------------------------------------------------------
(* Incomes.                                                                *)

\* An income that names a payment says what the payment says.
Booked(row) ==
    row.payment # None => /\ row.exists /\ row.received /\ payments'[row.payment].exists
                          /\ row.amount = payments'[row.payment].amount

\* One income changes; a payment it newly names was named by none.
Books(i, row) ==
    /\ Booked(row)
    /\ row.payment = incomes[i].payment \/ row.payment = None \/ ~Linked(row.payment)
    /\ incomes' = [incomes EXCEPT ![i] = row]

IncomeStep == UNCHANGED incomes \/ \E i \in Income, row \in IncomeRow : Books(i, row)

LEMMA IncomeRows ==
    ASSUME NEW row \in IncomeRow
    PROVE  /\ row.payment \in Payment \cup {None} /\ row.amount \in Amount \cup {None}
           /\ row.received \in BOOLEAN
  BY SMT DEF IncomeRow

\* The new row of an income whose amount is edited, that is received, archived
\* or linked to a payment.
LEMMA EditedRow ==
    ASSUME NEW row \in IncomeRow, NEW amount \in Amount
    PROVE  LET new == [row EXCEPT !.amount = amount] IN
           new \in IncomeRow /\ new.payment = row.payment
<1>1. [row EXCEPT !.amount = amount] \in IncomeRow
  BY Zenon DEF IncomeRow
<1>2. QED BY <1>1, SMT DEF IncomeRow

LEMMA ReceivedRow ==
    ASSUME NEW row \in IncomeRow
    PROVE  LET new == [row EXCEPT !.received = TRUE] IN
           /\ new \in IncomeRow /\ new.payment = row.payment
           /\ new.received /\ new.amount = row.amount /\ new.exists = row.exists
<1>1. [row EXCEPT !.received = TRUE] \in IncomeRow
  BY Zenon DEF IncomeRow
<1>2. QED BY <1>1, SMT DEF IncomeRow

LEMMA ArchivedRow ==
    ASSUME NEW row \in IncomeRow
    PROVE  LET new == [row EXCEPT !.archived = TRUE] IN
           /\ new \in IncomeRow /\ new.payment = row.payment
           /\ new.received = row.received /\ new.amount = row.amount
           /\ new.exists = row.exists
<1>1. [row EXCEPT !.archived = TRUE] \in IncomeRow
  BY Zenon DEF IncomeRow
<1>2. QED BY <1>1, SMT DEF IncomeRow

LEMMA LinkedRow ==
    ASSUME NEW row \in IncomeRow, NEW p \in Payment
    PROVE  LET new == [row EXCEPT !.payment = p, !.received = TRUE] IN
           /\ new \in IncomeRow /\ new.payment = p
           /\ new.received /\ new.amount = row.amount /\ new.exists = row.exists
<1>1. [row EXCEPT !.payment = p, !.received = TRUE] \in IncomeRow
  BY Zenon DEF IncomeRow
<1>2. QED BY <1>1, SMT DEF IncomeRow

LEMMA NewIncomeRow ==
    ASSUME NEW amount \in Amount, NEW received \in BOOLEAN
    PROVE  LET new == [NoIncome EXCEPT !.exists = TRUE, !.amount = amount,
                                       !.received = received] IN
           new \in IncomeRow /\ new.payment = None /\ new.amount = amount
<1>1. NoIncome \in IncomeRow
  BY Constants
<1>2. [NoIncome EXCEPT !.exists = TRUE, !.amount = amount, !.received = received] \in IncomeRow
  BY <1>1, Zenon DEF IncomeRow
<1>3. QED BY <1>2, SMT DEF NoIncome

LEMMA BookedRow ==
    ASSUME NEW amount \in Amount, NEW p \in Payment
    PROVE  LET new == [NoIncome EXCEPT !.exists = TRUE, !.amount = amount,
                                       !.received = TRUE, !.payment = p] IN
           /\ new \in IncomeRow /\ new.exists /\ new.payment = p
           /\ new.received /\ new.amount = amount
<1>1. NoIncome \in IncomeRow
  BY Constants
<1>2. [NoIncome EXCEPT !.exists = TRUE, !.amount = amount, !.received = TRUE, !.payment = p]
          \in IncomeRow
  BY <1>1, Zenon DEF IncomeRow
<1>3. QED BY <1>2, SMT DEF NoIncome

LEMMA IncomesStep == IInv /\ [Next]_vars => IncomeStep
<1> SUFFICES ASSUME IInv, [Next]_vars PROVE IncomeStep
  OBVIOUS
<1>1. /\ incomes \in [Income -> IncomeRow] /\ payments \in [Payment -> PaymentRow]
      /\ \A i \in Income : incomes[i].payment # None =>
            /\ incomes[i].exists /\ incomes[i].received
            /\ payments[incomes[i].payment].exists
            /\ incomes[i].amount = payments[incomes[i].payment].amount
  BY DEF IInv, TypeOK, BookedAsReceived, BookedExists
<1>2. \A p \in Payment : Kept(p)
  BY PaymentsStayRight DEF PaymentsRight
<1>3. \A i \in Income : Booked(incomes[i])
  <2>1. \A i \in Income : incomes[i].payment # None => incomes[i].payment \in Payment
    BY <1>1, IncomeRows
  <2>2. QED BY <1>1, <1>2, <2>1 DEF Kept, Booked
<1>4. ASSUME NEW i \in Income, NEW amount \in Amount, UpdateIncome(i, amount) PROVE IncomeStep
  <2> DEFINE row == [incomes[i] EXCEPT !.amount = amount]
  <2>1. row \in IncomeRow /\ row.payment = incomes[i].payment
    BY <1>1, EditedRow
  <2>2. incomes' = [incomes EXCEPT ![i] = row] /\ incomes[i].payment = None
    BY <1>1, <1>4 DEF UpdateIncome, AmountEditable
  <2> HIDE DEF row
  <2>3. QED BY <2>1, <2>2 DEF IncomeStep, Books, Booked
<1>5. ASSUME NEW i \in Income, ReceiveIncome(i) PROVE IncomeStep
  <2> DEFINE row == [incomes[i] EXCEPT !.received = TRUE]
  <2>1. /\ row \in IncomeRow /\ row.payment = incomes[i].payment
        /\ row.received /\ row.amount = incomes[i].amount /\ row.exists = incomes[i].exists
    BY <1>1, ReceivedRow
  <2>2. incomes' = [incomes EXCEPT ![i] = row]
    BY <1>5 DEF ReceiveIncome
  <2> HIDE DEF row
  <2>3. QED BY <1>3, <2>1, <2>2 DEF IncomeStep, Books, Booked
<1>6. ASSUME NEW i \in Income, ArchiveIncome(i) PROVE IncomeStep
  <2> DEFINE row == [incomes[i] EXCEPT !.archived = TRUE]
  <2>1. /\ row \in IncomeRow /\ row.payment = incomes[i].payment
        /\ row.received = incomes[i].received /\ row.amount = incomes[i].amount
        /\ row.exists = incomes[i].exists
    BY <1>1, ArchivedRow
  <2>2. incomes' = [incomes EXCEPT ![i] = row]
    BY <1>6 DEF ArchiveIncome, Archived
  <2> HIDE DEF row
  <2>3. QED BY <1>3, <2>1, <2>2 DEF IncomeStep, Books, Booked
<1>7. ASSUME NEW i \in Income, NEW p \in Payment, LinkIncome(i, p) PROVE IncomeStep
  <2> DEFINE row == [incomes[i] EXCEPT !.payment = p, !.received = TRUE]
  <2>1. /\ row \in IncomeRow /\ row.exists = incomes[i].exists /\ row.payment = p
        /\ row.received /\ row.amount = incomes[i].amount
    BY <1>1, LinkedRow
  <2>2. incomes' = [incomes EXCEPT ![i] = row]
    BY <1>1, <1>7 DEF LinkIncome
  <2> HIDE DEF row
  <2>3. /\ payments[p].exists /\ payments[p].amount = incomes[i].amount /\ ~Linked(p)
        /\ incomes[i].exists
    BY <1>7 DEF LinkIncome, Linkable, Owned
  <2>4. payments'[p].exists /\ payments'[p].amount = incomes[i].amount
    BY <1>2, <2>3 DEF Kept
  <2>5. QED BY <2>1, <2>2, <2>3, <2>4 DEF IncomeStep, Books, Booked
<1>8. ASSUME NEW i \in Income, NEW amount \in Amount, NEW received \in BOOLEAN,
             CreateIncome(i, amount, received)
      PROVE  IncomeStep
  <2> DEFINE row == [NoIncome EXCEPT !.exists = TRUE, !.amount = amount, !.received = received]
  <2>1. row \in IncomeRow /\ row.payment = None
    BY NewIncomeRow
  <2>2. incomes' = [incomes EXCEPT ![i] = row]
    BY <1>8 DEF CreateIncome
  <2> HIDE DEF row
  <2>3. QED BY <2>1, <2>2 DEF IncomeStep, Books, Booked
<1>9. ASSUME NEW e \in Payment, NEW class \in Class, NEW i \in Income \cup {None},
             NEW body \in [source: {"PROVIDER_SMS"}, reference: Reference \cup {None}, amount: Amount],
             ConfirmImport(e, body, class, i)
      PROVE  IncomeStep
  <2>1. CASE UNCHANGED incomes
    BY <2>1 DEF IncomeStep
  <2>2. CASE i # None /\ incomes' = [incomes EXCEPT ![i] =
                [NoIncome EXCEPT !.exists = TRUE, !.amount = body.amount,
                                 !.received = TRUE, !.payment = e]]
    <3> DEFINE row == [NoIncome EXCEPT !.exists = TRUE, !.amount = body.amount,
                                       !.received = TRUE, !.payment = e]
               new == Recorded(body, class)
    <3>1. body \in Said
      BY DEF Said, Source
    <3>2. body.amount \in Amount
      BY DEF Said
    <3>3. /\ row \in IncomeRow /\ row.exists /\ row.payment = e
          /\ row.received /\ row.amount = body.amount
      BY <3>2, BookedRow
    <3>4. new.exists /\ new.amount = body.amount
      BY <3>1, RecordedRow
    <3>5. payments' = [payments EXCEPT ![e] = new] /\ ~payments[e].exists
      BY <1>9 DEF ConfirmImport, Known
    <3>6. incomes' = [incomes EXCEPT ![i] = row] /\ i \in Income
      BY <2>2
    <3> HIDE DEF row, new
    <3>7. payments'[e] = new
      BY <1>1, <3>5
    <3>8. ~Linked(e)
      BY <1>1, <3>5, Constants DEF Linked
    <3>9. QED BY <3>3, <3>4, <3>6, <3>7, <3>8 DEF IncomeStep, Books, Booked
  <2>3. QED BY <1>9, <2>1, <2>2 DEF ConfirmImport
<1>10. QED
  BY <1>4, <1>5, <1>6, <1>7, <1>8, <1>9 DEF Next, vars, IncomeStep, Restart, RecordBegin,
     ClassifyBegin, RecordCommit, ClassifyWrite

LEMMA IncomesStayRight ==
    IInv /\ [Next]_vars => incomes' \in [Income -> IncomeRow] /\ BookedAsReceived' /\ BookedExists'
<1> SUFFICES ASSUME IInv, IncomeStep, \A p \in Payment : Kept(p)
             PROVE  incomes' \in [Income -> IncomeRow] /\ BookedAsReceived' /\ BookedExists'
  BY IncomesStep, PaymentsStayRight DEF PaymentsRight
<1>1. incomes \in [Income -> IncomeRow] /\ BookedAsReceived /\ BookedExists
  BY DEF IInv, TypeOK
<1>2. \A j \in Income : Booked(incomes[j])
  <2>1. \A j \in Income : incomes[j].payment # None => incomes[j].payment \in Payment
    BY <1>1, IncomeRows
  <2>2. QED BY <1>1, <2>1 DEF Kept, Booked, BookedAsReceived, BookedExists
<1>3. CASE UNCHANGED incomes
  BY <1>1, <1>2, <1>3 DEF Booked, BookedAsReceived, BookedExists
<1>4. ASSUME NEW i \in Income, NEW row \in IncomeRow, Books(i, row)
      PROVE  incomes' \in [Income -> IncomeRow] /\ BookedAsReceived' /\ BookedExists'
  <2>1. /\ incomes' \in [Income -> IncomeRow] /\ incomes'[i] = row /\ Booked(row)
        /\ \A j \in Income : j # i => incomes'[j] = incomes[j]
    BY <1>1, <1>4 DEF Books
  <2>2. \A j \in Income : Booked(incomes'[j])
    BY <1>2, <2>1
  <2>3. \A j \in Income : j # i /\ row.payment # None => incomes[j].payment # row.payment
    BY <1>1, <1>4 DEF Books, BookedAsReceived, Linked
  <2>4. \A j, k \in Income :
           incomes'[j].payment # None /\ incomes'[j].payment = incomes'[k].payment => j = k
    BY <1>1, <2>1, <2>3 DEF BookedAsReceived
  <2>5. QED BY <2>1, <2>2, <2>4 DEF Booked, BookedAsReceived, BookedExists
<1>5. QED BY <1>3, <1>4 DEF IncomeStep

-----------------------------------------------------------------------------
(* Answers.                                                                *)

\* What is answered anew is in the table by then.
NewAnswers(s) ==
    /\ answers' = answers \cup s
    /\ \A a \in s :
          /\ a \in Answer /\ payments'[a.payment].exists
          /\ payments'[a.payment].amount = a.body.amount
          /\ payments'[a.payment].reference = a.body.reference
          /\ a.body.source = "PROVIDER_SMS" => payments'[a.payment].source = "PROVIDER_SMS"

LEMMA AnswersKnown ==
    ASSUME NEW e \in Payment, NEW body \in Body, AnswerKnown(e, body),
           UNCHANGED payments
    PROVE  \E s : NewAnswers(s)
<1>1. CASE payments[e].exists
  <2> DEFINE s == {[body |-> body, payment |-> p] : p \in {q \in {e} : EventMatches(payments[q], body)}}
  <2>1. answers' = answers \cup s
    BY <1>1 DEF AnswerKnown
  <2>2. \A a \in s : /\ a \in Answer /\ a.payment = e /\ a.body = body
                     /\ EventMatches(payments[e], body)
    BY DEF Answer
  <2> HIDE DEF s
  <2>3. NewAnswers(s)
    BY <1>1, <2>1, <2>2 DEF NewAnswers, EventMatches
  <2>4. QED BY <2>3
<1>2. CASE ~payments[e].exists
  <2> DEFINE holders == {q \in Holders(body.reference) : ReferenceMatches(payments[q], body)}
             s == {[body |-> body, payment |-> p] : p \in holders}
  <2>1. answers' = answers \cup s
    BY <1>2 DEF AnswerKnown
  <2>2. \A p \in holders : /\ p \in Payment /\ payments[p].exists
                           /\ payments[p].reference = body.reference
                           /\ ReferenceMatches(payments[p], body)
    BY DEF Holders
  <2> HIDE DEF holders
  <2>3. \A a \in s : a \in Answer /\ a.payment \in holders /\ a.body = body
    BY <2>2 DEF Answer
  <2> HIDE DEF s
  <2>4. NewAnswers(s)
    BY <2>1, <2>2, <2>3 DEF NewAnswers, ReferenceMatches
  <2>5. QED BY <2>4
<1>3. QED BY <1>1, <1>2

LEMMA AnswersStep == IInv /\ [Next]_vars => UNCHANGED answers \/ \E s : NewAnswers(s)
<1> SUFFICES ASSUME IInv, [Next]_vars PROVE UNCHANGED answers \/ \E s : NewAnswers(s)
  OBVIOUS
<1>1. ASSUME NEW r \in Request, NEW e \in Payment, NEW body \in Body, RecordBegin(r, e, body)
      PROVE  UNCHANGED answers \/ \E s : NewAnswers(s)
  BY <1>1, AnswersKnown DEF RecordBegin
<1>2. ASSUME NEW r \in Request, RecordCommit(r)
      PROVE  UNCHANGED answers \/ \E s : NewAnswers(s)
  <2> DEFINE e == requests[r].payment
             body == requests[r].body
             row == Recorded(body, "UNCLASSIFIED")
             a == [body |-> body, payment |-> e]
  <2>1. e \in Payment /\ body \in Body /\ body \in Said
    BY <1>2, TxOfOp, BodyIsSaid DEF IInv, TypeOK, RecordCommit
  <2>2. CASE payments' = [payments EXCEPT ![e] = row] /\ answers' = answers \cup {a}
    <3>1. /\ row.exists /\ row.source = body.source
          /\ row.reference = body.reference /\ row.amount = body.amount
      BY <2>1, RecordedRow, Constants
    <3>2. a \in Answer /\ a.body = body /\ a.payment = e
      BY <2>1 DEF Answer
    <3>3. payments \in [Payment -> PaymentRow]
      BY DEF IInv, TypeOK
    <3>4. payments'[e] = row
      BY <2>1, <2>2, <3>3
    <3> HIDE DEF e, body, row, a
    <3>5. NewAnswers({a})
      BY <2>2, <3>1, <3>2, <3>4 DEF NewAnswers
    <3>6. QED BY <3>5
  <2>3. CASE AnswerKnown(e, body) /\ UNCHANGED payments
    BY <2>1, <2>3, AnswersKnown
  <2>4. QED BY <1>2, <2>2, <2>3 DEF RecordCommit
<1>3. QED
  BY <1>1, <1>2 DEF Next, vars, Restart, ClassifyBegin, ClassifyWrite, ConfirmImport,
     UpdateIncome, CreateIncome, ReceiveIncome, LinkIncome, ArchiveIncome

LEMMA AnswersStayRight == IInv /\ [Next]_vars => answers' \subseteq Answer /\ AnswersFit'
<1> SUFFICES ASSUME IInv, \A p \in Payment : Kept(p),
                    UNCHANGED answers \/ \E s : NewAnswers(s)
             PROVE  answers' \subseteq Answer /\ AnswersFit'
  BY AnswersStep, PaymentsStayRight DEF PaymentsRight
<1>1. answers \subseteq Answer /\ \A a \in answers : a.payment \in Payment
  BY DEF IInv, TypeOK, Answer
<1>2. \A a \in answers :
         /\ payments'[a.payment].exists
         /\ payments'[a.payment].amount = a.body.amount
         /\ payments'[a.payment].reference = a.body.reference
         /\ a.body.source = "PROVIDER_SMS" => payments'[a.payment].source = "PROVIDER_SMS"
  BY <1>1 DEF IInv, AnswersFit, Kept
<1>3. CASE UNCHANGED answers
  BY <1>1, <1>2, <1>3 DEF AnswersFit
<1>4. ASSUME NEW s, NewAnswers(s) PROVE answers' \subseteq Answer /\ AnswersFit'
  BY <1>1, <1>2, <1>4 DEF NewAnswers, AnswersFit
<1>5. QED BY <1>3, <1>4

-----------------------------------------------------------------------------
(* Requests, and the invariant.                                            *)

LEMMA RequestsType == IInv /\ [Next]_vars => requests' \in [Request -> Tx]
<1> SUFFICES ASSUME IInv, [Next]_vars PROVE requests' \in [Request -> Tx]
  OBVIOUS
<1>1. requests \in [Request -> Tx] /\ Idle \in Tx
  BY Constants DEF IInv, TypeOK
<1> HIDE DEF Idle
<1>2. ASSUME NEW r \in Request, Close(r) PROVE requests' \in [Request -> Tx]
  BY <1>1, <1>2 DEF Close
<1>3. ASSUME NEW r \in Request, NEW tx \in Tx, Open(r, tx) PROVE requests' \in [Request -> Tx]
  BY <1>1, <1>3 DEF Open
<1>4. ASSUME NEW r \in Request, NEW e \in Payment, NEW body \in Body, RecordBegin(r, e, body)
      PROVE  requests' \in [Request -> Tx]
  <2>1. [op |-> "record", payment |-> e, body |-> body] \in Tx
    BY DEF Tx, RecordTx
  <2>2. QED BY <1>1, <1>3, <1>4, <2>1 DEF RecordBegin
<1>5. ASSUME NEW r \in Request, NEW p \in Payment, NEW class \in Class, ClassifyBegin(r, p, class)
      PROVE  requests' \in [Request -> Tx]
  <2>1. [op |-> "classify", payment |-> p, class |-> class] \in Tx
    BY DEF Tx, ClassifyTx
  <2>2. QED BY <1>3, <1>5, <2>1 DEF ClassifyBegin
<1>6. ASSUME UNCHANGED requests \/ Restart PROVE requests' \in [Request -> Tx]
  BY <1>1, <1>6 DEF Restart
<1>7. QED
  BY <1>2, <1>4, <1>5, <1>6 DEF Next, vars, RecordCommit, ClassifyWrite, ConfirmImport,
     UpdateIncome, CreateIncome, ReceiveIncome, LinkIncome, ArchiveIncome

LEMMA Initially == Init => IInv
  BY Constants DEF Init, IInv, TypeOK, BookedAsReceived, BookedExists, AnswersFit, ReferenceReceivedOnce

LEMMA InvariantStep == IInv /\ [Next]_vars => IInv'
  BY PaymentsStayRight, IncomesStayRight, AnswersStayRight, RequestsType
  DEF IInv, TypeOK, PaymentsRight

LEMMA Invariance == Spec => []IInv
<1>1. QED BY Initially, InvariantStep, PTL DEF Spec

\* Both tables and every statement under way keep their types
\* (ReceivedTransaction and Income, prisma/schema.prisma).
THEOREM TypeCorrect == Spec => []TypeOK
<1>1. IInv => TypeOK
  BY DEF IInv
<1>2. QED BY <1>1, Invariance, PTL

\* An income booked from a payment says what the payment says, and a payment is
\* booked once (link, update, incomes.service.ts:220-347).
THEOREM BooksAgree == Spec => []BookedAsReceived
<1>1. IInv => BookedAsReceived
  BY DEF IInv
<1>2. QED BY <1>1, Invariance, PTL

\* An answered recording names a payment that says what it said, and an SMS
\* heard twice answers with one payment
\* (resolveUniqueRace, received-provider-sms-recording.service.ts:116-151).
THEOREM AnswersStay == Spec => []AnsweredAsRecorded
<1>1. IInv => AnsweredAsRecorded
  <2> SUFFICES ASSUME IInv PROVE AnsweredAsRecorded
    OBVIOUS
  <2>1. \A a \in answers : a.payment \in Payment
    BY DEF IInv, TypeOK, Answer
  <2>2. QED BY <2>1 DEF IInv, AnswersFit, ReferenceReceivedOnce, AnsweredAsRecorded
<1>2. QED BY <1>1, Invariance, PTL

\* Money heard of by several ways under one reference is one payment
\* (record, received-provider-sms-recording.service.ts:58-113).
THEOREM OnePayment == Spec => []ReferenceReceivedOnce
<1>1. IInv => ReferenceReceivedOnce
  BY DEF IInv
<1>2. QED BY <1>1, Invariance, PTL

-----------------------------------------------------------------------------
(* The tables implement IncomeBook.                                        *)

\* A recording is heard of: its row is new and so is its reference.
LEMMA RecordingIsHeard ==
    ASSUME IInv, NEW e \in Payment, NEW body \in Said, NEW class \in Class,
           Records(e, body, class)
    PROVE  Book!Hear(e, body.reference, body.amount)
<1> DEFINE row == Recorded(body, class)
<1>1. row.exists /\ row.reference = body.reference /\ row.amount = body.amount
  BY RecordedRow
<1>2. payments \in [Payment -> PaymentRow] /\ payments' = [payments EXCEPT ![e] = row]
  BY DEF IInv, TypeOK, Records
<1> HIDE DEF row
<1>3. payments'[e] = row /\ \A p \in Payment : p # e => payments'[p] = payments[p]
  BY <1>2
<1>4. ~payments[e].exists /\ Holders(body.reference) = {}
  BY DEF Records, Known
<1>5. Heard[e] = <<>>
  BY <1>4 DEF Heard
<1>6. Book!Unheard(body.reference)
  <2>1. \A q \in Payment : Heard[q] # <<>> =>
           payments[q].exists /\ Heard[q] = <<payments[q].reference, payments[q].amount>>
    BY DEF Heard
  <2>2. \A q \in Payment : Heard[q] # <<>> => Heard[q][1] = payments[q].reference
    BY <2>1
  <2>3. QED BY <1>4, <2>1, <2>2 DEF Holders, Book!Unheard
<1>7. Heard' = [Heard EXCEPT ![e] = <<body.reference, body.amount>>]
  BY <1>1, <1>3 DEF Heard
<1>8. QED BY <1>5, <1>6, <1>7 DEF Book!Hear

\* A classification is not news.
LEMMA ClassificationIsNoNews ==
    ASSUME IInv, NEW e \in Payment, NEW class \in Class,
           payments' = [payments EXCEPT ![e].class = class]
    PROVE  UNCHANGED Heard
<1> DEFINE row == [payments[e] EXCEPT !.class = class]
<1>1. payments \in [Payment -> PaymentRow]
  BY DEF IInv, TypeOK
<1>2. /\ row.exists = payments[e].exists /\ row.reference = payments[e].reference
      /\ row.amount = payments[e].amount
  BY <1>1, ClassifiedRow
<1>3. payments' = [payments EXCEPT ![e] = row]
  OBVIOUS
<1> HIDE DEF row
<1>4. \A p \in Payment : /\ payments'[p].exists = payments[p].exists
                         /\ payments'[p].reference = payments[p].reference
                         /\ payments'[p].amount = payments[p].amount
  BY <1>1, <1>2, <1>3
<1>5. QED BY <1>4 DEF Heard

\* What one new row of an income changes of the book.
LEMMA IncomeRowInBook ==
    ASSUME IInv, NEW i \in Income, NEW row \in IncomeRow,
           incomes' = [incomes EXCEPT ![i] = row]
    PROVE  /\ Stated' = [Stated EXCEPT ![i] = row.amount]
           /\ BookedFrom' = [BookedFrom EXCEPT ![i] = row.payment]
           /\ row.amount = incomes[i].amount => UNCHANGED Stated
           /\ row.payment = incomes[i].payment => UNCHANGED BookedFrom
<1>1. incomes \in [Income -> IncomeRow]
  BY DEF IInv, TypeOK
<1>2. incomes'[i] = row /\ \A j \in Income : j # i => incomes'[j] = incomes[j]
  BY <1>1
<1>3. Stated' = [Stated EXCEPT ![i] = row.amount]
  <2>1. \A j \in Income : incomes'[j].amount = IF j = i THEN row.amount ELSE incomes[j].amount
    BY <1>2
  <2>2. Stated' = [j \in Income |-> IF j = i THEN row.amount ELSE incomes[j].amount]
    BY <2>1, Zenon DEF Stated
  <2>3. QED BY <2>2, Zenon DEF Stated
<1>4. BookedFrom' = [BookedFrom EXCEPT ![i] = row.payment]
  <2>1. \A j \in Income : incomes'[j].payment = IF j = i THEN row.payment ELSE incomes[j].payment
    BY <1>2
  <2>2. BookedFrom' = [j \in Income |-> IF j = i THEN row.payment ELSE incomes[j].payment]
    BY <2>1, Zenon DEF BookedFrom
  <2>3. QED BY <2>2, Zenon DEF BookedFrom
<1>5. row.amount = incomes[i].amount => UNCHANGED Stated
  BY <1>2 DEF Stated
<1>6. row.payment = incomes[i].payment => UNCHANGED BookedFrom
  BY <1>2 DEF BookedFrom
<1>7. QED BY <1>3, <1>4, <1>5, <1>6

\* An income that is not booked may be restated.
LEMMA RestatedIncome ==
    ASSUME IInv, NEW i \in Income, NEW row \in IncomeRow, NEW amount \in Amount,
           incomes' = [incomes EXCEPT ![i] = row], row.amount = amount,
           incomes[i].payment = None, row.payment = None, UNCHANGED payments
    PROVE  Book!Next
<1>1. Book!State(i, amount)
  BY IncomeRowInBook DEF Book!State, BookedFrom
<1>2. UNCHANGED <<Heard, BookedFrom>>
  BY IncomeRowInBook DEF Heard
<1>3. QED BY <1>1, <1>2 DEF Book!Next

\* A payment no income names may be booked as an income.
LEMMA BookingIsFresh ==
    ASSUME IInv, NEW i \in Income, NEW p \in Payment, ~Linked(p), incomes[i].payment = None,
           BookedFrom' = [BookedFrom EXCEPT ![i] = p]
    PROVE  Book!Book(i, p)
  BY DEF Book!Book, BookedFrom, Linked

LEMMA BookStep == IInv /\ [Next]_vars => [Book!Next]_(Book!vars)
<1> SUFFICES ASSUME IInv, [Next]_vars PROVE Book!Next \/ UNCHANGED <<Heard, Stated, BookedFrom>>
  BY DEF Book!vars
<1>1. incomes \in [Income -> IncomeRow] /\ payments \in [Payment -> PaymentRow]
  BY DEF IInv, TypeOK
<1>2. \A i \in Income : ~incomes[i].exists \/ ~incomes[i].received => incomes[i].payment = None
  BY DEF IInv, BookedAsReceived, BookedExists
<1> DEFINE Done == Book!Next \/ UNCHANGED <<Heard, Stated, BookedFrom>>
<1>3. ASSUME NEW r \in Request, RecordCommit(r) PROVE Done
  <2> DEFINE e == requests[r].payment
             body == requests[r].body
  <2>1. UNCHANGED <<Stated, BookedFrom>>
    BY <1>3 DEF RecordCommit, Stated, BookedFrom
  <2>2. e \in Payment /\ body \in Said
    BY <1>3, TxOfOp, BodyIsSaid DEF IInv, TypeOK, RecordCommit
  <2>3. CASE UNCHANGED payments
    BY <2>1, <2>3 DEF Heard
  <2>4. CASE Records(e, body, "UNCLASSIFIED")
    <3> HIDE DEF e, body
    <3>1. Book!Hear(e, body.reference, body.amount)
      BY <2>2, <2>4, RecordingIsHeard, Constants
    <3>2. body.reference \in Reference \cup {None} /\ body.amount \in Amount
      BY <2>2 DEF Said
    <3>3. QED BY <2>1, <2>2, <3>1, <3>2 DEF Book!Next
  <2>5. QED BY <1>3, <2>3, <2>4 DEF RecordCommit, Records
<1>4. ASSUME NEW r \in Request, ClassifyWrite(r) PROVE Done
  <2>1. requests[r].payment \in Payment /\ requests[r].class \in Class
    BY <1>4, TxOfOp DEF IInv, TypeOK, ClassifyWrite
  <2>2. QED BY <1>4, <2>1, ClassificationIsNoNews DEF ClassifyWrite, Stated, BookedFrom
<1>5. ASSUME NEW e \in Payment, NEW class \in Class, NEW i \in Income \cup {None},
             NEW body \in [source: {"PROVIDER_SMS"}, reference: Reference \cup {None}, amount: Amount],
             ConfirmImport(e, body, class, i)
      PROVE  Done
  <2>1. body \in Said /\ body.reference \in Reference \cup {None} /\ body.amount \in Amount
    BY DEF Said, Source
  <2>2. Records(e, body, class) /\ ~payments[e].exists
    BY <1>5 DEF ConfirmImport, Records, Known
  <2>3. Book!Hear(e, body.reference, body.amount)
    BY <2>1, <2>2, RecordingIsHeard
  <2>4. CASE UNCHANGED incomes
    BY <2>1, <2>3, <2>4 DEF Book!Next, Stated, BookedFrom
  <2>5. CASE /\ i # None /\ ~incomes[i].exists
             /\ incomes' = [incomes EXCEPT ![i] =
                   [NoIncome EXCEPT !.exists = TRUE, !.amount = body.amount,
                                    !.received = TRUE, !.payment = e]]
    <3> DEFINE row == [NoIncome EXCEPT !.exists = TRUE, !.amount = body.amount,
                                       !.received = TRUE, !.payment = e]
    <3>1. row \in IncomeRow /\ row.payment = e /\ row.amount = body.amount
      BY <2>1, BookedRow
    <3>2. incomes' = [incomes EXCEPT ![i] = row] /\ i \in Income /\ incomes[i].payment = None
      BY <1>2, <2>5
    <3> HIDE DEF row
    <3>3. ~Linked(e)
      BY <2>2, Constants DEF Linked, IInv, BookedAsReceived
    <3>4. /\ Stated' = [Stated EXCEPT ![i] = row.amount]
          /\ BookedFrom' = [BookedFrom EXCEPT ![i] = row.payment]
      BY <3>1, <3>2, IncomeRowInBook
    <3>5. Book!State(i, body.amount)
      BY <3>1, <3>2, <3>4 DEF Book!State, BookedFrom
    <3>6. Book!Book(i, e)
      BY <3>1, <3>2, <3>3, <3>4, BookingIsFresh
    <3>7. QED BY <2>1, <2>3, <3>2, <3>5, <3>6 DEF Book!Next
  <2>6. QED BY <1>5, <2>4, <2>5 DEF ConfirmImport
<1>6. ASSUME NEW i \in Income, NEW amount \in Amount, UpdateIncome(i, amount) PROVE Done
  <2> DEFINE row == [incomes[i] EXCEPT !.amount = amount]
  <2>1. row \in IncomeRow /\ row.payment = incomes[i].payment /\ row.amount = amount
    BY <1>1, EditedRow
  <2>2. /\ incomes' = [incomes EXCEPT ![i] = row] /\ incomes[i].payment = None
        /\ UNCHANGED payments
    BY <1>2, <1>6 DEF UpdateIncome, AmountEditable
  <2> HIDE DEF row
  <2>3. QED BY <2>1, <2>2, RestatedIncome
<1>7. ASSUME NEW i \in Income, NEW amount \in Amount, NEW received \in BOOLEAN,
             CreateIncome(i, amount, received)
      PROVE  Done
  <2> DEFINE row == [NoIncome EXCEPT !.exists = TRUE, !.amount = amount, !.received = received]
  <2>1. row \in IncomeRow /\ row.payment = None /\ row.amount = amount
    BY NewIncomeRow
  <2>2. /\ incomes' = [incomes EXCEPT ![i] = row] /\ incomes[i].payment = None
        /\ UNCHANGED payments
    BY <1>2, <1>7 DEF CreateIncome
  <2> HIDE DEF row
  <2>3. QED BY <2>1, <2>2, RestatedIncome
<1>8. ASSUME NEW i \in Income, NEW p \in Payment, LinkIncome(i, p) PROVE Done
  <2> DEFINE row == [incomes[i] EXCEPT !.payment = p, !.received = TRUE]
  <2>1. row \in IncomeRow /\ row.payment = p /\ row.amount = incomes[i].amount
    BY <1>1, LinkedRow
  <2>2. incomes' = [incomes EXCEPT ![i] = row]
    BY <1>1, <1>8 DEF LinkIncome
  <2> HIDE DEF row
  <2>3. /\ ~Linked(p) /\ incomes[i].payment = None /\ payments[p].exists
        /\ payments[p].amount = incomes[i].amount
        /\ payments' = [payments EXCEPT ![p].class = "INCOME"]
    BY <1>8 DEF LinkIncome, Linkable
  <2>4. UNCHANGED Heard
    BY <2>3, ClassificationIsNoNews, Constants
  <2>5. UNCHANGED Stated /\ BookedFrom' = [BookedFrom EXCEPT ![i] = p]
    BY <2>1, <2>2, IncomeRowInBook
  <2>6. Book!Book(i, p)
    BY <2>3, <2>5, BookingIsFresh
  <2>7. Heard[p] = <<payments[p].reference, payments[p].amount>>
    BY <2>3 DEF Heard
  <2>8. Heard[p] # <<>> /\ Heard[p][2] = payments[p].amount
    BY <2>7
  <2>9. Stated[i] = Heard[p][2]
    BY <2>3, <2>8 DEF Stated
  <2>10. QED BY <2>4, <2>5, <2>6, <2>8, <2>9 DEF Book!Next
<1>9. ASSUME NEW i \in Income, ReceiveIncome(i) PROVE Done
  <2> DEFINE row == [incomes[i] EXCEPT !.received = TRUE]
  <2>1. /\ row \in IncomeRow /\ row.payment = incomes[i].payment
        /\ row.amount = incomes[i].amount
    BY <1>1, ReceivedRow
  <2>2. incomes' = [incomes EXCEPT ![i] = row] /\ UNCHANGED payments
    BY <1>9 DEF ReceiveIncome
  <2> HIDE DEF row
  <2>3. QED BY <2>1, <2>2, IncomeRowInBook DEF Heard
<1>10. ASSUME NEW i \in Income, ArchiveIncome(i) PROVE Done
  <2> DEFINE row == [incomes[i] EXCEPT !.archived = TRUE]
  <2>1. /\ row \in IncomeRow /\ row.payment = incomes[i].payment
        /\ row.amount = incomes[i].amount
    BY <1>1, ArchivedRow
  <2>2. incomes' = [incomes EXCEPT ![i] = row] /\ UNCHANGED payments
    BY <1>10 DEF ArchiveIncome, Archived
  <2> HIDE DEF row
  <2>3. QED BY <2>1, <2>2, IncomeRowInBook DEF Heard
<1>11. ASSUME UNCHANGED <<payments, incomes>> PROVE Done
  BY <1>11 DEF Heard, Stated, BookedFrom
<1>12. QED
  BY <1>3, <1>4, <1>5, <1>6, <1>7, <1>8, <1>9, <1>10, <1>11
  DEF Next, vars, Restart, RecordBegin, ClassifyBegin

\* The tables and the statements under way implement the book of receipts: what
\* a payment says never changes, and a booked income keeps its payment and its
\* amount (update, link and archive, incomes.service.ts:220-358).
THEOREM Implementation == Spec => ImplementsBook
<1>1. Init => Book!Init
  BY DEF Init, Book!Init, Heard, Stated, BookedFrom, NoPayment, NoIncome
<1>2. QED BY <1>1, BookStep, Invariance, PTL DEF Spec, ImplementsBook, Book!Spec

\* What is offered for an income can be linked to it in every reachable state:
\* the conditions candidates and link state apart agree for any payments and
\* incomes (incomes.service.ts:271-347).
THEOREM OffersHold == Spec => []CandidatesAreLinkable
<1>1. CandidatesAreLinkable
  BY DEF CandidatesAreLinkable, Candidates, Linkable
<1>2. QED BY <1>1, PTL

=============================================================================
