------------------- MODULE FinancialMessageImportsProofs -------------------
(***************************************************************************)
(* Proofs about FinancialMessageImports, and about the pilot summary drawn *)
(* from it, for every number of imports, payments, requests and messages.  *)
(***************************************************************************)
EXTENDS ImportPilot, FiniteSetTheorems, WellFoundedInduction, TLAPS

-----------------------------------------------------------------------------
(* Type correctness.                                                       *)

LEMMA ConstantTypes ==
    /\ NoDetails \in Details
    /\ NoImport \in ImportRow
    /\ NoPayment \in PaymentRow
    /\ Idle \in Tx
  BY BoundsAssumption DEF NoDetails, Details, NoImport, ImportRow, ParseStatus,
     DuplicateStatus, NoPayment, PaymentRow, Idle, Tx

LEMMA WrittenType ==
  ASSUME NEW details \in Details, NEW patch \in Patch
  PROVE  Written(details, patch) \in Details
  BY InputAssumption DEF Written, Corrected, Details, Patches

\* Every way the code rewrites a row of imports leaves a row.
LEMMA RowTypes ==
  ASSUME NEW row \in ImportRow
  PROVE  /\ Expired(row) \in ImportRow
         /\ Purged(row) \in ImportRow
         /\ Dismissed(row) \in ImportRow
         /\ \A tx \in UpdateTx : Updated(row, tx) \in ImportRow
         /\ \A p \in Payment, choice \in Choice : Confirmed(row, p, choice) \in ImportRow
         /\ [row EXCEPT !.duplicate = "CONFIRMED_DUPLICATE"] \in ImportRow
<1>1. Expired(row) \in ImportRow
  BY DEF Expired, ImportRow, Status
<1>2. Purged(row) \in ImportRow
  BY DEF Purged, ImportRow, Status
<1>3. Dismissed(row) \in ImportRow
  BY DEF Dismissed, ImportRow, Status
<1>4. ASSUME NEW tx \in UpdateTx PROVE Updated(row, tx) \in ImportRow
  <2>1. Written(row.details, tx.patch) \in Details
    BY WrittenType DEF UpdateTx, ImportRow
  <2>2. WrittenReference(row.reference, tx.patch) \in Reference \cup {None}
    BY InputAssumption DEF WrittenReference, UpdateTx, ImportRow, Patches
  <2>3. QED
    BY <2>1, <2>2 DEF Updated, UpdateTx, ImportRow
<1>5. ASSUME NEW p \in Payment, NEW choice \in Choice
      PROVE  Confirmed(row, p, choice) \in ImportRow
  BY DEF Confirmed, Choice, ImportRow, Status, ParseStatus, DuplicateStatus
<1>6. [row EXCEPT !.duplicate = "CONFIRMED_DUPLICATE"] \in ImportRow
  BY DEF ImportRow, DuplicateStatus
<1>7. QED
  BY <1>1, <1>2, <1>3, <1>4, <1>5, <1>6

\* The transaction an ingest opens is one, with the lookups of any moment.
LEMMA IngestTxType ==
  ASSUME NEW e \in Event, NEW m \in Message, NEW start \in 0..MaxTime,
         NEW attempt \in 1..MaxAttempts
  PROVE  IngestTxAt(e, m, start, attempt) \in Tx
<1>1. Lookup(e, m, start) \in Lookups
  BY DEF Lookup, Lookups
<1>2. QED
  BY <1>1 DEF IngestTxAt, Tx, IngestTx

LEMMA NewImportType ==
  ASSUME NEW tx \in IngestTx
  PROVE  NewImport(tx) \in ImportRow
<1>1. Parse[tx.message] \in Parsed
  BY InputAssumption DEF IngestTx
<1>2. QED
  BY <1>1 DEF NewImport, IngestTx, ImportRow, Parsed, Status, ParseStatus, DuplicateStatus

LEMMA NewPaymentType ==
  ASSUME NEW tx \in ConfirmTx
  PROVE  NewPayment(tx) \in PaymentRow
  BY DEF NewPayment, ConfirmTx, ImportRow, PaymentRow, Choice

\* The kind of an open transaction is its op.
LEMMA TxOfOp ==
  ASSUME NEW tx \in Tx
  PROVE  /\ tx.op = "ingest" => tx \in IngestTx
         /\ tx.op = "update" => tx \in UpdateTx
         /\ tx.op = "dismiss" => tx \in DismissTx
         /\ tx.op = "confirm" => tx \in ConfirmTx
  BY DEF Tx, Idle, IngestTx, UpdateTx, DismissTx, ConfirmTx

LEMMA BeginOnPendingType ==
  ASSUME TypeOK, NEW r \in Request, NEW i \in Import, NEW tx \in Tx,
         BeginOnPending(r, i, tx)
  PROVE  TypeOK'
  BY RowTypes DEF BeginOnPending, ExpireOne, Open, TypeOK

LEMMA TypeStep == TypeOK /\ [Next]_vars => TypeOK'
<1> SUFFICES ASSUME TypeOK, [Next]_vars PROVE TypeOK'
  OBVIOUS
<1> USE BoundsAssumption
<1>1. CASE Tick
  BY <1>1 DEF Tick, TypeOK
<1>2. CASE Restart
  BY <1>2, ConstantTypes DEF Restart, TypeOK
<1>3. CASE List
  BY <1>3, RowTypes DEF List, ExpirePending, TypeOK
<1>4. CASE RunOnce
  BY <1>4, RowTypes DEF RunOnce, TypeOK
<1>5. ASSUME NEW i \in Import, DetailView(i) PROVE TypeOK'
  BY <1>5, RowTypes DEF DetailView, ExpireOne, TypeOK
<1>6. ASSUME NEW reference \in Reference, NEW class \in Class,
             RecordElsewhere(reference, class)
      PROVE  TypeOK'
  <2>1. [NoPayment EXCEPT !.exists = TRUE, !.reference = reference, !.class = class]
           \in PaymentRow
    BY ConstantTypes DEF PaymentRow
  <2>2. QED
    BY <1>6, <2>1 DEF RecordElsewhere, TypeOK
<1>7. ASSUME NEW r \in Request, NEW e \in Event, NEW m \in Message, IngestBegin(r, e, m)
      PROVE  TypeOK'
  <2>1. IngestTxAt(e, m, now, 1) \in Tx
    BY IngestTxType DEF TypeOK
  <2>2. QED
    BY <1>7, <2>1 DEF IngestBegin, Open, TypeOK
<1>8. ASSUME NEW r \in Request, NEW i \in Import, NEW patch \in Patch,
             UpdateBegin(r, i, patch)
      PROVE  TypeOK'
  <2> DEFINE tx == [op |-> "update", import |-> i, patch |-> patch,
                    parse |-> IF Complete(Corrected(imports[i].details, patch))
                              THEN "PARSED" ELSE "NEEDS_DETAILS"]
  <2>1. tx \in Tx
    BY DEF Tx, UpdateTx, ParseStatus
  <2>2. BeginOnPending(r, i, tx)
    BY <1>8 DEF UpdateBegin
  <2>3. QED
    BY <2>1, <2>2, BeginOnPendingType
<1>9. ASSUME NEW r \in Request, NEW i \in Import, DismissBegin(r, i) PROVE TypeOK'
  <2>1. [op |-> "dismiss", import |-> i] \in Tx
    BY DEF Tx, DismissTx
  <2>2. QED
    BY <1>9, <2>1, BeginOnPendingType DEF DismissBegin
<1>10. ASSUME NEW r \in Request, NEW i \in Import, NEW choice \in Choice,
              ConfirmBegin(r, i, choice)
       PROVE  TypeOK'
  <2>1. ConfirmTxAt(i, imports[i], choice, 1) \in Tx
    BY DEF ConfirmTxAt, Tx, ConfirmTx, TypeOK
  <2>2. QED
    BY <1>10, <2>1, RowTypes DEF ConfirmBegin, ExpireOne, Open, TypeOK
<1>11. ASSUME NEW r \in Request, IngestCommit(r) PROVE TypeOK'
  <2>1. requests[r] \in IngestTx
    BY <1>11, TxOfOp DEF IngestCommit, TypeOK
  <2>2. imports' \in [Import -> ImportRow]
    BY <1>11, <2>1, RowTypes, NewImportType DEF IngestCommit, TypeOK, IngestTx, Lookups
  <2>3. QED
    BY <1>11, <2>2, ConstantTypes DEF IngestCommit, Close, TypeOK
<1>12. ASSUME NEW r \in Request, IngestAbort(r) PROVE TypeOK'
  <2> DEFINE tx == requests[r]
  <2>1. tx \in IngestTx
    BY <1>12, TxOfOp DEF IngestAbort, TypeOK
  <2>2. AttemptLeft(tx) => IngestTxAt(tx.event, tx.message, tx.start, tx.attempt + 1) \in Tx
    BY <2>1, IngestTxType DEF AttemptLeft, IngestTx
  <2>3. QED
    BY <1>12, <2>2, ConstantTypes DEF IngestAbort, TypeOK
<1>13. ASSUME NEW r \in Request, UpdateWrite(r) PROVE TypeOK'
  <2>1. requests[r] \in UpdateTx
    BY <1>13, TxOfOp DEF UpdateWrite, TypeOK
  <2>2. QED
    BY <1>13, <2>1, RowTypes, ConstantTypes DEF UpdateWrite, Close, TypeOK, UpdateTx
<1>14. ASSUME NEW r \in Request, DismissWrite(r) PROVE TypeOK'
  <2>1. requests[r] \in DismissTx
    BY <1>14, TxOfOp DEF DismissWrite, TypeOK
  <2>2. QED
    BY <1>14, <2>1, RowTypes, ConstantTypes DEF DismissWrite, Close, TypeOK, DismissTx
<1>15. ASSUME NEW r \in Request, ConfirmCommit(r) PROVE TypeOK'
  <2>1. requests[r] \in ConfirmTx
    BY <1>15, TxOfOp DEF ConfirmCommit, TypeOK
  <2> DEFINE tx == requests[r]
  <2>2. PICK p \in Payment :
           /\ payments' = [payments EXCEPT ![p] = NewPayment(tx)]
           /\ imports' = [imports EXCEPT ![tx.import] = Confirmed(@, p, tx.choice)]
    BY <1>15 DEF ConfirmCommit
  <2>3. imports' \in [Import -> ImportRow]
    BY <2>1, <2>2, RowTypes DEF TypeOK, ConfirmTx
  <2>4. payments' \in [Payment -> PaymentRow]
    BY <2>1, <2>2, NewPaymentType DEF TypeOK
  <2>5. QED
    BY <1>15, <2>3, <2>4, ConstantTypes DEF ConfirmCommit, Close, TypeOK
<1>16. ASSUME NEW r \in Request, ConfirmConflict(r) PROVE TypeOK'
  BY <1>16, ConstantTypes DEF ConfirmConflict, Close, TypeOK
<1>17. ASSUME NEW r \in Request, ConfirmAbort(r) PROVE TypeOK'
  <2> DEFINE tx == requests[r]
             row == imports[tx.import]
  <2>1. tx \in ConfirmTx
    BY <1>17, TxOfOp DEF ConfirmAbort, TypeOK
  <2>2. AttemptLeft(tx) => ConfirmTxAt(tx.import, row, tx.choice, tx.attempt + 1) \in Tx
    BY <2>1 DEF AttemptLeft, ConfirmTxAt, Tx, ConfirmTx, TypeOK
  <2>3. QED
    BY <1>17, <2>2, ConstantTypes DEF ConfirmAbort, TypeOK
<1>18. CASE UNCHANGED vars
  BY <1>18 DEF vars, TypeOK
<1>19. QED
  BY <1>1, <1>2, <1>3, <1>4, <1>5, <1>6, <1>7, <1>8, <1>9, <1>10, <1>11, <1>12,
     <1>13, <1>14, <1>15, <1>16, <1>17, <1>18 DEF Next

\* Every reachable state is well typed: in particular no serializable handler
\* makes more than MaxAttempts attempts (MAX_TRANSACTION_ATTEMPTS).
THEOREM TypeCorrect == Spec => []TypeOK
<1>1. Init => TypeOK
  BY ConstantTypes, BoundsAssumption DEF Init, TypeOK
<1>2. QED
  BY <1>1, TypeStep, PTL DEF Spec

-----------------------------------------------------------------------------
(* Money follows confirmation.  The invariant of the runs is not inductive *)
(* alone: a commit may rely on what was checked when its transaction took  *)
(* its snapshot, and on rows that are not decided having no payment.       *)

\* A row is linked to a payment only once it has been confirmed; it may have
\* been dismissed since, by a request that had read it while it was pending.
LinkOnlyWhenDecided ==
    \A i \in Import :
        imports[i].received # None => imports[i].status \in {"CONFIRMED", "DISMISSED"}

\* An open confirmation passed every check on its snapshot, and an open
\* correction or dismissal is about a row that exists.
OpenChecked ==
    \A r \in Request :
        /\ requests[r].op = "confirm" => Confirmable(requests[r].seen)
        /\ requests[r].op \in {"update", "dismiss"} => Present(requests[r].import)

IInv ==
    /\ TypeOK
    /\ LinkOnlyWhenDecided
    /\ OpenChecked
    /\ MoneyFollowsConfirmation
    /\ RawTextOnlyWhilePending

\* Rewriting a row without touching its links, leaving a row without a payment
\* outside CONFIRMED, preserves the link between the two tables.
SameLinks(old, new) ==
    /\ new.received = old.received
    /\ new.income = old.income
    /\ new.status = "CONFIRMED" => old.status = "CONFIRMED"
    /\ old.received # None => new.status \in {"CONFIRMED", "DISMISSED"}
    /\ new.raw => old.raw /\ new.status = old.status
    /\ old.status # "ABSENT" => new.status # "ABSENT"

\* Every rewrite but a confirmation is of that kind.
LEMMA RewritesKeepLinks ==
  ASSUME NEW row \in ImportRow, row.received # None => row.status \in {"CONFIRMED", "DISMISSED"}
  PROVE  /\ SameLinks(row, row)
         /\ SameLinks(row, Expired(row))
         /\ SameLinks(row, Purged(row))
         /\ SameLinks(row, Purged(Expired(row)))
         /\ SameLinks(row, Dismissed(row))
         /\ \A tx \in UpdateTx : SameLinks(row, Updated(row, tx))
         /\ SameLinks(row, [row EXCEPT !.duplicate = "CONFIRMED_DUPLICATE"])
  BY DEF SameLinks, Expired, Overdue, Purged, Dismissed, Updated, ImportRow, Status

LEMMA LinksPreserved ==
  ASSUME IInv, TypeOK', UNCHANGED payments,
         \A i \in Import : SameLinks(imports[i], imports'[i])
  PROVE  /\ LinkOnlyWhenDecided'
         /\ MoneyFollowsConfirmation'
         /\ RawTextOnlyWhilePending'
<1>1. LinkOnlyWhenDecided'
  BY DEF IInv, LinkOnlyWhenDecided, SameLinks
<1>2. MoneyFollowsConfirmation'
  BY DEF IInv, TypeOK, PaymentRow, MoneyFollowsConfirmation, SameLinks
<1>3. RawTextOnlyWhilePending'
  BY DEF IInv, RawTextOnlyWhilePending, SameLinks
<1>4. QED
  BY <1>1, <1>2, <1>3

\* Closing requests, or leaving them alone, keeps what the open ones rely on.
LEMMA OpenPreserved ==
  ASSUME IInv,
         \A i \in Import : Present(i) => Present(i)',
         \A r \in Request : requests'[r] = requests[r] \/ requests'[r] = Idle
  PROVE  OpenChecked'
<1> SUFFICES ASSUME NEW r \in Request
    PROVE  /\ requests'[r].op = "confirm" => Confirmable(requests'[r].seen)
           /\ requests'[r].op \in {"update", "dismiss"}
                => imports'[requests'[r].import].status # "ABSENT"
  BY DEF OpenChecked, Confirmable, Present
<1>1. CASE requests'[r] = Idle
  BY <1>1 DEF Idle
<1>2. CASE requests'[r] = requests[r]
  <2>1. requests[r].op \in {"update", "dismiss"} => requests[r].import \in Import
    BY TxOfOp DEF IInv, TypeOK, UpdateTx, DismissTx
  <2>2. QED
    BY <1>2, <2>1 DEF IInv, OpenChecked, Present
<1>3. QED
  BY <1>1, <1>2

\* A step that rewrites rows and closes requests preserves the invariant.
LEMMA RewriteStep ==
  ASSUME IInv, TypeOK', UNCHANGED payments,
         \A i \in Import : SameLinks(imports[i], imports'[i]),
         \A r \in Request : requests'[r] = requests[r] \/ requests'[r] = Idle
  PROVE  IInv'
<1>1. \A i \in Import : Present(i) => Present(i)'
  BY DEF SameLinks, Present
<1>2. QED
  BY <1>1, LinksPreserved, OpenPreserved DEF IInv

\* So does one that rewrites rows and opens a request that is checked.
LEMMA OpeningStep ==
  ASSUME IInv, TypeOK', UNCHANGED payments, NEW r \in Request, NEW tx \in Tx,
         requests' = [requests EXCEPT ![r] = tx],
         \A i \in Import : SameLinks(imports[i], imports'[i]),
         tx.op = "confirm" => Confirmable(tx.seen),
         tx.op \in {"update", "dismiss"} => Present(tx.import)
  PROVE  IInv'
<1>1. OpenChecked'
  <2> SUFFICES ASSUME NEW q \in Request
      PROVE  /\ requests'[q].op = "confirm" => Confirmable(requests'[q].seen)
             /\ requests'[q].op \in {"update", "dismiss"}
                  => imports'[requests'[q].import].status # "ABSENT"
    BY DEF OpenChecked, Confirmable, Present
  <2>1. \A i \in Import : Present(i) => imports'[i].status # "ABSENT"
    BY DEF SameLinks, Present
  <2>2. requests'[q] = tx \/ requests'[q] = requests[q]
    BY DEF IInv, TypeOK
  <2>3. requests'[q] \in Tx
    BY DEF TypeOK
  <2>4. requests'[q].op \in {"update", "dismiss"} => requests'[q].import \in Import
    BY <2>3, TxOfOp DEF UpdateTx, DismissTx
  <2>5. QED
    BY <2>1, <2>2, <2>4 DEF IInv, OpenChecked
<1>2. QED
  BY <1>1, LinksPreserved DEF IInv

LEMMA RowsOfIInv ==
  ASSUME IInv, NEW i \in Import
  PROVE  /\ imports[i] \in ImportRow
         /\ imports[i].received # None => imports[i].status \in {"CONFIRMED", "DISMISSED"}
  BY DEF IInv, TypeOK, LinkOnlyWhenDecided

\* The step the feature exists for: the row is the one that was checked, hence
\* pending and unlinked, and no payment carries its event id yet.
LEMMA ConfirmStep ==
  ASSUME IInv, TypeOK', NEW r \in Request, ConfirmCommit(r)
  PROVE  IInv'
<1> DEFINE tx == requests[r]
           k == tx.import
<1>1. tx \in ConfirmTx /\ k \in Import /\ imports[k] = tx.seen /\ Confirmable(imports[k])
  BY TxOfOp DEF ConfirmCommit, ConfirmCurrent, IInv, TypeOK, OpenChecked, ConfirmTx
<1>2. imports[k].status = "PENDING" /\ imports[k].received = None
  BY <1>1, RowsOfIInv DEF Confirmable
<1>3. PICK p \in Payment :
         /\ ~payments[p].exists
         /\ payments' = [payments EXCEPT ![p] = NewPayment(tx)]
         /\ imports' = [imports EXCEPT ![k] = Confirmed(@, p, tx.choice)]
  BY DEF ConfirmCommit
<1>4. /\ payments'[p].exists /\ payments'[p].import = k
      /\ payments'[p].income = tx.choice.income
      /\ \A q \in Payment \ {p} : payments'[q] = payments[q]
  BY <1>3 DEF NewPayment, IInv, TypeOK
<1>5. /\ imports'[k].status = "CONFIRMED" /\ imports'[k].received = p
      /\ imports'[k].income = tx.choice.income /\ imports'[k].raw = FALSE
      /\ \A i \in Import \ {k} : imports'[i] = imports[i]
  <2>1. imports[k] \in ImportRow
    BY <1>1, RowsOfIInv
  <2>2. imports'[k] = Confirmed(imports[k], p, tx.choice)
    BY <1>1, <1>3 DEF IInv, TypeOK
  <2>3. QED
    BY <1>1, <1>3, <2>1, <2>2 DEF Confirmed, ImportRow, IInv, TypeOK
<1>6. \A q \in Payment : payments[q].exists => payments[q].import # k
  BY DEF ConfirmCommit, PaymentKeysFree
<1>7. LinkOnlyWhenDecided'
  BY <1>1, <1>5 DEF LinkOnlyWhenDecided, IInv
<1>8. RawTextOnlyWhilePending'
  BY <1>1, <1>5 DEF RawTextOnlyWhilePending, IInv
<1>9. MoneyFollowsConfirmation'
  <2>1. ASSUME NEW i \in Import
        PROVE  /\ imports'[i].status = "CONFIRMED" => imports'[i].received # None
               /\ imports'[i].received # None =>
                    /\ payments'[imports'[i].received].exists
                    /\ payments'[imports'[i].received].import = i
                    /\ payments'[imports'[i].received].income = imports'[i].income
    <3>1. CASE i = k
      BY <3>1, <1>4, <1>5, NoneAssumption
    <3>2. CASE i # k
      <4>1. imports[i].received # None =>
               /\ imports[i].received \in Payment
               /\ payments[imports[i].received].exists
               /\ payments[imports[i].received].import = i
               /\ payments[imports[i].received].income = imports[i].income
        BY RowsOfIInv DEF IInv, MoneyFollowsConfirmation, ImportRow
      <4>2. QED
        BY <3>2, <4>1, <1>3, <1>4, <1>5 DEF IInv, MoneyFollowsConfirmation
    <3>3. QED
      BY <3>1, <3>2
  <2>2. ASSUME NEW q \in Payment, payments'[q].exists, payments'[q].import # None
        PROVE  imports'[payments'[q].import].received = q
    <3>1. CASE q = p
      BY <3>1, <1>4, <1>5
    <3>2. CASE q # p
      <4>1. payments[q].import \in Import
        BY <2>2, <3>2, <1>4 DEF IInv, TypeOK, PaymentRow
      <4>2. QED
        BY <2>2, <3>2, <4>1, <1>4, <1>5, <1>6 DEF IInv, MoneyFollowsConfirmation
    <3>3. QED
      BY <3>1, <3>2
  <2>3. QED
    BY <2>1, <2>2 DEF MoneyFollowsConfirmation
<1>10. OpenChecked'
  <2>1. \A i \in Import : Present(i) => Present(i)'
    BY <1>1, <1>5 DEF Present
  <2>2. \A q \in Request : requests'[q] = requests[q] \/ requests'[q] = Idle
    BY DEF ConfirmCommit, Close, IInv, TypeOK
  <2>3. QED
    BY <2>1, <2>2, OpenPreserved
<1>11. QED
  BY <1>7, <1>8, <1>9, <1>10 DEF IInv

LEMMA InsertStep ==
  ASSUME IInv, TypeOK', UNCHANGED payments, NEW i \in Import, ~Present(i),
         NEW row \in ImportRow, row.status = "PENDING", row.received = None,
         imports' = [imports EXCEPT ![i] = row],
         \A r \in Request : requests'[r] = requests[r] \/ requests'[r] = Idle
  PROVE  IInv'
<1>1. imports'[i] = row /\ \A j \in Import \ {i} : imports'[j] = imports[j]
  BY DEF IInv, TypeOK
<1>2. imports[i].received = None
  BY RowsOfIInv DEF Present
<1>3. \A j \in Import : Present(j) => Present(j)'
  BY <1>1 DEF Present
<1>4. MoneyFollowsConfirmation'
  <2>1. \A p \in Payment : payments[p].exists /\ payments[p].import # None
           => payments[p].import \in Import /\ payments[p].import # i
    BY <1>2, NoneAssumption DEF IInv, TypeOK, PaymentRow, MoneyFollowsConfirmation
  <2>2. QED
    BY <1>1, <2>1 DEF IInv, MoneyFollowsConfirmation
<1>5. LinkOnlyWhenDecided' /\ RawTextOnlyWhilePending'
  BY <1>1 DEF IInv, LinkOnlyWhenDecided, RawTextOnlyWhilePending
<1>6. QED
  BY <1>3, <1>4, <1>5, OpenPreserved DEF IInv

LEMMA BeginOnPendingStep ==
  ASSUME IInv, TypeOK', NEW r \in Request, NEW i \in Import, NEW tx \in Tx,
         tx.op \in {"update", "dismiss"}, tx.import = i, BeginOnPending(r, i, tx)
  PROVE  IInv'
<1>1. \A j \in Import : SameLinks(imports[j], imports'[j])
  BY RowsOfIInv, RewritesKeepLinks DEF BeginOnPending, ExpireOne, IInv, TypeOK
<1>2. CASE requests' = [requests EXCEPT ![r] = tx]
  BY <1>1, <1>2, OpeningStep DEF BeginOnPending
<1>3. CASE UNCHANGED requests
  BY <1>1, <1>3, RewriteStep DEF BeginOnPending
<1>4. QED
  BY <1>2, <1>3 DEF BeginOnPending, Open

LEMMA InvStep == IInv /\ [Next]_vars => IInv'
<1> SUFFICES ASSUME IInv, [Next]_vars PROVE IInv'
  OBVIOUS
<1>0. TypeOK'
  BY TypeStep DEF IInv
<1>1. CASE Tick \/ Restart
  BY <1>0, <1>1, RowsOfIInv, RewritesKeepLinks, RewriteStep DEF Tick, Restart
<1>2. CASE List \/ RunOnce
  <2>1. \A j \in Import : SameLinks(imports[j], imports'[j])
    BY <1>2, RowsOfIInv, RewritesKeepLinks DEF List, ExpirePending, RunOnce
  <2>2. QED
    BY <1>0, <1>2, <2>1, RewriteStep DEF List, RunOnce
<1>3. ASSUME NEW i \in Import, DetailView(i) PROVE IInv'
  <2>1. \A j \in Import : SameLinks(imports[j], imports'[j])
    BY <1>3, RowsOfIInv, RewritesKeepLinks DEF DetailView, ExpireOne, IInv, TypeOK
  <2>2. QED
    BY <1>0, <1>3, <2>1, RewriteStep DEF DetailView
<1>4. ASSUME NEW reference \in Reference, NEW class \in Class,
             RecordElsewhere(reference, class)
      PROVE  IInv'
  <2>1. PICK p \in Payment :
           /\ ~payments[p].exists
           /\ payments' = [payments EXCEPT ![p] =
                [NoPayment EXCEPT !.exists = TRUE, !.reference = reference, !.class = class]]
    BY <1>4 DEF RecordElsewhere
  <2>2. /\ payments'[p].import = None
        /\ \A q \in Payment \ {p} : payments'[q] = payments[q]
    BY <2>1 DEF NoPayment, IInv, TypeOK
  <2>3. \A i \in Import : imports[i].received # p
    BY <2>1, NoneAssumption DEF IInv, MoneyFollowsConfirmation
  <2>4. MoneyFollowsConfirmation'
    <3>1. UNCHANGED imports
      BY <1>4 DEF RecordElsewhere
    <3>2. \A i \in Import : imports[i].received # None =>
             /\ imports[i].received \in Payment \ {p}
             /\ payments'[imports[i].received] = payments[imports[i].received]
      BY <2>2, <2>3, RowsOfIInv DEF ImportRow
    <3>3. \A q \in Payment : payments'[q].import # None => payments'[q] = payments[q]
      BY <2>2
    <3>4. QED
      BY <3>1, <3>2, <3>3 DEF IInv, MoneyFollowsConfirmation
  <2>5. QED
    BY <1>0, <1>4, <2>4 DEF RecordElsewhere, IInv, LinkOnlyWhenDecided,
       RawTextOnlyWhilePending, OpenChecked, Present, Confirmable
<1>5. ASSUME NEW r \in Request, NEW e \in Event, NEW m \in Message, IngestBegin(r, e, m)
      PROVE  IInv'
  <2>1. IngestTxAt(e, m, now, 1) \in Tx
    BY IngestTxType, BoundsAssumption DEF IInv, TypeOK
  <2>2. QED
    BY <1>0, <1>5, <2>1, OpeningStep, RowsOfIInv, RewritesKeepLinks
       DEF IngestBegin, Open, IngestTxAt
<1>6. ASSUME NEW r \in Request, NEW i \in Import, NEW patch \in Patch,
             UpdateBegin(r, i, patch)
      PROVE  IInv'
  <2> DEFINE tx == [op |-> "update", import |-> i, patch |-> patch,
                    parse |-> IF Complete(Corrected(imports[i].details, patch))
                              THEN "PARSED" ELSE "NEEDS_DETAILS"]
  <2>1. tx \in Tx /\ tx.op = "update" /\ tx.import = i
    BY DEF Tx, UpdateTx, ParseStatus
  <2>2. BeginOnPending(r, i, tx)
    BY <1>6 DEF UpdateBegin
  <2> HIDE DEF tx
  <2>3. QED
    BY <1>0, <2>1, <2>2, BeginOnPendingStep
<1>7. ASSUME NEW r \in Request, NEW i \in Import, DismissBegin(r, i) PROVE IInv'
  <2>1. [op |-> "dismiss", import |-> i] \in Tx
    BY DEF Tx, DismissTx
  <2>2. QED
    BY <1>0, <1>7, <2>1, BeginOnPendingStep DEF DismissBegin
<1>8. ASSUME NEW r \in Request, NEW i \in Import, NEW choice \in Choice,
             ConfirmBegin(r, i, choice)
      PROVE  IInv'
  <2> DEFINE tx == ConfirmTxAt(i, imports[i], choice, 1)
  <2>1. tx \in Tx /\ tx.op = "confirm" /\ tx.seen = imports[i]
    BY RowsOfIInv, BoundsAssumption DEF ConfirmTxAt, Tx, ConfirmTx
  <2>2. \A j \in Import : SameLinks(imports[j], imports'[j])
    BY <1>8, RowsOfIInv, RewritesKeepLinks DEF ConfirmBegin, ExpireOne, IInv, TypeOK
  <2>3. CASE Confirmable(Expired(imports[i]))
    <3>1. Confirmable(imports[i])
      BY <2>3, RowsOfIInv DEF Confirmable, Expired, ImportRow
    <3>2. requests' = [requests EXCEPT ![r] = tx]
      BY <1>8, <2>3 DEF ConfirmBegin, Open
    <3>3. UNCHANGED payments
      BY <1>8 DEF ConfirmBegin
    <3> HIDE DEF tx
    <3>4. QED
      BY <1>0, <2>1, <2>2, <3>1, <3>2, <3>3, OpeningStep
  <2>4. CASE ~Confirmable(Expired(imports[i]))
    BY <1>0, <1>8, <2>2, <2>4, RewriteStep DEF ConfirmBegin
  <2>5. QED
    BY <2>3, <2>4
<1>9. ASSUME NEW r \in Request, IngestCommit(r) PROVE IInv'
  <2> DEFINE tx == requests[r]
  <2>1. tx \in IngestTx
    BY <1>9, TxOfOp DEF IngestCommit, IInv, TypeOK
  <2>2. /\ UNCHANGED payments
        /\ \A q \in Request : requests'[q] = requests[q] \/ requests'[q] = Idle
    BY <1>9 DEF IngestCommit, Close, IInv, TypeOK
  <2>3. CASE UNCHANGED imports
    BY <1>0, <2>2, <2>3, RowsOfIInv, RewritesKeepLinks, RewriteStep
  <2>4. ASSUME NEW i \in Import,
               imports' = [imports EXCEPT ![i].duplicate = "CONFIRMED_DUPLICATE"]
        PROVE  IInv'
    <3>1. \A j \in Import : SameLinks(imports[j], imports'[j])
      BY <2>4, RowsOfIInv, RewritesKeepLinks DEF IInv, TypeOK
    <3>2. QED
      BY <1>0, <2>2, <3>1, RewriteStep
  <2>5. ASSUME NEW i \in Import, ~Present(i),
               imports' = [imports EXCEPT ![i] = NewImport(tx)]
        PROVE  IInv'
    <3>1. /\ NewImport(tx) \in ImportRow /\ NewImport(tx).status = "PENDING"
          /\ NewImport(tx).received = None
      BY <2>1, NewImportType DEF NewImport
    <3>2. QED
      BY <1>0, <2>2, <2>5, <3>1, InsertStep
  <2>6. QED
    BY <1>9, <2>1, <2>3, <2>4, <2>5 DEF IngestCommit, IngestTx, Lookups
<1>10. ASSUME NEW r \in Request, IngestAbort(r) PROVE IInv'
  <2> DEFINE tx == requests[r]
             again == IngestTxAt(tx.event, tx.message, tx.start, tx.attempt + 1)
  <2>1. tx \in IngestTx
    BY <1>10, TxOfOp DEF IngestAbort, IInv, TypeOK
  <2>2. UNCHANGED payments /\ \A j \in Import : SameLinks(imports[j], imports'[j])
    BY <1>10, RowsOfIInv, RewritesKeepLinks DEF IngestAbort
  <2>3. CASE AttemptLeft(tx)
    <3>1. again \in Tx /\ again.op = "ingest"
      BY <2>1, <2>3, IngestTxType, BoundsAssumption DEF AttemptLeft, IngestTx, IngestTxAt
    <3>2. requests' = [requests EXCEPT ![r] = again]
      BY <1>10, <2>3 DEF IngestAbort
    <3> HIDE DEF again
    <3>3. QED
      BY <1>0, <2>2, <3>1, <3>2, OpeningStep
  <2>4. CASE ~AttemptLeft(tx)
    BY <1>0, <1>10, <2>2, <2>4, RewriteStep DEF IngestAbort, IInv, TypeOK
  <2>5. QED
    BY <2>3, <2>4
<1>11. ASSUME NEW r \in Request, UpdateWrite(r) PROVE IInv'
  <2>1. requests[r] \in UpdateTx
    BY <1>11, TxOfOp DEF UpdateWrite, IInv, TypeOK
  <2>2. \A j \in Import : SameLinks(imports[j], imports'[j])
    BY <1>11, <2>1, RowsOfIInv, RewritesKeepLinks DEF UpdateWrite, IInv, TypeOK
  <2>3. QED
    BY <1>0, <1>11, <2>2, RewriteStep DEF UpdateWrite, Close, IInv, TypeOK
<1>12. ASSUME NEW r \in Request, DismissWrite(r) PROVE IInv'
  <2>1. requests[r] \in DismissTx /\ requests[r].import \in Import
    BY <1>12, TxOfOp DEF DismissWrite, IInv, TypeOK, DismissTx
  <2>2. \A j \in Import : SameLinks(imports[j], imports'[j])
    BY <1>12, <2>1, RowsOfIInv, RewritesKeepLinks DEF DismissWrite, IInv, TypeOK
  <2>3. QED
    BY <1>0, <1>12, <2>2, RewriteStep DEF DismissWrite, Close, IInv, TypeOK
<1>13. ASSUME NEW r \in Request, ConfirmCommit(r) PROVE IInv'
  BY <1>0, <1>13, ConfirmStep
<1>14. ASSUME NEW r \in Request, ConfirmConflict(r) PROVE IInv'
  BY <1>0, <1>14, RowsOfIInv, RewritesKeepLinks, RewriteStep
     DEF ConfirmConflict, Close, IInv, TypeOK
<1>15. ASSUME NEW r \in Request, ConfirmAbort(r) PROVE IInv'
  <2> DEFINE tx == requests[r]
             row == imports[tx.import]
             again == ConfirmTxAt(tx.import, row, tx.choice, tx.attempt + 1)
  <2>1. tx \in ConfirmTx
    BY <1>15, TxOfOp DEF ConfirmAbort, IInv, TypeOK
  <2>2. UNCHANGED payments /\ \A j \in Import : SameLinks(imports[j], imports'[j])
    BY <1>15, RowsOfIInv, RewritesKeepLinks DEF ConfirmAbort
  <2>3. CASE AttemptLeft(tx) /\ Confirmable(row)
    <3>1. again \in Tx /\ again.op = "confirm" /\ again.seen = row
      BY <2>1, <2>3, RowsOfIInv, BoundsAssumption
         DEF AttemptLeft, ConfirmTx, ConfirmTxAt, Tx
    <3>2. requests' = [requests EXCEPT ![r] = again]
      BY <1>15, <2>3 DEF ConfirmAbort
    <3>3. Confirmable(again.seen)
      BY <2>3, <3>1
    <3> HIDE DEF again
    <3>4. QED
      BY <1>0, <2>2, <3>1, <3>2, <3>3, OpeningStep
  <2>4. CASE ~(AttemptLeft(tx) /\ Confirmable(row))
    BY <1>0, <1>15, <2>2, <2>4, RewriteStep DEF ConfirmAbort, IInv, TypeOK
  <2>5. QED
    BY <2>3, <2>4
<1>16. CASE UNCHANGED vars
  BY <1>0, <1>16, RowsOfIInv, RewritesKeepLinks, RewriteStep DEF vars
<1>17. QED
  BY <1>1, <1>2, <1>3, <1>4, <1>5, <1>6, <1>7, <1>8, <1>9, <1>10, <1>11, <1>12,
     <1>13, <1>14, <1>15, <1>16 DEF Next

LEMMA Invariance == Spec => []IInv
<1>1. Init => IInv
  <2> SUFFICES ASSUME Init PROVE IInv
    OBVIOUS
  <2>1. TypeOK
    BY ConstantTypes, BoundsAssumption DEF Init, TypeOK
  <2>2. LinkOnlyWhenDecided /\ RawTextOnlyWhilePending
    BY DEF Init, LinkOnlyWhenDecided, RawTextOnlyWhilePending, NoImport
  <2>3. OpenChecked
    BY DEF Init, OpenChecked, Idle
  <2>4. MoneyFollowsConfirmation
    BY DEF Init, MoneyFollowsConfirmation, NoImport, NoPayment
  <2>5. QED
    BY <2>1, <2>2, <2>3, <2>4 DEF IInv
<1>2. QED
  BY <1>1, InvStep, PTL DEF Spec

\* A confirmed import has exactly the payment that was recorded from it, and a
\* payment recorded from an import is linked by it, whatever requests,
\* restarts and sweeps interleave (confirm, review.service.ts:221-274).
THEOREM MoneySafe == Spec => []MoneyFollowsConfirmation
  BY Invariance, PTL DEF IInv

\* Raw message text never outlives the pending state of its import.
THEOREM RawTextPurged == Spec => []RawTextOnlyWhilePending
  BY Invariance, PTL DEF IInv

-----------------------------------------------------------------------------
(* What a confirmation records.                                            *)

LEMMA RecordingStep == IInv /\ [Next]_vars =>
    \A p \in Payment :
        ~payments[p].exists /\ payments'[p].exists /\ payments'[p].import # None =>
            LET row == imports[payments'[p].import] IN
            /\ row.status = "PENDING" /\ row.duplicate # "CONFIRMED_DUPLICATE"
            /\ row.details = payments'[p].details
            /\ row.reference = payments'[p].reference
<1> SUFFICES ASSUME IInv, [Next]_vars, NEW p \in Payment,
                    ~payments[p].exists, payments'[p].exists, payments'[p].import # None
             PROVE  LET row == imports[payments'[p].import] IN
                    /\ row.status = "PENDING" /\ row.duplicate # "CONFIRMED_DUPLICATE"
                    /\ row.details = payments'[p].details
                    /\ row.reference = payments'[p].reference
  OBVIOUS
<1>1. ASSUME NEW r \in Request, ConfirmCommit(r)
      PROVE  LET row == imports[payments'[p].import] IN
             /\ row.status = "PENDING" /\ row.duplicate # "CONFIRMED_DUPLICATE"
             /\ row.details = payments'[p].details
             /\ row.reference = payments'[p].reference
  <2> DEFINE tx == requests[r]
  <2>1. tx \in ConfirmTx /\ imports[tx.import] = tx.seen /\ Confirmable(tx.seen)
    BY <1>1, TxOfOp DEF ConfirmCommit, ConfirmCurrent, IInv, TypeOK, OpenChecked
  <2>2. payments'[p] = NewPayment(tx)
    BY <1>1 DEF ConfirmCommit, IInv, TypeOK
  <2>3. QED
    BY <2>1, <2>2 DEF NewPayment, Confirmable
<1>2. ASSUME NEW reference \in Reference, NEW class \in Class,
             RecordElsewhere(reference, class)
      PROVE  FALSE
  BY <1>2 DEF RecordElsewhere, NoPayment, IInv, TypeOK
<1>3. CASE UNCHANGED payments
  BY <1>3
<1>4. QED
  BY <1>1, <1>2, <1>3 DEF Next, vars, Tick, Restart, List, RunOnce, DetailView,
     IngestBegin, UpdateBegin, DismissBegin, BeginOnPending, ConfirmBegin, IngestCommit,
     IngestAbort, UpdateWrite, DismissWrite, ConfirmConflict, ConfirmAbort

\* A payment is recorded from an import that is pending at that moment and not
\* marked a duplicate, with the details and reference it then has
\* (confirm, financial-message-review.service.ts:182-240).
THEOREM RecordsPending == Spec => RecordsWhatIsPending
<1>1. IInv /\ [Next]_vars =>
        [\A p \in Payment :
            ~payments[p].exists /\ payments'[p].exists /\ payments'[p].import # None =>
                LET row == imports[payments'[p].import] IN
                /\ row.status = "PENDING" /\ row.duplicate # "CONFIRMED_DUPLICATE"
                /\ row.details = payments'[p].details
                /\ row.reference = payments'[p].reference]_vars
  BY RecordingStep
<1>2. QED
  BY <1>1, Invariance, PTL DEF Spec, RecordsWhatIsPending

-----------------------------------------------------------------------------
(* The tables implement the lifecycle.                                     *)

\* A rewrite after which a row is where it was or has left PENDING unpaid.
Retires(old, new) ==
    /\ new.received = old.received
    /\ \/ new.status = old.status /\ new.details = old.details
                                 /\ new.reference = old.reference
       \/ old.status \notin {"ABSENT"} /\ new.status \in {"EXPIRED", "DISMISSED"}

LEMMA RetiringRewrites ==
  ASSUME NEW row \in ImportRow
  PROVE  /\ Retires(row, row)
         /\ Retires(row, Expired(row))
         /\ Retires(row, Purged(Expired(row)))
         /\ row.status # "ABSENT" => Retires(row, Dismissed(row))
         /\ Retires(row, [row EXCEPT !.duplicate = "CONFIRMED_DUPLICATE"])
  BY DEF Retires, Expired, Overdue, Purged, Dismissed, ImportRow, Status

LEMMA DiscardsOrNothing ==
  ASSUME IInv, UNCHANGED payments,
         \A i \in Import : Retires(imports[i], imports'[i])
  PROVE  Lifecycle!Next
<1> DEFINE S == {i \in Import : Outcomes[i] = "pending" /\ imports'[i].status # "PENDING"}
<1>1. \A i \in S : Outcomes[i] = "pending"
  OBVIOUS
<1>2. ASSUME NEW i \in Import
      PROVE  /\ Outcomes'[i] = IF i \in S THEN "discarded" ELSE Outcomes[i]
             /\ Drafts'[i] = IF i \in S THEN None ELSE Drafts[i]
             /\ Books'[i] = Books[i]
  BY RowsOfIInv DEF Outcomes, Drafts, Books, OutcomeOf, Shown, Retires, ImportRow, Status
<1>3. /\ Outcomes' = [i \in Import |-> IF i \in S THEN "discarded" ELSE Outcomes[i]]
      /\ Drafts' = [i \in Import |-> IF i \in S THEN None ELSE Drafts[i]]
      /\ Books' = Books
  <2>1. Outcomes' = [i \in Import |-> Outcomes'[i]] /\ Drafts' = [i \in Import |-> Drafts'[i]]
    BY DEF Outcomes, Drafts
  <2>2. Books' = [i \in Import |-> Books'[i]] /\ Books = [i \in Import |-> Books[i]]
    BY DEF Books
  <2> HIDE DEF S
  <2>3. QED
    BY <1>2, <2>1, <2>2
<1>4. Lifecycle!Discard(S)
  BY <1>1, <1>3 DEF Lifecycle!Discard
<1>5. QED
  BY <1>4 DEF Lifecycle!Next

\* Functions over the imports that agree everywhere but at k.
LEMMA ChangedAt ==
  ASSUME NEW f, NEW g, NEW k \in Import, NEW v,
         f = [i \in Import |-> f[i]], g = [i \in Import |-> g[i]],
         g[k] = v, \A i \in Import \ {k} : g[i] = f[i]
  PROVE  g = [f EXCEPT ![k] = v]
  OBVIOUS

LEMMA LifecycleFunctions ==
  /\ Outcomes = [i \in Import |-> Outcomes[i]] /\ Outcomes' = [i \in Import |-> Outcomes'[i]]
  /\ Drafts = [i \in Import |-> Drafts[i]] /\ Drafts' = [i \in Import |-> Drafts'[i]]
  /\ Books = [i \in Import |-> Books[i]] /\ Books' = [i \in Import |-> Books'[i]]
  BY DEF Outcomes, Drafts, Books

LEMMA CorrectsOrNothing ==
  ASSUME IInv, NEW r \in Request, UpdateWrite(r)
  PROVE  Lifecycle!Next \/ UNCHANGED Lifecycle!vars
<1> DEFINE tx == requests[r]
           k == tx.import
           row == Updated(imports[k], tx)
<1>1. tx \in UpdateTx /\ k \in Import /\ Present(k)
  BY TxOfOp DEF UpdateWrite, IInv, TypeOK, OpenChecked, UpdateTx
<1>2. CASE UNCHANGED imports
  BY <1>2 DEF UpdateWrite, Lifecycle!vars, Outcomes, Drafts, Books, OutcomeOf
<1>3. CASE imports' = [imports EXCEPT ![k] = row]
  <2>1. imports'[k] = row /\ \A i \in Import \ {k} : imports'[i] = imports[i]
    BY <1>1, <1>3 DEF IInv, TypeOK
  <2>2. row \in ImportRow /\ row.status = imports[k].status /\ row.received = imports[k].received
    <3>1. imports[k] \in ImportRow
      BY <1>1, RowsOfIInv
    <3>2. row \in ImportRow
      BY <1>1, <3>1, RowTypes
    <3>3. row.status = imports[k].status /\ row.received = imports[k].received
      BY <3>1 DEF Updated, ImportRow
    <3>4. QED
      BY <3>2, <3>3
  <2>3. UNCHANGED payments
    BY DEF UpdateWrite
  <2>4. Outcomes' = Outcomes /\ Books' = Books
    BY <2>1, <2>2, <2>3 DEF Outcomes, Books, OutcomeOf
  <2>5. \A i \in Import \ {k} : Drafts'[i] = Drafts[i]
    BY <2>1 DEF Drafts, OutcomeOf
  <2>6. CASE Outcomes[k] = "pending"
    <3>1. Drafts'[k] = Shown(row)
      BY <1>1, <2>1, <2>4, <2>6 DEF Drafts, Outcomes
    <3>2. Drafts' = [Drafts EXCEPT ![k] = Shown(row)]
      BY <1>1, <2>5, <3>1, ChangedAt, LifecycleFunctions
    <3>3. Shown(row) \in Content
      BY <2>2 DEF Shown, Content, ImportRow
    <3>4. Lifecycle!Correct(k, Shown(row))
      BY <2>4, <2>6, <3>2 DEF Lifecycle!Correct
    <3>5. QED
      BY <1>1, <3>3, <3>4 DEF Lifecycle!Next
  <2>7. CASE Outcomes[k] # "pending"
    <3>1. Drafts'[k] = Drafts[k]
      BY <1>1, <2>4, <2>7 DEF Drafts, Outcomes
    <3>2. Drafts' = Drafts
      BY <2>5, <3>1, LifecycleFunctions
    <3>3. QED
      BY <2>4, <3>2 DEF Lifecycle!vars
  <2>8. QED
    BY <2>6, <2>7
<1>4. QED
  BY <1>2, <1>3 DEF UpdateWrite

LEMMA Delivers ==
  ASSUME IInv, UNCHANGED payments, NEW k \in Import, ~Present(k),
         NEW row \in ImportRow, row.status = "PENDING", row.received = None,
         imports' = [imports EXCEPT ![k] = row]
  PROVE  Lifecycle!Next
<1>1. imports'[k] = row /\ \A i \in Import \ {k} : imports'[i] = imports[i]
  BY DEF IInv, TypeOK
<1>2. imports[k].received = None
  BY RowsOfIInv DEF Present
<1>3. /\ Outcomes[k] = "none" /\ Outcomes'[k] = "pending"
      /\ Drafts'[k] = Shown(row) /\ Books'[k] = Books[k]
  BY <1>1, <1>2 DEF Outcomes, Drafts, Books, OutcomeOf, Present
<1>4. \A i \in Import \ {k} : /\ Outcomes'[i] = Outcomes[i]
                               /\ Drafts'[i] = Drafts[i] /\ Books'[i] = Books[i]
  BY <1>1 DEF Outcomes, Drafts, Books, OutcomeOf
<1>5. /\ Outcomes' = [Outcomes EXCEPT ![k] = "pending"]
      /\ Drafts' = [Drafts EXCEPT ![k] = Shown(row)]
  BY <1>3, <1>4, ChangedAt, LifecycleFunctions
<1>6. Books' = Books
  BY <1>3, <1>4, LifecycleFunctions
<1>7. Shown(row) \in Content
  BY DEF Shown, Content, ImportRow
<1>8. Lifecycle!Deliver(k, Shown(row))
  BY <1>3, <1>5, <1>6 DEF Lifecycle!Deliver
<1>9. QED
  BY <1>7, <1>8 DEF Lifecycle!Next

LEMMA Records ==
  ASSUME IInv, NEW r \in Request, ConfirmCommit(r)
  PROVE  Lifecycle!Next
<1> DEFINE tx == requests[r]
           k == tx.import
<1>1. /\ tx \in ConfirmTx /\ k \in Import /\ imports[k] = tx.seen
      /\ imports[k].status = "PENDING" /\ imports[k].received = None
  BY TxOfOp, RowsOfIInv DEF ConfirmCommit, ConfirmCurrent, IInv, TypeOK, OpenChecked,
     ConfirmTx, Confirmable
<1>2. PICK p \in Payment :
         /\ ~payments[p].exists
         /\ payments' = [payments EXCEPT ![p] = NewPayment(tx)]
         /\ imports' = [imports EXCEPT ![k] = Confirmed(@, p, tx.choice)]
  BY DEF ConfirmCommit
<1>3. /\ payments'[p] = NewPayment(tx)
      /\ \A q \in Payment \ {p} : payments'[q] = payments[q]
      /\ \A i \in Import \ {k} : imports'[i] = imports[i]
  BY <1>2 DEF IInv, TypeOK
<1>4. imports'[k].received = p
  <2>1. imports'[k] = Confirmed(imports[k], p, tx.choice) /\ imports[k] \in ImportRow
    BY <1>1, <1>2 DEF IInv, TypeOK
  <2>2. QED
    BY <2>1 DEF Confirmed, ImportRow
<1>5. /\ Outcomes[k] = "pending" /\ Outcomes'[k] = "recorded"
      /\ Drafts[k] = Shown(tx.seen) /\ Drafts'[k] = None /\ Books'[k] = Shown(tx.seen)
  <2>1. Outcomes[k] = "pending" /\ Drafts[k] = Shown(tx.seen)
    BY <1>1 DEF Outcomes, Drafts, OutcomeOf
  <2>2. Outcomes'[k] = "recorded" /\ Drafts'[k] = None
    BY <1>1, <1>4, NoneAssumption DEF Outcomes, Drafts, OutcomeOf
  <2>3. Books'[k] = Shown(payments'[p])
    BY <1>1, <1>4, NoneAssumption DEF Books, Shown
  <2>4. Shown(payments'[p]) = Shown(tx.seen)
    BY <1>3 DEF Shown, NewPayment
  <2>5. QED
    BY <2>1, <2>2, <2>3, <2>4
<1>6. ASSUME NEW i \in Import \ {k}
      PROVE  Outcomes'[i] = Outcomes[i] /\ Drafts'[i] = Drafts[i] /\ Books'[i] = Books[i]
  <2>1. imports[i].received # None =>
           payments'[imports[i].received] = payments[imports[i].received]
    BY <1>2, <1>3, RowsOfIInv DEF IInv, MoneyFollowsConfirmation, ImportRow
  <2>2. QED
    BY <1>3, <2>1 DEF Outcomes, Drafts, Books, OutcomeOf, Shown
<1>7. /\ Outcomes' = [Outcomes EXCEPT ![k] = "recorded"]
      /\ Books' = [Books EXCEPT ![k] = Drafts[k]]
      /\ Drafts' = [Drafts EXCEPT ![k] = None]
  BY <1>1, <1>5, <1>6, ChangedAt, LifecycleFunctions
<1>8. Lifecycle!Record(k)
  BY <1>5, <1>7 DEF Lifecycle!Record
<1>9. QED
  BY <1>1, <1>8 DEF Lifecycle!Next

\* An ingest inserts a row, flags one, or changes nothing.
LEMMA Ingests ==
  ASSUME IInv, NEW r \in Request, IngestCommit(r)
  PROVE  Lifecycle!Next \/ UNCHANGED Lifecycle!vars
<1> DEFINE tx == requests[r]
<1>1. tx \in IngestTx /\ UNCHANGED payments
  BY TxOfOp DEF IngestCommit, IInv, TypeOK
<1>2. CASE UNCHANGED imports
  BY <1>1, <1>2 DEF Lifecycle!vars, Outcomes, Drafts, Books, OutcomeOf
<1>3. ASSUME NEW k \in Import, imports' = [imports EXCEPT ![k].duplicate = "CONFIRMED_DUPLICATE"]
      PROVE  Lifecycle!Next
  <2>1. \A i \in Import :
           \/ imports'[i] = imports[i]
           \/ imports'[i] = [imports[i] EXCEPT !.duplicate = "CONFIRMED_DUPLICATE"]
    BY <1>3 DEF IInv, TypeOK
  <2>2. ASSUME NEW i \in Import PROVE Retires(imports[i], imports'[i])
    <3>1. imports[i] \in ImportRow
      BY RowsOfIInv
    <3>2. /\ Retires(imports[i], imports[i])
          /\ Retires(imports[i], [imports[i] EXCEPT !.duplicate = "CONFIRMED_DUPLICATE"])
      BY <3>1, RetiringRewrites
    <3>3. QED
      BY <2>1, <3>2
  <2>3. QED
    BY <1>1, <2>2, DiscardsOrNothing
<1>4. ASSUME NEW k \in Import, ~Present(k), imports' = [imports EXCEPT ![k] = NewImport(tx)]
      PROVE  Lifecycle!Next
  <2>1. NewImport(tx) \in ImportRow
    BY <1>1, NewImportType
  <2>2. NewImport(tx).status = "PENDING" /\ NewImport(tx).received = None
    BY DEF NewImport
  <2> HIDE DEF tx
  <2>3. QED
    BY <1>1, <1>4, <2>1, <2>2, Delivers
<1>5. \/ UNCHANGED imports
      \/ \E k \in tx.seen.reference :
            imports' = [imports EXCEPT ![k].duplicate = "CONFIRMED_DUPLICATE"]
      \/ \E k \in Import : ~Present(k) /\ imports' = [imports EXCEPT ![k] = NewImport(tx)]
  BY DEF IngestCommit
<1>6. tx.seen.reference \subseteq Import
  BY <1>1 DEF IngestTx, Lookups
<1>7. QED
  BY <1>2, <1>3, <1>4, <1>5, <1>6

\* A step that only retires rows.
LEMMA Retirements ==
  ASSUME IInv, UNCHANGED payments,
         \A i \in Import : \/ imports'[i] = imports[i]
                           \/ imports'[i] = Expired(imports[i])
                           \/ imports'[i] = Purged(Expired(imports[i]))
                           \/ Present(i) /\ imports'[i] = Dismissed(imports[i])
  PROVE  Lifecycle!Next
<1>1. \A i \in Import : Retires(imports[i], imports'[i])
  BY RowsOfIInv, RetiringRewrites DEF Present
<1>2. QED
  BY <1>1, DiscardsOrNothing

LEMMA LifecycleStep == IInv /\ [Next]_vars => [Lifecycle!Next]_(Lifecycle!vars)
<1> SUFFICES ASSUME IInv, [Next]_vars PROVE Lifecycle!Next \/ UNCHANGED Lifecycle!vars
  OBVIOUS
<1>1. CASE UNCHANGED <<imports, payments>>
  BY <1>1 DEF Lifecycle!vars, Outcomes, Drafts, Books, OutcomeOf
<1>2. CASE List
  BY <1>2, Retirements DEF List, ExpirePending
<1>3. CASE RunOnce
  BY <1>3, Retirements DEF RunOnce
<1>4. ASSUME NEW i \in Import, ExpireOne(i), UNCHANGED payments PROVE Lifecycle!Next
  <2>1. \A j \in Import : imports'[j] = imports[j] \/ imports'[j] = Expired(imports[j])
    BY <1>4 DEF ExpireOne, IInv, TypeOK
  <2>2. QED
    BY <1>4, <2>1, Retirements
<1>5. ASSUME NEW reference \in Reference, NEW class \in Class,
             RecordElsewhere(reference, class)
      PROVE  UNCHANGED Lifecycle!vars
  <2>1. UNCHANGED imports /\ \A p \in Payment : payments[p].exists => payments'[p] = payments[p]
    BY <1>5 DEF RecordElsewhere, IInv, TypeOK
  <2>2. \A i \in Import : imports[i].received # None =>
           payments'[imports[i].received] = payments[imports[i].received]
    BY <2>1, RowsOfIInv DEF IInv, MoneyFollowsConfirmation, ImportRow
  <2>3. QED
    BY <2>1, <2>2 DEF Lifecycle!vars, Outcomes, Drafts, Books, OutcomeOf
<1>6. ASSUME NEW r \in Request, DismissWrite(r) PROVE Lifecycle!Next
  <2>1. requests[r].import \in Import /\ Present(requests[r].import)
    BY <1>6, TxOfOp DEF DismissWrite, IInv, TypeOK, OpenChecked, DismissTx
  <2>2. \A j \in Import : \/ imports'[j] = imports[j]
                          \/ Present(j) /\ imports'[j] = Dismissed(imports[j])
    BY <1>6, <2>1 DEF DismissWrite, IInv, TypeOK
  <2>3. QED
    BY <1>6, <2>2, Retirements DEF DismissWrite
<1>7. CASE \E r \in Request : UpdateWrite(r)
  BY <1>7, CorrectsOrNothing
<1>8. CASE \E r \in Request : IngestCommit(r)
  BY <1>8, Ingests
<1>9. CASE \E r \in Request : ConfirmCommit(r)
  BY <1>9, Records
<1>10. QED
  BY <1>1, <1>2, <1>3, <1>4, <1>5, <1>6, <1>7, <1>8, <1>9
  DEF Next, vars, Tick, Restart, DetailView, IngestBegin, IngestAbort, UpdateBegin,
      DismissBegin, BeginOnPending, ConfirmBegin, ConfirmConflict, ConfirmAbort

\* The tables implement the promised lifecycle: whatever the handlers
\* interleave, an import is recorded once, from what it showed when it was
\* pending, and nothing decided is ever recorded or reopened.
THEOREM Implementation == Spec => ImplementsLifecycle
<1>1. Init => Lifecycle!Init
  BY DEF Init, Lifecycle!Init, Outcomes, Drafts, Books, OutcomeOf, NoImport
<1>2. QED
  BY <1>1, LifecycleStep, Invariance, PTL DEF Spec, ImplementsLifecycle, Lifecycle!Spec

-----------------------------------------------------------------------------
(* References and repeated texts.                                          *)

\* A payment is recorded under a reference no other payment has.
LEMMA PaidOnceStep == IInv /\ ReferencePaidOnce /\ [Next]_vars => ReferencePaidOnce'
<1> SUFFICES ASSUME IInv, ReferencePaidOnce, [Next]_vars PROVE ReferencePaidOnce'
  OBVIOUS
<1>1. ASSUME NEW k \in Payment, NEW row, payments' = [payments EXCEPT ![k] = row],
             row.reference = None \/ \A p \in Payment :
                 payments[p].exists => payments[p].reference # row.reference
      PROVE  ReferencePaidOnce'
  <2>1. \A p \in Payment : payments'[p] = IF p = k THEN row ELSE payments[p]
    BY <1>1 DEF IInv, TypeOK
  <2>2. QED
    BY <1>1, <2>1 DEF ReferencePaidOnce
<1>2. ASSUME NEW r \in Request, ConfirmCommit(r) PROVE ReferencePaidOnce'
  <2> DEFINE tx == requests[r]
             row == NewPayment(tx)
  <2>1. PICK k \in Payment : payments' = [payments EXCEPT ![k] = row]
    BY <1>2 DEF ConfirmCommit
  <2>2. row.reference = tx.seen.reference /\ PaymentKeysFree(tx.import, tx.seen.reference)
    BY <1>2 DEF ConfirmCommit, NewPayment
  <2> HIDE DEF row
  <2>3. QED
    BY <1>1, <2>1, <2>2 DEF PaymentKeysFree
<1>3. ASSUME NEW reference \in Reference, NEW class \in Class,
             RecordElsewhere(reference, class)
      PROVE  ReferencePaidOnce'
  <2> DEFINE row == [NoPayment EXCEPT !.exists = TRUE, !.reference = reference, !.class = class]
  <2>1. row.reference = reference
    BY DEF NoPayment
  <2>2. PICK k \in Payment : payments' = [payments EXCEPT ![k] = row]
    BY <1>3 DEF RecordElsewhere
  <2> HIDE DEF row
  <2>3. QED
    BY <1>1, <1>3, <2>1, <2>2 DEF RecordElsewhere
<1>4. CASE UNCHANGED payments
  BY <1>4 DEF ReferencePaidOnce
<1>5. QED
  BY <1>2, <1>3, <1>4 DEF Next, vars, Tick, Restart, List, RunOnce, DetailView,
     IngestBegin, UpdateBegin, DismissBegin, BeginOnPending, ConfirmBegin, IngestCommit,
     IngestAbort, UpdateWrite, DismissWrite, ConfirmConflict, ConfirmAbort

\* One provider reference is paid for once, whichever imports carry it and
\* wherever else it is recorded while one is being confirmed
\* (confirm, financial-message-review.service.ts:221-240, 288-296).
THEOREM PaidOnce == Spec => []ReferencePaidOnce
<1>1. Init => ReferencePaidOnce
  BY DEF Init, ReferencePaidOnce, NoPayment
<1>2. QED
  BY <1>1, PaidOnceStep, Invariance, PTL DEF Spec

\* What a rewrite leaves of the mark: an unrecorded row that is clear was, and
\* keeps what it is compared by.
StaysFlagged(old, new) ==
    /\ new.status = "ABSENT" <=> old.status = "ABSENT"
    /\ new.message = old.message /\ new.createdAt = old.createdAt
    /\ new.received = None =>
          old.received = None /\ (new.duplicate = "CLEAR" => old.duplicate = "CLEAR")

LEMMA RewritesKeepFlags ==
  ASSUME NEW row \in ImportRow
  PROVE  /\ StaysFlagged(row, row)
         /\ StaysFlagged(row, Expired(row))
         /\ StaysFlagged(row, Purged(Expired(row)))
         /\ row.status # "ABSENT" => StaysFlagged(row, Dismissed(row))
         /\ \A tx \in UpdateTx : StaysFlagged(row, Updated(row, tx))
         /\ row.status # "ABSENT" => \A p \in Payment, choice \in Choice :
                StaysFlagged(row, Confirmed(row, p, choice))
         /\ StaysFlagged(row, [row EXCEPT !.duplicate = "CONFIRMED_DUPLICATE"])
  BY NoneAssumption
  DEF StaysFlagged, Expired, Overdue, Purged, Dismissed, Updated, Confirmed, ImportRow, Status

LEMMA FlagsStay ==
  ASSUME RepeatedTextIsFlagged, \A i \in Import : StaysFlagged(imports[i], imports'[i])
  PROVE  RepeatedTextIsFlagged'
  BY DEF RepeatedTextIsFlagged, StaysFlagged, Present, TextOf

\* A new row is clear only when its text was not there: the search of the
\* snapshot still holds when the row is inserted.
LEMMA InsertFlags ==
  ASSUME IInv, RepeatedTextIsFlagged, NEW tx \in IngestTx, IngestCurrent(tx),
         NEW k \in Import, ~Present(k), imports' = [imports EXCEPT ![k] = NewImport(tx)]
  PROVE  RepeatedTextIsFlagged'
<1> DEFINE new == NewImport(tx)
           text == Parse[tx.message].text
<1>1. /\ new.status = "PENDING" /\ new.message = tx.message /\ new.createdAt = tx.start
      /\ new.duplicate = "CLEAR" => ~tx.seen.twin
  BY DEF NewImport
<1>2. tx.seen.twin <=> \E i \in Import : /\ Present(i) /\ TextOf(i) = text
                                         /\ imports[i].createdAt + Lookback >= tx.start
  BY DEF IngestCurrent, Lookup
<1>3. tx.start \in Nat /\ Lookback \in Nat /\ \A i \in Import : imports[i].createdAt \in Nat
  BY BoundsAssumption DEF IngestTx, IInv, TypeOK, ImportRow
<1>4. /\ imports'[k] = new
      /\ \A i \in Import : i # k => imports'[i] = imports[i]
  BY DEF IInv, TypeOK
<1>5. new.duplicate = "CLEAR" =>
        \A i \in Import : Present(i) /\ TextOf(i) = text =>
            ~(imports[i].createdAt + Lookback >= tx.start)
  BY <1>1, <1>2
<1> HIDE DEF new
<1>6. ASSUME NEW i \in Import, NEW j \in Import, i # j,
             imports'[i].status # "ABSENT", imports'[j].status # "ABSENT",
             Parse[imports'[i].message].text = Parse[imports'[j].message].text,
             imports'[i].createdAt <= imports'[j].createdAt,
             imports'[j].createdAt <= imports'[i].createdAt + Lookback,
             imports'[i].received = None, imports'[j].received = None,
             imports'[i].duplicate = "CLEAR", imports'[j].duplicate = "CLEAR"
      PROVE  FALSE
  <2>1. CASE i # k /\ j # k
    BY <1>4, <1>6, <2>1 DEF RepeatedTextIsFlagged, Present, TextOf
  <2>2. CASE i = k
    BY <1>1, <1>3, <1>4, <1>5, <1>6, <2>2 DEF Present, TextOf
  <2>3. CASE j = k
    BY <1>1, <1>3, <1>4, <1>5, <1>6, <2>3 DEF Present, TextOf
  <2>4. QED
    BY <2>1, <2>2, <2>3
<1>7. QED
  BY <1>6 DEF RepeatedTextIsFlagged, Present, TextOf

LEMMA FlaggedStep == IInv /\ RepeatedTextIsFlagged /\ [Next]_vars => RepeatedTextIsFlagged'
<1> SUFFICES ASSUME IInv, RepeatedTextIsFlagged, [Next]_vars PROVE RepeatedTextIsFlagged'
  OBVIOUS
<1>1. ASSUME \A i \in Import : \/ imports'[i] = imports[i]
                               \/ imports'[i] = Expired(imports[i])
                               \/ imports'[i] = Purged(Expired(imports[i]))
                               \/ Present(i) /\ imports'[i] = Dismissed(imports[i])
                               \/ \E tx \in UpdateTx : imports'[i] = Updated(imports[i], tx)
                               \/ \E p \in Payment, choice \in Choice :
                                      Present(i) /\ imports'[i] = Confirmed(imports[i], p, choice)
                               \/ imports'[i] = [imports[i] EXCEPT !.duplicate = "CONFIRMED_DUPLICATE"]
      PROVE  RepeatedTextIsFlagged'
  <2>1. ASSUME NEW i \in Import PROVE StaysFlagged(imports[i], imports'[i])
    <3>1. imports[i] \in ImportRow
      BY RowsOfIInv
    <3> DEFINE row == imports[i]
    <3>2. /\ StaysFlagged(row, row) /\ StaysFlagged(row, Expired(row))
          /\ StaysFlagged(row, Purged(Expired(row)))
          /\ \A tx \in UpdateTx : StaysFlagged(row, Updated(row, tx))
          /\ StaysFlagged(row, [row EXCEPT !.duplicate = "CONFIRMED_DUPLICATE"])
      BY <3>1, RewritesKeepFlags
    <3>3. Present(i) => StaysFlagged(row, Dismissed(row))
      BY <3>1, RewritesKeepFlags DEF Present
    <3>4. Present(i) => \A p \in Payment, choice \in Choice :
                            StaysFlagged(row, Confirmed(row, p, choice))
      BY <3>1, RewritesKeepFlags DEF Present
    <3>5. QED
      BY <1>1, <3>2, <3>3, <3>4
  <2>2. QED
    BY <2>1, FlagsStay
<1>2. CASE UNCHANGED imports
  BY <1>1, <1>2
<1>3. CASE List
  BY <1>1, <1>3 DEF List, ExpirePending
<1>4. CASE RunOnce
  BY <1>1, <1>4 DEF RunOnce
<1>5. ASSUME NEW i \in Import, ExpireOne(i) PROVE RepeatedTextIsFlagged'
  BY <1>1, <1>5 DEF ExpireOne, IInv, TypeOK
<1>6. ASSUME NEW r \in Request, DismissWrite(r) PROVE RepeatedTextIsFlagged'
  <2>1. requests[r].import \in Import /\ Present(requests[r].import)
    BY <1>6, TxOfOp DEF DismissWrite, IInv, TypeOK, OpenChecked, DismissTx
  <2>2. \A j \in Import : \/ imports'[j] = imports[j]
                          \/ Present(j) /\ imports'[j] = Dismissed(imports[j])
    BY <1>6, <2>1 DEF DismissWrite, IInv, TypeOK
  <2>3. QED
    BY <1>1, <2>2
<1>7. ASSUME NEW r \in Request, UpdateWrite(r) PROVE RepeatedTextIsFlagged'
  <2> DEFINE tx == requests[r]
  <2>1. tx \in UpdateTx /\ tx.import \in Import
    BY <1>7, TxOfOp DEF UpdateWrite, IInv, TypeOK, UpdateTx
  <2>2. \A j \in Import : imports'[j] = imports[j] \/ imports'[j] = Updated(imports[j], tx)
    BY <1>7, <2>1 DEF UpdateWrite, IInv, TypeOK
  <2> HIDE DEF tx
  <2>3. QED
    BY <1>1, <2>1, <2>2
<1>8. ASSUME NEW r \in Request, ConfirmCommit(r) PROVE RepeatedTextIsFlagged'
  <2> DEFINE tx == requests[r]
  <2>1. tx \in ConfirmTx /\ tx.import \in Import /\ tx.choice \in Choice
    BY <1>8, TxOfOp DEF ConfirmCommit, IInv, TypeOK, ConfirmTx
  <2>2. Present(tx.import)
    BY <1>8 DEF ConfirmCommit, ConfirmCurrent, IInv, OpenChecked, Confirmable, Present
  <2>3. PICK p \in Payment : imports' = [imports EXCEPT ![tx.import] = Confirmed(@, p, tx.choice)]
    BY <1>8 DEF ConfirmCommit
  <2>4. \A j \in Import : \/ imports'[j] = imports[j]
                          \/ Present(j) /\ imports'[j] = Confirmed(imports[j], p, tx.choice)
    BY <2>1, <2>2, <2>3 DEF IInv, TypeOK
  <2>5. QED
    BY <1>1, <2>1, <2>4
<1>9. ASSUME NEW r \in Request, IngestCommit(r) PROVE RepeatedTextIsFlagged'
  <2> DEFINE tx == requests[r]
  <2>1. tx \in IngestTx /\ IngestCurrent(tx)
    BY <1>9, TxOfOp DEF IngestCommit, IInv, TypeOK
  <2>2. ASSUME NEW k, imports' = [imports EXCEPT ![k].duplicate = "CONFIRMED_DUPLICATE"]
        PROVE  RepeatedTextIsFlagged'
    <3>1. \A j \in Import :
             \/ imports'[j] = imports[j]
             \/ imports'[j] = [imports[j] EXCEPT !.duplicate = "CONFIRMED_DUPLICATE"]
      BY <2>2 DEF IInv, TypeOK
    <3>2. QED
      BY <1>1, <3>1
  <2>3. ASSUME NEW k \in Import, ~Present(k), imports' = [imports EXCEPT ![k] = NewImport(tx)]
        PROVE  RepeatedTextIsFlagged'
    BY <2>1, <2>3, InsertFlags
  <2>4. QED
    BY <1>2, <1>9, <2>2, <2>3 DEF IngestCommit
<1>10. QED
  BY <1>2, <1>3, <1>4, <1>5, <1>6, <1>7, <1>8, <1>9 DEF Next, vars, Tick, Restart, DetailView,
     IngestBegin, UpdateBegin, DismissBegin, BeginOnPending, ConfirmBegin,
     IngestAbort, ConfirmConflict, ConfirmAbort, RecordElsewhere

\* Of two unrecorded imports of one text within the lookback window at most one
\* is shown as clear, however their deliveries overlap
\* (ingest, financial-message-imports.service.ts:120-149).
THEOREM RepeatsFlagged == Spec => []RepeatedTextIsFlagged
<1>1. Init => RepeatedTextIsFlagged
  BY DEF Init, RepeatedTextIsFlagged, Present, NoImport
<1>2. QED
  BY <1>1, FlaggedStep, Invariance, PTL DEF Spec

-----------------------------------------------------------------------------
(* The pilot summary.  What counts as parsed of a provider that is not     *)
(* enabled was completed by a review, although the review may be based on  *)
(* a row read before another one: details that were given stay given, or   *)
(* are erased.                                                             *)

Given(row, d) == row.details[d] # None \/ d \in row.erased

ReviewedRow(row) ==
    row.status # "ABSENT" =>
        /\ row.message \in Message
        /\ row.parse = "PARSED" /\ Parse[row.message].provider \notin Enabled
              => \A d \in Detail : Given(row, d)

RowsReviewed == \A i \in Import : ReviewedRow(imports[i])

\* Written to this row, a correction leaves no detail ungiven.
Covers(patch, row) ==
    \A d \in Detail : Corrected(row.details, patch)[d] # None \/ d \in row.erased

\* An open correction that takes the details to be complete leaves them so, but
\* for what it, or one before it, erases.
CorrectionsComplete ==
    \A r \in Request : requests[r].op = "update" /\ requests[r].parse = "PARSED" =>
        Covers(requests[r].patch, imports[requests[r].import])

\* A rewrite of a row: details that were given stay given, or are erased.
Advances(old, new) ==
    /\ old.status # "ABSENT" => \A d \in Detail : Given(old, d) => Given(new, d)
    /\ ReviewedRow(old) => ReviewedRow(new)

LEMMA CoverStays ==
  ASSUME NEW row, NEW later, NEW patch, Covers(patch, row),
         \A d \in Detail : Given(row, d) => Given(later, d)
  PROVE  Covers(patch, later)
  BY DEF Covers, Corrected, Given

LEMMA RewritesAdvance ==
  ASSUME NEW row \in ImportRow
  PROVE  /\ Advances(row, row)
         /\ Advances(row, Expired(row))
         /\ Advances(row, Purged(Expired(row)))
         /\ Advances(row, [row EXCEPT !.duplicate = "CONFIRMED_DUPLICATE"])
         /\ row.status # "ABSENT" => Advances(row, Dismissed(row))
         /\ \A tx \in UpdateTx :
               /\ row.status # "ABSENT"
               /\ tx.parse = "PARSED" => Covers(tx.patch, row)
               => Advances(row, Updated(row, tx))
         /\ \A p \in Payment, choice \in Choice :
               row.status # "ABSENT" /\ Complete(row.details)
               => Advances(row, Confirmed(row, p, choice))
<1>1. Advances(row, row)
  BY DEF Advances
<1>2. ASSUME NEW other \in ImportRow, other.details = row.details, other.erased = row.erased,
             other.message = row.message, other.parse = row.parse, row.status = "ABSENT" => other.status = "ABSENT"
      PROVE  Advances(row, other)
  BY <1>2 DEF Advances, ReviewedRow, Given
<1>3. LET other == Expired(row) IN
      /\ other \in ImportRow /\ other.details = row.details /\ other.erased = row.erased
      /\ other.message = row.message
      /\ other.parse = row.parse /\ (row.status = "ABSENT" => other.status = "ABSENT")
  BY RowTypes DEF Expired, Overdue, ImportRow
<1>4. LET other == Purged(Expired(row)) IN
      /\ other \in ImportRow /\ other.details = row.details /\ other.erased = row.erased
      /\ other.message = row.message
      /\ other.parse = row.parse /\ (row.status = "ABSENT" => other.status = "ABSENT")
  <2>1. LET other == Purged(Expired(row)) IN
        /\ other \in ImportRow /\ other.details = Expired(row).details
        /\ other.erased = Expired(row).erased
        /\ other.message = Expired(row).message /\ other.parse = Expired(row).parse
        /\ other.status = Expired(row).status
    BY <1>3, RowTypes DEF Purged, ImportRow
  <2>2. QED BY <1>3, <2>1
<1>5. LET other == [row EXCEPT !.duplicate = "CONFIRMED_DUPLICATE"] IN
      /\ other \in ImportRow /\ other.details = row.details /\ other.erased = row.erased
      /\ other.message = row.message
      /\ other.parse = row.parse /\ other.status = row.status
  BY RowTypes DEF ImportRow
<1>6. LET other == Dismissed(row) IN
      /\ other \in ImportRow /\ other.details = row.details /\ other.erased = row.erased
      /\ other.message = row.message
      /\ other.parse = row.parse
  BY RowTypes DEF Dismissed, ImportRow
<1>7. ASSUME NEW tx \in UpdateTx, row.status # "ABSENT",
             tx.parse = "PARSED" => Covers(tx.patch, row)
      PROVE  Advances(row, Updated(row, tx))
  <2> DEFINE other == Updated(row, tx)
  <2>1. /\ other.details = Written(row.details, tx.patch) /\ other.message = row.message
        /\ other.parse = tx.parse
        /\ other.erased =
              {d \in row.erased : tx.patch.details[d] = None} \cup (tx.patch.erases \cap Detail)
    BY DEF Updated, ImportRow
  <2>2. ASSUME NEW d \in Detail,
               Given(row, d) \/ Corrected(row.details, tx.patch)[d] # None \/ d \in row.erased
        PROVE  Given(other, d)
    BY <2>1, <2>2 DEF Given, Written, Corrected
  <2> HIDE DEF other
  <2>3. \A d \in Detail : Given(row, d) => Given(other, d)
    BY <2>2
  <2>4. Covers(tx.patch, row) => \A d \in Detail : Given(other, d)
    BY <2>2 DEF Covers
  <2>5. QED BY <1>7, <2>1, <2>3, <2>4 DEF Advances, ReviewedRow, other
<1>8. ASSUME NEW p \in Payment, NEW choice \in Choice, row.status # "ABSENT", Complete(row.details)
      PROVE  Advances(row, Confirmed(row, p, choice))
  <2>1. Confirmed(row, p, choice).details = row.details
        /\ Confirmed(row, p, choice).erased = row.erased
        /\ Confirmed(row, p, choice).message = row.message
    BY DEF Confirmed, ImportRow
  <2>2. QED BY <1>8, <2>1 DEF Advances, ReviewedRow, Complete, Given
<1>9. Advances(row, Expired(row)) /\ Advances(row, Purged(Expired(row)))
  BY <1>2, <1>3, <1>4
<1>10. Advances(row, [row EXCEPT !.duplicate = "CONFIRMED_DUPLICATE"])
  BY <1>2, <1>5
<1>11. row.status # "ABSENT" => Advances(row, Dismissed(row))
  BY <1>2, <1>6
<1>12. QED BY <1>1, <1>7, <1>8, <1>9, <1>10, <1>11

\* A message is delivered as the parser and the rollout left it.
LEMMA DeliveryAdvances ==
  ASSUME NEW row \in ImportRow, row.status = "ABSENT", NEW tx \in IngestTx
  PROVE  Advances(row, NewImport(tx))
<1>1. tx.message \in Message
  BY DEF IngestTx
<1>2. /\ NewImport(tx).message = tx.message
      /\ NewImport(tx).parse = Parse[tx.message].status
  BY DEF NewImport
<1>3. ReviewedRow(NewImport(tx))
  BY <1>1, <1>2, RolloutAssumption DEF ReviewedRow
<1>4. QED BY <1>3 DEF Advances

\* What a step leaves a request with: what it had, nothing, or a transaction
\* that is no correction or a complete one.
Checked(tx, row) ==
    tx.op = "update" /\ tx.parse = "PARSED" => Covers(tx.patch, row)

LEMMA AdvanceStep ==
  ASSUME IInv, RowsReviewed, CorrectionsComplete,
         \A i \in Import : Advances(imports[i], imports'[i]),
         \A r \in Request :
            \/ requests'[r] = requests[r] \/ requests'[r].op # "update"
            \/ /\ requests'[r].import \in Import /\ Present(requests'[r].import)
               /\ Checked(requests'[r], imports[requests'[r].import])
  PROVE  RowsReviewed' /\ CorrectionsComplete'
<1>1. RowsReviewed'
  BY DEF RowsReviewed, Advances, ReviewedRow
<1>2. ASSUME NEW r \in Request, requests'[r].op = "update", requests'[r].parse = "PARSED"
      PROVE  Covers(requests'[r].patch, imports'[requests'[r].import])
  <2> DEFINE tx == requests'[r]
  <2>1. /\ tx.import \in Import /\ Present(tx.import)
        /\ Checked(tx, imports[tx.import])
    <3>1. CASE requests'[r] = requests[r]
      <4>1. requests[r] \in UpdateTx
        BY <1>2, <3>1, TxOfOp DEF IInv, TypeOK
      <4>2. QED BY <1>2, <3>1, <4>1 DEF CorrectionsComplete, Checked, UpdateTx, IInv, OpenChecked
    <3>2. CASE requests'[r] # requests[r]
      BY <1>2, <3>2
    <3>3. QED BY <3>1, <3>2
  <2>2. Covers(tx.patch, imports[tx.import])
    BY <1>2, <2>1 DEF Checked
  <2>3. \A d \in Detail : Given(imports[tx.import], d) => Given(imports'[tx.import], d)
    BY <2>1 DEF Advances, Present
  <2> HIDE DEF tx
  <2>4. Covers(tx.patch, imports'[tx.import])
    BY <2>2, <2>3, CoverStays
  <2>5. QED BY <2>4 DEF tx
<1>3. QED BY <1>1, <1>2 DEF CorrectionsComplete

LEMMA RowsAdvance ==
  IInv /\ CorrectionsComplete /\ [Next]_vars => \A i \in Import : Advances(imports[i], imports'[i])
<1> SUFFICES ASSUME IInv, CorrectionsComplete, [Next]_vars, NEW i \in Import
    PROVE  Advances(imports[i], imports'[i])
  OBVIOUS
<1> DEFINE row == imports[i]
<1>0. row \in ImportRow /\ imports \in [Import -> ImportRow]
  BY RowsOfIInv DEF IInv, TypeOK
<1>1. /\ Advances(row, row)
      /\ Advances(row, Expired(row))
      /\ Advances(row, Purged(Expired(row)))
      /\ Advances(row, [row EXCEPT !.duplicate = "CONFIRMED_DUPLICATE"])
  BY <1>0, RewritesAdvance
<1>2. CASE UNCHANGED imports
  BY <1>1, <1>2
<1>3. CASE List \/ RunOnce
  BY <1>1, <1>3 DEF List, ExpirePending, RunOnce
<1>4. ASSUME NEW j \in Import, ExpireOne(j) PROVE Advances(row, imports'[i])
  BY <1>0, <1>1, <1>4 DEF ExpireOne
<1>5. ASSUME NEW r \in Request, IngestCommit(r) PROVE Advances(row, imports'[i])
  <2> DEFINE tx == requests[r]
  <2>1. tx \in IngestTx
    BY <1>5, TxOfOp DEF IngestCommit, IInv, TypeOK
  <2>2. ASSUME NEW k, imports' = [imports EXCEPT ![k].duplicate = "CONFIRMED_DUPLICATE"]
        PROVE  Advances(row, imports'[i])
    BY <1>0, <1>1, <2>2
  <2>3. ASSUME NEW k \in Import, ~Present(k), imports' = [imports EXCEPT ![k] = NewImport(tx)]
        PROVE  Advances(row, imports'[i])
    <3>1. CASE i = k
      <4>1. row.status = "ABSENT"
        BY <2>3, <3>1 DEF Present
      <4>2. imports'[i] = NewImport(tx)
        BY <1>0, <2>3, <3>1
      <4>3. QED BY <1>0, <2>1, <4>1, <4>2, DeliveryAdvances
    <3>2. CASE i # k
      BY <1>0, <1>1, <2>3, <3>2
    <3>3. QED BY <3>1, <3>2
  <2>4. QED BY <1>2, <1>5, <2>2, <2>3 DEF IngestCommit
<1>6. ASSUME NEW r \in Request, UpdateWrite(r) PROVE Advances(row, imports'[i])
  <2> DEFINE tx == requests[r]
  <2>1. tx \in UpdateTx /\ tx.op = "update"
    BY <1>6, TxOfOp DEF UpdateWrite, IInv, TypeOK
  <2>2. CASE tx.import = i
    <3>1. row.status # "ABSENT"
      BY <2>1, <2>2 DEF IInv, OpenChecked, Present
    <3>2. tx.parse = "PARSED" => Covers(tx.patch, row)
      BY <2>1, <2>2 DEF CorrectionsComplete
    <3>3. Advances(row, Updated(row, tx))
      BY <1>0, <2>1, <3>1, <3>2, RewritesAdvance
    <3>4. imports'[i] = row \/ imports'[i] = Updated(row, tx)
      BY <1>0, <1>6, <2>2 DEF UpdateWrite
    <3>5. QED BY <1>1, <3>3, <3>4
  <2>3. CASE tx.import # i
    BY <1>0, <1>1, <1>6, <2>3 DEF UpdateWrite
  <2>4. QED BY <2>2, <2>3
<1>7. ASSUME NEW r \in Request, DismissWrite(r) PROVE Advances(row, imports'[i])
  <2>1. CASE requests[r].import = i
    <3>1. row.status # "ABSENT"
      BY <1>7, <2>1 DEF DismissWrite, IInv, OpenChecked, Present
    <3>2. Advances(row, Dismissed(row))
      BY <1>0, <3>1, RewritesAdvance
    <3>3. QED BY <1>0, <1>7, <2>1, <3>2 DEF DismissWrite
  <2>2. CASE requests[r].import # i
    BY <1>0, <1>1, <1>7, <2>2 DEF DismissWrite
  <2>3. QED BY <2>1, <2>2
<1>8. ASSUME NEW r \in Request, ConfirmCommit(r) PROVE Advances(row, imports'[i])
  <2> DEFINE tx == requests[r]
  <2>1. tx \in ConfirmTx /\ tx.choice \in Choice
    BY <1>8, TxOfOp DEF ConfirmCommit, IInv, TypeOK, ConfirmTx
  <2>2. PICK p \in Payment : imports' = [imports EXCEPT ![tx.import] = Confirmed(@, p, tx.choice)]
    BY <1>8 DEF ConfirmCommit
  <2>3. CASE tx.import = i
    <3>1. row.status = "PENDING" /\ Complete(row.details)
      BY <1>8, <2>3 DEF ConfirmCommit, ConfirmCurrent, IInv, OpenChecked, Confirmable
    <3>2. Advances(row, Confirmed(row, p, tx.choice))
      BY <1>0, <2>1, <3>1, RewritesAdvance
    <3>3. QED BY <1>0, <2>2, <2>3, <3>2
  <2>4. CASE tx.import # i
    BY <1>0, <1>1, <2>2, <2>4
  <2>5. QED BY <2>3, <2>4
<1>9. QED
  BY <1>2, <1>3, <1>4, <1>5, <1>6, <1>7, <1>8 DEF Next, vars, Tick, Restart, DetailView,
     IngestBegin, UpdateBegin, DismissBegin, BeginOnPending, ConfirmBegin,
     IngestAbort, ConfirmConflict, ConfirmAbort, RecordElsewhere

\* The only transaction that takes details to be complete is a correction, and
\* it computed that from the row it read.
LEMMA CorrectionsAreChecked ==
  IInv /\ [Next]_vars =>
    \A r \in Request :
       \/ requests'[r] = requests[r] \/ requests'[r].op # "update"
       \/ /\ requests'[r].import \in Import /\ Present(requests'[r].import)
          /\ Checked(requests'[r], imports[requests'[r].import])
<1> DEFINE Fine(r) ==
             \/ requests'[r] = requests[r] \/ requests'[r].op # "update"
             \/ /\ requests'[r].import \in Import /\ Present(requests'[r].import)
                /\ Checked(requests'[r], imports[requests'[r].import])
<1> SUFFICES ASSUME IInv, [Next]_vars, NEW q \in Request PROVE Fine(q)
  OBVIOUS
<1>0. requests \in [Request -> Tx]
  BY DEF IInv, TypeOK
<1>1. CASE UNCHANGED requests
  BY <1>1
<1>2. CASE Restart
  BY <1>2 DEF Restart, Idle
<1>3. ASSUME NEW r \in Request, NEW tx, tx.op # "update", requests' = [requests EXCEPT ![r] = tx]
      PROVE  Fine(q)
  BY <1>0, <1>3
<1>4. ASSUME NEW r \in Request, NEW i \in Import, NEW patch \in Patch, UpdateBegin(r, i, patch)
      PROVE  Fine(q)
  <2> DEFINE tx == [op |-> "update", import |-> i, patch |-> patch,
                    parse |-> IF Complete(Corrected(imports[i].details, patch))
                              THEN "PARSED" ELSE "NEEDS_DETAILS"]
  <2>1. Present(i) /\ (requests' = [requests EXCEPT ![r] = tx] \/ UNCHANGED requests)
    BY <1>4 DEF UpdateBegin, BeginOnPending, Open
  <2>2. tx.import = i /\ Checked(tx, imports[i])
    BY DEF Checked, Covers, Complete
  <2> HIDE DEF tx
  <2>3. QED BY <1>0, <2>1, <2>2
<1>5. ASSUME NEW r \in Request, NEW i \in Import, DismissBegin(r, i) PROVE Fine(q)
  <2>1. requests' = [requests EXCEPT ![r] = [op |-> "dismiss", import |-> i]] \/ UNCHANGED requests
    BY <1>5 DEF DismissBegin, BeginOnPending, Open
  <2>2. QED BY <1>1, <1>3, <2>1
<1>6. ASSUME NEW r \in Request, NEW i \in Import, NEW choice \in Choice, ConfirmBegin(r, i, choice)
      PROVE  Fine(q)
  <2>1. \/ requests' = [requests EXCEPT ![r] = ConfirmTxAt(i, imports[i], choice, 1)]
        \/ UNCHANGED requests
    BY <1>6 DEF ConfirmBegin, Open
  <2>2. ConfirmTxAt(i, imports[i], choice, 1).op # "update"
    BY DEF ConfirmTxAt
  <2>3. QED BY <1>1, <1>3, <2>1, <2>2
<1>7. ASSUME NEW r \in Request, NEW e \in Event, NEW m \in Message, IngestBegin(r, e, m)
      PROVE  Fine(q)
  <2>1. IngestTxAt(e, m, now, 1).op # "update"
    BY DEF IngestTxAt
  <2>2. requests' = [requests EXCEPT ![r] = IngestTxAt(e, m, now, 1)]
    BY <1>7 DEF IngestBegin, Open
  <2>3. QED BY <1>3, <2>1, <2>2
<1>8. ASSUME NEW r \in Request, Close(r) PROVE Fine(q)
  <2>1. Idle.op # "update"
    BY DEF Idle
  <2>2. QED BY <1>3, <1>8, <2>1 DEF Close
<1>9. ASSUME NEW r \in Request, IngestAbort(r) \/ ConfirmAbort(r) PROVE Fine(q)
  <2>1. PICK tx : tx.op # "update" /\ requests' = [requests EXCEPT ![r] = tx]
    BY <1>9 DEF IngestAbort, ConfirmAbort, Idle, IngestTxAt, ConfirmTxAt
  <2>2. QED BY <1>3, <2>1
<1>10. QED
  BY <1>1, <1>2, <1>4, <1>5, <1>6, <1>7, <1>8, <1>9 DEF Next, vars, Tick, DetailView, List,
     RunOnce, RecordElsewhere, IngestCommit, UpdateWrite, DismissWrite, ConfirmCommit,
     ConfirmConflict

LEMMA ReviewStep ==
  IInv /\ RowsReviewed /\ CorrectionsComplete /\ [Next]_vars
    => RowsReviewed' /\ CorrectionsComplete'
  BY RowsAdvance, CorrectionsAreChecked, AdvanceStep

LEMMA ReviewInvariance == Spec => [](RowsReviewed /\ CorrectionsComplete)
<1>1. Init => RowsReviewed /\ CorrectionsComplete
  BY DEF Init, RowsReviewed, ReviewedRow, NoImport, CorrectionsComplete, Idle
<1>2. QED
  BY <1>1, ReviewStep, Invariance, PTL DEF Spec

LEMMA ParsedIsGiven ==
  ASSUME RowsReviewed, NEW days, NEW provider, provider \notin Enabled,
         NEW i \in Group(Sample(days), provider) \ Waiting(Sample(days))
  PROVE  \A d \in Detail : Given(imports[i], d)
<1>1. /\ i \in Import /\ imports[i].status # "ABSENT" /\ imports[i].parse = "PARSED"
      /\ Parse[imports[i].message].provider = provider
  BY DEF Group, Sample, Waiting, Present, ProviderOf
<1>2. QED BY <1>1 DEF RowsReviewed, ReviewedRow

\* What the summary takes as parsed of a provider that is not enabled lacks no
\* detail but those its owner erased with an explicit null
\* (update, financial-message-review.service.ts:124-153): the stale row a parse
\* status is computed from accounts for nothing else that is missing.
THEOREM ReadyReviewed == Spec => []ReadyIsReviewed
<1>1. RowsReviewed => ReadyIsReviewed
  BY ParsedIsGiven DEF ReadyIsReviewed, Given
<1>2. QED
  BY <1>1, ReviewInvariance, PTL

-----------------------------------------------------------------------------
(* The alarm of the whole sample and those of its groups: shares of groups *)
(* that all lie below a threshold cannot add up to one that reaches it.    *)

\* A part of the sample made of whole groups that is alarming although none of
\* the groups is lagging.
Unexplained(sample, part) ==
    /\ part # {} /\ Alarming(part)
    /\ \A i \in part : /\ Group(sample, ProviderOf(i)) \subseteq part
                       /\ ~Lagging(Group(sample, ProviderOf(i)))

\* A non-empty family of finite sets has a member with no smaller one in it.
LEMMA SmallestOf ==
  ASSUME NEW S, IsFiniteSet(S), NEW F, F \subseteq SUBSET S, F # {}
  PROVE  \E A \in F : \A B \in F : ~(B \subseteq A /\ B # A)
<1>1. IsWellFoundedOn(StrictSubsetOrdering(S), SUBSET S)
  BY FS_StrictSubsetOrderingWellFounded, FS_FiniteSubsetsOfFinite
<1>2. PICK A \in F : \A B \in F : <<B, A>> \notin StrictSubsetOrdering(S)
  BY <1>1, WFMin, Zenon
<1>3. \A B \in F : ~(B \subseteq A /\ B # A)
  BY <1>2 DEF StrictSubsetOrdering
<1>4. QED BY <1>3

\* The rest of a share, once a part below the threshold is taken away.
LEMMA RestOfShare ==
  ASSUME NEW percent \in Nat, NEW w \in Nat, NEW n \in Nat, NEW v \in Nat, NEW m \in Nat,
         100 * w >= percent * n, ~(100 * v >= percent * m)
  PROVE  100 * (w - v) >= percent * (n - m)
<1>1. percent * (n - m) = percent * n - percent * m
  OBVIOUS
<1>2. QED BY <1>1

LEMMA LessOneGroup ==
  ASSUME NEW part, IsFiniteSet(part), NEW group, group \subseteq part,
         Alarming(part), ~Lagging(group)
  PROVE  Alarming(part \ group)
<1> DEFINE w == Cardinality(Waiting(part))
           n == Cardinality(part)
           v == Cardinality(Waiting(group))
           m == Cardinality(group)
<1>1. Waiting(part) \subseteq part /\ Waiting(group) \subseteq part
  BY DEF Waiting
<1>2. IsFiniteSet(Waiting(part)) /\ IsFiniteSet(Waiting(group)) /\ IsFiniteSet(group)
  BY <1>1, FS_Subset
<1>3. w \in Nat /\ n \in Nat /\ v \in Nat /\ m \in Nat
  BY <1>2, FS_CardinalityType
<1>4. part \cap group = group /\ Waiting(part) \cap Waiting(group) = Waiting(group)
  BY DEF Waiting
<1>5. Cardinality(part \ group) = n - m
  <2>1. Cardinality(part \ group) = Cardinality(part) - Cardinality(part \cap group)
    BY FS_Difference, Zenon
  <2>2. QED BY <1>4, <2>1
<1>6. Cardinality(Waiting(part) \ Waiting(group)) = w - v
  BY <1>2, <1>4, FS_Difference
<1>7. Waiting(part) \ Waiting(group) = Waiting(part \ group)
  BY DEF Waiting
<1>8. ReviewPercent \in Nat
  BY PilotAssumption
<1>9. 100 * w >= ReviewPercent * n /\ ~(100 * v >= ReviewPercent * m)
  BY DEF Alarming, Lagging
<1> HIDE DEF w, n, v, m
<1>10. 100 * (w - v) >= ReviewPercent * (n - m)
  BY <1>3, <1>8, <1>9, RestOfShare
<1>11. QED BY <1>5, <1>6, <1>7, <1>10 DEF Alarming

LEMMA NothingUnexplained ==
  ASSUME NEW sample, IsFiniteSet(sample), NEW part \in SUBSET sample
  PROVE  ~Unexplained(sample, part)
<1> DEFINE F == {p \in SUBSET sample : Unexplained(sample, p)}
<1>1. SUFFICES ASSUME F # {} PROVE FALSE
  OBVIOUS
<1>2. F \subseteq SUBSET sample
  OBVIOUS
<1> HIDE DEF F
<1>3. PICK A \in F : \A B \in F : ~(B \subseteq A /\ B # A)
  BY <1>1, <1>2, SmallestOf
<1>4. A \in SUBSET sample /\ Unexplained(sample, A)
  BY DEF F
<1>5. PICK i \in A : TRUE
  BY <1>4 DEF Unexplained
<1> DEFINE group == Group(sample, ProviderOf(i))
<1>6. group \subseteq A /\ ~Lagging(group) /\ Alarming(A) /\ i \in group
  BY <1>4, <1>5 DEF Unexplained, Group
<1>7. A \ group # {}
  BY <1>6 DEF Lagging, Alarming
<1>8. Alarming(A \ group)
  <2>1. IsFiniteSet(A)
    BY <1>4, FS_Subset
  <2> HIDE DEF group
  <2>2. QED BY <1>6, <2>1, LessOneGroup
<1>9. ASSUME NEW j \in A \ group
      PROVE  /\ Group(sample, ProviderOf(j)) \subseteq A \ group
             /\ ~Lagging(Group(sample, ProviderOf(j)))
  BY <1>4, <1>9 DEF Unexplained, Group
<1>10. Unexplained(sample, A \ group) /\ A \ group \in SUBSET sample
  BY <1>4, <1>7, <1>8, <1>9 DEF Unexplained
<1>11. A \ group \in F
  BY <1>10 DEF F
<1>12. QED BY <1>3, <1>6, <1>11

LEMMA AlarmIsExplained ==
  ASSUME NEW days, Health(Sample(days)) = "NEEDS_ATTENTION"
  PROVE  \E provider \in Groups(Sample(days)) :
            Readiness(Sample(days), provider) \in {"NEEDS_ATTENTION", "INSUFFICIENT_DATA"}
<1> DEFINE sample == Sample(days)
<1>1. SUFFICES ASSUME \A i \in sample : ~Lagging(Group(sample, ProviderOf(i)))
      PROVE  FALSE
  BY DEF Groups, Readiness
<1>2. IsFiniteSet(sample)
  BY PilotAssumption, FS_Subset DEF Sample
<1>3. ~Insufficient(sample) /\ Alarming(sample)
  BY DEF Health
<1>4. sample # {}
  BY <1>3, PilotAssumption, FS_EmptySet DEF Insufficient
<1>5. \A i \in sample : Group(sample, ProviderOf(i)) \subseteq sample
  BY DEF Group
<1> HIDE DEF sample
<1>6. Unexplained(sample, sample)
  BY <1>1, <1>3, <1>4, <1>5 DEF Unexplained
<1>7. QED BY <1>2, <1>6, NothingUnexplained

\* An alarm over the whole sample names a provider that lags or of which too
\* little is known, at every moment: the shares of the groups cannot all be
\* below the threshold that their union reaches (summary and providerMetrics,
\* financial-message-pilot.service.ts:82-90, 190-201).
THEOREM AlarmNames == Spec => []AlarmNamesAProvider
<1>1. AlarmNamesAProvider
  BY AlarmIsExplained DEF AlarmNamesAProvider
<1>2. QED
  BY <1>1, PTL

-----------------------------------------------------------------------------
(* The book of receipts.                                                   *)

\* A payment is heard of once it is recorded, and by the reference it carries.
LEMMA HeardOf ==
  ASSUME NEW p \in Payment
  PROVE  /\ ~payments[p].exists => Heard[p] = <<>> /\ Stated[p] = None /\ BookedFrom[p] = None
         /\ Heard[p] # <<>> => payments[p].exists /\ Heard[p][1] = payments[p].reference
<1>1. payments[p].exists => Heard[p] = <<payments[p].reference, payments[p].details>>
  BY DEF Heard
<1>2. ~payments[p].exists => Heard[p] = <<>>
  BY DEF Heard
<1>3. QED
  BY <1>1, <1>2 DEF Stated, BookedFrom, IsIncome

\* What one new payment adds to the book: the payment itself and, when an
\* income is asked for, an income of its own that says the same.
LEMMA ReceiptIsHeard ==
  ASSUME IInv, NEW k \in Payment, NEW row, ~payments[k].exists,
         payments' = [payments EXCEPT ![k] = row],
         row.exists, row.income \in BOOLEAN,
         row.details \in Details, row.reference \in Reference \cup {None},
         row.reference = None \/ \A p \in Payment :
             payments[p].exists => payments[p].reference # row.reference
  PROVE  Receipts!Next
<1>1. /\ payments'[k] = row
      /\ \A p \in Payment : p # k => payments'[p] = payments[p]
  BY DEF IInv, TypeOK
<1>2. Receipts!Hear(k, row.reference, row.details)
  <2>1. Heard[k] = <<>>
    BY HeardOf
  <2>2. Receipts!Unheard(row.reference)
    BY HeardOf DEF Receipts!Unheard
  <2>3. \A p \in Payment : Heard'[p] = IF p = k THEN <<row.reference, row.details>> ELSE Heard[p]
    BY <1>1 DEF Heard
  <2>4. Heard' = [Heard EXCEPT ![k] = <<row.reference, row.details>>]
    BY <2>3 DEF Heard
  <2>5. QED
    BY <2>1, <2>2, <2>4 DEF Receipts!Hear
<1>3. CASE ~row.income
  <2>1. \A p \in Payment : Stated'[p] = Stated[p] /\ BookedFrom'[p] = BookedFrom[p]
    BY <1>1, <1>3, HeardOf DEF Stated, BookedFrom, IsIncome
  <2>2. UNCHANGED <<Stated, BookedFrom>>
    BY <2>1 DEF Stated, BookedFrom
  <2>3. QED
    BY <1>2, <2>2 DEF Receipts!Next
<1>4. CASE row.income
  <2>1. \A p \in Payment : /\ Stated'[p] = IF p = k THEN row.details ELSE Stated[p]
                           /\ BookedFrom'[p] = IF p = k THEN k ELSE BookedFrom[p]
    BY <1>1, <1>4 DEF Stated, BookedFrom, IsIncome
  <2>2. /\ Stated' = [Stated EXCEPT ![k] = row.details]
        /\ BookedFrom' = [BookedFrom EXCEPT ![k] = k]
    BY <2>1 DEF Stated, BookedFrom
  <2>3. BookedFrom[k] = None /\ \A p \in Payment : BookedFrom[p] # k
    BY HeardOf, NoneAssumption DEF BookedFrom, IsIncome
  <2>4. Receipts!State(k, row.details) /\ Receipts!Book(k, k)
    BY <2>2, <2>3 DEF Receipts!State, Receipts!Book
  <2>5. QED
    BY <1>2, <2>4 DEF Receipts!Next
<1>5. QED
  BY <1>3, <1>4

LEMMA ReceiptStep == IInv /\ [Next]_vars => [Receipts!Next]_(Receipts!vars)
<1> SUFFICES ASSUME IInv, [Next]_vars
             PROVE  Receipts!Next \/ UNCHANGED <<Heard, Stated, BookedFrom>>
  BY DEF Receipts!vars
<1>1. ASSUME NEW r \in Request, ConfirmCommit(r) PROVE Receipts!Next
  <2> DEFINE tx == requests[r]
             row == NewPayment(tx)
  <2>1. /\ tx.seen \in ImportRow /\ tx.choice \in Choice
        /\ PaymentKeysFree(tx.import, tx.seen.reference)
    BY <1>1, TxOfOp DEF ConfirmCommit, IInv, TypeOK, ConfirmTx
  <2>2. /\ row.exists /\ row.income \in BOOLEAN /\ row.details \in Details
        /\ row.reference \in Reference \cup {None} /\ row.reference = tx.seen.reference
    BY <2>1 DEF NewPayment, ImportRow, Choice
  <2>3. PICK k \in Payment : ~payments[k].exists /\ payments' = [payments EXCEPT ![k] = row]
    BY <1>1 DEF ConfirmCommit
  <2>4. row.reference = None \/ \A p \in Payment :
            payments[p].exists => payments[p].reference # row.reference
    BY <2>1, <2>2 DEF PaymentKeysFree
  <2> HIDE DEF row
  <2>5. QED
    BY <2>2, <2>3, <2>4, ReceiptIsHeard
<1>2. ASSUME NEW reference \in Reference, NEW class \in Class, RecordElsewhere(reference, class)
      PROVE  Receipts!Next
  <2> DEFINE row == [NoPayment EXCEPT !.exists = TRUE, !.reference = reference, !.class = class]
  <2>1. /\ row.exists /\ row.income = FALSE /\ row.details = NoDetails
        /\ row.reference = reference
    BY DEF NoPayment
  <2>2. NoDetails \in Details
    BY DEF NoDetails, Details
  <2>3. PICK k \in Payment : ~payments[k].exists /\ payments' = [payments EXCEPT ![k] = row]
    BY <1>2 DEF RecordElsewhere
  <2>4. \A p \in Payment : payments[p].exists => payments[p].reference # reference
    BY <1>2 DEF RecordElsewhere
  <2> HIDE DEF row
  <2>5. QED
    BY <2>1, <2>2, <2>3, <2>4, ReceiptIsHeard
<1>3. CASE UNCHANGED payments
  BY <1>3 DEF Heard, Stated, BookedFrom, IsIncome
<1>4. QED
  BY <1>1, <1>2, <1>3 DEF Next, vars, Tick, Restart, List, RunOnce, DetailView,
     IngestBegin, UpdateBegin, DismissBegin, BeginOnPending, ConfirmBegin, IngestCommit,
     IngestAbort, UpdateWrite, DismissWrite, ConfirmConflict, ConfirmAbort

\* The confirmations, their retries and the payments recorded elsewhere
\* implement the book of receipts: a reference is heard of once, and an income
\* booked with a confirmation says for ever what its payment says
\* (confirm, financial-message-review.service.ts:221-296).
THEOREM ReceiptsKept == Spec => ImplementsReceipts
<1>1. Init => Receipts!Init
  <2> SUFFICES ASSUME Init PROVE Receipts!Init
    OBVIOUS
  <2>1. \A p \in Payment : ~payments[p].exists
    BY DEF Init, NoPayment
  <2>2. \A p \in Payment : Heard[p] = <<>> /\ Stated[p] = None /\ BookedFrom[p] = None
    BY <2>1, HeardOf
  <2>3. QED
    BY <2>2 DEF Receipts!Init, Heard, Stated, BookedFrom
<1>2. QED
  BY <1>1, ReceiptStep, Invariance, PTL DEF Spec, ImplementsReceipts, Receipts!Spec

=============================================================================
