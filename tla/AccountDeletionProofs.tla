----------------------- MODULE AccountDeletionProofs -----------------------
(***************************************************************************)
(* No account is deleted before its grace period is over, for any number   *)
(* of accounts, sessions and requests, and whatever they cancel and        *)
(* schedule again: every moment a handler may delete an account at, the    *)
(* ones it remembers included, lies a grace period after the user first    *)
(* asked.                                                                  *)
(***************************************************************************)
EXTENDS AccountDeletion, TLAPS

-----------------------------------------------------------------------------
(* The invariant.                                                          *)

\* At this moment the user's grace period is over.
Waited(table, u, moment) == table[u] # None /\ table[u] + Grace <= moment

\* The moments a handler remembers: those it may delete at, and the one at which
\* it was asked for a deletion.
TxWaited(tx, table, time) ==
    /\ tx.op = "schedule" => tx.at <= time
    /\ tx.op = "resolve" /\ tx.seen # None => Waited(table, tx.user, tx.seen)
    /\ tx.op = "finalize" => Waited(table, tx.work.user, tx.work.at)

AskedBefore == \A u \in User : asked[u] # None => asked[u] <= now

SchedulesWait ==
    \A u \in User : users[u].scheduled # None => Waited(asked, u, users[u].scheduled)

RequestsWait == \A r \in Request : TxWaited(requests[r], asked, now)

SweepWaits ==
    /\ \A u \in sweep.batch : Waited(asked, u, now)
    /\ sweep.work # None => Waited(asked, sweep.work.user, sweep.work.at)

IInv ==
    /\ TypeOK
    /\ AskedBefore
    /\ SchedulesWait
    /\ RequestsWait
    /\ SweepWaits
    /\ GraceIsGiven

-----------------------------------------------------------------------------
(* Types.                                                                  *)

LEMMA Numbers ==
    /\ MaxTime \in Nat /\ Grace \in Nat /\ None \notin Nat
    /\ Moment \subseteq Nat /\ None \notin Moment
    /\ \A t \in 0..MaxTime : t \in Moment /\ t + Grace \in Moment
  BY NumbersAssumption, NoneAssumption, SMT DEF Moment

LEMMA Nothing ==
    /\ Idle \in Tx /\ Idle.op = "idle"
    /\ NoSweep \in [batch: SUBSET User, work: Work \cup {None}]
    /\ NoSweep.batch = {} /\ NoSweep.work = None
  BY SMT DEF Idle, Tx, NoSweep

LEMMA TxOfOp ==
    ASSUME NEW tx \in Tx
    PROVE  /\ tx.op = "resolve" =>
                 /\ tx \in ResolveTx /\ tx.user \in User
                 /\ tx.seen \in Moment \cup {None} /\ tx.then \in Purpose
           /\ tx.op = "cancel" => tx \in CancelTx /\ tx.user \in User /\ tx.then \in Purpose
           /\ tx.op = "signIn" => tx \in SignInTx /\ tx.user \in User
           /\ tx.op = "ask" =>
                 tx \in AskTx /\ tx.user \in User /\ tx.seen \in Moment \cup {None}
           /\ tx.op = "schedule" => tx \in ScheduleTx /\ tx.user \in User /\ tx.at \in 0..MaxTime
           /\ tx.op = "refresh" =>
                 tx \in RefreshTx /\ tx.session \in Session /\ tx.cancel \in BOOLEAN
           /\ tx.op = "finalize" => tx \in FinalizeTx /\ tx.work \in Work
  BY SMT DEF Tx, Idle, ResolveTx, CancelTx, SignInTx, AskTx, ScheduleTx, RefreshTx, FinalizeTx

LEMMA WorkOf ==
    ASSUME NEW work \in Work
    PROVE  work.user \in User /\ work.at \in Moment /\ work.sessions \subseteq Session
  BY SMT DEF Work

LEMMA UserRows ==
    ASSUME NEW row \in UserRow, NEW moment \in Moment \cup {None}
    PROVE  /\ row.scheduled \in Moment \cup {None} /\ row.deletedAt \in Moment \cup {None}
           /\ [row EXCEPT !.scheduled = moment] \in UserRow
           /\ [row EXCEPT !.scheduled = moment].scheduled = moment
           /\ [row EXCEPT !.scheduled = moment].deletedAt = row.deletedAt
<1>1. [row EXCEPT !.scheduled = moment] \in UserRow
  BY Zenon DEF UserRow
<1>2. QED BY <1>1, SMT DEF UserRow

LEMMA StartedWork ==
    ASSUME TypeOK, NEW u \in User, Waited(asked, u, now)
    PROVE  Started(u) \in Work /\ Waited(asked, Started(u).user, Started(u).at)
<1>1. now \in Moment /\ LiveSessions(u) \subseteq Session
  BY Numbers DEF TypeOK, LiveSessions
<1>2. Started(u).user = u /\ Started(u).at = now
  BY DEF Started
<1>3. Started(u) \in Work
  BY <1>1 DEF Started, Work
<1>4. QED BY <1>2, <1>3

-----------------------------------------------------------------------------
(* Accounts.                                                               *)

\* An account is left alone, its schedule cleared or set, or it is deleted.
Rewrites(u, row) ==
    \/ row = users[u]
    \/ row = [users[u] EXCEPT !.scheduled = None]
    \/ \E at \in 0..MaxTime :
          /\ row = [users[u] EXCEPT !.scheduled = at + Grace]
          /\ asked'[u] # None /\ asked'[u] <= at
    \/ \E at \in Moment : row = [scheduled |-> None, deletedAt |-> at] /\ Waited(asked, u, at)

AccountStep ==
    /\ \/ UNCHANGED users
       \/ \E u \in User : \E row : Rewrites(u, row) /\ users' = [users EXCEPT ![u] = row]
    /\ \/ UNCHANGED asked
       \/ \E u \in User, at \in 0..now : /\ asked[u] = None \/ at < asked[u]
                                       /\ asked' = [asked EXCEPT ![u] = at]
    /\ now' \in 0..MaxTime /\ now <= now'

LEMMA Finalizes ==
    ASSUME IInv, NEW work \in Work, Waited(asked, work.user, work.at), Finalized(work),
           UNCHANGED <<asked, now>>
    PROVE  AccountStep
<1> DEFINE row == [scheduled |-> None, deletedAt |-> work.at]
<1>1. work.user \in User /\ work.at \in Moment
  BY WorkOf
<1>2. users' = [users EXCEPT ![work.user] = row]
  BY DEF Finalized
<1>3. Rewrites(work.user, row)
  BY <1>1 DEF Rewrites
<1>4. now \in 0..MaxTime /\ now <= now
  BY Numbers DEF IInv, TypeOK
<1> HIDE DEF row
<1>5. QED BY <1>1, <1>2, <1>3, <1>4 DEF AccountStep

LEMMA AccountsStep == IInv /\ [Next]_vars => AccountStep
<1> SUFFICES ASSUME IInv, [Next]_vars PROVE AccountStep
  OBVIOUS
<1>1. /\ users \in [User -> UserRow] /\ requests \in [Request -> Tx]
      /\ asked \in [User -> Moment \cup {None}]
      /\ now \in 0..MaxTime /\ now <= now
      /\ sweep \in [batch: SUBSET User, work: Work \cup {None}]
  BY Numbers DEF IInv, TypeOK
<1>2. ASSUME UNCHANGED <<users, asked, now>> PROVE AccountStep
  BY <1>1, <1>2 DEF AccountStep
<1>3. ASSUME NEW u \in User, users' = [users EXCEPT ![u].scheduled = None],
             UNCHANGED <<asked, now>>
      PROVE  AccountStep
  <2>1. Rewrites(u, [users[u] EXCEPT !.scheduled = None])
    BY DEF Rewrites
  <2>2. users' = [users EXCEPT ![u] = [users[u] EXCEPT !.scheduled = None]]
    BY <1>3
  <2>3. QED BY <1>1, <1>3, <2>1, <2>2 DEF AccountStep
<1>4. ASSUME NEW r \in Request, Cancel(r) PROVE AccountStep
  <2>1. requests[r].user \in User
    BY <1>1, <1>4, TxOfOp DEF Cancel
  <2>2. QED BY <1>3, <1>4, <2>1 DEF Cancel
<1>5. ASSUME NEW r \in Request, SignInCommit(r) PROVE AccountStep
  <2>1. requests[r].user \in User
    BY <1>1, <1>5, TxOfOp DEF SignInCommit
  <2>2. QED BY <1>3, <1>5, <2>1 DEF SignInCommit, LoggedIn
<1>6. ASSUME NEW r \in Request, RefreshCommit(r) PROVE AccountStep
  <2> DEFINE u == sessions[requests[r].session].user
  <2>1. UNCHANGED <<asked, now>>
    BY <1>6 DEF RefreshCommit
  <2>2. UNCHANGED users \/ users' = [users EXCEPT ![u].scheduled = None]
    BY <1>6 DEF RefreshCommit
  <2> HIDE DEF u
  <2>3. CASE u \in User
    BY <1>2, <1>3, <2>1, <2>2, <2>3
  <2>4. CASE u \notin User
    BY <1>1, <1>2, <2>1, <2>2, <2>4
  <2>5. QED BY <2>3, <2>4
<1>7. ASSUME NEW r \in Request, Schedule(r) PROVE AccountStep
  <2> DEFINE u == requests[r].user
             at == requests[r].at
             row == [users[u] EXCEPT !.scheduled = at + Grace]
  <2>1. u \in User /\ at \in 0..MaxTime /\ at <= now
    BY <1>1, <1>7, TxOfOp DEF Schedule, IInv, RequestsWait, TxWaited
  <2>2. users' = [users EXCEPT ![u] = row] /\ UNCHANGED now
    BY <1>7 DEF Schedule
  <2>3. asked' = IF asked[u] = None \/ at < asked[u]
                 THEN [asked EXCEPT ![u] = at] ELSE asked
    BY <1>7 DEF Schedule
  <2> HIDE DEF u, at
  <2>4. asked'[u] # None /\ asked'[u] <= at
    <3>1. at # None /\ at \in Nat /\ asked[u] \in Nat \cup {None}
      BY <1>1, <2>1, Numbers
    <3>2. CASE asked[u] = None \/ at < asked[u]
      BY <1>1, <2>1, <2>3, <3>1, <3>2
    <3>3. CASE ~(asked[u] = None \/ at < asked[u])
      BY <2>3, <3>1, <3>3
    <3>4. QED BY <3>2, <3>3
  <2>5. Rewrites(u, row)
    BY <2>1, <2>4 DEF Rewrites
  <2>6. UNCHANGED asked \/ \E v \in User, t \in 0..now : /\ asked[v] = None \/ t < asked[v]
                                                      /\ asked' = [asked EXCEPT ![v] = t]
    <3>1. at \in 0..now
      BY <1>1, <2>1
    <3>2. QED BY <2>1, <2>3, <3>1
  <2> HIDE DEF row
  <2>7. QED BY <1>1, <2>1, <2>2, <2>5, <2>6 DEF AccountStep
<1>8. ASSUME NEW r \in Request, FinalizeCommit(r) PROVE AccountStep
  <2>1. requests[r].work \in Work
    BY <1>1, <1>8, TxOfOp DEF FinalizeCommit
  <2>2. Waited(asked, requests[r].work.user, requests[r].work.at)
    BY <1>8 DEF IInv, RequestsWait, TxWaited, FinalizeCommit
  <2>3. QED BY <1>8, <2>1, <2>2, Finalizes DEF FinalizeCommit
<1>9. CASE SweepCommit
  <2>1. sweep.work \in Work /\ Waited(asked, sweep.work.user, sweep.work.at)
    BY <1>1, <1>9 DEF SweepCommit, IInv, SweepWaits
  <2>2. QED BY <1>9, <2>1, Finalizes DEF SweepCommit
<1>10. CASE Tick
  <2>1. now + 1 \in 0..MaxTime /\ now <= now + 1
    BY <1>1, <1>10, Numbers DEF Tick
  <2>2. QED BY <1>10, <2>1 DEF Tick, AccountStep
<1>11. QED
  BY <1>2, <1>4, <1>5, <1>6, <1>7, <1>8, <1>9, <1>10
  DEF Next, vars, Restart, SweepBegin, SweepAbort, SweepNext, GoogleBegin, Activity,
      PasswordLogin, RequestDeletion, ResolveBegin, Resolve, Ask, Abort, RefreshBegin, Logout

\* A grace period that is over stays over.
LEMMA StillWaited ==
    ASSUME TypeOK, AccountStep, NEW u \in User, NEW moment \in Nat, Waited(asked, u, moment)
    PROVE  Waited(asked', u, moment)
<1>1. /\ asked \in [User -> Moment \cup {None}] /\ now \in Nat /\ MaxTime \in Nat
      /\ Grace \in Nat /\ None \notin Nat /\ Moment \subseteq Nat
  BY Numbers DEF TypeOK
<1>2. asked[u] \in Nat
  BY <1>1 DEF Waited
<1>3. ASSUME NEW v \in User, NEW at \in 0..now, asked[v] = None \/ at < asked[v],
             asked' = [asked EXCEPT ![v] = at]
      PROVE  asked'[u] \in Nat /\ asked'[u] <= asked[u]
  BY <1>1, <1>2, <1>3
<1>4. asked'[u] \in Nat /\ asked'[u] <= asked[u]
  BY <1>2, <1>3 DEF AccountStep
<1>5. asked[u] + Grace <= moment => asked'[u] + Grace <= moment
  BY <1>1, <1>2, <1>4
<1>6. QED BY <1>1, <1>4, <1>5 DEF Waited

AccountsRight ==
    /\ users' \in [User -> UserRow] /\ now' \in 0..MaxTime
    /\ asked' \in [User -> Moment \cup {None}]
    /\ AskedBefore' /\ SchedulesWait' /\ GraceIsGiven'

LEMMA AccountsStayRight == IInv /\ AccountStep => AccountsRight
<1> SUFFICES ASSUME IInv, AccountStep PROVE AccountsRight
  OBVIOUS
<1>1. /\ users \in [User -> UserRow] /\ asked \in [User -> Moment \cup {None}]
      /\ now \in 0..MaxTime /\ now' \in 0..MaxTime /\ now <= now' /\ TypeOK
  BY DEF IInv, TypeOK, AccountStep
<1>2. now \in Nat /\ now' \in Nat /\ now \in Moment /\ now + Grace \in Moment /\ Grace \in Nat
  BY <1>1, Numbers
<1>3. /\ asked' \in [User -> Moment \cup {None}]
      /\ \A u \in User : asked'[u] # None => asked'[u] \in Nat /\ asked'[u] <= now
  <2>1. \A u \in User : asked[u] # None => asked[u] \in Nat /\ asked[u] <= now
    BY <1>1, Numbers DEF IInv, AskedBefore
  <2>2. CASE UNCHANGED asked
    BY <1>1, <2>1, <2>2
  <2>3. ASSUME NEW u \in User, NEW at \in 0..now, asked' = [asked EXCEPT ![u] = at]
        PROVE  /\ asked' \in [User -> Moment \cup {None}]
               /\ \A v \in User : asked'[v] # None => asked'[v] \in Nat /\ asked'[v] <= now
    <3>1. at \in Nat /\ at <= now /\ at \in Moment
      BY <1>1, <1>2, NumbersAssumption DEF Moment
    <3>2. QED BY <1>1, <2>1, <2>3, <3>1
  <2>4. QED BY <2>2, <2>3 DEF AccountStep
<1>4. AskedBefore'
  BY <1>1, <1>2, <1>3 DEF AskedBefore
<1>5. ASSUME NEW u \in User
      PROVE  /\ users[u] \in UserRow
             /\ users[u].scheduled # None => Waited(asked', u, users[u].scheduled)
             /\ users[u].deletedAt # None => Waited(asked', u, users[u].deletedAt)
  <2>1. users[u] \in UserRow
    BY <1>1
  <2>2. /\ users[u].scheduled # None => users[u].scheduled \in Nat
        /\ users[u].deletedAt # None => users[u].deletedAt \in Nat
    <3>1. users[u].scheduled \in Moment \cup {None} /\ users[u].deletedAt \in Moment \cup {None}
      BY <2>1 DEF UserRow
    <3>2. QED BY <3>1, Numbers
  <2>3. /\ users[u].scheduled # None => Waited(asked, u, users[u].scheduled)
        /\ users[u].deletedAt # None => Waited(asked, u, users[u].deletedAt)
    BY DEF IInv, SchedulesWait, GraceIsGiven, Deleted, Waited
  <2> DEFINE scheduled == users[u].scheduled
             deletedAt == users[u].deletedAt
  <2> HIDE DEF scheduled, deletedAt
  <2>4. /\ scheduled # None => Waited(asked', u, scheduled)
        /\ deletedAt # None => Waited(asked', u, deletedAt)
    BY <1>1, <2>2, <2>3, StillWaited DEF scheduled, deletedAt
  <2>5. QED BY <2>1, <2>4 DEF scheduled, deletedAt
<1>6. ASSUME NEW u \in User, NEW row, Rewrites(u, row)
      PROVE  /\ row \in UserRow
             /\ row.scheduled # None => Waited(asked', u, row.scheduled)
             /\ row.deletedAt # None => Waited(asked', u, row.deletedAt)
  <2>1. CASE row = users[u]
    BY <1>5, <2>1
  <2>2. CASE row = [users[u] EXCEPT !.scheduled = None]
    <3>1. row \in UserRow /\ row.scheduled = None /\ row.deletedAt = users[u].deletedAt
      BY <1>5, <2>2, UserRows
    <3>2. QED BY <1>5, <3>1
  <2>3. ASSUME NEW at \in 0..MaxTime, row = [users[u] EXCEPT !.scheduled = at + Grace],
               asked'[u] # None, asked'[u] <= at
        PROVE  /\ row \in UserRow
               /\ row.scheduled # None => Waited(asked', u, row.scheduled)
               /\ row.deletedAt = users[u].deletedAt
    <3>1. at + Grace \in Moment /\ at \in Nat
      BY Numbers
    <3>2. /\ row \in UserRow /\ row.scheduled = at + Grace
          /\ row.deletedAt = users[u].deletedAt
      BY <1>5, <2>3, <3>1, UserRows
    <3>3. Waited(asked', u, at + Grace)
      BY <1>2, <1>3, <2>3, <3>1 DEF Waited
    <3>4. QED BY <3>2, <3>3
  <2>4. ASSUME NEW at \in Moment, row = [scheduled |-> None, deletedAt |-> at],
               Waited(asked, u, at)
        PROVE  /\ row \in UserRow /\ row.scheduled = None
               /\ Waited(asked', u, row.deletedAt)
    <3>1. Waited(asked', u, at)
      BY <1>1, <2>4, StillWaited, Numbers
    <3>2. QED BY <2>4, <3>1 DEF UserRow
  <2>5. QED BY <1>5, <1>6, <2>1, <2>2, <2>3, <2>4 DEF Rewrites
<1>7. /\ users' \in [User -> UserRow]
      /\ \A u \in User :
            /\ users'[u].scheduled # None => Waited(asked', u, users'[u].scheduled)
            /\ users'[u].deletedAt # None => Waited(asked', u, users'[u].deletedAt)
  <2>1. CASE UNCHANGED users
    BY <1>1, <1>5, <2>1
  <2>2. ASSUME NEW u \in User, NEW row, Rewrites(u, row), users' = [users EXCEPT ![u] = row]
        PROVE  /\ users' \in [User -> UserRow]
               /\ \A v \in User :
                     /\ users'[v].scheduled # None => Waited(asked', v, users'[v].scheduled)
                     /\ users'[v].deletedAt # None => Waited(asked', v, users'[v].deletedAt)
    <3>1. /\ row \in UserRow
          /\ row.scheduled # None => Waited(asked', u, row.scheduled)
          /\ row.deletedAt # None => Waited(asked', u, row.deletedAt)
      BY <1>6, <2>2
    <3>2. \A v \in User : users'[v] = IF v = u THEN row ELSE users[v]
      BY <1>1, <2>2
    <3>3. users' \in [User -> UserRow]
      BY <1>1, <2>2, <3>1
    <3>4. QED BY <1>5, <3>1, <3>2, <3>3
  <2>3. QED BY <2>1, <2>2 DEF AccountStep
<1>8. SchedulesWait' /\ GraceIsGiven'
  BY <1>7 DEF SchedulesWait, GraceIsGiven, Deleted, Waited
<1>9. QED BY <1>1, <1>3, <1>4, <1>7, <1>8 DEF AccountsRight

-----------------------------------------------------------------------------
(* Handlers, the sweep and the sessions.                                   *)

RequestStep ==
    \/ UNCHANGED requests
    \/ requests' = [r \in Request |-> Idle]
    \/ \E r \in Request, tx \in Tx :
          TxWaited(tx, asked, now) /\ requests' = [requests EXCEPT ![r] = tx]

LEMMA RequestsStep == IInv /\ [Next]_vars => RequestStep
<1> SUFFICES ASSUME IInv, [Next]_vars PROVE RequestStep
  OBVIOUS
<1>1. /\ users \in [User -> UserRow] /\ requests \in [Request -> Tx] /\ TypeOK
      /\ now \in 0..MaxTime /\ asked \in [User -> Moment \cup {None}]
  BY DEF IInv, TypeOK
<1>2. ASSUME NEW r \in Request, Become(r, Idle) PROVE RequestStep
  BY <1>2, Nothing DEF RequestStep, Become, TxWaited
<1>3. ASSUME NEW r \in Request, NEW tx \in CancelTx \cup SignInTx \cup AskTx \cup RefreshTx,
             Become(r, tx)
      PROVE  RequestStep
  <2>1. tx \in Tx /\ tx.op \notin {"resolve", "finalize", "schedule"}
    BY SMT DEF Tx, CancelTx, SignInTx, AskTx, RefreshTx
  <2>2. QED BY <1>3, <2>1 DEF RequestStep, Become, TxWaited
<1>4. ASSUME NEW r \in Request, NEW u \in User, NEW then \in Purpose, ResolveBegin(r, u, then)
      PROVE  RequestStep
  <2> DEFINE tx == [op |-> "resolve", user |-> u, seen |-> users[u].scheduled, then |-> then]
  <2>1. users[u].scheduled \in Moment \cup {None}
    BY <1>1, UserRows
  <2>2. tx \in Tx /\ tx.op = "resolve" /\ tx.user = u /\ tx.seen = users[u].scheduled
    BY <2>1 DEF Tx, ResolveTx
  <2>3. requests' = [requests EXCEPT ![r] = tx]
    BY <1>4 DEF ResolveBegin, Open, Become
  <2> HIDE DEF tx
  <2>4. TxWaited(tx, asked, now)
    BY <2>2 DEF TxWaited, IInv, SchedulesWait
  <2>5. QED BY <2>2, <2>3, <2>4 DEF RequestStep
<1>5. ASSUME NEW r \in Request, NEW u \in User, NEW then \in Purpose, Proceed(r, u, then)
      PROVE  RequestStep
  <2>1. CASE then = "act"
    BY <1>2, <1>5, <2>1 DEF Proceed
  <2>2. CASE then # "act"
    <3> DEFINE tx == [op |-> "signIn", user |-> u]
    <3>1. tx \in SignInTx
      BY DEF SignInTx
    <3>2. Become(r, tx)
      BY <1>5, <2>2 DEF Proceed
    <3> HIDE DEF tx
    <3>3. QED BY <1>3, <3>1, <3>2
  <2>3. QED BY <2>1, <2>2
<1>6. ASSUME NEW r \in Request, NEW u \in User, Waited(asked, u, now), Finalize(r, u)
      PROVE  RequestStep
  <2> DEFINE tx == [op |-> "finalize", work |-> Started(u)]
  <2>1. Started(u) \in Work /\ Waited(asked, Started(u).user, Started(u).at)
    BY <1>1, <1>6, StartedWork
  <2>2. tx \in Tx /\ tx.op = "finalize" /\ tx.work = Started(u)
    BY <2>1 DEF Tx, FinalizeTx
  <2>3. Become(r, Idle) \/ Become(r, tx)
    BY <1>6 DEF Finalize
  <2> HIDE DEF tx
  <2>4. TxWaited(tx, asked, now)
    BY <2>1, <2>2 DEF TxWaited
  <2>5. CASE Become(r, tx)
    BY <2>2, <2>4, <2>5 DEF RequestStep, Become
  <2>6. QED BY <1>2, <2>3, <2>5
<1>7. ASSUME NEW r \in Request, Resolve(r) PROVE RequestStep
  <2> DEFINE u == requests[r].user
             seen == requests[r].seen
             then == requests[r].then
  <2>1. u \in User /\ seen \in Moment \cup {None} /\ then \in Purpose /\ requests[r].op = "resolve"
    BY <1>1, <1>7, TxOfOp DEF Resolve
  <2>2. ASSUME Due(seen) PROVE Waited(asked, u, now)
    <3>1. Waited(asked, u, seen)
      BY <2>1, <2>2 DEF Due, IInv, RequestsWait, TxWaited
    <3>2. seen \in Nat /\ seen <= now /\ now \in Nat /\ asked[u] \in Nat /\ Grace \in Nat
      BY <1>1, <2>1, <2>2, <3>1, Numbers DEF Due, Waited
    <3> HIDE DEF u, seen
    <3>3. QED BY <3>1, <3>2 DEF Waited
  <2>3. ASSUME Become(r, [op |-> "cancel", user |-> u, then |-> then]) PROVE RequestStep
    <3>1. [op |-> "cancel", user |-> u, then |-> then] \in CancelTx
      BY <2>1 DEF CancelTx
    <3>2. QED BY <1>3, <2>3, <3>1
  <2>4. \/ Due(seen) /\ Finalize(r, u)
        \/ Proceed(r, u, then)
        \/ Become(r, [op |-> "ask", user |-> u, seen |-> seen])
        \/ Become(r, [op |-> "cancel", user |-> u, then |-> then])
    BY <1>7 DEF Resolve
  <2>5. ASSUME Become(r, [op |-> "ask", user |-> u, seen |-> seen]) PROVE RequestStep
    <3>1. [op |-> "ask", user |-> u, seen |-> seen] \in AskTx
      BY <2>1 DEF AskTx
    <3>2. QED BY <1>3, <2>5, <3>1
  <2> HIDE DEF u, seen, then
  <2>6. QED BY <1>5, <1>6, <2>1, <2>2, <2>3, <2>4, <2>5
<1>8. ASSUME NEW r \in Request, Cancel(r) PROVE RequestStep
  <2>1. requests[r].user \in User /\ requests[r].then \in Purpose
    BY <1>1, <1>8, TxOfOp DEF Cancel
  <2>2. QED BY <1>5, <1>8, <2>1 DEF Cancel
<1>9. ASSUME NEW r \in Request, NEW u \in User, GoogleBegin(r, u) PROVE RequestStep
  <2>1. [op |-> "signIn", user |-> u] \in SignInTx
    BY DEF SignInTx
  <2>2. QED BY <1>3, <1>9, <2>1 DEF GoogleBegin, Open
<1>10. ASSUME NEW r \in Request, NEW s \in Session, RefreshBegin(r, s) PROVE RequestStep
  <2> DEFINE tx == [op |-> "refresh", session |-> s,
                    cancel |-> users[sessions[s].user].scheduled # None]
  <2>1. tx \in RefreshTx
    BY DEF RefreshTx
  <2>2. Become(r, tx)
    BY <1>10 DEF RefreshBegin, Open
  <2> HIDE DEF tx
  <2>3. QED BY <1>3, <2>1, <2>2
<1>11. ASSUME NEW r \in Request,
              \/ Schedule(r) \/ FinalizeCommit(r) \/ SignInCommit(r) \/ RefreshCommit(r)
              \/ Abort(r)
       PROVE  RequestStep
  BY <1>2, <1>11 DEF Schedule, FinalizeCommit, SignInCommit, RefreshCommit, Abort
<1>12. ASSUME UNCHANGED requests \/ Restart PROVE RequestStep
  BY <1>12 DEF Restart, RequestStep
<1>13. ASSUME NEW r \in Request, Ask(r) PROVE RequestStep
  <2> DEFINE u == requests[r].user
             tx == [op |-> "schedule", user |-> u, at |-> now]
  <2>1. u \in User
    BY <1>1, <1>13, TxOfOp DEF Ask
  <2>2. tx \in Tx /\ tx.op = "schedule" /\ tx.at = now
    BY <1>1, <2>1 DEF Tx, ScheduleTx
  <2>3. Become(r, Idle) \/ Become(r, tx)
    BY <1>13 DEF Ask
  <2> HIDE DEF tx, u
  <2>4. TxWaited(tx, asked, now)
    BY <1>1, <2>2, Numbers DEF TxWaited
  <2>5. QED BY <1>2, <2>2, <2>3, <2>4 DEF RequestStep, Become
<1>14. "act" \in Purpose /\ "signIn" \in Purpose /\ "delete" \in Purpose
  BY DEF Purpose
<1>15. QED
  BY <1>4, <1>7, <1>8, <1>9, <1>10, <1>11, <1>12, <1>13, <1>14
  DEF Next, vars, Activity, PasswordLogin, RequestDeletion, Tick, SweepBegin, SweepAbort,
      SweepNext, SweepCommit, Logout

SweepStep ==
    /\ sweep' \in [batch: SUBSET User, work: Work \cup {None}]
    /\ \A u \in sweep'.batch : Waited(asked, u, now)
    /\ sweep'.work # None => Waited(asked, sweep'.work.user, sweep'.work.at)

LEMMA SweepsStep == IInv /\ [Next]_vars => SweepStep
<1> SUFFICES ASSUME IInv, [Next]_vars PROVE SweepStep
  OBVIOUS
<1>1. /\ sweep \in [batch: SUBSET User, work: Work \cup {None}] /\ TypeOK
      /\ \A u \in sweep.batch : Waited(asked, u, now)
      /\ sweep.work # None => Waited(asked, sweep.work.user, sweep.work.at)
  BY DEF IInv, TypeOK, SweepWaits
<1>2. CASE UNCHANGED sweep
  BY <1>1, <1>2 DEF SweepStep
<1>3. CASE sweep' = NoSweep
  BY <1>3, Nothing DEF SweepStep
<1>4. ASSUME NEW b \in Batches, sweep' = [NoSweep EXCEPT !.batch = b] PROVE SweepStep
  <2>1. b \subseteq User /\ \A u \in b : Due(users[u].scheduled)
    BY DEF Batches, DueUsers
  <2>2. sweep'.batch = b /\ sweep'.work = None
        /\ sweep' \in [batch: SUBSET User, work: Work \cup {None}]
    BY <1>4, <2>1, SMT DEF NoSweep
  <2>3. ASSUME NEW u \in b PROVE Waited(asked, u, now)
    <3>1. Waited(asked, u, users[u].scheduled) /\ users[u].scheduled <= now
      BY <2>1 DEF Due, IInv, SchedulesWait
    <3>2. /\ users[u].scheduled \in Nat /\ now \in Nat /\ asked[u] \in Nat /\ Grace \in Nat
      <4>1. users[u] \in UserRow /\ asked[u] \in Moment \cup {None} /\ now \in 0..MaxTime
        BY <1>1, <2>1 DEF TypeOK
      <4>2. users[u].scheduled \in Moment \cup {None} /\ users[u].scheduled # None
        BY <2>1, <4>1, UserRows DEF Due
      <4>3. QED BY <3>1, <4>1, <4>2, Numbers DEF Waited
    <3> DEFINE m == users[u].scheduled
    <3> HIDE DEF m
    <3>3. Waited(asked, u, m) /\ m <= now /\ m \in Nat
      BY <3>1, <3>2 DEF m
    <3>4. QED BY <3>2, <3>3 DEF Waited
  <2>4. QED BY <2>2, <2>3 DEF SweepStep
<1>5. ASSUME NEW u \in User, SweepNext(u) PROVE SweepStep
  <2> DEFINE work == IF Deleted(u) THEN None ELSE Started(u)
  <2>1. u \in sweep.batch /\ sweep' = [batch |-> sweep.batch \ {u}, work |-> work]
    BY <1>5 DEF SweepNext
  <2>2. Started(u) \in Work /\ Waited(asked, Started(u).user, Started(u).at)
    BY <1>1, <2>1, StartedWork
  <2>3. work \in Work \cup {None} /\ (work # None => Waited(asked, work.user, work.at))
    BY <2>2
  <2> HIDE DEF work
  <2>4. sweep.batch \subseteq User
    BY <1>1
  <2>5. /\ sweep' \in [batch: SUBSET User, work: Work \cup {None}]
        /\ sweep'.batch = sweep.batch \ {u} /\ sweep'.work = work
    BY <2>1, <2>3, <2>4
  <2>6. QED BY <1>1, <2>3, <2>5 DEF SweepStep
<1>6. CASE SweepCommit
  <2>1. sweep' = [sweep EXCEPT !.work = None]
    BY <1>6 DEF SweepCommit
  <2>2. sweep' \in [batch: SUBSET User, work: Work \cup {None}]
        /\ sweep'.batch = sweep.batch /\ sweep'.work = None
    BY <1>1, <2>1
  <2>3. QED BY <1>1, <2>2 DEF SweepStep
<1>7. QED
  BY <1>2, <1>3, <1>4, <1>5, <1>6
  DEF Next, vars, Restart, Tick, SweepBegin, SweepAbort, GoogleBegin, Activity, PasswordLogin,
      RequestDeletion, ResolveBegin, Resolve, Cancel, Ask, Schedule, FinalizeCommit, SignInCommit,
      RefreshCommit, Abort, RefreshBegin, Logout

LEMMA SessionRows ==
    ASSUME NEW row \in SessionRow
    PROVE  row.user \in User \cup {None} /\ [row EXCEPT !.live = FALSE] \in SessionRow
<1>1. [row EXCEPT !.live = FALSE] \in SessionRow
  BY Zenon DEF SessionRow
<1>2. QED BY <1>1, SMT DEF SessionRow

LEMMA SessionsType == IInv /\ [Next]_vars => sessions' \in [Session -> SessionRow]
<1> SUFFICES ASSUME IInv, [Next]_vars PROVE sessions' \in [Session -> SessionRow]
  OBVIOUS
<1>1. sessions \in [Session -> SessionRow] /\ requests \in [Request -> Tx]
      /\ sweep \in [batch: SUBSET User, work: Work \cup {None}]
  BY DEF IInv, TypeOK
<1>2. \A s \in Session : [sessions[s] EXCEPT !.live = FALSE] \in SessionRow
  BY <1>1, SessionRows
<1>3. ASSUME NEW work, Finalized(work) PROVE sessions' \in [Session -> SessionRow]
  <2>1. sessions' = [s \in Session |-> IF s \in work.sessions
                                       THEN [sessions[s] EXCEPT !.live = FALSE] ELSE sessions[s]]
    BY <1>3 DEF Finalized
  <2>2. QED BY <1>1, <1>2, <2>1
<1>4. ASSUME NEW r \in Request, NEW s \in Session, SignInCommit(r), Opened(s, requests[r].user)
      PROVE  sessions' \in [Session -> SessionRow]
  <2>1. requests[r].user \in User
    BY <1>1, <1>4, TxOfOp DEF SignInCommit
  <2>2. [user |-> requests[r].user, live |-> TRUE] \in SessionRow
    BY <2>1 DEF SessionRow
  <2>3. QED BY <1>1, <1>4, <2>2 DEF Opened
<1>5. ASSUME NEW r \in Request, RefreshCommit(r) PROVE sessions' \in [Session -> SessionRow]
  <2> DEFINE old == requests[r].session
             u == sessions[old].user
             row == [sessions[old] EXCEPT !.live = FALSE]
  <2>1. old \in Session /\ u \in User \cup {None} /\ row \in SessionRow
    BY <1>1, <1>2, <1>5, TxOfOp, SessionRows DEF RefreshCommit
  <2>2. [user |-> u, live |-> TRUE] \in SessionRow
    BY <2>1 DEF SessionRow
  <2>3. PICK s \in Session : sessions' = [sessions EXCEPT ![old].live = FALSE,
                                                          ![s] = [user |-> u, live |-> TRUE]]
    BY <1>5 DEF RefreshCommit
  <2>4. sessions' = [[sessions EXCEPT ![old] = row] EXCEPT ![s] = [user |-> u, live |-> TRUE]]
    BY <2>3
  <2> HIDE DEF old, u, row
  <2>5. QED BY <1>1, <2>1, <2>2, <2>4
<1>6. ASSUME NEW s \in Session, Logout(s) PROVE sessions' \in [Session -> SessionRow]
  BY <1>1, <1>2, <1>6 DEF Logout
<1>7. ASSUME UNCHANGED sessions PROVE sessions' \in [Session -> SessionRow]
  BY <1>1, <1>7
<1>8. QED
  BY <1>3, <1>4, <1>5, <1>6, <1>7
  DEF Next, vars, Restart, Tick, SweepBegin, SweepAbort, SweepNext, SweepCommit, GoogleBegin,
      Activity, PasswordLogin, RequestDeletion, ResolveBegin, Resolve, Cancel, Ask, Schedule,
      FinalizeCommit, SignInCommit, Abort, RefreshBegin

-----------------------------------------------------------------------------
(* The invariant holds.                                                    *)

LEMMA Initially == Init => IInv
<1> SUFFICES ASSUME Init PROVE IInv
  OBVIOUS
<1>1. TypeOK
  <2>1. [scheduled |-> None, deletedAt |-> None] \in UserRow
        /\ [user |-> None, live |-> FALSE] \in SessionRow /\ 0 \in 0..MaxTime
    BY Numbers DEF UserRow, SessionRow
  <2>2. QED BY <2>1, Nothing DEF Init, TypeOK
<1>2. QED
  BY <1>1, Nothing DEF Init, IInv, AskedBefore, SchedulesWait, RequestsWait, TxWaited,
     SweepWaits, GraceIsGiven, Deleted

LEMMA InvariantStep == IInv /\ [Next]_vars => IInv'
<1> SUFFICES ASSUME IInv, [Next]_vars PROVE IInv'
  OBVIOUS
<1>1. TypeOK /\ AccountStep /\ RequestStep /\ SweepStep /\ AccountsRight
  BY AccountsStep, RequestsStep, SweepsStep, AccountsStayRight DEF IInv
<1>2. requests' \in [Request -> Tx] /\ \A r \in Request : TxWaited(requests'[r], asked, now)
  <2>1. requests \in [Request -> Tx] /\ \A r \in Request : TxWaited(requests[r], asked, now)
    BY DEF IInv, TypeOK, RequestsWait
  <2>2. Idle \in Tx /\ TxWaited(Idle, asked, now)
    BY Nothing DEF TxWaited
  <2> HIDE DEF Idle
  <2>3. QED BY <1>1, <2>1, <2>2 DEF RequestStep
<1>3. ASSUME NEW tx \in Tx, TxWaited(tx, asked, now) PROVE TxWaited(tx, asked', now')
  <2>1. tx.op = "schedule" => tx.at <= now'
    <3>1. now \in Nat /\ now' \in Nat /\ now <= now'
      BY <1>1, Numbers DEF TypeOK, AccountStep
    <3>2. tx.op = "schedule" => tx.at \in Nat /\ tx.at <= now
      BY <1>3, TxOfOp, Numbers DEF TxWaited
    <3>3. QED BY <3>1, <3>2
  <2>2. tx.op = "resolve" /\ tx.seen # None => Waited(asked', tx.user, tx.seen)
    <3> SUFFICES ASSUME tx.op = "resolve", tx.seen # None
        PROVE  Waited(asked', tx.user, tx.seen)
      OBVIOUS
    <3>1. tx.user \in User /\ tx.seen \in Nat /\ Waited(asked, tx.user, tx.seen)
      BY <1>3, TxOfOp, Numbers DEF TxWaited
    <3>2. QED BY <1>1, <3>1, StillWaited
  <2>3. tx.op = "finalize" => Waited(asked', tx.work.user, tx.work.at)
    <3> SUFFICES ASSUME tx.op = "finalize" PROVE Waited(asked', tx.work.user, tx.work.at)
      OBVIOUS
    <3>1. /\ tx.work.user \in User /\ tx.work.at \in Nat
          /\ Waited(asked, tx.work.user, tx.work.at)
      BY <1>3, TxOfOp, WorkOf, Numbers DEF TxWaited
    <3>2. QED BY <1>1, <3>1, StillWaited
  <2>4. QED BY <2>1, <2>2, <2>3 DEF TxWaited
<1>4. RequestsWait'
  BY <1>2, <1>3 DEF RequestsWait
<1>5. SweepWaits'
  <2>1. sweep'.batch \subseteq User /\ sweep'.work \in Work \cup {None}
    BY <1>1 DEF SweepStep
  <2>2. ASSUME NEW u \in sweep'.batch PROVE Waited(asked', u, now')
    <3>1. Waited(asked', u, now) /\ u \in User
      <4>1. u \in User /\ Waited(asked, u, now) /\ now \in Nat
        BY <1>1, <2>1, Numbers DEF SweepStep, TypeOK
      <4>2. QED BY <1>1, <4>1, StillWaited
    <3>2. /\ now \in Nat /\ now' \in Nat /\ now <= now' /\ Grace \in Nat /\ asked'[u] \in Nat
      BY <1>1, <3>1, Numbers DEF TypeOK, AccountsRight, AccountStep, Waited
    <3>3. QED BY <3>1, <3>2 DEF Waited
  <2>3. sweep'.work # None => Waited(asked', sweep'.work.user, sweep'.work.at)
    <3> SUFFICES ASSUME sweep'.work # None
        PROVE  Waited(asked', sweep'.work.user, sweep'.work.at)
      OBVIOUS
    <3> DEFINE work == sweep'.work
    <3>1. work \in Work /\ Waited(asked, work.user, work.at)
      BY <1>1, <2>1 DEF SweepStep
    <3> HIDE DEF work
    <3>2. work.user \in User /\ work.at \in Nat
      BY <3>1, WorkOf, Numbers
    <3>3. Waited(asked', work.user, work.at)
      BY <1>1, <3>1, <3>2, StillWaited
    <3>4. QED BY <3>3 DEF work
  <2>4. QED BY <2>2, <2>3 DEF SweepWaits
<1>6. TypeOK'
  BY <1>1, <1>2, SessionsType DEF TypeOK, AccountsRight, SweepStep
<1>7. QED BY <1>1, <1>4, <1>5, <1>6 DEF IInv, AccountsRight

LEMMA Invariance == Spec => []IInv
<1>1. QED BY Initially, InvariantStep, PTL DEF Spec

\* Accounts, sessions, handlers and the sweep keep their types
\* (User and Session, prisma/schema.prisma; account-deletion-lifecycle.service.ts).
THEOREM TypeCorrect == Spec => []TypeOK
<1>1. IInv => TypeOK
  BY DEF IInv
<1>2. QED BY <1>1, Invariance, PTL

\* No account is deleted before its grace period is over
\* (resolve and finalizeAccountDeletion, user-account-lifecycle.service.ts:33-174).
THEOREM GraceGiven == Spec => []GraceIsGiven
<1>1. IInv => GraceIsGiven
  BY DEF IInv
<1>2. QED BY <1>1, Invariance, PTL
=============================================================================
