-------------------------- MODULE AccountDeletion --------------------------
(***************************************************************************)
(* The life of an account whose user asks for its deletion: the deletion   *)
(* is scheduled a grace period ahead, activity before then cancels it, and *)
(* a timer, or whoever touches the account once it is due, deletes it and  *)
(* ends its sessions.                                                      *)
(*                                                                         *)
(* Handlers run READ COMMITTED.  Each reads the account, later writes it   *)
(* by primary key alone; what lies between is open to every other handler. *)
(***************************************************************************)
EXTENDS Naturals, FiniteSets

CONSTANTS
    User,        \* accounts
    Session,     \* primary keys of Session
    Request,     \* HTTP requests the server can have open at once
    Grace,       \* ACCOUNT_DELETION_GRACE_DAYS
    BatchLimit,  \* accounts a sweep deletes
    MaxTime,     \* bound: the clock stops there
    None         \* SQL NULL

ASSUME NumbersAssumption ==
    Grace \in Nat \ {0} /\ BatchLimit \in Nat \ {0} /\ MaxTime \in Nat

ASSUME NoneAssumption == None \notin Nat \cup User

VARIABLES
    users,     \* the User table
    sessions,  \* the Session table
    requests,  \* what every request is about to do
    sweep,     \* the batch of the deletion sweep and the account under way
    now,       \* the clock, in days
    asked      \* history: the earliest request that scheduled an account's deletion

vars == <<users, sessions, requests, sweep, now, asked>>

-----------------------------------------------------------------------------
(* Rows and handlers under way.                                            *)

Moment == 0..(MaxTime + Grace)

\* An account is DISABLED exactly when it has a deletedAt: nothing else in the
\* code changes the status.
UserRow == [scheduled: Moment \cup {None}, deletedAt: Moment \cup {None}]

SessionRow == [user: User \cup {None}, live: BOOLEAN]

\* One run of finalizeAccountDeletion: the sessions its UPDATE finds.
Work == [user: User, at: Moment, sessions: SUBSET Session]

Purpose == {"act", "signIn", "delete"}

Idle == [op |-> "idle"]
ResolveTx == [op: {"resolve"}, user: User, seen: Moment \cup {None}, then: Purpose]
CancelTx == [op: {"cancel"}, user: User, then: Purpose]
SignInTx == [op: {"signIn"}, user: User]
AskTx == [op: {"ask"}, user: User, seen: Moment \cup {None}]
ScheduleTx == [op: {"schedule"}, user: User, at: 0..MaxTime]
RefreshTx == [op: {"refresh"}, session: Session, cancel: BOOLEAN]
FinalizeTx == [op: {"finalize"}, work: Work]
Tx == {Idle} \cup ResolveTx \cup CancelTx \cup SignInTx \cup AskTx \cup ScheduleTx
      \cup RefreshTx \cup FinalizeTx

NoSweep == [batch |-> {}, work |-> None]

Become(r, tx) == requests' = [requests EXCEPT ![r] = tx]
Open(r, tx) == requests[r] = Idle /\ Become(r, tx)

Deleted(u) == users[u].deletedAt # None
LiveSessions(u) == {s \in Session : sessions[s].user = u /\ sessions[s].live}

\* Mutant: an account is due as soon as its deletion is scheduled.
DueOnceScheduled(moment) == moment # None

Due(moment) == moment # None /\ moment <= now

Init ==
    /\ users = [u \in User |-> [scheduled |-> None, deletedAt |-> None]]
    /\ sessions = [s \in Session |-> [user |-> None, live |-> FALSE]]
    /\ requests = [r \in Request |-> Idle]
    /\ sweep = NoSweep
    /\ now = 0
    /\ asked = [u \in User |-> None]

-----------------------------------------------------------------------------
(* finalizeAccountDeletion: reads the account, ends the sessions it sees,  *)
(* then writes the account, whatever its schedule now is.                  *)

\* Mutant: the account is marked deleted at the moment it was scheduled for.
StartedAtSchedule(u) ==
    [user |-> u, at |-> users[u].scheduled, sessions |-> LiveSessions(u)]

Started(u) == [user |-> u, at |-> now, sessions |-> LiveSessions(u)]

Finalized(work) ==
    /\ users' = [users EXCEPT ![work.user] = [scheduled |-> None, deletedAt |-> work.at]]
    /\ sessions' = [s \in Session |->
           IF s \in work.sessions THEN [sessions[s] EXCEPT !.live = FALSE] ELSE sessions[s]]

\* An account that turns out to be deleted is left alone.
Finalize(r, u) ==
    \/ Deleted(u) /\ Become(r, Idle)
    \/ ~Deleted(u) /\ Become(r, [op |-> "finalize", work |-> Started(u)])

FinalizeCommit(r) ==
    /\ requests[r].op = "finalize"
    /\ Finalized(requests[r].work)
    /\ Become(r, Idle)
    /\ UNCHANGED <<sweep, now, asked>>

-----------------------------------------------------------------------------
(* resolve, which every handler passes: authenticated activity, sign-ins   *)
(* by password or code, and requests for deletion.                         *)

\* Every way in looks the user up: a deleted account is not found.
ResolveBegin(r, u, then) ==
    /\ ~Deleted(u)
    /\ Open(r, [op |-> "resolve", user |-> u, seen |-> users[u].scheduled, then |-> then])
    /\ UNCHANGED <<users, sessions, sweep, now, asked>>

Activity(r, u) == ResolveBegin(r, u, "act")

PasswordLogin(r, u) == ResolveBegin(r, u, "signIn")

RequestDeletion(r, u) == ResolveBegin(r, u, "delete")

Proceed(r, u, then) ==
    Become(r, IF then = "act" THEN Idle ELSE [op |-> "signIn", user |-> u])

\* The clock is read after the row.  A request for deletion goes on with the
\* account it has read; any other activity cancels what is scheduled.
Resolve(r) ==
    /\ requests[r].op = "resolve"
    /\ LET u == requests[r].user
           seen == requests[r].seen
           then == requests[r].then IN
       \/ Due(seen) /\ Finalize(r, u)
       \/ then = "delete" /\ ~Due(seen) /\ Become(r, [op |-> "ask", user |-> u, seen |-> seen])
       \/ then # "delete" /\ seen = None /\ Proceed(r, u, then)
       \/ /\ then # "delete" /\ seen # None /\ ~Due(seen)
          /\ Become(r, [op |-> "cancel", user |-> u, then |-> then])
    /\ UNCHANGED <<users, sessions, sweep, now, asked>>

Cancel(r) ==
    /\ requests[r].op = "cancel"
    /\ users' = [users EXCEPT ![requests[r].user].scheduled = None]
    /\ Proceed(r, requests[r].user, requests[r].then)
    /\ UNCHANGED <<sessions, sweep, now, asked>>

\* The clock is read again: a deletion that is still ahead stands, one that has
\* become due since is scheduled anew, like one that was not scheduled.
Ask(r) ==
    /\ requests[r].op = "ask"
    /\ LET seen == requests[r].seen IN
       \/ seen # None /\ ~Due(seen) /\ Become(r, Idle)
       \/ /\ seen = None \/ Due(seen)
          /\ Become(r, [op |-> "schedule", user |-> requests[r].user, at |-> now])
    /\ UNCHANGED <<users, sessions, sweep, now, asked>>

\* The write by primary key, a grace period after that reading of the clock.
Schedule(r) ==
    /\ requests[r].op = "schedule"
    /\ LET u == requests[r].user
           at == requests[r].at IN
       /\ users' = [users EXCEPT ![u].scheduled = at + Grace]
       /\ asked' = IF asked[u] = None \/ at < asked[u]
                   THEN [asked EXCEPT ![u] = at] ELSE asked
    /\ Become(r, Idle)
    /\ UNCHANGED <<sessions, sweep, now>>

-----------------------------------------------------------------------------
(* Sessions.                                                               *)

\* A session's key is drawn at random: it is one that no session has had.
Opened(s, u) ==
    /\ sessions[s].user = None
    /\ sessions' = [sessions EXCEPT ![s] = [user |-> u, live |-> TRUE]]

\* A sign-in clears the schedule, whatever it now is.
LoggedIn(u) == users' = [users EXCEPT ![u].scheduled = None]

\* A Google sign-in of a known identity reads the account without resolve.
GoogleBegin(r, u) ==
    /\ ~Deleted(u)
    /\ Open(r, [op |-> "signIn", user |-> u])
    /\ UNCHANGED <<users, sessions, sweep, now, asked>>

\* The account is updated and the session created in one transaction.
SignInCommit(r) ==
    /\ requests[r].op = "signIn"
    /\ \E s \in Session : Opened(s, requests[r].user)
    /\ LoggedIn(requests[r].user)
    /\ Become(r, Idle)
    /\ UNCHANGED <<sweep, now, asked>>

CanRefresh(s) == sessions[s].live

\* Refreshing runs resolve inside its transaction: when the account is due it
\* is deleted, the request refused, and the refusal rolls the deletion back.
RefreshBegin(r, s) ==
    /\ CanRefresh(s)
    /\ LET u == sessions[s].user IN
       /\ ~Deleted(u) /\ ~Due(users[u].scheduled)
       /\ Open(r, [op |-> "refresh", session |-> s, cancel |-> users[u].scheduled # None])
    /\ UNCHANGED <<users, sessions, sweep, now, asked>>

RefreshCommit(r) ==
    /\ requests[r].op = "refresh"
    /\ LET old == requests[r].session
           u == sessions[old].user IN
       /\ \E s \in Session :
             /\ sessions[s].user = None
             /\ sessions' = [sessions EXCEPT ![old].live = FALSE,
                                             ![s] = [user |-> u, live |-> TRUE]]
       /\ users' = IF requests[r].cancel THEN [users EXCEPT ![u].scheduled = None] ELSE users
    /\ Become(r, Idle)
    /\ UNCHANGED <<sweep, now, asked>>

\* A session whose time is over ends the same way, and so do those that a
\* password reset revokes.
Logout(s) ==
    /\ sessions[s].live
    /\ sessions' = [sessions EXCEPT ![s].live = FALSE]
    /\ UNCHANGED <<users, requests, sweep, now, asked>>

-----------------------------------------------------------------------------
(* The sweep: one at a time, the accounts longest due first.               *)

\* Mutant: accounts deleted already fill the batch.
DueUsersDeletedToo == {u \in User : Due(users[u].scheduled)}

DueUsers == {u \in User : ~Deleted(u) /\ Due(users[u].scheduled)}

Batches ==
    {b \in SUBSET DueUsers :
        /\ Cardinality(b) = BatchLimit \/ (b = DueUsers /\ Cardinality(b) < BatchLimit)
        /\ \A u \in b, v \in DueUsers \ b : users[u].scheduled <= users[v].scheduled}

SweepBegin ==
    /\ sweep = NoSweep
    /\ \E b \in Batches \ {{}} : sweep' = [NoSweep EXCEPT !.batch = b]
    /\ UNCHANGED <<users, sessions, requests, now, asked>>

SweepNext(u) ==
    /\ u \in sweep.batch /\ sweep.work = None
    /\ sweep' = [batch |-> sweep.batch \ {u},
                 work |-> IF Deleted(u) THEN None ELSE Started(u)]
    /\ UNCHANGED <<users, sessions, requests, now, asked>>

SweepCommit ==
    /\ sweep.work # None
    /\ Finalized(sweep.work)
    /\ sweep' = [sweep EXCEPT !.work = None]
    /\ UNCHANGED <<requests, now, asked>>

\* An error ends the sweep: the rest of the batch waits for the next one.
SweepAbort ==
    /\ sweep # NoSweep
    /\ sweep' = NoSweep
    /\ UNCHANGED <<users, sessions, requests, now, asked>>

-----------------------------------------------------------------------------

\* A refused password or code, a deadlock, or a client that goes away.
Abort(r) ==
    /\ requests[r] # Idle
    /\ Become(r, Idle)
    /\ UNCHANGED <<users, sessions, sweep, now, asked>>

Tick ==
    /\ now < MaxTime
    /\ now' = now + 1
    /\ UNCHANGED <<users, sessions, requests, sweep, asked>>

Restart ==
    /\ requests' = [r \in Request |-> Idle]
    /\ sweep' = NoSweep
    /\ UNCHANGED <<users, sessions, now, asked>>

Next ==
    \/ Tick \/ Restart
    \/ SweepBegin \/ SweepCommit \/ SweepAbort \/ \E u \in User : SweepNext(u)
    \/ \E r \in Request :
        \/ \E u \in User : GoogleBegin(r, u)
        \/ \E u \in User : Activity(r, u) \/ PasswordLogin(r, u) \/ RequestDeletion(r, u)
        \/ Resolve(r) \/ Cancel(r) \/ Ask(r) \/ Schedule(r) \/ FinalizeCommit(r)
        \/ SignInCommit(r) \/ RefreshCommit(r) \/ Abort(r)
        \/ \E s \in Session : RefreshBegin(r, s)
    \/ \E s \in Session : Logout(s)

Spec == Init /\ [][Next]_vars

\* The timer keeps firing, a sweep goes on with its batch, and a deletion the
\* database can do is not aborted for ever.
Fairness ==
    /\ WF_vars(SweepBegin)
    /\ \A u \in User : SF_vars(SweepNext(u))
    /\ SF_vars(SweepCommit)

FairSpec == Spec /\ Fairness

-----------------------------------------------------------------------------
(* Properties.                                                             *)

TypeOK ==
    /\ users \in [User -> UserRow]
    /\ sessions \in [Session -> SessionRow]
    /\ requests \in [Request -> Tx]
    /\ sweep \in [batch: SUBSET User, work: Work \cup {None}]
    /\ now \in 0..MaxTime
    /\ asked \in [User -> Moment \cup {None}]

\* No account is deleted sooner than the grace period after its user first
\* asked for it, by whichever of the sweep, a sign-in or an activity that found
\* it due, however requests for deletion overlap, and whatever was cancelled and
\* asked for again meanwhile
\* (resolve and finalizeAccountDeletion, user-account-lifecycle.service.ts:33-174).
GraceIsGiven ==
    \A u \in User : Deleted(u) =>
        asked[u] # None /\ asked[u] + Grace <= users[u].deletedAt

\* An account does not stay overdue, however many are due and however small the
\* batch: it is deleted, or its deletion is cancelled, or put off by a request
\* for deletion that read the clock before and after it fell due (runSweep,
\* account-deletion-lifecycle.service.ts:44-67; requestAccountDeletion,
\* user-account-lifecycle.service.ts:81-96).
DueIsSettled ==
    \A u \in User : Due(users[u].scheduled) ~> (Deleted(u) \/ ~Due(users[u].scheduled))

\* "Your account is scheduled for deletion in 30 days unless activity is
\* detected." (account-deletion-request.email.ts:23): what is deleted is
\* still scheduled, and due.
DeletedWhenDue ==
    [][\A u \in User : ~Deleted(u) /\ Deleted(u)' => Due(users[u].scheduled)]_vars
=============================================================================
