------------------------------- MODULE SignIn -------------------------------
(***************************************************************************)
(* Codes sent by e-mail, what they open, and the grants a password is set  *)
(* with.  An address holds one login challenge once it has an account and  *)
(* one registration challenge before; a right code deletes its challenge   *)
(* and, by what it was submitted for, opens a session or issues a grant.   *)
(*                                                                         *)
(* Handlers run READ COMMITTED: what one read may have been replaced or    *)
(* deleted by another before it writes.  A transaction is one step from    *)
(* its first write, which locks the row every rival needs, to its commit.  *)
(***************************************************************************)
EXTENDS Naturals, FiniteSets

CONSTANTS
    Address,      \* normalised e-mail addresses
    Code,         \* the codes randomInt draws from; a code may be drawn again
    Grant,        \* primary keys of PasswordSetupGrant
    Request,      \* HTTP requests the server can have open at once
    MaxAttempts,  \* otp.maxAttempts
    MaxDraws,     \* bound: codes drawn
    MaxMistakes,  \* bound: wrong codes submitted
    None          \* SQL NULL

ASSUME NumbersAssumption ==
    MaxAttempts \in Nat \ {0} /\ MaxDraws \in Nat /\ MaxMistakes \in Nat

ASSUME FiniteAssumption == IsFiniteSet(Address) /\ IsFiniteSet(Request)

VARIABLES
    registered,  \* the addresses with a User row
    challenges,  \* the LoginOtpChallenge and PendingUser tables
    grants,      \* the PasswordSetupGrant table
    requests,    \* what every request is about to do
    late,        \* the mistake each request has answered and not yet counted
    draws,       \* history: codes drawn
    sent,        \* history: how often a code was sent to an address
    accepted,    \* history: how often it opened that address
    mistakes,    \* history: wrong codes submitted while a code was the right one
    passwords    \* history: passwords each grant has set

vars == <<registered, challenges, grants, requests, late, draws, sent, accepted, mistakes,
          passwords>>

-----------------------------------------------------------------------------
(* Rows and handlers under way.                                            *)

Table == {"login", "register"}
Key == Address \X Table

ChallengeRow == [code: Code, live: BOOLEAN, attempts: Nat]
NoGrant == [owner |-> None, consumed |-> FALSE, live |-> FALSE]
GrantRow == [owner: Address, consumed: BOOLEAN, live: BOOLEAN] \cup {NoGrant}

\* A mistake and the table it is counted in next.
Mistake == [key: Key, code: Code, table: Table]

ASSUME NoneAssumption == None \notin Address \cup ChallengeRow \cup Mistake

Purpose == {"session", "grant"}

Idle == [op |-> "idle"]
SendTx == [op: {"send"}, key: Key]
VerifyTx == [op: {"check", "consume"}, key: Key, code: Code, purpose: Purpose]
PasswordTx == [op: {"find", "set"}, grant: Grant, inTime: BOOLEAN]
Tx == {Idle} \cup SendTx \cup VerifyTx \cup PasswordTx

Become(r, tx) == requests' = [requests EXCEPT ![r] = tx]
Open(r, tx) == requests[r] = Idle /\ Become(r, tx)
Close(r) == Become(r, Idle)

\* Where findActiveByEmail sends a request: the login challenge of an existing
\* user or the registration challenge of an address without one.
KeyOf(a) == <<a, IF a \in registered THEN "login" ELSE "register">>

Init ==
    /\ registered = {}
    /\ challenges = [key \in Key |-> None]
    /\ grants = [g \in Grant |-> NoGrant]
    /\ requests = [r \in Request |-> Idle]
    /\ late = [r \in Request |-> None]
    /\ draws = 0
    /\ sent = [x \in Address \X Code |-> 0]
    /\ accepted = [x \in Address \X Code |-> 0]
    /\ mistakes = [code \in Code |-> 0]
    /\ passwords = [g \in Grant |-> 0]

-----------------------------------------------------------------------------
(* Sending a code: look the user up, then upsert the challenge.            *)

SendBegin(r, a) ==
    /\ draws < MaxDraws
    /\ Open(r, [op |-> "send", key |-> KeyOf(a)])
    /\ UNCHANGED <<registered, challenges, grants, late, draws, sent, accepted, mistakes, passwords>>

Drawn(code) == [code |-> code, live |-> TRUE, attempts |-> 0]

Send(r, code) ==
    /\ requests[r].op = "send"
    /\ draws < MaxDraws
    /\ challenges' = [challenges EXCEPT ![requests[r].key] = Drawn(code)]
    /\ draws' = draws + 1
    /\ sent' = [sent EXCEPT ![<<requests[r].key[1], code>>] = @ + 1]
    /\ Close(r)
    /\ UNCHANGED <<registered, grants, late, accepted, mistakes, passwords>>

-----------------------------------------------------------------------------
(* Submitting a code: look the user up, check the challenge, consume it.   *)

\* Bound: a request for a grant begins while there is a key left for it.
GrantsLeft ==
    Cardinality({q \in Request : requests[q].op \in {"check", "consume"}
                                    /\ requests[q].purpose = "grant"})
        < Cardinality({g \in Grant : grants[g] = NoGrant})

SubmitBegin(r, a, code, purpose) ==
    /\ purpose = "grant" => GrantsLeft
    /\ Open(r, [op |-> "check", key |-> KeyOf(a), code |-> code, purpose |-> purpose])
    /\ UNCHANGED <<registered, challenges, grants, late, draws, sent, accepted, mistakes, passwords>>

\* A registration challenge is looked up by its address, the other by its user.
Found(key) == challenges[key]

Usable(row) == row # None /\ row.live /\ row.attempts < MaxAttempts

CheckUnusable(r) ==
    /\ requests[r].op = "check"
    /\ ~Usable(Found(requests[r].key))
    /\ Close(r)
    /\ UNCHANGED <<registered, challenges, grants, late, draws, sent, accepted, mistakes, passwords>>

\* The mistake is counted after the answer, under the hash the challenge held.
CheckWrong(r) ==
    /\ requests[r].op = "check"
    /\ LET tx == requests[r]
           row == Found(tx.key) IN
       /\ Usable(row) /\ row.code # tx.code
       /\ late[r] = None /\ mistakes[row.code] < MaxMistakes
       /\ late' = [late EXCEPT ![r] = [key |-> tx.key, code |-> row.code, table |-> "login"]]
       /\ mistakes' = [mistakes EXCEPT ![row.code] = @ + 1]
    /\ Close(r)
    /\ UNCHANGED <<registered, challenges, grants, draws, sent, accepted, passwords>>

CheckRight(r) ==
    /\ requests[r].op = "check"
    /\ LET row == Found(requests[r].key) IN
       Usable(row) /\ row.code = requests[r].code
    /\ Become(r, [requests[r] EXCEPT !.op = "consume"])
    /\ UNCHANGED <<registered, challenges, grants, late, draws, sent, accepted, mistakes, passwords>>

\* Mutant: the count goes to the address, whatever code it holds by now.
CountedByAddress(key, mistake) == challenges[key] # None /\ key = mistake.key

\* Every challenge that holds the hash, whoever's it is.
Counted(key, mistake) == challenges[key] # None /\ challenges[key].code = mistake.code

\* One statement for the login challenges, then one for the registrations.  A
\* statement may fail, unseen, and the one after it is then not sent.
CountMistake(r) ==
    /\ late[r] # None
    /\ LET mistake == late[r] IN
       \/ UNCHANGED challenges /\ late' = [late EXCEPT ![r] = None]
       \/ /\ challenges' =
                [key \in Key |-> IF key[2] = mistake.table /\ Counted(key, mistake)
                                 THEN [challenges[key] EXCEPT !.attempts = @ + 1]
                                 ELSE challenges[key]]
          /\ late' = [late EXCEPT ![r] =
                IF mistake.table = "login" THEN [mistake EXCEPT !.table = "register"] ELSE None]
    /\ UNCHANGED <<registered, grants, requests, draws, sent, accepted, mistakes, passwords>>

\* Mutant: deleteMany, which does not mind finding nothing.
ConsumableAlways(key) == key[2] = "register" => key[1] \notin registered

\* delete throws when the challenge is gone (P2025); a registration meets the
\* unique index on User.email.  Neither looks at the code again.
Consumable(key) ==
    /\ challenges[key] # None
    /\ key[2] = "register" => key[1] \notin registered

\* Mutant: earlier grants stay usable.
IssuedBesideOthers(a, g) ==
    [grants EXCEPT ![g] = [owner |-> a, consumed |-> FALSE, live |-> TRUE]]

\* Mutant: the update of the earlier grants does not name the user.
IssuedOverAll(a, g) ==
    [h \in Grant |->
        IF h = g THEN [owner |-> a, consumed |-> FALSE, live |-> TRUE]
        ELSE [grants[h] EXCEPT !.consumed = TRUE]]

\* A new grant consumes every other one of its user.
Issued(a, g) ==
    [h \in Grant |->
        IF h = g THEN [owner |-> a, consumed |-> FALSE, live |-> TRUE]
        ELSE IF grants[h].owner = a THEN [grants[h] EXCEPT !.consumed = TRUE] ELSE grants[h]]

\* Users are created by e-mail, or by Google.
NewUser(a) == registered' = registered \cup {a}

Consume(r) ==
    /\ requests[r].op = "consume"
    /\ LET tx == requests[r] IN
       /\ Consumable(tx.key)
       /\ challenges' = [challenges EXCEPT ![tx.key] = None]
       /\ IF tx.key[2] = "register" THEN NewUser(tx.key[1]) ELSE UNCHANGED registered
       /\ \/ tx.purpose = "session" /\ UNCHANGED grants
          \/ /\ tx.purpose = "grant"
             /\ \E g \in Grant : grants[g] = NoGrant /\ grants' = Issued(tx.key[1], g)
       /\ accepted' = [accepted EXCEPT ![<<tx.key[1], tx.code>>] = @ + 1]
    /\ Close(r)
    /\ UNCHANGED <<late, draws, sent, mistakes, passwords>>

ConsumeFails(r) ==
    /\ requests[r].op = "consume"
    /\ ~Consumable(requests[r].key)
    /\ Close(r)
    /\ UNCHANGED <<registered, challenges, grants, late, draws, sent, accepted, mistakes, passwords>>

\* A first sign-in with Google creates the user of an address.
RegisterByGoogle(a) ==
    /\ a \notin registered
    /\ NewUser(a)
    /\ UNCHANGED <<challenges, grants, requests, late, draws, sent, accepted, mistakes, passwords>>

-----------------------------------------------------------------------------
(* Setting a password: read the clock, find the grant, consume it.         *)

SetBegin(r, g) ==
    /\ grants[g] # NoGrant
    /\ Open(r, [op |-> "find", grant |-> g, inTime |-> grants[g].live])
    /\ UNCHANGED <<registered, challenges, grants, late, draws, sent, accepted, mistakes, passwords>>

SetFind(r) ==
    /\ requests[r].op = "find"
    /\ LET tx == requests[r] IN
       IF tx.inTime /\ ~grants[tx.grant].consumed
       THEN Become(r, [tx EXCEPT !.op = "set"]) ELSE Close(r)
    /\ UNCHANGED <<registered, challenges, grants, late, draws, sent, accepted, mistakes, passwords>>

\* consumeIfActive: the row must still be unconsumed when it is locked.
ConsumedNow(g) == ~grants[g].consumed

\* The password commits with the grant; so do the credential and the revocation
\* of the user's sessions, which are left out (for sessions see AccountDeletion).
SetCommit(r) ==
    /\ requests[r].op = "set"
    /\ LET g == requests[r].grant IN
       IF ConsumedNow(g)
       THEN /\ grants' = [grants EXCEPT ![g].consumed = TRUE]
            /\ passwords' = [passwords EXCEPT ![g] = @ + 1]
       ELSE UNCHANGED <<grants, passwords>>
    /\ Close(r)
    /\ UNCHANGED <<registered, challenges, late, draws, sent, accepted, mistakes>>

-----------------------------------------------------------------------------
(* Time, and the specification.                                            *)

ChallengeExpires(key) ==
    /\ challenges[key] # None /\ challenges[key].live
    /\ challenges' = [challenges EXCEPT ![key].live = FALSE]
    /\ UNCHANGED <<registered, grants, requests, late, draws, sent, accepted, mistakes, passwords>>

GrantExpires(g) ==
    /\ grants[g].live
    /\ grants' = [grants EXCEPT ![g].live = FALSE]
    /\ UNCHANGED <<registered, challenges, requests, late, draws, sent, accepted, mistakes, passwords>>

Next ==
    \/ \E key \in Key : ChallengeExpires(key)
    \/ \E g \in Grant : GrantExpires(g)
    \/ \E a \in Address : RegisterByGoogle(a)
    \/ \E r \in Request :
        \/ \E a \in Address : SendBegin(r, a)
        \/ \E code \in Code : Send(r, code)
        \/ \E a \in Address, code \in Code, purpose \in Purpose : SubmitBegin(r, a, code, purpose)
        \/ CheckUnusable(r) \/ CheckWrong(r) \/ CheckRight(r) \/ CountMistake(r)
        \/ Consume(r) \/ ConsumeFails(r)
        \/ \E g \in Grant : SetBegin(r, g)
        \/ SetFind(r) \/ SetCommit(r)

Spec == Init /\ [][Next]_vars

-----------------------------------------------------------------------------
(* Properties.                                                             *)

\* Every table and handler has its type, and only an issued grant is consumed.
TypeOK ==
    /\ registered \subseteq Address
    /\ challenges \in [Key -> ChallengeRow \cup {None}]
    /\ grants \in [Grant -> GrantRow]
    /\ requests \in [Request -> Tx]
    /\ late \in [Request -> Mistake \cup {None}]
    /\ draws \in 0..MaxDraws
    /\ mistakes \in [Code -> 0..MaxMistakes]
    /\ sent \in [Address \X Code -> Nat]
    /\ accepted \in [Address \X Code -> Nat]
    /\ passwords \in [Grant -> Nat]

\* A code opens its address no more often than it was sent there: the code is
\* "deleted on success and is single-use" (email-auth.swagger.ts:71).  A
\* challenge is deleted by its address, so two handlers that checked one code
\* may both go on, the second at the cost of the code sent in between
\* (OtpService.consumeLoginChallenge, otp.service.ts:51-64).
CodeOpensOnce == \A x \in Address \X Code : accepted[x] <= sent[x]

\* A user holds one usable grant at most, whatever verifications overlap: the
\* newest consumes the others, and two that checked one code cannot both issue
\* (PasswordSetupGrantService.issue, password-auth.service.ts:130-140).
OneActiveGrant ==
    \A g, h \in Grant :
        g # h /\ grants[g].owner # None /\ grants[g].owner = grants[h].owner
            => grants[g].consumed \/ grants[h].consumed

\* A grant sets one password, even when two requests present it at once and
\* both find it unconsumed (setPassword, password-auth.service.ts:159-183).
GrantSetsOnce == \A g \in Grant : passwords[g] <= 1

\* No challenge counts more mistakes than were made, at whatever address, while
\* the code it holds was the right one: a mistake counted only after another
\* code was sent leaves the new challenge alone
\* (incrementAttemptsByHash, otp-challenge.repository.ts:120-144).
AttemptsBelongToCode ==
    \A key \in Key : challenges[key] # None
        => challenges[key].attempts <= mistakes[challenges[key].code]

-----------------------------------------------------------------------------
(* The proof of a mailbox these tables implement.                          *)

Outstanding == {key \in Key : challenges[key] # None}

Holders == [g \in Grant |-> grants[g].owner]

Unspent == {g \in Grant : grants[g] # NoGrant /\ ~grants[g].consumed}

Mailbox == INSTANCE MailboxProof
    WITH Nothing <- None, accounts <- registered, outstanding <- Outstanding,
         holder <- Holders, unspent <- Unspent

\* However the handlers of codes, grants, passwords and Google interleave, an
\* address gets one account and only with a code or through Google; every
\* opening uses up a challenge that was sent to the mailbox and presents a code
\* that was, if not always the same one (see CodeOpensOnce); a grant goes to
\* whoever proved the mailbox and takes the place of the earlier ones, and it
\* sets one password
\* (verify, email-otp-auth.service.ts:79-181;
\* verifyPasswordChallenge and setPassword, password-auth.service.ts:102-215).
ImplementsMailbox == Mailbox!Spec
=============================================================================
