---------------------------- MODULE SignInProofs ----------------------------
(***************************************************************************)
(* What SignIn promises for any number of addresses, codes, grants and     *)
(* requests: an opening uses up a challenge and presents a code that was   *)
(* sent to its address, mistakes stay with the code they were made         *)
(* against, and a grant sets one password and is the only usable one of    *)
(* its user.                                                               *)
(***************************************************************************)
EXTENDS SignIn, FiniteSetTheorems, TLAPS

-----------------------------------------------------------------------------
(* The invariant.                                                          *)

\* A handler that found a grant found one that was issued.
GrantsAreIssued ==
    \A r \in Request : requests[r] \in PasswordTx => grants[requests[r].grant] # NoGrant

\* A grant that set its password is used up.
PasswordsUseGrants ==
    \A g \in Grant : passwords[g] # 0 => passwords[g] = 1 /\ grants[g].consumed

\* Mistakes under a code that a challenge of a table may yet have to count.
Waiting(waiting, code, table) ==
    {r \in Request : /\ waiting[r] # None /\ waiting[r].code = code
                     /\ table = "login" => waiting[r].table = "login"}

\* A code's mistakes pay for those that wait and for those a challenge counts.
MistakesPaid ==
    /\ \A code \in Code, table \in Table :
          Cardinality(Waiting(late, code, table)) <= mistakes[code]
    /\ \A key \in Key : challenges[key] # None =>
          challenges[key].attempts + Cardinality(Waiting(late, challenges[key].code, key[2]))
              <= mistakes[challenges[key].code]

\* What is held, and what a request has found right, was sent to its address.
CodesAreSent ==
    /\ \A key \in Key : challenges[key] # None => sent[<<key[1], challenges[key].code>>] > 0
    /\ \A r \in Request : requests[r].op = "consume" =>
          sent[<<requests[r].key[1], requests[r].code>>] > 0

IInv ==
    /\ TypeOK
    /\ GrantsAreIssued
    /\ PasswordsUseGrants
    /\ OneActiveGrant
    /\ CodesAreSent
    /\ MistakesPaid

-----------------------------------------------------------------------------
(* Constants and types.                                                    *)

LEMMA Nothing ==
    /\ NoGrant.owner = None /\ NoGrant.consumed = FALSE /\ NoGrant.live = FALSE
    /\ NoGrant \in GrantRow
    /\ Idle \in Tx /\ Idle.op = "idle" /\ Idle \notin PasswordTx
    /\ None \notin Address
  BY NoneAssumption, SMT DEF NoGrant, GrantRow, Idle, Tx, PasswordTx

LEMMA TxOfOp ==
    ASSUME NEW tx \in Tx
    PROVE  /\ tx.op = "send" => tx \in SendTx /\ tx.key \in Key
           /\ tx.op \in {"check", "consume"} =>
                 /\ tx \in VerifyTx /\ tx.key \in Key /\ tx.code \in Code
                 /\ tx.purpose \in Purpose
           /\ tx.op \in {"find", "set"} =>
                 tx \in PasswordTx /\ tx.grant \in Grant /\ tx.inTime \in BOOLEAN
           /\ tx \in PasswordTx => tx.op \in {"find", "set"}
  BY SMT DEF Tx, Idle, SendTx, VerifyTx, PasswordTx

LEMMA Keys ==
    /\ \A a \in Address : KeyOf(a) \in Key
    /\ \A key \in Key : key[1] \in Address /\ key[2] \in Table
  BY SMT DEF KeyOf, Key, Table

\* A grant that was issued has an owner, and stays issued when it is used up
\* or out of time.
LEMMA GrantRows ==
    ASSUME NEW row \in GrantRow
    PROVE  /\ row # NoGrant => row.owner \in Address
           /\ row.consumed \in BOOLEAN /\ row.live \in BOOLEAN
           /\ row # NoGrant =>
                 /\ [row EXCEPT !.consumed = TRUE] \in GrantRow
                 /\ [row EXCEPT !.consumed = TRUE] # NoGrant
                 /\ [row EXCEPT !.consumed = TRUE].owner = row.owner
                 /\ [row EXCEPT !.consumed = TRUE].consumed
                 /\ [row EXCEPT !.live = FALSE] \in GrantRow
                 /\ [row EXCEPT !.live = FALSE] # NoGrant
                 /\ [row EXCEPT !.live = FALSE].owner = row.owner
                 /\ [row EXCEPT !.live = FALSE].consumed = row.consumed
<1>1. row # NoGrant => row \in [owner: Address, consumed: BOOLEAN, live: BOOLEAN]
  BY DEF GrantRow
<1>2. row # NoGrant =>
          /\ [row EXCEPT !.consumed = TRUE] \in [owner: Address, consumed: BOOLEAN, live: BOOLEAN]
          /\ [row EXCEPT !.live = FALSE] \in [owner: Address, consumed: BOOLEAN, live: BOOLEAN]
  BY <1>1, Zenon
<1>3. row # NoGrant =>
          /\ [row EXCEPT !.consumed = TRUE].owner = row.owner
          /\ [row EXCEPT !.consumed = TRUE].consumed
          /\ [row EXCEPT !.live = FALSE].owner = row.owner
          /\ [row EXCEPT !.live = FALSE].consumed = row.consumed
          /\ row.owner \in Address
  BY <1>1, SMT
<1>4. row.consumed \in BOOLEAN /\ row.live \in BOOLEAN
  <2>1. CASE row = NoGrant
    BY <2>1, Nothing
  <2>2. CASE row # NoGrant
    BY <1>1, <2>2
  <2>3. QED BY <2>1, <2>2
<1>5. QED BY <1>2, <1>3, <1>4, Nothing DEF GrantRow

LEMMA ChallengeRows ==
    ASSUME NEW row \in ChallengeRow
    PROVE  LET more == [row EXCEPT !.attempts = @ + 1]
               old == [row EXCEPT !.live = FALSE] IN
           /\ row.code \in Code /\ row.live \in BOOLEAN /\ row.attempts \in Nat
           /\ more \in ChallengeRow /\ more.code = row.code
           /\ more.attempts = row.attempts + 1
           /\ old \in ChallengeRow /\ old.code = row.code /\ old.attempts = row.attempts
<1>1. row.attempts \in Nat /\ row.attempts + 1 \in Nat
  BY SMT DEF ChallengeRow
<1>2. [row EXCEPT !.attempts = @ + 1] \in ChallengeRow /\ [row EXCEPT !.live = FALSE] \in ChallengeRow
  BY <1>1, Zenon DEF ChallengeRow
<1>3. QED BY <1>1, <1>2, SMT DEF ChallengeRow

LEMMA NoChallenge == None \notin ChallengeRow /\ None \notin Mistake
  BY NoneAssumption

LEMMA DrawnRow ==
    ASSUME NEW code \in Code
    PROVE  Drawn(code) \in ChallengeRow /\ Drawn(code).code = code /\ Drawn(code).attempts = 0
  BY SMT DEF Drawn, ChallengeRow

-----------------------------------------------------------------------------
(* Grants and the passwords they set.                                      *)

\* What was issued stays issued, to the same user, and what is used up stays so.
Kept(g) ==
    grants[g] # NoGrant => /\ grants'[g] # NoGrant
                           /\ grants'[g].owner = grants[g].owner
                           /\ grants[g].consumed => grants'[g].consumed

GrantsRight ==
    /\ grants' \in [Grant -> GrantRow] /\ passwords' \in [Grant -> Nat]
    /\ \A g \in Grant : Kept(g)
    /\ OneActiveGrant'
    /\ PasswordsUseGrants'

GrantStep ==
    \/ UNCHANGED <<grants, passwords>>
    \/ \E a \in Address, g \in Grant :
          grants[g] = NoGrant /\ grants' = Issued(a, g) /\ UNCHANGED passwords
    \/ \E g \in Grant : GrantExpires(g)
    \/ \E g \in Grant :
          /\ grants[g] # NoGrant /\ ConsumedNow(g)
          /\ grants' = [grants EXCEPT ![g].consumed = TRUE]
          /\ passwords' = [passwords EXCEPT ![g] = @ + 1]

LEMMA GrantsStep == IInv /\ [Next]_vars => GrantStep
<1> SUFFICES ASSUME IInv, [Next]_vars PROVE GrantStep
  OBVIOUS
<1>1. ASSUME NEW r \in Request, Consume(r) PROVE GrantStep
  <2>1. requests[r].key[1] \in Address
    BY <1>1, TxOfOp, Keys DEF IInv, TypeOK, Consume
  <2>2. QED BY <1>1, <2>1 DEF Consume, GrantStep
<1>2. ASSUME NEW r \in Request, SetCommit(r) PROVE GrantStep
  <2>1. requests[r].grant \in Grant /\ grants[requests[r].grant] # NoGrant
    BY <1>2, TxOfOp DEF IInv, TypeOK, SetCommit, GrantsAreIssued
  <2>2. QED BY <1>2, <2>1 DEF SetCommit, GrantStep
<1>3. QED
  BY <1>1, <1>2 DEF Next, vars, GrantStep, ChallengeExpires, RegisterByGoogle, SendBegin, Send,
     SubmitBegin, CheckUnusable, CheckWrong, CheckRight, CountMistake, ConsumeFails, SetBegin,
     SetFind

\* A new grant leaves no other usable grant to its user.
LEMMA Issues ==
    ASSUME IInv, NEW a \in Address, NEW g \in Grant, grants[g] = NoGrant,
           grants' = Issued(a, g), UNCHANGED passwords
    PROVE  GrantsRight
<1> DEFINE new == [owner |-> a, consumed |-> FALSE, live |-> TRUE]
<1>1. /\ grants \in [Grant -> GrantRow] /\ passwords \in [Grant -> Nat]
      /\ \A h \in Grant : passwords[h] # 0 => passwords[h] = 1 /\ grants[h].consumed
      /\ OneActiveGrant
  BY DEF IInv, TypeOK, PasswordsUseGrants
<1>2. new \in GrantRow /\ new.owner = a /\ new # NoGrant
  BY Nothing DEF GrantRow
<1> HIDE DEF new
<1>3. \A h \in Grant :
         grants'[h] = IF h = g THEN new
                      ELSE IF grants[h].owner = a THEN [grants[h] EXCEPT !.consumed = TRUE]
                      ELSE grants[h]
  BY DEF Issued, new
<1>4. \A h \in Grant : h # g /\ grants[h].owner = a => grants[h] # NoGrant
  BY Nothing
<1>5. \A h \in Grant : h # g =>
         /\ grants'[h] \in GrantRow /\ grants'[h].owner = grants[h].owner
         /\ grants[h] # NoGrant => grants'[h] # NoGrant
         /\ grants[h].consumed => grants'[h].consumed
         /\ grants[h].owner = a => grants'[h].consumed
  <2> SUFFICES ASSUME NEW h \in Grant, h # g
               PROVE  /\ grants'[h] \in GrantRow /\ grants'[h].owner = grants[h].owner
                      /\ grants[h] # NoGrant => grants'[h] # NoGrant
                      /\ grants[h].consumed => grants'[h].consumed
                      /\ grants[h].owner = a => grants'[h].consumed
    OBVIOUS
  <2> DEFINE row == [grants[h] EXCEPT !.consumed = TRUE]
  <2>1. grants[h] \in GrantRow /\ grants'[h] = IF grants[h].owner = a THEN row ELSE grants[h]
    BY <1>1, <1>3
  <2>2. grants[h].owner = a =>
            row \in GrantRow /\ row # NoGrant /\ row.owner = grants[h].owner /\ row.consumed
    BY <1>4, <2>1, GrantRows
  <2> HIDE DEF row
  <2>3. CASE grants[h].owner = a
    BY <2>1, <2>2, <2>3
  <2>4. CASE grants[h].owner # a
    BY <2>1, <2>4
  <2>5. QED BY <2>3, <2>4
<1>6. grants'[g] = new
  BY <1>3
<1>7. DOMAIN grants' = Grant /\ grants' = [h \in Grant |-> grants'[h]]
  BY DEF Issued
<1>8. grants' \in [Grant -> GrantRow]
  BY <1>2, <1>5, <1>6, <1>7
<1>9. \A h \in Grant : Kept(h)
  BY <1>5 DEF Kept
<1>10. OneActiveGrant'
  BY <1>1, <1>2, <1>5, <1>6 DEF OneActiveGrant
<1>11. passwords[g] = 0
  BY <1>1, Nothing
<1>12. PasswordsUseGrants'
  BY <1>1, <1>5, <1>11 DEF PasswordsUseGrants
<1>13. QED BY <1>1, <1>8, <1>9, <1>10, <1>12 DEF GrantsRight

LEMMA GrantsStayRight == IInv /\ [Next]_vars => GrantsRight
<1> SUFFICES ASSUME IInv, GrantStep PROVE GrantsRight
  BY GrantsStep
<1>1. /\ grants \in [Grant -> GrantRow] /\ passwords \in [Grant -> Nat]
      /\ PasswordsUseGrants /\ OneActiveGrant
  BY DEF IInv, TypeOK
<1>2. CASE UNCHANGED <<grants, passwords>>
  BY <1>1, <1>2 DEF GrantsRight, Kept, PasswordsUseGrants, OneActiveGrant
<1>3. ASSUME NEW g \in Grant, GrantExpires(g) PROVE GrantsRight
  <2> DEFINE row == [grants[g] EXCEPT !.live = FALSE]
  <2>1. grants[g] # NoGrant
    BY <1>3, Nothing DEF GrantExpires
  <2>2. /\ row \in GrantRow /\ row # NoGrant /\ row.owner = grants[g].owner
        /\ row.consumed = grants[g].consumed
    BY <1>1, <2>1, GrantRows
  <2>3. grants' = [grants EXCEPT ![g] = row] /\ UNCHANGED passwords
    BY <1>3 DEF GrantExpires
  <2> HIDE DEF row
  <2>4. /\ grants' \in [Grant -> GrantRow]
        /\ \A h \in Grant : grants'[h].owner = grants[h].owner
                              /\ grants'[h].consumed = grants[h].consumed
        /\ \A h \in Grant : Kept(h)
    BY <1>1, <2>2, <2>3 DEF Kept
  <2>5. QED BY <1>1, <2>3, <2>4 DEF GrantsRight, PasswordsUseGrants, OneActiveGrant
<1>4. ASSUME NEW g \in Grant, grants[g] # NoGrant, ConsumedNow(g),
             grants' = [grants EXCEPT ![g].consumed = TRUE],
             passwords' = [passwords EXCEPT ![g] = @ + 1]
      PROVE  GrantsRight
  <2> DEFINE row == [grants[g] EXCEPT !.consumed = TRUE]
  <2>1. row \in GrantRow /\ row # NoGrant /\ row.owner = grants[g].owner /\ row.consumed
    BY <1>1, <1>4, GrantRows
  <2>2. grants' = [grants EXCEPT ![g] = row]
    BY <1>4
  <2> HIDE DEF row
  <2>3. /\ grants' \in [Grant -> GrantRow] /\ grants'[g].consumed
        /\ \A h \in Grant : h # g => grants'[h] = grants[h]
        /\ \A h \in Grant : grants'[h].owner = grants[h].owner
        /\ \A h \in Grant : Kept(h)
    BY <1>1, <2>1, <2>2 DEF Kept
  <2>4. passwords[g] = 0
    BY <1>1, <1>4 DEF ConsumedNow, PasswordsUseGrants
  <2>5. /\ passwords' \in [Grant -> Nat] /\ passwords'[g] = 1
        /\ \A h \in Grant : h # g => passwords'[h] = passwords[h]
    BY <1>1, <1>4, <2>4
  <2>6. PasswordsUseGrants'
    BY <1>1, <2>3, <2>5 DEF PasswordsUseGrants
  <2>7. OneActiveGrant'
    BY <1>1, <2>3 DEF OneActiveGrant
  <2>8. QED BY <2>3, <2>5, <2>6, <2>7 DEF GrantsRight
<1>5. QED BY <1>2, <1>3, <1>4, Issues DEF GrantStep

-----------------------------------------------------------------------------
(* Challenges: what is held, and what opens, was sent.                     *)

\* The challenges after the statement that counts a mistake in one table.
CountedIn(mistake) ==
    [key \in Key |-> IF key[2] = mistake.table /\ Counted(key, mistake)
                     THEN [challenges[key] EXCEPT !.attempts = @ + 1]
                     ELSE challenges[key]]

ChallengeStep ==
    \/ UNCHANGED <<challenges, sent, accepted, draws>>
    \/ \E key \in Key, code \in Code :
          /\ draws < MaxDraws
          /\ challenges' = [challenges EXCEPT ![key] = Drawn(code)]
          /\ sent' = [sent EXCEPT ![<<key[1], code>>] = @ + 1]
          /\ draws' = draws + 1 /\ UNCHANGED accepted
    \/ \E key \in Key, code \in Code :
          /\ challenges' = [challenges EXCEPT ![key] = None]
          /\ accepted' = [accepted EXCEPT ![<<key[1], code>>] = @ + 1]
          /\ UNCHANGED <<sent, draws>>
    \/ \E key \in Key :
          /\ challenges[key] # None
          /\ challenges' = [challenges EXCEPT ![key].live = FALSE]
          /\ UNCHANGED <<sent, accepted, draws>>
    \/ \E mistake \in Mistake :
          /\ challenges' = CountedIn(mistake)
          /\ UNCHANGED <<sent, accepted, draws>>

LEMMA ChallengesStep == IInv /\ [Next]_vars => ChallengeStep
<1> SUFFICES ASSUME IInv, [Next]_vars PROVE ChallengeStep
  OBVIOUS
<1>1. ASSUME NEW r \in Request, NEW code \in Code, Send(r, code) PROVE ChallengeStep
  <2>1. requests[r].key \in Key
    BY <1>1, TxOfOp DEF IInv, TypeOK, Send
  <2>2. QED BY <1>1, <2>1 DEF Send, ChallengeStep
<1>2. ASSUME NEW r \in Request, Consume(r) PROVE ChallengeStep
  <2>1. requests[r].key \in Key /\ requests[r].code \in Code
    BY <1>2, TxOfOp DEF IInv, TypeOK, Consume
  <2>2. QED BY <1>2, <2>1 DEF Consume, ChallengeStep
<1>3. ASSUME NEW r \in Request, CountMistake(r) PROVE ChallengeStep
  <2>1. late[r] \in Mistake
    BY <1>3 DEF IInv, TypeOK, CountMistake
  <2>2. QED BY <1>3, <2>1 DEF CountMistake, CountedIn, ChallengeStep
<1>4. ASSUME NEW key \in Key, ChallengeExpires(key) PROVE ChallengeStep
  BY <1>4 DEF ChallengeExpires, ChallengeStep
<1>5. QED
  BY <1>1, <1>2, <1>3, <1>4 DEF Next, vars, ChallengeStep, GrantExpires, RegisterByGoogle,
     SendBegin, SubmitBegin, CheckUnusable, CheckWrong, CheckRight, ConsumeFails, SetBegin,
     SetFind, SetCommit

\* A challenge holds what it held, or what was just sent.
SameOrSent(key) ==
    challenges'[key] # None =>
        /\ challenges'[key].code \in Code
        /\ \/ challenges[key] # None /\ challenges'[key].code = challenges[key].code
           \/ sent'[<<key[1], challenges'[key].code>>] > 0

ChallengesRight ==
    /\ challenges' \in [Key -> ChallengeRow \cup {None}]
    /\ sent' \in [Address \X Code -> Nat] /\ accepted' \in [Address \X Code -> Nat]
    /\ draws' \in 0..MaxDraws
    /\ \A x \in Address \X Code : sent'[x] >= sent[x]
    /\ \A key \in Key : SameOrSent(key)

LEMMA ChallengesStayRight == IInv /\ [Next]_vars => ChallengesRight
<1> SUFFICES ASSUME IInv, ChallengeStep PROVE ChallengesRight
  BY ChallengesStep
<1>1. /\ challenges \in [Key -> ChallengeRow \cup {None}]
      /\ sent \in [Address \X Code -> Nat] /\ accepted \in [Address \X Code -> Nat]
      /\ draws \in 0..MaxDraws /\ MaxDraws \in Nat
  BY NumbersAssumption DEF IInv, TypeOK
<1>2. ASSUME \/ UNCHANGED challenges
             \/ /\ challenges' \in [Key -> ChallengeRow \cup {None}]
                /\ \A key \in Key : challenges'[key] # None =>
                      challenges[key] # None /\ challenges'[key].code = challenges[key].code,
             UNCHANGED <<sent, draws>>, accepted' \in [Address \X Code -> Nat]
      PROVE  ChallengesRight
  <2>1. \A key \in Key : challenges'[key] # None =>
           /\ challenges[key] # None /\ challenges'[key].code = challenges[key].code
           /\ challenges[key].code \in Code
    <3>1. \A key \in Key : challenges[key] # None => challenges[key].code \in Code
      BY <1>1, ChallengeRows
    <3>2. QED BY <1>2, <3>1
  <2>2. \A x \in Address \X Code : sent[x] >= sent[x]
    BY <1>1
  <2>3. QED BY <1>1, <1>2, <2>1, <2>2 DEF ChallengesRight, SameOrSent
<1>3. CASE UNCHANGED <<challenges, sent, accepted, draws>>
  BY <1>1, <1>2, <1>3
<1>4. ASSUME NEW key \in Key, NEW code \in Code, draws < MaxDraws,
             challenges' = [challenges EXCEPT ![key] = Drawn(code)],
             sent' = [sent EXCEPT ![<<key[1], code>>] = @ + 1],
             draws' = draws + 1, UNCHANGED accepted
      PROVE  ChallengesRight
  <2>1. Drawn(code) \in ChallengeRow /\ Drawn(code).code = code
    BY DrawnRow
  <2>2. /\ challenges' \in [Key -> ChallengeRow \cup {None}]
        /\ \A k \in Key : challenges'[k] = IF k = key THEN Drawn(code) ELSE challenges[k]
    BY <1>1, <1>4, <2>1
  <2> DEFINE x == <<key[1], code>>
  <2>3. x \in Address \X Code
    BY Keys
  <2>4. sent' = [sent EXCEPT ![x] = @ + 1]
    BY <1>4
  <2>5. sent'[<<key[1], code>>] = sent'[x]
    OBVIOUS
  <2> HIDE DEF x
  <2>6. /\ sent' \in [Address \X Code -> Nat] /\ sent'[x] > 0
        /\ \A y \in Address \X Code : sent'[y] >= sent[y]
    BY <1>1, <2>3, <2>4
  <2>7. ASSUME NEW k \in Key PROVE SameOrSent(k)
    <3>1. CASE k = key
      <4>1. challenges'[k].code = code
        BY <2>1, <2>2, <3>1
      <4>2. QED BY <2>5, <2>6, <3>1, <4>1 DEF SameOrSent
    <3>2. CASE k # key
      <4>1. challenges'[k] = challenges[k]
        BY <2>2, <3>2
      <4>2. challenges[k] # None => challenges[k].code \in Code
        BY <1>1, ChallengeRows
      <4>3. QED BY <4>1, <4>2 DEF SameOrSent
    <3>3. QED BY <3>1, <3>2
  <2>8. QED BY <1>1, <1>4, <2>2, <2>6, <2>7 DEF ChallengesRight
<1>5. ASSUME NEW key \in Key, NEW code \in Code,
             challenges' = [challenges EXCEPT ![key] = None],
             accepted' = [accepted EXCEPT ![<<key[1], code>>] = @ + 1],
             UNCHANGED <<sent, draws>>
      PROVE  ChallengesRight
  <2>1. challenges' \in [Key -> ChallengeRow \cup {None}]
    BY <1>1, <1>5
  <2>2. \A k \in Key : challenges'[k] # None => challenges'[k] = challenges[k]
    BY <1>1, <1>5
  <2>3. <<key[1], code>> \in Address \X Code
    BY Keys
  <2>4. accepted' \in [Address \X Code -> Nat]
    BY <1>1, <1>5, <2>3
  <2>5. QED BY <1>2, <1>5, <2>1, <2>2, <2>4
<1>6. ASSUME NEW key \in Key, challenges[key] # None,
             challenges' = [challenges EXCEPT ![key].live = FALSE],
             UNCHANGED <<sent, accepted, draws>>
      PROVE  ChallengesRight
  <2> DEFINE row == [challenges[key] EXCEPT !.live = FALSE]
  <2>1. row \in ChallengeRow /\ row.code = challenges[key].code
    BY <1>1, <1>6, ChallengeRows
  <2>2. challenges' = [challenges EXCEPT ![key] = row]
    BY <1>6
  <2> HIDE DEF row
  <2>3. QED BY <1>1, <1>2, <1>6, <2>1, <2>2
<1>7. ASSUME NEW mistake \in Mistake, challenges' = CountedIn(mistake),
             UNCHANGED <<sent, accepted, draws>>
      PROVE  ChallengesRight
  <2>1. ASSUME NEW key \in Key
        PROVE  /\ challenges'[key] \in ChallengeRow \cup {None}
               /\ challenges'[key] # None =>
                     challenges[key] # None /\ challenges'[key].code = challenges[key].code
    <3> DEFINE row == [challenges[key] EXCEPT !.attempts = @ + 1]
    <3>1. challenges[key] # None => row \in ChallengeRow /\ row.code = challenges[key].code
      BY <1>1, ChallengeRows
    <3>2. challenges'[key] = IF key[2] = mistake.table /\ Counted(key, mistake)
                             THEN row ELSE challenges[key]
      BY <1>7 DEF CountedIn
    <3> HIDE DEF row
    <3>3. QED BY <1>1, <3>1, <3>2 DEF Counted
  <2>2. challenges' = [key \in Key |-> challenges'[key]]
    BY <1>7 DEF CountedIn
  <2>3. challenges' \in [Key -> ChallengeRow \cup {None}]
    BY <2>1, <2>2
  <2>4. QED BY <1>1, <1>2, <1>7, <2>1, <2>3
<1>8. QED BY <1>3, <1>4, <1>5, <1>6, <1>7 DEF ChallengeStep

\* A request that has found a code right found it held.
LEMMA FoundIsSent ==
    IInv /\ [Next]_vars =>
        \A r \in Request : requests'[r].op = "consume" =>
            /\ requests'[r].key \in Key /\ requests'[r].code \in Code
            /\ sent[<<requests'[r].key[1], requests'[r].code>>] > 0
<1> SUFFICES ASSUME IInv, [Next]_vars, NEW r \in Request, requests'[r].op = "consume"
             PROVE  /\ requests'[r].key \in Key /\ requests'[r].code \in Code
                    /\ sent[<<requests'[r].key[1], requests'[r].code>>] > 0
  OBVIOUS
<1>1. requests \in [Request -> Tx] /\ challenges \in [Key -> ChallengeRow \cup {None}]
  BY DEF IInv, TypeOK
<1>2. CASE requests'[r] = requests[r]
  BY <1>1, <1>2, TxOfOp DEF IInv, CodesAreSent
<1>3. CASE CheckRight(r)
  <2> DEFINE tx == [requests[r] EXCEPT !.op = "consume"]
  <2>1. requests[r] \in VerifyTx /\ requests[r].key \in Key /\ requests[r].code \in Code
    BY <1>1, <1>3, TxOfOp DEF CheckRight
  <2>2. tx.key = requests[r].key /\ tx.code = requests[r].code
    BY <2>1, SMT DEF VerifyTx
  <2>3. requests'[r] = tx
    BY <1>1, <1>3 DEF CheckRight, Become
  <2> HIDE DEF tx
  <2>4. challenges[requests[r].key] # None /\ challenges[requests[r].key].code = requests[r].code
    BY <1>3 DEF CheckRight, Usable, Found
  <2>5. QED BY <2>1, <2>2, <2>3, <2>4 DEF IInv, CodesAreSent
<1>4. ASSUME NEW q \in Request, NEW tx, Become(q, tx), tx.op # "consume"
      PROVE  requests'[r] = requests[r]
  BY <1>1, <1>4 DEF Become
<1>5. ASSUME NEW q \in Request, Close(q) PROVE requests'[r] = requests[r]
  BY <1>4, <1>5, Nothing DEF Close
<1>6. ASSUME NEW q \in Request, NEW a \in Address, SendBegin(q, a) PROVE requests'[r] = requests[r]
  <2> DEFINE tx == [op |-> "send", key |-> KeyOf(a)]
  <2>1. Become(q, tx) /\ tx.op # "consume"
    BY <1>6 DEF SendBegin, Open
  <2> HIDE DEF tx
  <2>2. QED BY <1>4, <2>1
<1>7. ASSUME NEW q \in Request, NEW a \in Address, NEW code \in Code, NEW purpose \in Purpose,
             SubmitBegin(q, a, code, purpose)
      PROVE  requests'[r] = requests[r]
  <2> DEFINE tx == [op |-> "check", key |-> KeyOf(a), code |-> code, purpose |-> purpose]
  <2>1. Become(q, tx) /\ tx.op # "consume"
    BY <1>7 DEF SubmitBegin, Open
  <2> HIDE DEF tx
  <2>2. QED BY <1>4, <2>1
<1>8. ASSUME NEW q \in Request, CheckRight(q), q # r PROVE requests'[r] = requests[r]
  BY <1>1, <1>8 DEF CheckRight, Become
<1>9. ASSUME NEW q \in Request, NEW g \in Grant, SetBegin(q, g) PROVE requests'[r] = requests[r]
  <2> DEFINE tx == [op |-> "find", grant |-> g, inTime |-> grants[g].live]
  <2>1. Become(q, tx) /\ tx.op # "consume"
    BY <1>9 DEF SetBegin, Open
  <2> HIDE DEF tx
  <2>2. QED BY <1>4, <2>1
<1>10. ASSUME NEW q \in Request, SetFind(q) PROVE requests'[r] = requests[r]
  <2> DEFINE tx == [requests[q] EXCEPT !.op = "set"]
  <2>1. requests[q] \in PasswordTx
    BY <1>1, <1>10, TxOfOp DEF SetFind
  <2>2. tx.op = "set"
    BY <2>1, SMT DEF PasswordTx
  <2>3. Become(q, tx) \/ Close(q)
    BY <1>10 DEF SetFind
  <2> HIDE DEF tx
  <2>4. QED BY <1>4, <1>5, <2>2, <2>3
<1>11. ASSUME NEW q \in Request,
              \/ \E code \in Code : Send(q, code)
              \/ CheckUnusable(q) \/ CheckWrong(q) \/ Consume(q) \/ ConsumeFails(q) \/ SetCommit(q)
       PROVE  requests'[r] = requests[r]
  BY <1>5, <1>11 DEF Send, CheckUnusable, CheckWrong, Consume, ConsumeFails, SetCommit
<1>12. CASE UNCHANGED requests
  BY <1>2, <1>12
<1>13. QED
  BY <1>2, <1>3, <1>6, <1>7, <1>8, <1>9, <1>10, <1>11, <1>12
  DEF Next, vars, ChallengeExpires, GrantExpires, RegisterByGoogle, CountMistake

LEMMA CodesStaySent == IInv /\ [Next]_vars => CodesAreSent'
<1> SUFFICES ASSUME IInv, [Next]_vars PROVE CodesAreSent'
  OBVIOUS
<1>1. ChallengesRight
  BY ChallengesStayRight
<1>2. sent \in [Address \X Code -> Nat]
  BY DEF IInv, TypeOK
<1>3. ASSUME NEW key \in Key, NEW code \in Code, sent[<<key[1], code>>] > 0
      PROVE  sent'[<<key[1], code>>] > 0
  <2> DEFINE x == <<key[1], code>>
  <2>1. x \in Address \X Code /\ sent[x] > 0
    BY <1>3, Keys
  <2> HIDE DEF x
  <2>2. sent'[x] > 0
    BY <1>1, <1>2, <2>1 DEF ChallengesRight
  <2>3. QED BY <2>2 DEF x
<1>4. ASSUME NEW key \in Key, challenges'[key] # None
      PROVE  sent'[<<key[1], challenges'[key].code>>] > 0
  BY <1>1, <1>3, <1>4 DEF ChallengesRight, SameOrSent, IInv, CodesAreSent
<1>5. ASSUME NEW r \in Request, requests'[r].op = "consume"
      PROVE  sent'[<<requests'[r].key[1], requests'[r].code>>] > 0
  BY <1>3, <1>5, FoundIsSent
<1>6. QED BY <1>4, <1>5 DEF CodesAreSent

-----------------------------------------------------------------------------
(* Mistakes: a code's pay for those counted against it.                    *)

LEMMA WaitingIsFinite ==
    ASSUME NEW waiting, NEW code, NEW table
    PROVE  /\ IsFiniteSet(Waiting(waiting, code, table))
           /\ Cardinality(Waiting(waiting, code, table)) \in Nat
  BY FiniteAssumption, FS_Subset, FS_CardinalityType DEF Waiting

\* What a request waits for changes the number of those that wait by one.
LEMMA WaitingMoves ==
    ASSUME late \in [Request -> Mistake \cup {None}], NEW r \in Request, NEW mistake,
           late' = [late EXCEPT ![r] = mistake], NEW code, NEW table
    PROVE  LET S == Waiting(late, code, table)
               T == Waiting(late', code, table) IN
           /\ r \in S => Cardinality(S) > 0
           /\ Cardinality(T) = Cardinality(S) + (IF r \in T THEN 1 ELSE 0)
                                             - (IF r \in S THEN 1 ELSE 0)
<1> DEFINE S == Waiting(late, code, table)
           T == Waiting(late', code, table)
           rest == S \ {r}
<1>1. rest = T \ {r}
  BY DEF Waiting
<1>2. IsFiniteSet(S) /\ Cardinality(S) \in Nat /\ IsFiniteSet(T) /\ Cardinality(T) \in Nat
  BY WaitingIsFinite
<1> HIDE DEF S, T
<1>3. IsFiniteSet(rest) /\ Cardinality(rest) \in Nat
  BY <1>2, FS_Subset, FS_CardinalityType
<1>4. Cardinality(S) = Cardinality(rest) + (IF r \in S THEN 1 ELSE 0)
  <2>1. CASE r \in S
    <3>1. Cardinality(rest) = Cardinality(S) - 1
      BY <1>2, <2>1, FS_RemoveElement
    <3>2. QED BY <1>2, <1>3, <2>1, <3>1
  <2>2. CASE r \notin S
    <3>1. rest = S
      BY <2>2
    <3>2. QED BY <1>2, <2>2, <3>1
  <2>3. QED BY <2>1, <2>2
<1>5. Cardinality(T) = Cardinality(rest) + (IF r \in T THEN 1 ELSE 0)
  <2>1. CASE r \in T
    <3>1. Cardinality(T \ {r}) = Cardinality(T) - 1
      BY <1>2, <2>1, FS_RemoveElement
    <3>2. Cardinality(rest) = Cardinality(T) - 1
      BY <1>1, <3>1
    <3>3. QED BY <1>2, <1>3, <2>1, <3>2
  <2>2. CASE r \notin T
    <3>1. rest = T
      BY <1>1, <2>2
    <3>2. QED BY <1>2, <2>2, <3>1
  <2>3. QED BY <2>1, <2>2
<1> HIDE DEF rest
<1>6. /\ r \in S => Cardinality(S) > 0
      /\ Cardinality(T) = Cardinality(S) + (IF r \in T THEN 1 ELSE 0)
                                        - (IF r \in S THEN 1 ELSE 0)
  BY <1>2, <1>3, <1>4, <1>5
<1>7. QED BY <1>6 DEF S, T

\* No challenge counts more than before, or it is a new one.
NoMoreCounted ==
    \A key \in Key : challenges'[key] # None =>
        \/ challenges'[key].attempts = 0 /\ challenges'[key].code \in Code
        \/ /\ challenges[key] # None
           /\ challenges'[key].code = challenges[key].code
           /\ challenges'[key].attempts = challenges[key].attempts

MistakeStep ==
    \/ UNCHANGED <<late, mistakes>> /\ NoMoreCounted
    \/ \E r \in Request, key \in Key, code \in Code :
          /\ late[r] = None /\ mistakes[code] < MaxMistakes
          /\ late' = [late EXCEPT ![r] = [key |-> key, code |-> code, table |-> "login"]]
          /\ mistakes' = [mistakes EXCEPT ![code] = @ + 1]
          /\ UNCHANGED challenges
    \/ \E r \in Request :
          /\ late[r] # None /\ UNCHANGED mistakes
          /\ \/ late' = [late EXCEPT ![r] = None] /\ UNCHANGED challenges
             \/ /\ late' = [late EXCEPT ![r] = IF late[r].table = "login"
                                              THEN [late[r] EXCEPT !.table = "register"]
                                              ELSE None]
                /\ challenges' = CountedIn(late[r])

LEMMA NoMore ==
    ASSUME TypeOK, NEW key \in Key,
           \/ UNCHANGED challenges
           \/ challenges' = [challenges EXCEPT ![key] = None]
           \/ \E code \in Code : challenges' = [challenges EXCEPT ![key] = Drawn(code)]
           \/ /\ challenges[key] # None
              /\ challenges' = [challenges EXCEPT ![key].live = FALSE]
    PROVE  NoMoreCounted
<1>1. challenges \in [Key -> ChallengeRow \cup {None}]
  BY DEF TypeOK
<1>2. CASE UNCHANGED challenges
  BY <1>2 DEF NoMoreCounted
<1>3. CASE challenges' = [challenges EXCEPT ![key] = None]
  BY <1>1, <1>3 DEF NoMoreCounted
<1>4. ASSUME NEW code \in Code, challenges' = [challenges EXCEPT ![key] = Drawn(code)]
      PROVE  NoMoreCounted
  <2>1. Drawn(code).attempts = 0 /\ Drawn(code).code = code
    BY DrawnRow
  <2>2. \A k \in Key : challenges'[k] = IF k = key THEN Drawn(code) ELSE challenges[k]
    BY <1>1, <1>4
  <2>3. QED BY <2>1, <2>2 DEF NoMoreCounted
<1>5. ASSUME challenges[key] # None, challenges' = [challenges EXCEPT ![key].live = FALSE]
      PROVE  NoMoreCounted
  <2> DEFINE row == [challenges[key] EXCEPT !.live = FALSE]
  <2>1. row.code = challenges[key].code /\ row.attempts = challenges[key].attempts
    BY <1>1, <1>5, ChallengeRows
  <2>2. \A k \in Key : challenges'[k] = IF k = key THEN row ELSE challenges[k]
    BY <1>1, <1>5
  <2> HIDE DEF row
  <2>3. QED BY <1>5, <2>1, <2>2 DEF NoMoreCounted
<1>6. QED BY <1>2, <1>3, <1>4, <1>5

LEMMA MistakesStep == IInv /\ [Next]_vars => MistakeStep
<1> SUFFICES ASSUME IInv, [Next]_vars PROVE MistakeStep
  OBVIOUS
<1>1. TypeOK
  BY DEF IInv
<1>2. ASSUME NEW r \in Request, NEW code \in Code, Send(r, code) PROVE MistakeStep
  <2>1. requests[r].key \in Key
    BY <1>1, <1>2, TxOfOp DEF TypeOK, Send
  <2>2. QED BY <1>1, <1>2, <2>1, NoMore DEF Send, MistakeStep
<1>3. ASSUME NEW r \in Request, Consume(r) PROVE MistakeStep
  <2>1. requests[r].key \in Key
    BY <1>1, <1>3, TxOfOp DEF TypeOK, Consume
  <2>2. QED BY <1>1, <1>3, <2>1, NoMore DEF Consume, MistakeStep
<1>4. ASSUME NEW key \in Key, ChallengeExpires(key) PROVE MistakeStep
  BY <1>1, <1>4, NoMore DEF ChallengeExpires, MistakeStep
<1>5. ASSUME NEW r \in Request, CheckWrong(r) PROVE MistakeStep
  <2> DEFINE key == requests[r].key
             code == challenges[key].code
  <2>1. key \in Key
    BY <1>1, <1>5, TxOfOp DEF TypeOK, CheckWrong
  <2>2. challenges[key] \in ChallengeRow
    BY <1>1, <1>5, <2>1 DEF TypeOK, CheckWrong, Usable, Found
  <2>3. code \in Code
    BY <2>2, ChallengeRows
  <2>4. /\ late[r] = None /\ mistakes[code] < MaxMistakes
        /\ late' = [late EXCEPT ![r] = [key |-> key, code |-> code, table |-> "login"]]
        /\ mistakes' = [mistakes EXCEPT ![code] = @ + 1]
        /\ UNCHANGED challenges
    BY <1>5 DEF CheckWrong, Found
  <2> HIDE DEF key, code
  <2>5. QED BY <2>1, <2>3, <2>4 DEF MistakeStep
<1>6. ASSUME NEW r \in Request, CountMistake(r) PROVE MistakeStep
  BY <1>6 DEF CountMistake, CountedIn, MistakeStep
<1>7. ASSUME UNCHANGED <<challenges, late, mistakes>> PROVE MistakeStep
  BY <1>7 DEF MistakeStep, NoMoreCounted
<1>8. QED
  BY <1>2, <1>3, <1>4, <1>5, <1>6, <1>7 DEF Next, vars, GrantExpires, RegisterByGoogle,
     SendBegin, SubmitBegin, CheckUnusable, CheckRight, ConsumeFails, SetBegin, SetFind,
     SetCommit

MistakesRight ==
    /\ late' \in [Request -> Mistake \cup {None}]
    /\ mistakes' \in [Code -> 0..MaxMistakes]
    /\ MistakesPaid'

LEMMA MistakesStayRight == IInv /\ [Next]_vars => MistakesRight
<1> SUFFICES ASSUME IInv, MistakeStep PROVE MistakesRight
  BY MistakesStep
<1> DEFINE W(code, table) == Cardinality(Waiting(late, code, table))
           V(code, table) == Cardinality(Waiting(late', code, table))
<1>1. /\ challenges \in [Key -> ChallengeRow \cup {None}]
      /\ late \in [Request -> Mistake \cup {None}]
      /\ mistakes \in [Code -> 0..MaxMistakes] /\ MaxMistakes \in Nat
  BY NumbersAssumption DEF IInv, TypeOK
<1>2. \A code \in Code, table \in Table :
         /\ W(code, table) \in Nat /\ V(code, table) \in Nat /\ mistakes[code] \in Nat
         /\ W(code, table) <= mistakes[code]
  BY <1>1, WaitingIsFinite DEF IInv, MistakesPaid
<1>3. \A key \in Key : key[2] \in Table /\ (challenges[key] # None =>
         /\ challenges[key].code \in Code /\ challenges[key].attempts \in Nat
         /\ challenges[key].attempts + W(challenges[key].code, key[2])
               <= mistakes[challenges[key].code])
  <2>1. \A key \in Key : challenges[key] # None =>
           challenges[key].code \in Code /\ challenges[key].attempts \in Nat
    BY <1>1, ChallengeRows
  <2>2. QED BY <2>1, Keys DEF IInv, MistakesPaid
<1>4. ASSUME /\ \A code \in Code, table \in Table : V(code, table) <= mistakes'[code]
             /\ \A key \in Key : challenges'[key] # None =>
                   challenges'[key].attempts + V(challenges'[key].code, key[2])
                       <= mistakes'[challenges'[key].code]
      PROVE  MistakesPaid'
  BY <1>4 DEF MistakesPaid
<1>5. CASE UNCHANGED <<late, mistakes>> /\ NoMoreCounted
  <2>1. \A code \in Code, table \in Table :
            V(code, table) = W(code, table) /\ mistakes'[code] = mistakes[code]
    BY <1>5
  <2> HIDE DEF V, W
  <2>2. \A code \in Code, table \in Table : V(code, table) <= mistakes'[code]
    BY <1>2, <2>1
  <2>3. ASSUME NEW key \in Key, challenges'[key] # None
        PROVE  challenges'[key].attempts + V(challenges'[key].code, key[2])
                   <= mistakes'[challenges'[key].code]
    <3>1. CASE challenges'[key].attempts = 0 /\ challenges'[key].code \in Code
      BY <1>2, <1>3, <2>2, <3>1
    <3>2. CASE /\ challenges[key] # None
               /\ challenges'[key].code = challenges[key].code
               /\ challenges'[key].attempts = challenges[key].attempts
      BY <1>3, <2>1, <3>2
    <3>3. QED BY <1>5, <2>3, <3>1, <3>2 DEF NoMoreCounted
  <2>4. QED BY <1>1, <1>4, <1>5, <2>2, <2>3 DEF MistakesRight
<1>6. ASSUME NEW r \in Request, NEW key \in Key, NEW code \in Code,
             late[r] = None, mistakes[code] < MaxMistakes,
             late' = [late EXCEPT ![r] = [key |-> key, code |-> code, table |-> "login"]],
             mistakes' = [mistakes EXCEPT ![code] = @ + 1],
             UNCHANGED challenges
      PROVE  MistakesRight
  <2>1. [key |-> key, code |-> code, table |-> "login"] \in Mistake
    BY DEF Mistake, Table
  <2>2. late' \in [Request -> Mistake \cup {None}]
    BY <1>1, <1>6, <2>1
  <2>3. /\ mistakes' \in [Code -> 0..MaxMistakes]
        /\ \A d \in Code : mistakes'[d] = mistakes[d] + (IF d = code THEN 1 ELSE 0)
    BY <1>1, <1>2, <1>6
  <2>4. \A d \in Code, t \in Table : V(d, t) <= W(d, t) + (IF d = code THEN 1 ELSE 0)
    <3> SUFFICES ASSUME NEW d \in Code, NEW t \in Table
                 PROVE  V(d, t) <= W(d, t) + (IF d = code THEN 1 ELSE 0)
      OBVIOUS
    <3> DEFINE S == Waiting(late, d, t)
               T == Waiting(late', d, t)
    <3>1. late'[r] = [key |-> key, code |-> code, table |-> "login"]
      BY <1>1, <1>6
    <3>2. r \notin S /\ (r \in T => d = code)
      BY <1>6, <3>1 DEF Waiting
    <3>3. Cardinality(T) = Cardinality(S) + (IF r \in T THEN 1 ELSE 0) - (IF r \in S THEN 1 ELSE 0)
      BY <1>1, <1>6, WaitingMoves
    <3>4. Cardinality(S) \in Nat
      BY <1>2
    <3> HIDE DEF S, T
    <3>5. Cardinality(T) <= Cardinality(S) + (IF d = code THEN 1 ELSE 0)
      BY <3>2, <3>3, <3>4
    <3>6. QED BY <3>5 DEF S, T
  <2> HIDE DEF V, W
  <2>5. \A d \in Code, t \in Table : V(d, t) <= mistakes'[d]
    BY <1>2, <2>3, <2>4
  <2>6. ASSUME NEW k \in Key, challenges'[k] # None
        PROVE  challenges'[k].attempts + V(challenges'[k].code, k[2]) <= mistakes'[challenges'[k].code]
    <3> DEFINE d == challenges[k].code
               n == challenges[k].attempts
               t == k[2]
    <3>1. d \in Code /\ t \in Table /\ n \in Nat /\ n + W(d, t) <= mistakes[d]
      BY <1>3, <1>6, <2>6
    <3>2. V(d, t) <= W(d, t) + (IF d = code THEN 1 ELSE 0)
          /\ mistakes'[d] = mistakes[d] + (IF d = code THEN 1 ELSE 0)
          /\ W(d, t) \in Nat /\ V(d, t) \in Nat /\ mistakes[d] \in Nat
      BY <1>2, <2>3, <2>4, <3>1
    <3> HIDE DEF d, n, t
    <3>3. n + V(d, t) <= mistakes'[d]
      BY <3>1, <3>2
    <3>4. QED BY <1>6, <3>3 DEF d, n, t
  <2>7. QED BY <1>4, <2>2, <2>3, <2>5, <2>6 DEF MistakesRight
<1>7. ASSUME NEW r \in Request, late[r] # None, late' = [late EXCEPT ![r] = None],
             UNCHANGED <<challenges, mistakes>>
      PROVE  MistakesRight
  <2>1. late' \in [Request -> Mistake \cup {None}]
    BY <1>1, <1>7
  <2>2. \A d \in Code, t \in Table : V(d, t) <= W(d, t)
    <3> SUFFICES ASSUME NEW d \in Code, NEW t \in Table PROVE V(d, t) <= W(d, t)
      OBVIOUS
    <3>1. r \notin Waiting(late', d, t)
      BY <1>1, <1>7 DEF Waiting
    <3>2. V(d, t) = W(d, t) + 0 - (IF r \in Waiting(late, d, t) THEN 1 ELSE 0)
      BY <1>1, <1>7, <3>1, WaitingMoves
    <3>3. W(d, t) \in Nat
      BY <1>2
    <3> HIDE DEF V, W
    <3>4. QED BY <3>2, <3>3
  <2> HIDE DEF V, W
  <2>3. \A d \in Code, t \in Table : V(d, t) <= mistakes'[d]
    BY <1>2, <1>7, <2>2
  <2>4. ASSUME NEW k \in Key, challenges'[k] # None
        PROVE  challenges'[k].attempts + V(challenges'[k].code, k[2]) <= mistakes'[challenges'[k].code]
    <3> DEFINE d == challenges[k].code
               n == challenges[k].attempts
               t == k[2]
    <3>1. d \in Code /\ t \in Table /\ n \in Nat /\ n + W(d, t) <= mistakes[d]
      BY <1>3, <1>7, <2>4
    <3>2. V(d, t) <= W(d, t) /\ W(d, t) \in Nat /\ V(d, t) \in Nat /\ mistakes[d] \in Nat
      BY <1>2, <2>2, <3>1
    <3> HIDE DEF d, n, t
    <3>3. n + V(d, t) <= mistakes[d]
      BY <3>1, <3>2
    <3>4. QED BY <1>7, <3>3 DEF d, n, t
  <2>5. QED BY <1>1, <1>4, <1>7, <2>1, <2>3, <2>4 DEF MistakesRight
<1>8. ASSUME NEW r \in Request, late[r] # None, UNCHANGED mistakes,
             late' = [late EXCEPT ![r] = IF late[r].table = "login"
                                         THEN [late[r] EXCEPT !.table = "register"] ELSE None],
             challenges' = CountedIn(late[r])
      PROVE  MistakesRight
  <2> DEFINE mistake == late[r]
             next == [mistake EXCEPT !.table = "register"]
  <2>1. mistake \in Mistake
    BY <1>1, <1>8
  <2>2. next \in Mistake /\ next.code = mistake.code /\ next.table = "register"
    BY <2>1 DEF Mistake, Table
  <2>3. mistake.table \in {"login", "register"}
    BY <2>1 DEF Mistake, Table
  <2>4. late'[r] = IF mistake.table = "login" THEN next ELSE None
    BY <1>1, <1>8
  <2>5. late' \in [Request -> Mistake \cup {None}]
    BY <1>1, <1>8, <2>2
  <2> HIDE DEF next
  <2>6. \A d \in Code, t \in Table :
            /\ V(d, t) <= W(d, t)
            /\ d = mistake.code /\ t = mistake.table => V(d, t) + 1 <= W(d, t)
    <3> SUFFICES ASSUME NEW d \in Code, NEW t \in Table
                 PROVE  /\ V(d, t) <= W(d, t)
                        /\ d = mistake.code /\ t = mistake.table => V(d, t) + 1 <= W(d, t)
      OBVIOUS
    <3> DEFINE S == Waiting(late, d, t)
               T == Waiting(late', d, t)
    <3>1. Cardinality(T) = Cardinality(S) + (IF r \in T THEN 1 ELSE 0) - (IF r \in S THEN 1 ELSE 0)
      BY <1>1, <1>8, WaitingMoves
    <3>2. r \in T => r \in S
      BY <1>8, <2>2, <2>3, <2>4 DEF Waiting
    <3>3. d = mistake.code /\ t = mistake.table => r \in S /\ r \notin T
      BY <1>8, <2>2, <2>3, <2>4 DEF Waiting, Table
    <3>4. Cardinality(S) \in Nat
      BY <1>2
    <3> HIDE DEF S, T
    <3>5. /\ Cardinality(T) <= Cardinality(S)
          /\ d = mistake.code /\ t = mistake.table => Cardinality(T) + 1 <= Cardinality(S)
      BY <3>1, <3>2, <3>3, <3>4
    <3>6. QED BY <3>5 DEF S, T
  <2>7. \A k \in Key : challenges'[k] # None =>
           /\ challenges[k] # None /\ challenges'[k].code = challenges[k].code
           /\ \/ challenges'[k].attempts = challenges[k].attempts
              \/ /\ challenges[k].code = mistake.code /\ k[2] = mistake.table
                 /\ challenges'[k].attempts = challenges[k].attempts + 1
    <3> SUFFICES ASSUME NEW k \in Key, challenges'[k] # None
                 PROVE  /\ challenges[k] # None /\ challenges'[k].code = challenges[k].code
                        /\ \/ challenges'[k].attempts = challenges[k].attempts
                           \/ /\ challenges[k].code = mistake.code /\ k[2] = mistake.table
                              /\ challenges'[k].attempts = challenges[k].attempts + 1
      OBVIOUS
    <3> DEFINE row == [challenges[k] EXCEPT !.attempts = @ + 1]
    <3>1. challenges[k] # None => row.code = challenges[k].code
                                   /\ row.attempts = challenges[k].attempts + 1
      BY <1>1, ChallengeRows
    <3>2. challenges'[k] = IF k[2] = mistake.table /\ Counted(k, mistake) THEN row ELSE challenges[k]
      BY <1>8 DEF CountedIn
    <3> HIDE DEF row, mistake
    <3>3. QED BY <3>1, <3>2 DEF Counted
  <2> HIDE DEF V, W, mistake
  <2>8. \A d \in Code, t \in Table : V(d, t) <= mistakes'[d]
    BY <1>2, <1>8, <2>6
  <2>9. ASSUME NEW k \in Key, challenges'[k] # None
        PROVE  challenges'[k].attempts + V(challenges'[k].code, k[2]) <= mistakes'[challenges'[k].code]
    <3> DEFINE d == challenges[k].code
               n == challenges[k].attempts
               m == challenges'[k].attempts
               t == k[2]
    <3>1. d \in Code /\ t \in Table /\ n \in Nat /\ n + W(d, t) <= mistakes[d]
          /\ challenges'[k].code = d
          /\ (m = n \/ (d = mistake.code /\ t = mistake.table /\ m = n + 1))
      BY <1>3, <2>7, <2>9
    <3>2. /\ V(d, t) <= W(d, t) /\ W(d, t) \in Nat /\ V(d, t) \in Nat /\ mistakes[d] \in Nat
          /\ d = mistake.code /\ t = mistake.table => V(d, t) + 1 <= W(d, t)
      BY <1>2, <2>6, <3>1
    <3> HIDE DEF d, n, m, t
    <3>3. m + V(d, t) <= mistakes[d]
      BY <3>1, <3>2
    <3>4. QED BY <1>8, <3>1, <3>3 DEF m, t
  <2>10. QED BY <1>1, <1>4, <1>8, <2>5, <2>8, <2>9 DEF MistakesRight
<1>9. QED BY <1>5, <1>6, <1>7, <1>8 DEF MistakeStep

-----------------------------------------------------------------------------
(* Handlers.                                                               *)

RequestStep ==
    \/ UNCHANGED requests
    \/ \E r \in Request, tx \in Tx :
          /\ requests' = [requests EXCEPT ![r] = tx]
          /\ tx \in PasswordTx => grants[tx.grant] # NoGrant

LEMMA RequestsStep == IInv /\ [Next]_vars => RequestStep
<1> SUFFICES ASSUME IInv, [Next]_vars PROVE RequestStep
  OBVIOUS
<1>1. requests \in [Request -> Tx] /\ grants \in [Grant -> GrantRow]
  BY DEF IInv, TypeOK
<1>2. ASSUME NEW r \in Request, Close(r) PROVE RequestStep
  BY <1>2, Nothing DEF RequestStep, Close, Become
<1>3. ASSUME NEW r \in Request, NEW tx \in SendTx \cup VerifyTx, Become(r, tx)
      PROVE  RequestStep
  <2>1. tx \in Tx /\ tx \notin PasswordTx
    BY SMT DEF Tx, SendTx, VerifyTx, PasswordTx
  <2>2. QED BY <1>3, <2>1 DEF RequestStep, Become
<1>4. ASSUME NEW r \in Request, NEW tx \in PasswordTx, grants[tx.grant] # NoGrant, Become(r, tx)
      PROVE  RequestStep
  BY <1>4 DEF RequestStep, Become, Tx
<1>5. ASSUME NEW r \in Request, NEW a \in Address, SendBegin(r, a) PROVE RequestStep
  <2>1. [op |-> "send", key |-> KeyOf(a)] \in SendTx
    BY Keys DEF SendTx
  <2>2. QED BY <1>3, <1>5, <2>1 DEF SendBegin, Open
<1>6. ASSUME NEW r \in Request, NEW a \in Address, NEW code \in Code, NEW purpose \in Purpose,
             SubmitBegin(r, a, code, purpose)
      PROVE  RequestStep
  <2>1. [op |-> "check", key |-> KeyOf(a), code |-> code, purpose |-> purpose] \in VerifyTx
    BY Keys DEF VerifyTx
  <2>2. QED BY <1>3, <1>6, <2>1 DEF SubmitBegin, Open
<1>7. ASSUME NEW r \in Request, CheckRight(r) PROVE RequestStep
  <2>1. requests[r] \in VerifyTx
    BY <1>1, <1>7, TxOfOp DEF CheckRight
  <2>2. [requests[r] EXCEPT !.op = "consume"] \in VerifyTx
    BY <2>1, Zenon DEF VerifyTx
  <2>3. QED BY <1>3, <1>7, <2>2 DEF CheckRight
<1>8. ASSUME NEW r \in Request, NEW g \in Grant, SetBegin(r, g) PROVE RequestStep
  <2> DEFINE tx == [op |-> "find", grant |-> g, inTime |-> grants[g].live]
  <2>1. tx \in PasswordTx /\ tx.grant = g
    BY <1>1, GrantRows DEF PasswordTx
  <2>2. Become(r, tx) /\ grants[g] # NoGrant
    BY <1>8 DEF SetBegin, Open
  <2> HIDE DEF tx
  <2>3. QED BY <1>4, <2>1, <2>2
<1>9. ASSUME NEW r \in Request, SetFind(r) PROVE RequestStep
  <2>1. requests[r] \in PasswordTx /\ grants[requests[r].grant] # NoGrant
    BY <1>1, <1>9, TxOfOp DEF SetFind, IInv, GrantsAreIssued
  <2> DEFINE tx == [requests[r] EXCEPT !.op = "set"]
  <2>2. tx \in PasswordTx
    BY <2>1, Zenon DEF PasswordTx
  <2>3. tx.grant = requests[r].grant
    BY <2>1, SMT DEF PasswordTx
  <2>4. Become(r, tx) \/ Close(r)
    BY <1>9 DEF SetFind
  <2> HIDE DEF tx
  <2>5. QED BY <1>2, <1>4, <2>1, <2>2, <2>3, <2>4
<1>10. ASSUME NEW r \in Request,
              \/ \E code \in Code : Send(r, code)
              \/ CheckUnusable(r) \/ CheckWrong(r) \/ Consume(r) \/ ConsumeFails(r) \/ SetCommit(r)
       PROVE  RequestStep
  BY <1>2, <1>10 DEF Send, CheckUnusable, CheckWrong, Consume, ConsumeFails, SetCommit
<1>11. ASSUME UNCHANGED requests PROVE RequestStep
  BY <1>11 DEF RequestStep
<1>12. QED
  BY <1>5, <1>6, <1>7, <1>8, <1>9, <1>10, <1>11
  DEF Next, vars, ChallengeExpires, GrantExpires, RegisterByGoogle, CountMistake

-----------------------------------------------------------------------------
(* The invariant holds.                                                    *)

LEMMA Initially == Init => IInv
<1> SUFFICES ASSUME Init PROVE IInv
  OBVIOUS
<1>1. TypeOK
  BY Nothing, NumbersAssumption DEF Init, TypeOK
<1>2. GrantsAreIssued /\ PasswordsUseGrants
  BY Nothing DEF Init, GrantsAreIssued, PasswordsUseGrants
<1>3. OneActiveGrant
  BY Nothing DEF Init, OneActiveGrant
<1>4. CodesAreSent
  BY Nothing DEF Init, CodesAreSent
<1>5. MistakesPaid
  <2>1. \A code, table : Waiting(late, code, table) = {}
    BY DEF Init, Waiting
  <2>2. QED BY <2>1, FS_EmptySet DEF Init, MistakesPaid
<1>6. QED BY <1>1, <1>2, <1>3, <1>4, <1>5 DEF IInv

LEMMA InvariantStep == IInv /\ [Next]_vars => IInv'
<1> SUFFICES ASSUME IInv, [Next]_vars PROVE IInv'
  OBVIOUS
<1>1. GrantsRight /\ ChallengesRight /\ MistakesRight /\ RequestStep
  BY GrantsStayRight, ChallengesStayRight, MistakesStayRight, RequestsStep
<1>2. requests \in [Request -> Tx] /\ registered \subseteq Address
  BY DEF IInv, TypeOK
<1>3. requests' \in [Request -> Tx]
  BY <1>1, <1>2 DEF RequestStep
<1>4. registered' \subseteq Address
  <2>1. ASSUME NEW r \in Request, Consume(r) PROVE registered' \subseteq Address
    <3>1. requests[r].key[1] \in Address
      BY <1>2, <2>1, TxOfOp, Keys DEF Consume
    <3>2. QED BY <1>2, <2>1, <3>1 DEF Consume, NewUser
  <2>2. ASSUME NEW a \in Address, RegisterByGoogle(a) PROVE registered' \subseteq Address
    BY <1>2, <2>2 DEF RegisterByGoogle, NewUser
  <2>3. QED
    BY <1>2, <2>1, <2>2 DEF Next, vars, ChallengeExpires, GrantExpires, SendBegin, Send,
       SubmitBegin, CheckUnusable, CheckWrong, CheckRight, CountMistake, ConsumeFails,
       SetBegin, SetFind, SetCommit
<1>5. TypeOK'
  BY <1>1, <1>3, <1>4 DEF TypeOK, GrantsRight, ChallengesRight, MistakesRight
<1>6. GrantsAreIssued'
  <2>1. \A tx \in Tx : tx \in PasswordTx => tx.grant \in Grant
    BY TxOfOp
  <2>2. \A tx \in Tx : tx \in PasswordTx /\ grants[tx.grant] # NoGrant => grants'[tx.grant] # NoGrant
    BY <1>1, <2>1 DEF GrantsRight, Kept
  <2>3. \A r \in Request :
           requests'[r] \in PasswordTx => grants[requests'[r].grant] # NoGrant
    BY <1>1, <1>2 DEF RequestStep, IInv, GrantsAreIssued
  <2>4. QED BY <1>3, <2>2, <2>3 DEF GrantsAreIssued
<1>7. CodesAreSent'
  BY CodesStaySent
<1>8. QED
  BY <1>1, <1>5, <1>6, <1>7 DEF IInv, GrantsRight, MistakesRight

LEMMA Invariance == Spec => []IInv
<1>1. QED BY Initially, InvariantStep, PTL DEF Spec

\* Tables and handlers keep their types, whatever interleaves
\* (prisma/schema.prisma and the handlers of auth.controller.ts).
THEOREM TypeCorrect == Spec => []TypeOK
<1>1. IInv => TypeOK
  BY DEF IInv
<1>2. QED BY <1>1, Invariance, PTL

\* A user holds one usable grant at most
\* (PasswordSetupGrantService.issue, password-auth.service.ts:130-140).
THEOREM OneGrant == Spec => []OneActiveGrant
<1>1. IInv => OneActiveGrant
  BY DEF IInv
<1>2. QED BY <1>1, Invariance, PTL

\* A grant sets one password (setPassword, password-auth.service.ts:159-183).
THEOREM OnePassword == Spec => []GrantSetsOnce
<1>1. IInv => GrantSetsOnce
  BY DEF IInv, TypeOK, PasswordsUseGrants, GrantSetsOnce
<1>2. QED BY <1>1, Invariance, PTL

\* A challenge counts no more mistakes than were made, at whatever address,
\* while the code it holds was the right one, and each of them once
\* (incrementAttemptsByHash, otp.service.ts:97-107).
THEOREM MistakesBelong == Spec => []AttemptsBelongToCode
<1>1. ASSUME IInv, NEW key \in Key, challenges[key] # None
      PROVE  challenges[key].attempts <= mistakes[challenges[key].code]
  <2> DEFINE code == challenges[key].code
             n == challenges[key].attempts
  <2>1. code \in Code /\ n \in Nat
    BY <1>1, ChallengeRows DEF IInv, TypeOK
  <2>2. mistakes[code] \in Nat
    BY <1>1, <2>1, NumbersAssumption DEF IInv, TypeOK
  <2>3. n + Cardinality(Waiting(late, code, key[2])) <= mistakes[code]
    BY <1>1, <2>1 DEF IInv, MistakesPaid
  <2>4. Cardinality(Waiting(late, code, key[2])) \in Nat
    BY WaitingIsFinite
  <2> HIDE DEF code, n
  <2>5. n <= mistakes[code]
    BY <2>1, <2>2, <2>3, <2>4
  <2>6. QED BY <2>5 DEF code, n
<1>2. IInv => AttemptsBelongToCode
  BY <1>1 DEF AttemptsBelongToCode
<1>3. QED BY <1>2, Invariance, PTL

-----------------------------------------------------------------------------
(* The proof of a mailbox.                                                 *)

\* A handler that works on a challenge.
Keyed(tx) == tx.op \in {"send", "check", "consume"}

\* A login challenge is worked on for an address that has an account.
LoginsHaveAccounts ==
    \A r \in Request : Keyed(requests[r]) /\ requests[r].key[2] = "login"
        => requests[r].key[1] \in registered

\* A handler keeps the challenge it looked up when it began.
KeyHeld(r) ==
    Keyed(requests'[r]) => \/ Keyed(requests[r]) /\ requests'[r].key = requests[r].key
                           \/ \E a \in Address : requests'[r].key = KeyOf(a)

LEMMA KeysHeld == IInv /\ [Next]_vars => \A q \in Request : KeyHeld(q)
<1> SUFFICES ASSUME IInv, [Next]_vars PROVE \A q \in Request : KeyHeld(q)
  OBVIOUS
<1>1. requests \in [Request -> Tx]
  BY DEF IInv, TypeOK
<1>2. ASSUME NEW r \in Request, NEW tx, Become(r, tx),
             Keyed(tx) => \/ Keyed(requests[r]) /\ tx.key = requests[r].key
                          \/ \E a \in Address : tx.key = KeyOf(a)
      PROVE  \A q \in Request : KeyHeld(q)
  <2>1. requests'[r] = tx /\ \A q \in Request : q # r => requests'[q] = requests[q]
    BY <1>1, <1>2 DEF Become
  <2>2. QED BY <1>2, <2>1 DEF KeyHeld
<1>3. ASSUME NEW r \in Request, Close(r) PROVE \A q \in Request : KeyHeld(q)
  <2>1. ~Keyed(Idle)
    BY Nothing DEF Keyed
  <2>2. QED BY <1>2, <1>3, <2>1 DEF Close
<1>4. ASSUME NEW r \in Request, NEW a \in Address, SendBegin(r, a)
      PROVE  \A q \in Request : KeyHeld(q)
  <2> DEFINE tx == [op |-> "send", key |-> KeyOf(a)]
  <2>1. Become(r, tx) /\ tx.key = KeyOf(a)
    BY <1>4 DEF SendBegin, Open
  <2> HIDE DEF tx
  <2>2. QED BY <1>2, <2>1
<1>5. ASSUME NEW r \in Request, NEW a \in Address, NEW code \in Code, NEW purpose \in Purpose,
             SubmitBegin(r, a, code, purpose)
      PROVE  \A q \in Request : KeyHeld(q)
  <2> DEFINE tx == [op |-> "check", key |-> KeyOf(a), code |-> code, purpose |-> purpose]
  <2>1. Become(r, tx) /\ tx.key = KeyOf(a)
    BY <1>5 DEF SubmitBegin, Open
  <2> HIDE DEF tx
  <2>2. QED BY <1>2, <2>1
<1>6. ASSUME NEW r \in Request, CheckRight(r) PROVE \A q \in Request : KeyHeld(q)
  <2> DEFINE tx == [requests[r] EXCEPT !.op = "consume"]
  <2>1. requests[r] \in VerifyTx /\ Keyed(requests[r])
    BY <1>1, <1>6, TxOfOp DEF CheckRight, Keyed
  <2>2. Become(r, tx) /\ tx.key = requests[r].key
    BY <1>6, <2>1, SMT DEF CheckRight, VerifyTx
  <2> HIDE DEF tx
  <2>3. QED BY <1>2, <2>1, <2>2
<1>7. ASSUME NEW r \in Request, NEW g \in Grant, SetBegin(r, g)
      PROVE  \A q \in Request : KeyHeld(q)
  <2> DEFINE tx == [op |-> "find", grant |-> g, inTime |-> grants[g].live]
  <2>1. Become(r, tx) /\ ~Keyed(tx)
    BY <1>7 DEF SetBegin, Open, Keyed
  <2> HIDE DEF tx
  <2>2. QED BY <1>2, <2>1
<1>8. ASSUME NEW r \in Request, SetFind(r) PROVE \A q \in Request : KeyHeld(q)
  <2> DEFINE tx == [requests[r] EXCEPT !.op = "set"]
  <2>1. requests[r] \in PasswordTx
    BY <1>1, <1>8, TxOfOp DEF SetFind
  <2>2. ~Keyed(tx)
    BY <2>1, SMT DEF PasswordTx, Keyed
  <2>3. Become(r, tx) \/ Close(r)
    BY <1>8 DEF SetFind
  <2> HIDE DEF tx
  <2>4. QED BY <1>2, <1>3, <2>2, <2>3
<1>9. ASSUME NEW r \in Request,
             \/ \E code \in Code : Send(r, code)
             \/ CheckUnusable(r) \/ CheckWrong(r) \/ Consume(r) \/ ConsumeFails(r) \/ SetCommit(r)
      PROVE  \A q \in Request : KeyHeld(q)
  BY <1>3, <1>9 DEF Send, CheckUnusable, CheckWrong, Consume, ConsumeFails, SetCommit
<1>10. ASSUME UNCHANGED requests PROVE \A q \in Request : KeyHeld(q)
  BY <1>10 DEF KeyHeld
<1>11. QED
  BY <1>4, <1>5, <1>6, <1>7, <1>8, <1>9, <1>10
  DEF Next, vars, ChallengeExpires, GrantExpires, RegisterByGoogle, CountMistake

\* No account goes away.
LEMMA AccountsStay == [Next]_vars => registered \subseteq registered'
  BY DEF Next, vars, ChallengeExpires, GrantExpires, RegisterByGoogle, SendBegin, Send,
     SubmitBegin, CheckUnusable, CheckWrong, CheckRight, CountMistake, Consume, ConsumeFails,
     SetBegin, SetFind, SetCommit, NewUser

LEMMA LoginsStep == IInv /\ LoginsHaveAccounts /\ [Next]_vars => LoginsHaveAccounts'
<1> SUFFICES ASSUME IInv, LoginsHaveAccounts, [Next]_vars,
                    NEW r \in Request, Keyed(requests'[r]), requests'[r].key[2] = "login"
             PROVE  requests'[r].key[1] \in registered'
  BY DEF LoginsHaveAccounts, Keyed
<1>1. CASE Keyed(requests[r]) /\ requests'[r].key = requests[r].key
  BY <1>1, AccountsStay DEF LoginsHaveAccounts
<1>2. ASSUME NEW a \in Address, requests'[r].key = KeyOf(a)
      PROVE  requests'[r].key[1] \in registered'
  BY <1>2, AccountsStay DEF KeyOf
<1>3. QED BY <1>1, <1>2, KeysHeld DEF KeyHeld

\* Whoever works on a login challenge has an account
\* (findActiveByEmail, users.service.ts).
LEMMA AccountsBehindLogins == Spec => []LoginsHaveAccounts
<1>1. Init => LoginsHaveAccounts
  BY Nothing DEF Init, LoginsHaveAccounts, Keyed
<1>2. QED BY <1>1, LoginsStep, Invariance, PTL DEF Spec

\* What is outstanding is what is held, whatever it says.
LEMMA SameOutstanding ==
    ASSUME \A key \in Key : challenges'[key] = None <=> challenges[key] = None
    PROVE  UNCHANGED Outstanding
  BY DEF Outstanding

LEMMA KeyParts ==
    ASSUME NEW key \in Key
    PROVE  /\ key = <<key[1], key[2]>> /\ key[1] \in Address
           /\ key[2] \in {"login", "register"}
  BY SMT DEF Key, Table

\* A code sent is outstanding.
LEMMA SendsCode ==
    ASSUME IInv, LoginsHaveAccounts, NEW r \in Request, NEW code \in Code, Send(r, code)
    PROVE  Mailbox!Next
<1> DEFINE key == requests[r].key
<1>1. key \in Key /\ Keyed(requests[r])
  BY TxOfOp DEF IInv, TypeOK, Send, Keyed
<1>2. /\ challenges' = [challenges EXCEPT ![key] = Drawn(code)]
      /\ challenges \in [Key -> ChallengeRow \cup {None}]
      /\ sent' = [sent EXCEPT ![<<key[1], code>>] = @ + 1]
  BY DEF Send, IInv, TypeOK
<1>3. key[2] = "login" => key[1] \in registered
  BY <1>1 DEF LoginsHaveAccounts
<1>4. Drawn(code) # None
  BY DrawnRow, NoChallenge
<1> HIDE DEF key
<1>5. Outstanding' = Outstanding \cup {key}
  BY <1>1, <1>2, <1>4 DEF Outstanding
<1>6. UNCHANGED <<registered, accepted, Holders, Unspent, passwords>>
  BY DEF Send, Holders, Unspent
<1>7. Outstanding' = Outstanding \cup {<<key[1], key[2]>>}
  BY <1>1, <1>5, KeyParts
<1>8. Mailbox!Send(key[1], key[2], code)
  BY <1>2, <1>3, <1>6, <1>7 DEF Mailbox!Send
<1>9. QED BY <1>1, <1>8, KeyParts DEF Mailbox!Next

\* A grant that was issued takes the place of its owner's others.
LEMMA GivesGrant ==
    ASSUME IInv, NEW a \in Address, NEW g \in Grant, grants[g] = NoGrant, grants' = Issued(a, g)
    PROVE  Mailbox!Give(g, a)
<1> DEFINE new == [owner |-> a, consumed |-> FALSE, live |-> TRUE]
<1>1. grants \in [Grant -> GrantRow]
  BY DEF IInv, TypeOK
<1>2. new.owner = a /\ ~new.consumed /\ new # NoGrant
  BY Nothing
<1> HIDE DEF new
<1>3. \A h \in Grant :
         grants'[h] = IF h = g THEN new
                      ELSE IF grants[h].owner = a THEN [grants[h] EXCEPT !.consumed = TRUE]
                      ELSE grants[h]
  BY DEF Issued, new
<1>4. ASSUME NEW h \in Grant, h # g
      PROVE  /\ grants'[h].owner = grants[h].owner
             /\ h \in Unspent' <=> h \in Unspent /\ grants[h].owner # a
  <2> DEFINE row == [grants[h] EXCEPT !.consumed = TRUE]
  <2>1. CASE grants[h].owner = a
    <3>1. grants[h] # NoGrant
      BY <2>1, Nothing
    <3>2. row.consumed /\ row.owner = grants[h].owner
      BY <1>1, <3>1, GrantRows
    <3>3. grants'[h] = row
      BY <1>3, <1>4, <2>1
    <3> HIDE DEF row
    <3>4. QED BY <2>1, <3>2, <3>3 DEF Unspent
  <2>2. CASE grants[h].owner # a
    <3>1. grants'[h] = grants[h]
      BY <1>3, <1>4, <2>2
    <3>2. QED BY <2>2, <3>1 DEF Unspent
  <2>3. QED BY <2>1, <2>2
<1>5. grants'[g] = new /\ g \notin Unspent
  BY <1>3 DEF Unspent
<1>6. Holders[g] = None
  BY Nothing DEF Holders
<1>7. Holders' = [Holders EXCEPT ![g] = a]
  <2>1. \A h \in Grant : grants'[h].owner = IF h = g THEN a ELSE grants[h].owner
    BY <1>2, <1>4, <1>5
  <2>2. QED BY <2>1, Zenon DEF Holders
<1>8. \A h \in Unspent : Holders[h] = grants[h].owner
  BY DEF Holders, Unspent
<1>9. g \in Unspent'
  BY <1>2, <1>5 DEF Unspent
<1>10. Unspent \subseteq Grant /\ Unspent' \subseteq Grant
  BY DEF Unspent
<1>11. Unspent' = {h \in Unspent : Holders[h] # a} \cup {g}
  BY <1>4, <1>5, <1>8, <1>9, <1>10
<1>12. QED BY <1>6, <1>7, <1>11 DEF Mailbox!Give

\* Who consumes a challenge proves its mailbox by a code sent to it, and is let in.
LEMMA ConsumesProof ==
    ASSUME IInv, LoginsHaveAccounts, NEW r \in Request, Consume(r)
    PROVE  Mailbox!Next
<1> DEFINE key == requests[r].key
           code == requests[r].code
<1>1. key \in Key /\ code \in Code /\ Keyed(requests[r])
  BY TxOfOp DEF IInv, TypeOK, Consume, Keyed
<1>2. /\ challenges' = [challenges EXCEPT ![key] = None]
      /\ challenges \in [Key -> ChallengeRow \cup {None}]
      /\ challenges[key] # None
      /\ key[2] = "register" => key[1] \notin registered
      /\ IF key[2] = "register" THEN registered' = registered \cup {key[1]} ELSE UNCHANGED registered
      /\ \/ UNCHANGED grants
         \/ \E g \in Grant : grants[g] = NoGrant /\ grants' = Issued(key[1], g)
      /\ accepted' = [accepted EXCEPT ![<<key[1], code>>] = @ + 1]
      /\ sent[<<key[1], code>>] > 0
      /\ UNCHANGED <<sent, passwords>>
  BY DEF Consume, Consumable, IInv, TypeOK, CodesAreSent, NewUser
<1>3. key[2] = "login" => key[1] \in registered
  BY <1>1 DEF LoginsHaveAccounts
<1> HIDE DEF key, code
<1>4. Mailbox!Admit(key[1], key[2])
  BY <1>1, <1>2, <1>3, KeyParts DEF Mailbox!Admit
<1>5. key \in Outstanding /\ Outstanding' = Outstanding \ {key}
  BY <1>1, <1>2 DEF Outstanding
<1>6. <<key[1], key[2]>> \in Outstanding /\ Outstanding' = Outstanding \ {<<key[1], key[2]>>}
  BY <1>1, <1>5, KeyParts
<1>7. UNCHANGED <<Holders, Unspent>> \/ \E g \in Grant : Mailbox!Give(g, key[1])
  <2>1. CASE UNCHANGED grants
    BY <2>1 DEF Holders, Unspent
  <2>2. ASSUME NEW g \in Grant, grants[g] = NoGrant, grants' = Issued(key[1], g)
        PROVE  Mailbox!Give(g, key[1])
    BY <1>1, <2>2, KeyParts, GivesGrant
  <2>3. QED BY <1>2, <2>1, <2>2
<1>8. Mailbox!Prove(key[1], key[2], code)
  BY <1>2, <1>4, <1>6, <1>7 DEF Mailbox!Prove
<1>9. QED BY <1>1, <1>8, KeyParts DEF Mailbox!Next

\* A grant that is spent sets one password.
LEMMA SetsPassword ==
    ASSUME IInv, NEW r \in Request, SetCommit(r)
    PROVE  \/ Mailbox!Next
           \/ UNCHANGED <<registered, Outstanding, sent, accepted, Holders, Unspent, passwords>>
<1> DEFINE g == requests[r].grant
           row == [grants[g] EXCEPT !.consumed = TRUE]
<1>1. g \in Grant /\ grants[g] # NoGrant /\ grants \in [Grant -> GrantRow]
  BY TxOfOp DEF IInv, TypeOK, SetCommit, GrantsAreIssued
<1>2. UNCHANGED <<registered, Outstanding, sent, accepted>>
  BY DEF SetCommit, Outstanding
<1>3. row.owner = grants[g].owner /\ row.consumed
  BY <1>1, GrantRows
<1>4. CASE UNCHANGED <<grants, passwords>>
  BY <1>2, <1>4 DEF Holders, Unspent
<1>5. CASE /\ ~grants[g].consumed /\ grants' = [grants EXCEPT ![g] = row]
           /\ passwords' = [passwords EXCEPT ![g] = @ + 1]
  <2> HIDE DEF g, row
  <2>1. grants'[g] = row /\ \A h \in Grant : h # g => grants'[h] = grants[h]
    BY <1>1, <1>5
  <2>2. \A h \in Grant : grants'[h].owner = grants[h].owner
    BY <1>3, <2>1
  <2>3. UNCHANGED Holders
    BY <2>2 DEF Holders
  <2>4. g \in Unspent /\ Unspent' = Unspent \ {g}
    BY <1>1, <1>3, <1>5, <2>1 DEF Unspent
  <2>5. Mailbox!SetPassword(g)
    BY <1>2, <1>5, <2>3, <2>4 DEF Mailbox!SetPassword
  <2>6. QED BY <1>1, <2>5 DEF Mailbox!Next
<1>6. QED BY <1>4, <1>5 DEF SetCommit, ConsumedNow

\* Time and mistakes spend nothing.
LEMMA ExpiryIsSilent ==
    ASSUME IInv
    PROVE  /\ \A key \in Key : ChallengeExpires(key) => UNCHANGED Outstanding
           /\ \A r \in Request : CountMistake(r) => UNCHANGED Outstanding
           /\ \A g \in Grant : GrantExpires(g) => UNCHANGED <<Holders, Unspent>>
<1>1. /\ challenges \in [Key -> ChallengeRow \cup {None}]
      /\ grants \in [Grant -> GrantRow]
  BY DEF IInv, TypeOK
<1>2. ASSUME NEW key \in Key, ChallengeExpires(key) PROVE UNCHANGED Outstanding
  <2> DEFINE row == [challenges[key] EXCEPT !.live = FALSE]
  <2>1. challenges[key] \in ChallengeRow /\ challenges[key] # None
    BY <1>1, <1>2 DEF ChallengeExpires
  <2>2. row # None
    BY <2>1, ChallengeRows, NoChallenge
  <2>3. challenges' = [challenges EXCEPT ![key] = row]
    BY <1>2 DEF ChallengeExpires
  <2> HIDE DEF row
  <2>4. QED BY <1>1, <2>1, <2>2, <2>3, SameOutstanding
<1>3. ASSUME NEW r \in Request, CountMistake(r) PROVE UNCHANGED Outstanding
  <2>1. CASE UNCHANGED challenges
    BY <2>1 DEF Outstanding
  <2>2. CASE challenges' = CountedIn(late[r])
    <3> DEFINE mistake == late[r]
    <3> HIDE DEF mistake
    <3>1. \A key \in Key : challenges[key] # None =>
              [challenges[key] EXCEPT !.attempts = @ + 1] # None
      BY <1>1, ChallengeRows, NoChallenge
    <3>2. \A key \in Key : Counted(key, mistake) => challenges[key] # None
      BY DEF Counted
    <3>3. challenges' = CountedIn(mistake)
      BY <2>2 DEF mistake
    <3>4. \A key \in Key : challenges'[key] = None <=> challenges[key] = None
      BY <3>1, <3>2, <3>3, Zenon DEF CountedIn
    <3>5. QED BY <3>4, SameOutstanding
  <2>3. QED BY <1>3, <2>1, <2>2 DEF CountMistake, CountedIn
<1>4. ASSUME NEW g \in Grant, GrantExpires(g) PROVE UNCHANGED <<Holders, Unspent>>
  <2> DEFINE row == [grants[g] EXCEPT !.live = FALSE]
  <2>1. grants[g] # NoGrant
    BY <1>4, Nothing DEF GrantExpires
  <2>2. row # NoGrant /\ row.owner = grants[g].owner /\ row.consumed = grants[g].consumed
    BY <1>1, <2>1, GrantRows
  <2>3. grants' = [grants EXCEPT ![g] = row]
    BY <1>4 DEF GrantExpires
  <2> HIDE DEF row
  <2>4. \A h \in Grant : /\ grants'[h].owner = grants[h].owner
                         /\ grants'[h].consumed = grants[h].consumed
                         /\ grants'[h] # NoGrant <=> grants[h] # NoGrant
    BY <1>1, <2>1, <2>2, <2>3
  <2>5. QED BY <2>4 DEF Holders, Unspent
<1>5. QED BY <1>2, <1>3, <1>4

LEMMA MailboxStep == IInv /\ LoginsHaveAccounts /\ [Next]_vars => [Mailbox!Next]_(Mailbox!vars)
<1> SUFFICES ASSUME IInv, LoginsHaveAccounts, [Next]_vars
             PROVE  \/ Mailbox!Next
                    \/ UNCHANGED <<registered, Outstanding, sent, accepted, Holders, Unspent, passwords>>
  BY DEF Mailbox!vars
<1> DEFINE Done == \/ Mailbox!Next
                   \/ UNCHANGED <<registered, Outstanding, sent, accepted, Holders, Unspent, passwords>>
<1>1. ASSUME NEW key \in Key, ChallengeExpires(key) PROVE Done
  BY <1>1, ExpiryIsSilent DEF ChallengeExpires, Holders, Unspent
<1>2. ASSUME NEW g \in Grant, GrantExpires(g) PROVE Done
  BY <1>2, ExpiryIsSilent DEF GrantExpires, Outstanding
<1>3. ASSUME NEW a \in Address, RegisterByGoogle(a) PROVE Done
  <2>1. UNCHANGED <<Outstanding, sent, accepted, Holders, Unspent, passwords>>
    BY <1>3 DEF RegisterByGoogle, Outstanding, Holders, Unspent
  <2>2. Mailbox!Join(a)
    BY <1>3, <2>1 DEF RegisterByGoogle, NewUser, Mailbox!Join
  <2>3. QED BY <2>2 DEF Mailbox!Next
<1>4. ASSUME NEW r \in Request, CountMistake(r) PROVE Done
  BY <1>4, ExpiryIsSilent DEF CountMistake, Holders, Unspent
<1>5. ASSUME NEW r \in Request,
             (\E code \in Code : Send(r, code)) \/ Consume(r) \/ SetCommit(r)
      PROVE  Done
  BY <1>5, SendsCode, ConsumesProof, SetsPassword
<1>6. CASE UNCHANGED <<registered, challenges, sent, accepted, grants, passwords>>
  BY <1>6 DEF Outstanding, Holders, Unspent
<1>7. QED
  BY <1>1, <1>2, <1>3, <1>4, <1>5, <1>6
  DEF Next, vars, SendBegin, SubmitBegin, CheckUnusable, CheckWrong, CheckRight, ConsumeFails,
     SetBegin, SetFind

\* The handlers of codes, grants, passwords and Google implement the proof of a
\* mailbox: one account to an address, one challenge used up by an opening and
\* a code presented that was sent to that mailbox, one password to a grant, and
\* the newest grant in the place of its owner's others
\* (verify, email-otp-auth.service.ts:79-181;
\* verifyPasswordChallenge and setPassword, password-auth.service.ts:102-215).
THEOREM Implementation == Spec => ImplementsMailbox
<1>1. Init => Mailbox!Init
  BY Nothing DEF Init, Mailbox!Init, Outstanding, Holders, Unspent
<1>2. QED
  BY <1>1, MailboxStep, Invariance, AccountsBehindLogins, PTL
  DEF Spec, ImplementsMailbox, Mailbox!Spec

=============================================================================
