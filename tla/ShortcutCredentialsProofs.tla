--------------------- MODULE ShortcutCredentialsProofs ---------------------
(***************************************************************************)
(* What ShortcutCredentials promises for any number of credentials and     *)
(* requests, any maximum, lifetime and number of attempts.                 *)
(*                                                                         *)
(* The limit holds because a create that can still commit counted at a     *)
(* moment since which only rotations, revocations and expiry happened, and *)
(* none of these makes room smaller: that is OpenCreatesHaveRoom.          *)
(***************************************************************************)
EXTENDS ShortcutCredentials, FiniteSetTheorems, TLAPS

-----------------------------------------------------------------------------
(* The invariant.                                                          *)

\* Credentials in service at a moment.
ServiceOf(rows, at) ==
    {c \in Credential : rows[c].exists /\ ~rows[c].revoked /\ rows[c].expires > at}

InService(at) == ServiceOf(credentials, at)

Rows ==
    \A c \in Credential :
        /\ ~Exists(c) => credentials[c] = NoRow /\ c \notin disconnected
        /\ credentials[c].replaces # None => Exists(credentials[c].replaces)

\* A handler works on a credential that is there, read the clock before, and
\* saw creates that did commit.
RequestsFit ==
    \A r \in Request :
        /\ requests[r].op \in {"rotate", "revoke", "use"} => Exists(requests[r].credential)
        /\ requests[r].op \in {"create", "rotate"} => requests[r].at <= now
        /\ requests[r].op = "create" => requests[r].seen \subseteq Created

OpenCreatesHaveRoom ==
    \A r \in Request :
        requests[r].op = "create" /\ CreateSerializable(requests[r]) /\ ~straddled
            => HasRoom(requests[r].at)

\* A credential is replaced by one other, and went out of service for a reason.
Replaced(c) == \E d \in Credential : credentials[d].replaces = c

Reasons ==
    /\ \A c, d \in Credential :
          credentials[c].replaces # None /\ credentials[c].replaces = credentials[d].replaces
              => c = d
    /\ \A c \in Credential : credentials[c].revoked <=> (c \in disconnected \/ Replaced(c))

IInv ==
    /\ TypeOK
    /\ Rows
    /\ RequestsFit
    /\ Reasons
    /\ OpenCreatesHaveRoom
    /\ ActiveWithinMaximum

-----------------------------------------------------------------------------
(* Types.                                                                  *)

LEMMA Constants ==
    /\ MaxTime \in Nat /\ Lifetime \in Nat /\ MaximumActive \in Nat /\ MaxAttempts \in Nat
    /\ 1 \in 1..MaxAttempts
    /\ Idle \in Tx /\ Idle.op = "idle"
    /\ NoRow \in Row /\ ~NoRow.exists /\ ~NoRow.revoked /\ NoRow.replaces = None
    /\ None \notin Credential
<1>1. /\ MaxTime \in Nat /\ Lifetime \in Nat /\ MaximumActive \in Nat /\ MaxAttempts \in Nat
      /\ 1 \in 1..MaxAttempts /\ None \notin Credential
  BY NumbersAssumption, NoneAssumption
<1>2. Idle \in Tx /\ Idle.op = "idle"
  BY SMT DEF Idle, Tx
<1>3. NoRow \in Row /\ ~NoRow.exists /\ ~NoRow.revoked /\ NoRow.replaces = None
  BY <1>1, SMT DEF NoRow, Row
<1>4. QED BY <1>1, <1>2, <1>3

LEMMA TxOfOp ==
    ASSUME NEW tx \in Tx
    PROVE  /\ tx.op = "create" =>
                 /\ tx \in CreateTx /\ tx.at \in 0..MaxTime /\ tx.seen \subseteq Credential
                 /\ tx.attempt \in 1..MaxAttempts
           /\ tx.op = "rotate" =>
                 /\ tx \in RotateTx /\ tx.at \in 0..MaxTime /\ tx.credential \in Credential
                 /\ tx.attempt \in 1..MaxAttempts
           /\ tx.op \in {"revoke", "use"} => tx \in TouchTx /\ tx.credential \in Credential
  BY SMT DEF Tx, Idle, CreateTx, RotateTx, TouchTx

LEMMA RowsOf ==
    ASSUME NEW row \in Row
    PROVE  /\ row.exists \in BOOLEAN /\ row.revoked \in BOOLEAN
           /\ row.expires \in Nat /\ row.replaces \in Credential \cup {None}
  BY Constants, SMT DEF Row

LEMMA NewRows ==
    ASSUME NEW at \in 0..MaxTime, NEW old \in Credential \cup {None}
    PROVE  /\ NewRow(at, old) \in Row /\ NewRow(at, old).exists /\ ~NewRow(at, old).revoked
           /\ NewRow(at, old).replaces = old
<1>1. at + Lifetime \in 0..(MaxTime + Lifetime) /\ NoRow \in Row
  BY Constants
<1>2. NewRow(at, old) \in Row
  BY <1>1, Zenon DEF NewRow, Row
<1>3. QED BY <1>2, SMT DEF NewRow, NoRow

LEMMA RevokedRow ==
    ASSUME NEW row \in Row
    PROVE  LET new == [row EXCEPT !.revoked = TRUE] IN
           /\ new \in Row /\ new.revoked /\ new.exists = row.exists
           /\ new.replaces = row.replaces /\ new.expires = row.expires
<1>1. [row EXCEPT !.revoked = TRUE] \in Row
  BY Zenon DEF Row
<1>2. QED BY <1>1, SMT DEF Row

LEMMA UsedRow ==
    ASSUME NEW row \in Row
    PROVE  LET new == [row EXCEPT !.used = TRUE] IN
           /\ new \in Row /\ new.revoked = row.revoked /\ new.exists = row.exists
           /\ new.replaces = row.replaces /\ new.expires = row.expires
<1>1. [row EXCEPT !.used = TRUE] \in Row
  BY Zenon DEF Row
<1>2. QED BY <1>1, SMT DEF Row

-----------------------------------------------------------------------------
(* Counting.                                                               *)

LEMMA Counts ==
    ASSUME NEW S, S \subseteq Credential
    PROVE  IsFiniteSet(S) /\ Cardinality(S) \in Nat
  BY FiniteAssumption, FS_Subset, FS_CardinalityType

\* Fewer are counted of what is less.
LEMMA Fewer ==
    ASSUME NEW S, NEW T, S \subseteq T, T \subseteq Credential
    PROVE  Cardinality(S) <= Cardinality(T)
  BY Counts, FS_Subset

\* One more.
LEMMA OneMore ==
    ASSUME NEW S, NEW T, NEW c \in Credential, S \subseteq T \cup {c}, T \subseteq Credential
    PROVE  Cardinality(S) <= Cardinality(T) + 1
<1>1. IsFiniteSet(T) /\ Cardinality(T) \in Nat
  BY Counts
<1>2. Cardinality(T \cup {c}) = Cardinality(T) \/ Cardinality(T \cup {c}) = Cardinality(T) + 1
  BY <1>1, FS_AddElement
<1>3. Cardinality(S) <= Cardinality(T \cup {c})
  BY Fewer
<1>4. S \subseteq Credential
  OBVIOUS
<1>5. Cardinality(S) \in Nat
  BY <1>4, Counts
<1> DEFINE n == Cardinality(T \cup {c})
<1> HIDE DEF n
<1>6. QED BY <1>1, <1>2, <1>3, <1>5 DEF n

\* One out, one in.
LEMMA Exchange ==
    ASSUME NEW S, NEW T, NEW c \in Credential, NEW d \in T,
           S \subseteq (T \ {d}) \cup {c}, T \subseteq Credential
    PROVE  Cardinality(S) <= Cardinality(T)
<1>1. Cardinality(S) <= Cardinality(T \ {d}) + 1
  BY OneMore
<1>2. Cardinality(T \ {d}) = Cardinality(T) - 1
  BY Counts, FS_RemoveElement
<1>3. Cardinality(T) \in Nat /\ Cardinality(S) \in Nat
  <2>1. S \subseteq Credential
    OBVIOUS
  <2>2. QED BY <2>1, Counts
<1>4. QED BY <1>1, <1>2, <1>3

\* The model's counts are of these sets, before a step and after it.
LEMMA ServiceCounts ==
    /\ \A m \in Nat : HasRoom(m) <=> Cardinality(ServiceOf(credentials, m)) < MaximumActive
    /\ \A m \in Nat : HasRoom(m)' <=> Cardinality(ServiceOf(credentials', m)) < MaximumActive
    /\ ActiveWithinMaximum <=>
          (~straddled => Cardinality(ServiceOf(credentials, now)) <= MaximumActive)
    /\ ActiveWithinMaximum' <=>
          (~straddled' => Cardinality(ServiceOf(credentials', now')) <= MaximumActive)
  BY DEF HasRoom, ActiveWithinMaximum, ActiveAt, Exists, ServiceOf

LEMMA ServiceEnds ==
    ASSUME TypeOK, NEW early \in Nat, NEW late \in Nat, early <= late
    PROVE  /\ InService(late) \subseteq InService(early)
           /\ InService(early) \subseteq Credential
           /\ Cardinality(InService(late)) <= Cardinality(InService(early))
<1>1. \A c \in Credential : credentials[c].expires \in Nat
  BY RowsOf DEF TypeOK
<1>2. InService(late) \subseteq InService(early)
  BY <1>1 DEF InService, ServiceOf
<1>3. InService(early) \subseteq Credential
  BY DEF InService, ServiceOf
<1>4. QED BY <1>2, <1>3, Fewer

-----------------------------------------------------------------------------
(* What a step does to the table.                                          *)

Creates(c, at) ==
    /\ ~Exists(c) /\ at <= now /\ (straddled \/ HasRoom(at))
    /\ credentials' = [credentials EXCEPT ![c] = NewRow(at, None)]
    /\ UNCHANGED <<now, disconnected, straddled>>

Rotates(old, c, at) ==
    /\ Exists(old) /\ ~credentials[old].revoked /\ ~Exists(c)
    /\ credentials' = [credentials EXCEPT ![old].revoked = TRUE, ![c] = NewRow(at, old)]
    /\ straddled' = (straddled \/ credentials[old].expires <= now)
    /\ UNCHANGED <<now, disconnected>>

\* A revocation, or the answer to one that was done already.
Revokes(c) ==
    /\ Exists(c)
    /\ \/ credentials' = [credentials EXCEPT ![c].revoked = TRUE]
       \/ credentials[c].revoked /\ UNCHANGED credentials
    /\ disconnected' = disconnected \cup {c}
    /\ UNCHANGED <<now, straddled>>

Uses(c) ==
    /\ Exists(c)
    /\ credentials' = [credentials EXCEPT ![c].used = TRUE]
    /\ UNCHANGED <<now, disconnected, straddled>>

Waits ==
    /\ UNCHANGED <<credentials, disconnected, straddled>>
    /\ now' \in 0..MaxTime /\ now <= now'

TableStep ==
    \/ Waits
    \/ \E c \in Credential, at \in 0..MaxTime : Creates(c, at)
    \/ \E old \in Credential, c \in Credential, at \in 0..MaxTime : Rotates(old, c, at)
    \/ \E c \in Credential : Revokes(c) \/ Uses(c)

LEMMA TablesStep == IInv /\ [Next]_vars => TableStep
<1> SUFFICES ASSUME IInv, [Next]_vars PROVE TableStep
  OBVIOUS
<1>1. requests \in [Request -> Tx] /\ now \in 0..MaxTime /\ now \in Nat
  BY Constants DEF IInv, TypeOK
<1>2. ASSUME UNCHANGED <<credentials, now, disconnected, straddled>> PROVE TableStep
  BY <1>1, <1>2 DEF TableStep, Waits
<1>3. ASSUME NEW r \in Request, CreateCommit(r) PROVE TableStep
  <2>1. requests[r].at \in 0..MaxTime /\ requests[r].at <= now
    BY <1>1, <1>3, TxOfOp DEF CreateCommit, IInv, RequestsFit
  <2>2. straddled \/ HasRoom(requests[r].at)
    BY <1>3 DEF CreateCommit, IInv, OpenCreatesHaveRoom
  <2>3. QED BY <1>3, <2>1, <2>2 DEF CreateCommit, TableStep, Creates
<1>4. ASSUME NEW r \in Request, RotateCommit(r) PROVE TableStep
  <2> DEFINE old == requests[r].credential
             at == requests[r].at
  <2>1. old \in Credential /\ at \in 0..MaxTime /\ Exists(old)
    BY <1>1, <1>4, TxOfOp DEF RotateCommit, IInv, RequestsFit
  <2>2. \E c \in Credential : Rotates(old, c, at)
    BY <1>4, <2>1 DEF RotateCommit, RotateCurrent, Rotates
  <2> HIDE DEF old, at
  <2>3. QED BY <2>1, <2>2 DEF TableStep
<1>5. ASSUME NEW r \in Request, NEW c \in Credential, RevokeBegin(r, c) PROVE TableStep
  <2>1. CASE UNCHANGED disconnected
    BY <1>2, <1>5, <2>1 DEF RevokeBegin
  <2>2. CASE credentials[c].revoked /\ disconnected' = disconnected \cup {c}
    BY <1>5, <2>2 DEF RevokeBegin, TableStep, Revokes
  <2>3. QED BY <1>5, <2>1, <2>2 DEF RevokeBegin
<1>6. ASSUME NEW r \in Request, RevokeWrite(r) PROVE TableStep
  <2>1. requests[r].credential \in Credential /\ Exists(requests[r].credential)
    BY <1>1, <1>6, TxOfOp DEF RevokeWrite, IInv, RequestsFit
  <2>2. QED BY <1>6, <2>1 DEF RevokeWrite, TableStep, Revokes
<1>7. ASSUME NEW r \in Request, UseWrite(r) PROVE TableStep
  <2>1. requests[r].credential \in Credential /\ Exists(requests[r].credential)
    BY <1>1, <1>7, TxOfOp DEF UseWrite, IInv, RequestsFit
  <2>2. QED BY <1>7, <2>1 DEF UseWrite, TableStep, Uses
<1>8. CASE Tick
  <2>1. now + 1 \in 0..MaxTime /\ now <= now + 1
    BY <1>1, <1>8, Constants DEF Tick
  <2>2. QED BY <1>8, <2>1 DEF Tick, TableStep, Waits
<1>9. QED
  BY <1>2, <1>3, <1>4, <1>5, <1>6, <1>7, <1>8
  DEF Next, vars, Restart, CreateBegin, CreateAbort, RotateBegin, RotateAbort, UseBegin

\* What every step leaves true.
Kept ==
    /\ credentials' \in [Credential -> Row] /\ now' \in 0..MaxTime /\ now <= now'
    /\ disconnected' \subseteq Credential /\ straddled' \in BOOLEAN
    /\ straddled => straddled'
    /\ \A c \in Credential : Exists(c) => Exists(c)'
    /\ Created \subseteq Created'
    /\ Rows' /\ Reasons'

\* No step but a create takes room, at any moment a create may have counted at.
RoomKept(at) ==
    Created' = Created /\ ~straddled' /\ HasRoom(at)
        => Cardinality(ServiceOf(credentials', at)) < MaximumActive

LEMMA CreatesKeep ==
    ASSUME IInv, NEW c \in Credential, NEW at \in 0..MaxTime, Creates(c, at)
    PROVE  /\ Kept /\ Created' # Created
           /\ ActiveWithinMaximum'
<1>1. /\ credentials \in [Credential -> Row] /\ now \in 0..MaxTime /\ now \in Nat /\ at \in Nat
      /\ disconnected \subseteq Credential /\ straddled \in BOOLEAN /\ TypeOK
  BY Constants DEF IInv, TypeOK
<1> DEFINE row == NewRow(at, None)
<1>2. row \in Row /\ row.exists /\ ~row.revoked /\ row.replaces = None
  BY NewRows
<1>3. credentials' = [credentials EXCEPT ![c] = row]
  BY DEF Creates
<1> HIDE DEF row
<1>4. /\ credentials' \in [Credential -> Row] /\ credentials'[c] = row
      /\ \A d \in Credential : d # c => credentials'[d] = credentials[d]
  BY <1>1, <1>2, <1>3
<1>5. /\ credentials[c] = NoRow /\ c \notin disconnected /\ ~Exists(c)
      /\ \A d \in Credential : credentials[d].replaces # c
  <2>1. ~Exists(c) /\ credentials[c] = NoRow /\ c \notin disconnected
    BY DEF Creates, IInv, Rows
  <2>2. \A d \in Credential : credentials[d].replaces # c
    BY <2>1, Constants DEF IInv, Rows
  <2>3. QED BY <2>1, <2>2
<1>6. /\ now' = now /\ disconnected' = disconnected /\ straddled' = straddled
      /\ (straddled \/ HasRoom(at)) /\ at <= now
  BY DEF Creates
<1>7. Rows'
  <2>1. \A d \in Credential : Exists(d)' <=> Exists(d) \/ d = c
    BY <1>2, <1>4 DEF Exists
  <2>2. \A d \in Credential : ~Exists(d)' => credentials'[d] = NoRow /\ d \notin disconnected'
    BY <1>4, <1>6, <2>1 DEF IInv, Rows
  <2>3. \A d \in Credential : credentials'[d].replaces # None =>
            credentials[d].replaces # None /\ credentials'[d].replaces = credentials[d].replaces
    BY <1>2, <1>4
  <2>4. \A d \in Credential : credentials[d].replaces # None =>
            credentials[d].replaces \in Credential /\ Exists(credentials[d].replaces)
    BY <1>1, RowsOf DEF IInv, Rows
  <2>5. QED BY <2>1, <2>2, <2>3, <2>4 DEF Rows, Exists
<1>8. Reasons'
  <2>1. \A d \in Credential : credentials'[d].replaces = credentials[d].replaces
    BY <1>2, <1>4, <1>5, Constants
  <2>2. \A d \in Credential : credentials'[d].revoked <=> credentials[d].revoked
    BY <1>2, <1>4, <1>5, Constants
  <2>3. QED BY <1>6, <2>1, <2>2 DEF IInv, Reasons, Replaced
<1>9. Created \subseteq Created' /\ c \in Created' /\ c \notin Created
  BY <1>2, <1>4, <1>5 DEF Created, Exists
<1>10. Kept
  BY <1>1, <1>2, <1>4, <1>5, <1>6, <1>7, <1>8, <1>9 DEF Kept, Exists
<1>11. ASSUME ~straddled'
       PROVE  Cardinality(ServiceOf(credentials', now)) <= MaximumActive
  <2> DEFINE S == ServiceOf(credentials', now)
             T == InService(now)
  <2>1. S \subseteq T \cup {c} /\ T \subseteq Credential /\ S \subseteq Credential
    BY <1>4 DEF InService, ServiceOf
  <2>2. Cardinality(T) <= Cardinality(InService(at))
    BY <1>1, <1>6, ServiceEnds
  <2>3. Cardinality(InService(at)) < MaximumActive
    BY <1>1, <1>6, <1>11, ServiceCounts DEF InService
  <2>4. InService(at) \subseteq Credential
    BY DEF InService, ServiceOf
  <2>5. Cardinality(T) \in Nat /\ Cardinality(InService(at)) \in Nat /\ Cardinality(S) \in Nat
    BY <2>1, <2>4, Counts
  <2> HIDE DEF S, T
  <2>6. Cardinality(S) <= Cardinality(T) + 1
    BY <2>1, OneMore
  <2> DEFINE m == Cardinality(T)
             k == Cardinality(InService(at))
             n == Cardinality(S)
  <2>7. m \in Nat /\ k \in Nat /\ n \in Nat /\ m <= k /\ k < MaximumActive /\ n <= m + 1
    BY <2>2, <2>3, <2>5, <2>6
  <2> HIDE DEF m, k, n
  <2>8. n <= MaximumActive
    BY <2>7, Constants
  <2>9. QED BY <2>8 DEF n, S
<1>12. ActiveWithinMaximum'
  BY <1>6, <1>11, ServiceCounts
<1>13. QED BY <1>9, <1>10, <1>12

\* The count at a moment does not grow.
NoMore(m) == Cardinality(ServiceOf(credentials', m)) <= Cardinality(InService(m))

LEMMA NoMoreKeepsRoom ==
    ASSUME NEW m \in Nat, NoMore(m)
    PROVE  /\ HasRoom(m) => Cardinality(ServiceOf(credentials', m)) < MaximumActive
           /\ Cardinality(InService(m)) <= MaximumActive
                  => Cardinality(ServiceOf(credentials', m)) <= MaximumActive
<1> DEFINE S == ServiceOf(credentials', m)
           T == InService(m)
<1>1. S \subseteq Credential /\ T \subseteq Credential
  BY DEF InService, ServiceOf
<1>2. Cardinality(S) \in Nat /\ Cardinality(T) \in Nat
  BY <1>1, Counts
<1>3. Cardinality(S) <= Cardinality(T) /\ (HasRoom(m) => Cardinality(T) < MaximumActive)
  BY ServiceCounts DEF NoMore, InService
<1> HIDE DEF S, T
<1>4. /\ HasRoom(m) => Cardinality(S) < MaximumActive
      /\ Cardinality(T) <= MaximumActive => Cardinality(S) <= MaximumActive
  BY <1>2, <1>3, Constants
<1>5. QED BY <1>4 DEF S, T

LEMMA RotatesCount ==
    ASSUME IInv, NEW old \in Credential, NEW c \in Credential, NEW at \in 0..MaxTime,
           Rotates(old, c, at), ~straddled', NEW m \in Nat, m <= now
    PROVE  NoMore(m)
<1>1. /\ credentials \in [Credential -> Row] /\ now \in Nat
      /\ credentials[old] \in Row /\ credentials[old].expires \in Nat
  BY RowsOf, Constants DEF IInv, TypeOK
<1>2. /\ Exists(old) /\ ~credentials[old].revoked /\ ~Exists(c)
      /\ ~(credentials[old].expires <= now)
      /\ credentials' = [credentials EXCEPT ![old].revoked = TRUE, ![c] = NewRow(at, old)]
  BY DEF Rotates
<1>3. credentials[old].expires > m
  BY <1>1, <1>2
<1>4. old \in InService(m) /\ InService(m) \subseteq Credential
  BY <1>2, <1>3 DEF InService, ServiceOf, Exists
<1> DEFINE gone == [credentials[old] EXCEPT !.revoked = TRUE]
           S == ServiceOf(credentials', m)
<1>5. gone.revoked
  BY <1>1, RevokedRow
<1>6. credentials' = [[credentials EXCEPT ![old] = gone] EXCEPT ![c] = NewRow(at, old)]
  BY <1>2
<1>7. old # c
  BY <1>2
<1> HIDE DEF gone
<1>8. credentials'[old] = gone
      /\ \A d \in Credential : d # old /\ d # c => credentials'[d] = credentials[d]
  BY <1>1, <1>6, <1>7
<1>9. S \subseteq (InService(m) \ {old}) \cup {c}
  BY <1>5, <1>8 DEF InService, ServiceOf
<1> HIDE DEF S
<1>10. Cardinality(S) <= Cardinality(InService(m))
  BY <1>4, <1>9, Exchange
<1>11. QED BY <1>10 DEF NoMore, S

LEMMA RotatesKeep ==
    ASSUME IInv, NEW old \in Credential, NEW c \in Credential, NEW at \in 0..MaxTime,
           Rotates(old, c, at)
    PROVE  Kept /\ ActiveWithinMaximum' /\ \A m \in 0..now : RoomKept(m)
<1>1. /\ credentials \in [Credential -> Row] /\ now \in 0..MaxTime /\ now \in Nat
      /\ disconnected \subseteq Credential /\ straddled \in BOOLEAN /\ now <= now
  BY Constants DEF IInv, TypeOK
<1>2. /\ Exists(old) /\ ~credentials[old].revoked /\ ~Exists(c) /\ old # c
      /\ credentials' = [credentials EXCEPT ![old].revoked = TRUE, ![c] = NewRow(at, old)]
      /\ straddled' = (straddled \/ credentials[old].expires <= now)
      /\ now' = now /\ disconnected' = disconnected
  BY DEF Rotates
<1> DEFINE gone == [credentials[old] EXCEPT !.revoked = TRUE]
           new == NewRow(at, old)
<1>3. /\ gone \in Row /\ gone.revoked /\ gone.exists = credentials[old].exists
      /\ gone.replaces = credentials[old].replaces
  BY <1>1, RevokedRow
<1>4. new \in Row /\ new.exists /\ ~new.revoked /\ new.replaces = old
  BY NewRows
<1>5. credentials' = [[credentials EXCEPT ![old] = gone] EXCEPT ![c] = new]
  BY <1>2
<1> HIDE DEF gone, new
<1>6. /\ credentials' \in [Credential -> Row] /\ credentials'[c] = new /\ credentials'[old] = gone
      /\ \A d \in Credential : d # old /\ d # c => credentials'[d] = credentials[d]
  <2> DEFINE half == [credentials EXCEPT ![old] = gone]
  <2>1. /\ half \in [Credential -> Row] /\ half[old] = gone
        /\ \A d \in Credential : d # old => half[d] = credentials[d]
    BY <1>1, <1>3
  <2>2. credentials' = [half EXCEPT ![c] = new]
    BY <1>5
  <2> HIDE DEF half
  <2>3. /\ credentials' \in [Credential -> Row] /\ credentials'[c] = new
        /\ \A d \in Credential : d # c => credentials'[d] = half[d]
    BY <1>4, <2>1, <2>2
  <2>4. QED BY <1>2, <2>1, <2>3
<1>7. \A d \in Credential : Exists(d)' <=> Exists(d) \/ d = c
  BY <1>2, <1>3, <1>4, <1>6 DEF Exists
<1>8. \A d \in Credential : d # c => credentials'[d].replaces = credentials[d].replaces
  BY <1>3, <1>6
<1>9. credentials[c] = NoRow /\ c \notin disconnected
  BY <1>2 DEF IInv, Rows
<1>10. \A d \in Credential : credentials[d].replaces # None =>
          credentials[d].replaces \in Credential /\ Exists(credentials[d].replaces)
  BY <1>1, RowsOf DEF IInv, Rows
<1>11. Rows'
  <2>1. \A d \in Credential : ~Exists(d)' => credentials'[d] = NoRow /\ d \notin disconnected'
    BY <1>2, <1>6, <1>7 DEF IInv, Rows
  <2>2. ASSUME NEW d \in Credential, credentials'[d].replaces # None
        PROVE  credentials'[credentials'[d].replaces].exists
    <3>1. CASE d = c
      BY <1>2, <1>4, <1>6, <1>7, <3>1 DEF Exists
    <3>2. CASE d # c
      BY <1>7, <1>8, <1>10, <2>2, <3>2 DEF Exists
    <3>3. QED BY <3>1, <3>2
  <2>3. QED BY <2>1, <2>2 DEF Rows, Exists
<1>12. \A d \in Credential : credentials[d].replaces # old /\ credentials[d].replaces # c
  BY <1>2, <1>10, Constants DEF IInv, Reasons, Replaced
<1>13. Reasons'
  <2>1. \A d, e \in Credential :
            credentials'[d].replaces # None /\ credentials'[d].replaces = credentials'[e].replaces
                => d = e
    <3>1. \A d \in Credential : d # c => credentials'[d].replaces # old
      BY <1>8, <1>12
    <3>2. credentials'[c].replaces = old
      BY <1>4, <1>6
    <3>3. QED BY <1>8, <3>1, <3>2 DEF IInv, Reasons
  <2>2. \A d \in Credential : Replaced(d)' <=> Replaced(d) \/ d = old
    <3>1. credentials'[c].replaces = old /\ credentials[c].replaces = None
      BY <1>4, <1>6, <1>9, Constants
    <3>2. QED BY <1>8, <3>1, Constants DEF Replaced
  <2>3. \A d \in Credential : credentials'[d].revoked <=> credentials[d].revoked \/ d = old
    BY <1>3, <1>4, <1>6, <1>9, Constants
  <2>4. QED BY <1>2, <2>1, <2>2, <2>3 DEF IInv, Reasons
<1>14. Created \subseteq Created'
  <2>1. \A d \in Created : d \in Credential /\ d # c /\ Exists(d) /\ credentials[d].replaces = None
    BY <1>2 DEF Created
  <2>2. QED BY <1>7, <1>8, <2>1 DEF Created
<1>15. Kept
  BY <1>1, <1>2, <1>6, <1>7, <1>11, <1>13, <1>14 DEF Kept
<1>16. \A m \in 0..now : ~straddled' => NoMore(m)
  BY <1>1, RotatesCount
<1>17. \A m \in 0..now : RoomKept(m)
  BY <1>1, <1>16, NoMoreKeepsRoom DEF RoomKept
<1>18. ActiveWithinMaximum'
  <2>1. ASSUME ~straddled'
        PROVE  Cardinality(ServiceOf(credentials', now)) <= MaximumActive
    <3>1. Cardinality(InService(now)) <= MaximumActive
      BY <1>2, <2>1, ServiceCounts DEF IInv, InService
    <3>2. NoMore(now)
      BY <1>1, <1>16, <2>1
    <3>3. QED BY <1>1, <3>1, <3>2, NoMoreKeepsRoom
  <2>2. QED BY <1>2, <2>1, ServiceCounts
<1>19. QED BY <1>15, <1>17, <1>18

\* A row that is written where it stands, and stays in service or leaves it.
LEMMA TouchesKeep ==
    ASSUME IInv, NEW c \in Credential, Exists(c), NEW row \in Row,
           row.exists, row.replaces = credentials[c].replaces,
           row.expires = credentials[c].expires, credentials[c].revoked => row.revoked,
           credentials' = [credentials EXCEPT ![c] = row],
           now' = now, straddled' = straddled, disconnected' \subseteq Credential,
           \A d \in Credential : d \in disconnected' <=> d \in disconnected
                                     \/ (d = c /\ c \in disconnected'),
           row.revoked <=> (c \in disconnected' \/ Replaced(c))
    PROVE  Kept /\ ActiveWithinMaximum' /\ \A m \in 0..now : RoomKept(m)
<1>1. /\ credentials \in [Credential -> Row] /\ now \in 0..MaxTime /\ now \in Nat
      /\ straddled \in BOOLEAN /\ now <= now
  BY Constants DEF IInv, TypeOK
<1>2. /\ credentials' \in [Credential -> Row] /\ credentials'[c] = row
      /\ \A d \in Credential : d # c => credentials'[d] = credentials[d]
  BY <1>1
<1>3. \A d \in Credential : Exists(d)' <=> Exists(d)
  BY <1>2 DEF Exists
<1>4. \A d \in Credential : credentials'[d].replaces = credentials[d].replaces
  BY <1>2
<1>5. Rows'
  <2>1. \A d \in Credential : ~Exists(d)' => credentials'[d] = NoRow /\ d \notin disconnected'
    BY <1>2, <1>3 DEF IInv, Rows
  <2>2. \A d \in Credential : credentials[d].replaces # None =>
            credentials[d].replaces \in Credential /\ Exists(credentials[d].replaces)
    BY <1>1, RowsOf DEF IInv, Rows
  <2>3. \A d \in Credential : credentials'[d].replaces # None =>
            credentials'[credentials'[d].replaces].exists
    BY <1>3, <1>4, <2>2 DEF Exists
  <2>4. QED BY <2>1, <2>3 DEF Rows, Exists
<1>6. Reasons'
  <2>1. \A d \in Credential : Replaced(d)' <=> Replaced(d)
    BY <1>4 DEF Replaced
  <2>2. ASSUME NEW d \in Credential
        PROVE  credentials'[d].revoked <=> (d \in disconnected' \/ Replaced(d))
    <3>1. CASE d = c
      BY <1>2, <3>1
    <3>2. CASE d # c
      BY <1>2, <3>2 DEF IInv, Reasons
    <3>3. QED BY <3>1, <3>2
  <2>3. QED BY <1>4, <2>1, <2>2 DEF IInv, Reasons
<1>7. Created' = Created
  BY <1>3, <1>4 DEF Created
<1>8. Kept
  BY <1>1, <1>2, <1>3, <1>5, <1>6, <1>7 DEF Kept
<1>9. ASSUME NEW m \in 0..now PROVE NoMore(m)
  <2>1. ServiceOf(credentials', m) \subseteq InService(m)
    BY <1>2 DEF ServiceOf, InService, Exists
  <2>2. InService(m) \subseteq Credential
    BY DEF InService, ServiceOf
  <2>3. QED BY <2>1, <2>2, Fewer DEF NoMore
<1>10. ASSUME NEW m \in 0..now PROVE RoomKept(m)
  <2>1. m \in Nat /\ NoMore(m)
    BY <1>1, <1>9
  <2>2. HasRoom(m) => Cardinality(ServiceOf(credentials', m)) < MaximumActive
    BY <2>1, NoMoreKeepsRoom
  <2>3. QED BY <2>2 DEF RoomKept
<1>11. ActiveWithinMaximum'
  <2>1. ASSUME ~straddled'
        PROVE  Cardinality(ServiceOf(credentials', now)) <= MaximumActive
    <3>1. Cardinality(InService(now)) <= MaximumActive
      BY <2>1, ServiceCounts DEF IInv, InService
    <3>2. NoMore(now)
      BY <1>1, <1>9
    <3>3. QED BY <1>1, <3>1, <3>2, NoMoreKeepsRoom
  <2>2. QED BY <2>1, ServiceCounts
<1>12. QED BY <1>8, <1>10, <1>11

LEMMA RevokesKeep ==
    ASSUME IInv, NEW c \in Credential, Revokes(c)
    PROVE  Kept /\ ActiveWithinMaximum' /\ \A m \in 0..now : RoomKept(m)
<1> DEFINE row == [credentials[c] EXCEPT !.revoked = TRUE]
<1>1. credentials \in [Credential -> Row] /\ credentials[c] \in Row /\ disconnected \subseteq Credential
  BY DEF IInv, TypeOK
<1>2. /\ row \in Row /\ row.revoked /\ row.exists = credentials[c].exists
      /\ row.replaces = credentials[c].replaces /\ row.expires = credentials[c].expires
  BY <1>1, RevokedRow
<1>3. /\ Exists(c) /\ credentials[c].exists
      /\ disconnected' = disconnected \cup {c} /\ now' = now /\ straddled' = straddled
  BY DEF Revokes, Exists
<1>4. /\ disconnected' \subseteq Credential /\ c \in disconnected'
      /\ \A d \in Credential : d \in disconnected' <=> d \in disconnected
                                   \/ (d = c /\ c \in disconnected')
  BY <1>1, <1>3
<1>5. CASE credentials' = [credentials EXCEPT ![c].revoked = TRUE]
  <2>1. credentials' = [credentials EXCEPT ![c] = row]
    BY <1>5
  <2> HIDE DEF row
  <2>2. QED BY <1>2, <1>3, <1>4, <2>1, TouchesKeep
<1>6. CASE credentials[c].revoked /\ UNCHANGED credentials
  <2>1. credentials' = [credentials EXCEPT ![c] = credentials[c]]
    BY <1>1, <1>6
  <2>2. QED BY <1>1, <1>3, <1>4, <1>6, <2>1, TouchesKeep
<1>7. QED BY <1>5, <1>6 DEF Revokes

LEMMA UsesKeep ==
    ASSUME IInv, NEW c \in Credential, Uses(c)
    PROVE  Kept /\ ActiveWithinMaximum' /\ \A m \in 0..now : RoomKept(m)
<1> DEFINE row == [credentials[c] EXCEPT !.used = TRUE]
<1>1. credentials \in [Credential -> Row] /\ credentials[c] \in Row /\ disconnected \subseteq Credential
  BY DEF IInv, TypeOK
<1>2. /\ row \in Row /\ row.revoked = credentials[c].revoked /\ row.exists = credentials[c].exists
      /\ row.replaces = credentials[c].replaces /\ row.expires = credentials[c].expires
  BY <1>1, UsedRow
<1>3. /\ Exists(c) /\ credentials[c].exists
      /\ disconnected' = disconnected /\ now' = now /\ straddled' = straddled
      /\ credentials' = [credentials EXCEPT ![c] = row]
  BY DEF Uses, Exists
<1>4. credentials[c].revoked <=> (c \in disconnected' \/ Replaced(c))
  BY <1>3 DEF IInv, Reasons
<1> HIDE DEF row
<1>5. QED BY <1>1, <1>2, <1>3, <1>4, TouchesKeep

LEMMA WaitsKeep ==
    ASSUME IInv, Waits
    PROVE  Kept /\ ActiveWithinMaximum' /\ \A m \in 0..now : RoomKept(m)
<1>1. /\ credentials \in [Credential -> Row] /\ now \in Nat /\ now' \in Nat
      /\ disconnected \subseteq Credential /\ straddled \in BOOLEAN /\ TypeOK
  BY Constants DEF IInv, TypeOK, Waits
<1>2. /\ credentials' = credentials /\ disconnected' = disconnected /\ straddled' = straddled
      /\ now' \in 0..MaxTime /\ now <= now'
  BY DEF Waits
<1>3. Rows' /\ Reasons' /\ Created' = Created
  BY <1>2 DEF IInv, Rows, Reasons, Replaced, Created, Exists
<1>4. Kept
  BY <1>1, <1>2, <1>3 DEF Kept, Exists
<1>5. \A m \in 0..now : RoomKept(m)
  BY <1>1, <1>2, ServiceCounts DEF RoomKept
<1>6. ActiveWithinMaximum'
  <2> DEFINE k == Cardinality(InService(now))
             n == Cardinality(InService(now'))
  <2>1. n <= k /\ k \in Nat /\ n \in Nat
    <3>1. InService(now) \subseteq Credential /\ InService(now') \subseteq Credential
      BY DEF InService, ServiceOf
    <3>2. QED BY <1>1, <1>2, <3>1, ServiceEnds, Counts
  <2>2. ASSUME ~straddled' PROVE k <= MaximumActive
    BY <1>2, <2>2, ServiceCounts DEF IInv, InService
  <2>3. ServiceOf(credentials', now') = InService(now')
    BY <1>2 DEF InService
  <2> HIDE DEF k, n
  <2>4. ASSUME ~straddled' PROVE n <= MaximumActive
    BY <2>1, <2>2, <2>4, Constants
  <2>5. QED BY <2>3, <2>4, ServiceCounts DEF n
<1>7. QED BY <1>4, <1>5, <1>6

LEMMA StepKeeps ==
    IInv /\ [Next]_vars => Kept /\ ActiveWithinMaximum' /\ \A m \in 0..now : RoomKept(m)
<1>1. ASSUME IInv, NEW c \in Credential, NEW at \in 0..MaxTime, Creates(c, at)
      PROVE  Kept /\ ActiveWithinMaximum' /\ \A m \in 0..now : RoomKept(m)
  BY <1>1, CreatesKeep DEF RoomKept
<1>2. QED BY <1>1, TablesStep, RotatesKeep, RevokesKeep, UsesKeep, WaitsKeep DEF TableStep

-----------------------------------------------------------------------------
(* What a step does to the requests.                                       *)

\* What a handler that begins, or begins again, goes on with.
Begins(tx) ==
    /\ tx \in Tx
    /\ tx.op \in {"rotate", "revoke", "use"} => Exists(tx.credential)
    /\ tx.op \in {"create", "rotate"} => tx.at <= now
    /\ tx.op = "create" =>
          tx.seen = Created /\ HasRoom(tx.at) /\ UNCHANGED <<credentials, now, straddled>>

LEMMA Counted ==
    ASSUME TypeOK, NEW at \in 0..now, NEW attempt \in 1..MaxAttempts, HasRoom(at),
           UNCHANGED <<credentials, now, straddled>>
    PROVE  Begins(CountedAt(at, attempt))
<1>1. at \in 0..MaxTime /\ at <= now /\ Created \subseteq Credential
  BY Constants DEF TypeOK, Created
<1> DEFINE tx == CountedAt(at, attempt)
<1>2. tx \in CreateTx /\ tx.op = "create" /\ tx.at = at /\ tx.seen = Created
  BY <1>1, SMT DEF CreateTx, CountedAt
<1> HIDE DEF tx
<1>3. Begins(tx)
  BY <1>1, <1>2 DEF Begins, Tx
<1>4. QED BY <1>3 DEF tx

LEMMA Read ==
    ASSUME TypeOK, NEW c \in Credential, NEW at \in 0..now, NEW attempt \in 1..MaxAttempts,
           ActiveAt(c, at)
    PROVE  Begins(ReadAt(c, at, attempt))
<1>1. at \in 0..MaxTime /\ at <= now /\ Exists(c)
  BY Constants DEF TypeOK, ActiveAt
<1> DEFINE tx == ReadAt(c, at, attempt)
<1>2. tx \in RotateTx /\ tx.op = "rotate" /\ tx.at = at /\ tx.credential = c
  BY <1>1, SMT DEF RotateTx, ReadAt
<1> HIDE DEF tx
<1>3. Begins(tx)
  BY <1>1, <1>2 DEF Begins, Tx
<1>4. QED BY <1>3 DEF tx

LEMMA Touched ==
    ASSUME NEW c \in Credential, Exists(c), NEW op \in {"revoke", "use"}
    PROVE  Begins([op |-> op, credential |-> c])
<1> DEFINE tx == [op |-> op, credential |-> c]
<1>1. tx \in TouchTx /\ tx.op \in {"revoke", "use"} /\ tx.credential = c
  BY SMT DEF TouchTx
<1> HIDE DEF tx
<1>2. Begins(tx)
  BY <1>1 DEF Begins, Tx
<1>3. QED BY <1>2 DEF tx

RequestStep ==
    \/ UNCHANGED requests
    \/ requests' = [r \in Request |-> Idle]
    \/ \E r \in Request : requests' = [requests EXCEPT ![r] = Idle]
    \/ \E r \in Request : \E tx \in Tx : Begins(tx) /\ requests' = [requests EXCEPT ![r] = tx]

LEMMA RequestsStep == IInv /\ [Next]_vars => RequestStep
<1> SUFFICES ASSUME IInv, [Next]_vars PROVE RequestStep
  OBVIOUS
<1>1. TypeOK /\ requests \in [Request -> Tx] /\ now \in 0..MaxTime /\ 1 \in 1..MaxAttempts
  BY Constants DEF IInv, TypeOK
<1>2. \A tx \in Tx, r \in Request :
          (tx.op \in {"create", "rotate"} /\ AttemptLeft(tx)) => tx.attempt + 1 \in 1..MaxAttempts
  BY TxOfOp, Constants DEF AttemptLeft
<1>3. ASSUME NEW r \in Request, NEW tx, Begins(tx), requests' = [requests EXCEPT ![r] = tx]
      PROVE  RequestStep
  BY <1>3 DEF RequestStep, Begins
<1>4. ASSUME NEW r \in Request, NEW at \in 0..now, CreateBegin(r, at) PROVE RequestStep
  <2>1. Begins(CountedAt(at, 1))
    BY <1>1, <1>4, Counted DEF CreateBegin
  <2>2. QED BY <1>3, <1>4, <2>1 DEF CreateBegin, Open
<1>5. ASSUME NEW r \in Request, NEW at \in 0..now, CreateAbort(r, at) PROVE RequestStep
  <2>1. CASE Close(r)
    BY <2>1 DEF Close, RequestStep
  <2> DEFINE n == requests[r].attempt + 1
  <2>2. CASE /\ AttemptLeft(requests[r]) /\ HasRoom(at)
             /\ requests' = [requests EXCEPT ![r] = CountedAt(at, n)]
    <3>1. n \in 1..MaxAttempts
      BY <1>1, <1>2, <1>5, <2>2 DEF CreateAbort
    <3> HIDE DEF n
    <3>2. Begins(CountedAt(at, n))
      BY <1>1, <1>5, <2>2, <3>1, Counted DEF CreateAbort
    <3>3. QED BY <1>3, <2>2, <3>2
  <2>3. QED BY <1>5, <2>1, <2>2 DEF CreateAbort
<1>6. ASSUME NEW r \in Request, NEW c \in Credential, NEW at \in 0..now, RotateBegin(r, c, at)
      PROVE  RequestStep
  <2>1. Begins(ReadAt(c, at, 1))
    BY <1>1, <1>6, Read DEF RotateBegin
  <2>2. QED BY <1>3, <1>6, <2>1 DEF RotateBegin, Open
<1>7. ASSUME NEW r \in Request, NEW at \in 0..now, RotateAbort(r, at) PROVE RequestStep
  <2>1. CASE Close(r)
    BY <2>1 DEF Close, RequestStep
  <2> DEFINE n == requests[r].attempt + 1
             c == requests[r].credential
  <2>2. CASE /\ AttemptLeft(requests[r]) /\ ActiveAt(c, at)
             /\ requests' = [requests EXCEPT ![r] = ReadAt(c, at, n)]
    <3>1. n \in 1..MaxAttempts /\ c \in Credential
      BY <1>1, <1>2, <1>7, <2>2, TxOfOp DEF RotateAbort
    <3> HIDE DEF n, c
    <3>2. Begins(ReadAt(c, at, n))
      BY <1>1, <2>2, <3>1, Read
    <3>3. QED BY <1>3, <2>2, <3>2
  <2>3. QED BY <1>7, <2>1, <2>2 DEF RotateAbort
<1>8. ASSUME NEW r \in Request, NEW c \in Credential, RevokeBegin(r, c) PROVE RequestStep
  <2>1. Exists(c) /\ (UNCHANGED requests \/ Open(r, [op |-> "revoke", credential |-> c]))
    BY <1>8 DEF RevokeBegin
  <2>2. Begins([op |-> "revoke", credential |-> c])
    BY <2>1, Touched
  <2>3. QED BY <1>3, <2>1, <2>2 DEF Open, RequestStep
<1>9. ASSUME NEW r \in Request, NEW c \in Credential, UseBegin(r, c) PROVE RequestStep
  <2>1. Exists(c) /\ Open(r, [op |-> "use", credential |-> c])
    BY <1>9 DEF UseBegin, ActiveAt
  <2>2. Begins([op |-> "use", credential |-> c])
    BY <2>1, Touched
  <2>3. QED BY <1>3, <2>1, <2>2 DEF Open
<1>10. ASSUME NEW r \in Request, Close(r) PROVE RequestStep
  BY <1>10 DEF Close, RequestStep
<1>11. QED
  BY <1>4, <1>5, <1>6, <1>7, <1>8, <1>9, <1>10
  DEF Next, vars, Tick, Restart, CreateCommit, RotateCommit, RevokeWrite, UseWrite, RequestStep

-----------------------------------------------------------------------------
(* The invariant holds.                                                    *)

LEMMA Initially == Init => IInv
<1> SUFFICES ASSUME Init PROVE IInv
  OBVIOUS
<1>1. /\ credentials = [c \in Credential |-> NoRow] /\ requests = [r \in Request |-> Idle]
      /\ now = 0 /\ disconnected = {} /\ straddled = FALSE
  BY DEF Init
<1>2. \A c \in Credential : credentials[c] = NoRow
  BY <1>1
<1>3. \A r \in Request : requests[r] = Idle /\ requests[r].op = "idle"
  BY <1>1, Constants
<1>4. TypeOK
  <2>1. credentials \in [Credential -> Row] /\ requests \in [Request -> Tx]
    BY <1>1, Constants
  <2>2. now \in 0..MaxTime
    BY <1>1, Constants
  <2>3. QED BY <1>1, <2>1, <2>2 DEF TypeOK
<1>5. Rows /\ Reasons
  BY <1>1, <1>2, Constants DEF Rows, Reasons, Replaced, Exists
<1>6. RequestsFit /\ OpenCreatesHaveRoom
  BY <1>3 DEF RequestsFit, OpenCreatesHaveRoom
<1>7. ActiveWithinMaximum
  <2>1. ServiceOf(credentials, now) = {}
    BY <1>2, Constants DEF ServiceOf
  <2>2. Cardinality(ServiceOf(credentials, now)) <= MaximumActive
    BY <2>1, FS_EmptySet, Constants
  <2>3. QED BY <2>2, ServiceCounts
<1>8. QED BY <1>4, <1>5, <1>6, <1>7 DEF IInv

LEMMA RequestsKeep == IInv /\ [Next]_vars => RequestsFit' /\ OpenCreatesHaveRoom'
                                             /\ requests' \in [Request -> Tx]
<1> SUFFICES ASSUME IInv, [Next]_vars
             PROVE  RequestsFit' /\ OpenCreatesHaveRoom' /\ requests' \in [Request -> Tx]
  OBVIOUS
<1>1. requests \in [Request -> Tx] /\ now \in Nat /\ now \in 0..MaxTime /\ straddled \in BOOLEAN
  BY Constants DEF IInv, TypeOK
<1>2. Kept /\ \A m \in 0..now : RoomKept(m)
  BY StepKeeps
<1>3. RequestStep
  BY RequestsStep
<1>4. requests' \in [Request -> Tx]
  BY <1>1, <1>3, Constants DEF RequestStep
<1>5. /\ now' \in Nat /\ now <= now' /\ (straddled => straddled')
      /\ (\A c \in Credential : Exists(c) => credentials'[c].exists) /\ Created \subseteq Created'
  BY <1>2, Constants DEF Kept, Exists
<1>6. ASSUME NEW r \in Request
      PROVE  \/ requests'[r] = Idle \/ requests'[r] = requests[r]
             \/ Begins(requests'[r])
  BY <1>1, <1>3, <1>6 DEF RequestStep
<1> DEFINE Fit(tx) ==
             /\ tx.op \in {"rotate", "revoke", "use"} => credentials'[tx.credential].exists
             /\ tx.op \in {"create", "rotate"} => tx.at <= now'
             /\ tx.op = "create" => tx.seen \subseteq Created'
           Room(tx) ==
             tx.op = "create" /\ Created' = tx.seen /\ ~straddled'
                => Cardinality(ServiceOf(credentials', tx.at)) < MaximumActive
<1>7. ASSUME NEW r \in Request PROVE Fit(requests'[r]) /\ Room(requests'[r])
  <2>1. CASE requests'[r] = Idle
    BY <2>1, Constants
  <2>2. CASE requests'[r] = requests[r]
    <3> DEFINE tx == requests[r]
    <3>1. tx \in Tx /\ Fit(tx)
      <4>1. tx \in Tx
        BY <1>1
      <4>2. /\ tx.op \in {"rotate", "revoke", "use"} => Exists(tx.credential)
            /\ tx.op \in {"create", "rotate"} => tx.at <= now
            /\ tx.op = "create" => tx.seen \subseteq Created
        BY DEF IInv, RequestsFit
      <4> HIDE DEF tx
      <4>3. /\ tx.op \in {"rotate", "revoke", "use"} => tx.credential \in Credential
            /\ tx.op \in {"create", "rotate"} => tx.at \in Nat
        BY <4>1, TxOfOp, Constants
      <4>4. tx.op \in {"rotate", "revoke", "use"} => credentials'[tx.credential].exists
        BY <1>5, <4>2, <4>3
      <4>5. tx.op \in {"create", "rotate"} => tx.at <= now'
        BY <1>1, <1>5, <4>2, <4>3
      <4>6. QED BY <1>5, <4>1, <4>2, <4>4, <4>5
    <3>2. Room(tx)
      <4> SUFFICES ASSUME tx.op = "create", Created' = tx.seen, ~straddled'
                   PROVE  Cardinality(ServiceOf(credentials', tx.at)) < MaximumActive
        OBVIOUS
      <4>1. tx.seen \subseteq Created /\ tx.at <= now /\ tx.at \in 0..MaxTime
        BY <3>1, TxOfOp DEF IInv, RequestsFit
      <4>2. Created = tx.seen /\ Created' = Created
        BY <1>5, <4>1
      <4>3. HasRoom(tx.at)
        BY <1>5, <4>2 DEF IInv, OpenCreatesHaveRoom, CreateSerializable
      <4>4. tx.at \in 0..now
        BY <1>1, <4>1, Constants
      <4>5. QED BY <1>2, <4>2, <4>3, <4>4 DEF RoomKept
    <3>3. QED BY <2>2, <3>1, <3>2
  <2>3. CASE Begins(requests'[r])
    <3> DEFINE tx == requests'[r]
    <3>1. /\ tx \in Tx
          /\ tx.op \in {"rotate", "revoke", "use"} => Exists(tx.credential)
          /\ tx.op \in {"create", "rotate"} => tx.at <= now
          /\ tx.op = "create" => tx.seen = Created
          /\ tx.op = "create" => Cardinality(ServiceOf(credentials, tx.at)) < MaximumActive
          /\ tx.op = "create" => credentials' = credentials
      <4>1. tx \in Tx
        BY <2>3 DEF Begins
      <4>2. tx.op = "create" => tx.at \in Nat
        BY <4>1, TxOfOp, Constants
      <4>3. QED BY <2>3, <4>2, ServiceCounts DEF Begins
    <3> HIDE DEF tx
    <3>2. /\ tx.op \in {"rotate", "revoke", "use"} => tx.credential \in Credential
          /\ tx.op \in {"create", "rotate"} => tx.at \in Nat
      BY <3>1, TxOfOp, Constants
    <3>3. Fit(tx)
      BY <1>1, <1>5, <3>1, <3>2
    <3>4. Room(tx)
      BY <3>1
    <3>5. QED BY <3>3, <3>4 DEF tx
  <2>4. QED BY <1>6, <2>1, <2>2, <2>3
<1>8. RequestsFit'
  BY <1>7 DEF RequestsFit, Exists
<1>9. OpenCreatesHaveRoom'
  <2>1. \A r \in Request : requests'[r].op = "create" => requests'[r].at \in Nat
    BY <1>4, TxOfOp, Constants
  <2>2. QED BY <1>7, <2>1 DEF OpenCreatesHaveRoom, CreateSerializable, HasRoom, ServiceOf, ActiveAt, Exists
<1>10. QED BY <1>4, <1>8, <1>9

LEMMA InvariantStep == IInv /\ [Next]_vars => IInv'
<1> SUFFICES ASSUME IInv, [Next]_vars PROVE IInv'
  OBVIOUS
<1>1. Kept /\ ActiveWithinMaximum'
  BY StepKeeps
<1>2. RequestsFit' /\ OpenCreatesHaveRoom' /\ requests' \in [Request -> Tx]
  BY RequestsKeep
<1>3. TypeOK'
  BY <1>1, <1>2 DEF Kept, TypeOK
<1>4. QED BY <1>1, <1>2, <1>3 DEF Kept, IInv

\* The invariant the theorems below rest on holds in every reachable state of
\* the credentials (shortcut-import-credentials.service.ts).
THEOREM Invariance == Spec => []IInv
<1>1. QED BY Initially, InvariantStep, PTL DEF Spec

-----------------------------------------------------------------------------
(* The theorems.                                                           *)

\* Rows and open transactions keep their types, and no transaction makes more
\* attempts than MAX_TRANSACTION_ATTEMPTS
\* (create and rotate, shortcut-import-credentials.service.ts:33-228).
THEOREM TypeCorrect == Spec => []TypeOK
<1>1. IInv => TypeOK
  BY DEF IInv
<1>2. QED BY <1>1, Invariance, PTL

\* A credential goes out of service because its user revoked it or because
\* exactly one other replaced it
\* (rotate, shortcut-import-credentials.service.ts:163-197).
THEOREM OutOfService == Spec => []OutOfServiceForAReason
<1>1. IInv => OutOfServiceForAReason
  <2> SUFFICES ASSUME IInv, NEW c \in Credential
               PROVE  LET heirs == {d \in Credential : credentials[d].replaces = c} IN
                      /\ Cardinality(heirs) <= 1
                      /\ credentials[c].revoked <=> (c \in disconnected \/ heirs # {})
    BY DEF OutOfServiceForAReason
  <2> DEFINE heirs == {d \in Credential : credentials[d].replaces = c}
  <2>1. credentials[c].revoked <=> (c \in disconnected \/ heirs # {})
    BY DEF IInv, Reasons, Replaced
  <2>2. CASE heirs = {}
    <3>1. Cardinality(heirs) = 0
      BY <2>2, FS_EmptySet
    <3>2. Cardinality(heirs) <= 1
      BY <3>1
    <3>3. QED BY <2>1, <3>2
  <2>3. ASSUME NEW d \in heirs PROVE Cardinality(heirs) <= 1
    <3>1. heirs = {d}
      BY Constants DEF IInv, Reasons
    <3>2. Cardinality({d}) = 1
      BY FS_Singleton
    <3>3. QED BY <3>1, <3>2
  <2>4. QED BY <2>1, <2>2, <2>3
<1>2. QED BY <1>1, Invariance, PTL

\* A user never has more active credentials than the maximum, however creates,
\* rotations and revocations interleave and retry, unless a rotation committed
\* after the credential it replaced had expired
\* (create and rotate, shortcut-import-credentials.service.ts:48-61 and 175).
THEOREM WithinMaximum == Spec => []ActiveWithinMaximum
<1>1. IInv => ActiveWithinMaximum
  BY DEF IInv
<1>2. QED BY <1>1, Invariance, PTL

-----------------------------------------------------------------------------
(* The lines of credentials.                                               *)

\* Where a credential has got to, by whether it was replaced.
LEMMA StandingFacts ==
    ASSUME IInv, NEW c \in Credential
    PROVE  /\ HeirsOf(c) \subseteq Credential
           /\ Replaced(c) <=> HeirsOf(c) # {}
           /\ Replaced(c) => Standings[c] = "replaced"
           /\ ~Replaced(c) /\ credentials[c].revoked => Standings[c] = "disconnected"
           /\ ~Replaced(c) /\ ~credentials[c].revoked /\ Exists(c) => Standings[c] = "serving"
           /\ ~Exists(c) => Standings[c] = "unissued" /\ ~Replaced(c)
<1>1. HeirsOf(c) \subseteq Credential /\ (Replaced(c) <=> HeirsOf(c) # {})
  BY DEF HeirsOf, Replaced
<1>2. ~Exists(c) => ~credentials[c].revoked /\ ~Replaced(c)
  BY Constants DEF IInv, Rows, Replaced
<1>3. Standings[c] = StandingOf(c)
  BY DEF Standings
<1>4. QED BY <1>1, <1>2, <1>3 DEF StandingOf

\* What a standing and an heir are read from.
LEMMA SameStanding ==
    ASSUME NEW c \in Credential, Exists(c)' = Exists(c),
           credentials'[c].revoked = credentials[c].revoked, HeirsOf(c)' = HeirsOf(c)
    PROVE  StandingOf(c)' = StandingOf(c)
  BY DEF StandingOf

LEMMA SameHeir ==
    ASSUME NEW c \in Credential, HeirsOf(c)' = HeirsOf(c)
    PROVE  HeirOf(c)' = HeirOf(c)
<1> DEFINE Heir(S) == IF S = {} THEN None ELSE CHOOSE d \in S : TRUE
<1>1. HeirOf(c)' = Heir(HeirsOf(c)') /\ HeirOf(c) = Heir(HeirsOf(c))
  BY Zenon DEF HeirOf
<1> HIDE DEF Heir
<1>2. QED BY <1>1

LEMMA SameLine ==
    ASSUME \A c \in Credential : /\ credentials'[c].exists = credentials[c].exists
                                 /\ credentials'[c].revoked = credentials[c].revoked
                                 /\ credentials'[c].replaces = credentials[c].replaces
    PROVE  UNCHANGED <<Standings, Heirs>>
<1>1. \A c \in Credential : HeirsOf(c)' = HeirsOf(c) /\ Exists(c)' = Exists(c)
  BY DEF HeirsOf, Exists
<1>2. \A c \in Credential : StandingOf(c)' = StandingOf(c)
  BY <1>1, SameStanding
<1>3. \A c \in Credential : HeirOf(c)' = HeirOf(c)
  BY <1>1, SameHeir
<1>4. QED BY <1>2, <1>3 DEF Standings, Heirs

\* A new credential begins a line.
LEMMA CreatesIssues ==
    ASSUME IInv, NEW c \in Credential, NEW at \in 0..MaxTime, Creates(c, at)
    PROVE  Line!Issue(c)
<1> DEFINE row == NewRow(at, None)
<1>1. row.exists /\ ~row.revoked /\ row.replaces = None /\ row \in Row
  BY NewRows
<1>2. credentials \in [Credential -> Row] /\ credentials' = [credentials EXCEPT ![c] = row]
  BY DEF IInv, TypeOK, Creates
<1> HIDE DEF row
<1>3. credentials'[c] = row /\ \A d \in Credential : d # c => credentials'[d] = credentials[d]
  BY <1>2
<1>4. ~Exists(c) /\ ~credentials[c].revoked /\ credentials[c].replaces = None
  BY Constants DEF Creates, IInv, Rows
<1>5. \A d \in Credential : credentials'[d].replaces = credentials[d].replaces
  BY <1>1, <1>3, <1>4
<1>6. \A d \in Credential : HeirsOf(d)' = HeirsOf(d)
  BY <1>5 DEF HeirsOf
<1>7. \A d \in Credential : HeirOf(d)' = HeirOf(d)
  BY <1>6, SameHeir
<1>8. UNCHANGED Heirs
  BY <1>7 DEF Heirs
<1>9. HeirsOf(c) = {} /\ Standings[c] = "unissued"
  BY <1>4, StandingFacts
<1>10. StandingOf(c)' = "serving"
  BY <1>1, <1>3, <1>6, <1>9 DEF StandingOf, Exists
<1>11. \A d \in Credential : d # c => StandingOf(d)' = StandingOf(d)
  BY <1>3, <1>6 DEF StandingOf, Exists
<1>12. \A d \in Credential : StandingOf(d)' = IF d = c THEN "serving" ELSE StandingOf(d)
  BY <1>10, <1>11
<1>13. Standings' = [Standings EXCEPT ![c] = "serving"]
  BY <1>12 DEF Standings
<1>14. UNCHANGED disconnected
  BY DEF Creates
<1>15. QED BY <1>8, <1>9, <1>13, <1>14 DEF Line!Issue

\* A rotation replaces a credential that serves by one that was never issued.
LEMMA RotatesReplaces ==
    ASSUME IInv, NEW old \in Credential, NEW c \in Credential, NEW at \in 0..MaxTime,
           Rotates(old, c, at)
    PROVE  Line!Replace(old, c)
<1> DEFINE gone == [credentials[old] EXCEPT !.revoked = TRUE]
           row == NewRow(at, old)
<1>1. /\ credentials \in [Credential -> Row]
      /\ Exists(old) /\ ~credentials[old].revoked /\ ~Exists(c) /\ old # c
  BY DEF IInv, TypeOK, Rotates
<1>2. row.exists /\ ~row.revoked /\ row.replaces = old /\ row \in Row
  BY NewRows
<1>3. gone.exists = credentials[old].exists /\ gone.replaces = credentials[old].replaces
  BY <1>1, RevokedRow
<1>4. credentials' = [credentials EXCEPT ![old] = gone, ![c] = row]
  BY <1>1 DEF Rotates
<1> HIDE DEF gone, row
<1>5. /\ credentials'[c] = row /\ credentials'[old] = gone
      /\ \A d \in Credential : d # c /\ d # old => credentials'[d] = credentials[d]
  BY <1>1, <1>4
<1>6. ~Replaced(old) /\ credentials[c].replaces = None /\ ~Replaced(c)
  BY <1>1, Constants, StandingFacts DEF IInv, Reasons, Rows
<1>7. /\ credentials'[c].replaces = old
      /\ \A d \in Credential : d # c => credentials'[d].replaces = credentials[d].replaces
  BY <1>2, <1>3, <1>5
<1>8. HeirsOf(old)' = {c}
  BY <1>6, <1>7 DEF HeirsOf, Replaced
<1>9. \A d \in Credential : d # old => HeirsOf(d)' = HeirsOf(d)
  BY <1>6, <1>7, Constants DEF HeirsOf
<1>10. Standings[old] = "serving" /\ Standings[c] = "unissued" /\ HeirsOf(c) = {}
  BY <1>1, <1>6, StandingFacts
<1>11. StandingOf(old)' = "replaced"
  BY <1>8 DEF StandingOf
<1>12. StandingOf(c)' = "serving"
  BY <1>1, <1>2, <1>5, <1>9, <1>10 DEF StandingOf, Exists
<1>13. \A d \in Credential : d # old /\ d # c => StandingOf(d)' = StandingOf(d)
  BY <1>5, <1>9 DEF StandingOf, Exists
<1>14. Standings' = [Standings EXCEPT ![old] = "replaced", ![c] = "serving"]
  BY <1>1, <1>11, <1>12, <1>13 DEF Standings
<1>15. HeirOf(old)' = c
  BY <1>8 DEF HeirOf
<1>16. \A d \in Credential : d # old => HeirOf(d)' = HeirOf(d)
  BY <1>9, SameHeir
<1>17. Heirs' = [Heirs EXCEPT ![old] = c]
  BY <1>15, <1>16 DEF Heirs
<1>18. UNCHANGED disconnected
  BY DEF Rotates
<1>19. QED BY <1>10, <1>14, <1>17, <1>18 DEF Line!Replace

\* A revocation disconnects a credential that serves, or tells its user of one
\* that had stopped.
LEMMA RevokesDisconnects ==
    ASSUME IInv, NEW c \in Credential, Revokes(c)
    PROVE  Line!Disconnect(c) \/ Line!Tell(c)
<1> DEFINE gone == [credentials[c] EXCEPT !.revoked = TRUE]
<1>1. credentials \in [Credential -> Row] /\ Exists(c) /\ disconnected' = disconnected \cup {c}
  BY DEF IInv, TypeOK, Revokes
<1>2. gone.exists = credentials[c].exists /\ gone.replaces = credentials[c].replaces /\ gone.revoked
  BY <1>1, RevokedRow
<1>3. \/ credentials' = [credentials EXCEPT ![c] = gone]
      \/ credentials[c].revoked /\ UNCHANGED credentials
  BY <1>1 DEF Revokes
<1> HIDE DEF gone
<1>4. /\ credentials'[c].revoked /\ credentials'[c].exists = credentials[c].exists
      /\ credentials'[c].replaces = credentials[c].replaces
      /\ \A d \in Credential : d # c => credentials'[d] = credentials[d]
  BY <1>1, <1>2, <1>3
<1>5. \A d \in Credential : HeirsOf(d)' = HeirsOf(d) /\ Exists(d)' = Exists(d)
  BY <1>4 DEF HeirsOf, Exists
<1>6. \A d \in Credential : HeirOf(d)' = HeirOf(d)
  BY <1>5, SameHeir
<1>7. UNCHANGED Heirs
  BY <1>6 DEF Heirs
<1>8. \A d \in Credential : d # c => StandingOf(d)' = StandingOf(d)
  BY <1>4, <1>5, SameStanding
<1>9. CASE credentials[c].revoked \/ Replaced(c)
  <2>1. Standings[c] \in {"replaced", "disconnected"}
    BY <1>9, StandingFacts
  <2>2. StandingOf(c)' = StandingOf(c)
    BY <1>4, <1>5, <1>9, StandingFacts DEF StandingOf
  <2>3. UNCHANGED Standings
    BY <1>8, <2>2 DEF Standings
  <2>4. QED BY <1>1, <1>7, <2>1, <2>3 DEF Line!Tell
<1>10. CASE ~credentials[c].revoked /\ ~Replaced(c)
  <2>1. Standings[c] = "serving" /\ HeirsOf(c) = {}
    BY <1>1, <1>10, StandingFacts
  <2>2. StandingOf(c)' = "disconnected"
    BY <1>4, <1>5, <2>1 DEF StandingOf
  <2>3. Standings' = [Standings EXCEPT ![c] = "disconnected"]
    BY <1>8, <2>2 DEF Standings
  <2>4. QED BY <1>1, <1>7, <2>1, <2>3 DEF Line!Disconnect
<1>11. QED BY <1>9, <1>10

LEMMA LineStep == IInv /\ [Next]_vars => [Line!Next]_(Line!vars)
<1> SUFFICES ASSUME IInv, [Next]_vars
             PROVE  Line!Next \/ UNCHANGED <<Standings, Heirs, disconnected>>
  BY DEF Line!vars
<1>1. CASE Waits
  <2>1. UNCHANGED <<Standings, Heirs>>
    BY <1>1, SameLine DEF Waits
  <2>2. QED BY <1>1, <2>1 DEF Waits
<1>2. ASSUME NEW c \in Credential, NEW at \in 0..MaxTime, Creates(c, at) PROVE Line!Next
  BY <1>2, CreatesIssues DEF Line!Next
<1>3. ASSUME NEW old \in Credential, NEW c \in Credential, NEW at \in 0..MaxTime, Rotates(old, c, at)
      PROVE  Line!Next
  BY <1>3, RotatesReplaces DEF Line!Next
<1>4. ASSUME NEW c \in Credential, Revokes(c) PROVE Line!Next
  BY <1>4, RevokesDisconnects DEF Line!Next
<1>5. ASSUME NEW c \in Credential, Uses(c) PROVE UNCHANGED <<Standings, Heirs, disconnected>>
  <2> DEFINE row == [credentials[c] EXCEPT !.used = TRUE]
  <2>1. credentials \in [Credential -> Row]
    BY DEF IInv, TypeOK
  <2>2. /\ row.exists = credentials[c].exists /\ row.revoked = credentials[c].revoked
        /\ row.replaces = credentials[c].replaces
    BY <2>1, UsedRow
  <2>3. credentials' = [credentials EXCEPT ![c] = row] /\ UNCHANGED disconnected
    BY <1>5 DEF Uses
  <2> HIDE DEF row
  <2>4. QED BY <2>1, <2>2, <2>3, SameLine
<1>6. QED BY <1>1, <1>2, <1>3, <1>4, <1>5, TablesStep DEF TableStep

\* The tables and the transactions under way implement the line promised for
\* every credential: it is replaced by one other or disconnected, never both
\* and never undone, whatever creates, rotations and revocations interleave
\* (revoke and rotate, shortcut-import-credentials.service.ts:126-228).
THEOREM Implementation == Spec => ImplementsLine
<1>1. Init => Line!Init
  <2> SUFFICES ASSUME Init PROVE Line!Init
    OBVIOUS
  <2>1. \A c \in Credential : credentials[c] = NoRow
    BY DEF Init
  <2>2. \A c \in Credential : HeirsOf(c) = {}
    BY <2>1, Constants DEF HeirsOf
  <2>3. \A c \in Credential : StandingOf(c) = "unissued" /\ HeirOf(c) = None
    BY <2>1, <2>2, Constants DEF StandingOf, HeirOf, Exists
  <2>4. disconnected = {}
    BY DEF Init
  <2>5. QED BY <2>3, <2>4 DEF Line!Init, Standings, Heirs
<1>2. QED BY <1>1, LineStep, Invariance, PTL DEF Spec, ImplementsLine, Line!Spec

\* Whoever was told that a credential is disconnected cannot use it any more,
\* and a credential replaces one other at most, which is out of service: two
\* rotations never lead to the same credential
\* (revoke and rotate, shortcut-import-credentials.service.ts:126-228).
THEOREM LinesHold == Spec => [](Line!NoneToldServes /\ Line!LinesAreApart)
<1>1. ASSUME IInv PROVE Line!NoneToldServes
  <2> SUFFICES ASSUME NEW c \in disconnected PROVE Standings[c] \in {"replaced", "disconnected"}
    BY DEF Line!NoneToldServes
  <2>1. c \in Credential /\ credentials[c].revoked
    BY <1>1 DEF IInv, TypeOK, Reasons
  <2>2. QED BY <1>1, <2>1, StandingFacts
<1>2. ASSUME IInv PROVE Line!LinesAreApart
  <2>1. \A c \in Credential : Heirs[c] # None => Heirs[c] \in HeirsOf(c)
    BY DEF Heirs, HeirOf
  <2>2. \A c \in Credential : Heirs[c] # None =>
           Heirs[c] \in Credential /\ credentials[Heirs[c]].replaces = c /\ Replaced(c)
    BY <2>1 DEF HeirsOf, Replaced
  <2>3. \A c \in Credential : credentials[c].replaces # None => Exists(c)
    <3>1. Rows
      BY <1>2 DEF IInv
    <3>2. QED BY <3>1, Constants, Zenon DEF Rows
  <2>4. ASSUME NEW c \in Credential, Heirs[c] # None
        PROVE  Standings[c] = "replaced" /\ Standings[Heirs[c]] # "unissued"
    <3> DEFINE d == Heirs[c]
    <3>1. d \in Credential /\ credentials[d].replaces = c /\ Replaced(c) /\ c # None
      BY <2>2, <2>4, Constants
    <3>2. Exists(d)
      BY <2>3, <3>1
    <3> HIDE DEF d
    <3>3. Standings[d] # "unissued"
      BY <1>2, <3>1, <3>2, StandingFacts, RowsOf DEF IInv, TypeOK
    <3>4. Standings[c] = "replaced"
      BY <1>2, <3>1, StandingFacts
    <3>5. QED BY <3>3, <3>4 DEF d
  <2>5. QED BY <2>2, <2>4 DEF Line!LinesAreApart
<1>3. QED BY <1>1, <1>2, Invariance, PTL

\* The same of the table: among any credentials there is one whose replacement
\* is not one of them.
RotationsEnd ==
    \A S \in SUBSET Credential : S # {} => \E c \in S : HeirsOf(c) \cap S = {}

LEMMA RotationsEndStep == IInv /\ RotationsEnd /\ [Next]_vars => RotationsEnd'
<1> SUFFICES ASSUME IInv, RotationsEnd, TableStep PROVE RotationsEnd'
  BY TablesStep
<1>1. credentials \in [Credential -> Row]
  BY DEF IInv, TypeOK
<1>2. ASSUME \A c \in Credential : credentials'[c].replaces = credentials[c].replaces
      PROVE  RotationsEnd'
  <2>1. \A c \in Credential : HeirsOf(c)' = HeirsOf(c)
    BY <1>2 DEF HeirsOf
  <2>2. QED BY <2>1 DEF RotationsEnd
<1>3. ASSUME NEW c \in Credential, NEW at \in 0..MaxTime, Creates(c, at) PROVE RotationsEnd'
  <2> DEFINE row == NewRow(at, None)
  <2>1. row.replaces = None /\ credentials' = [credentials EXCEPT ![c] = row]
    BY <1>3, NewRows DEF Creates
  <2>2. credentials[c].replaces = None
    BY <1>3, Constants DEF Creates, IInv, Rows
  <2> HIDE DEF row
  <2>3. QED BY <1>1, <1>2, <2>1, <2>2
<1>4. ASSUME NEW c \in Credential, Revokes(c) \/ Uses(c) PROVE RotationsEnd'
  <2> DEFINE gone == [credentials[c] EXCEPT !.revoked = TRUE]
             used == [credentials[c] EXCEPT !.used = TRUE]
  <2>1. gone.replaces = credentials[c].replaces /\ used.replaces = credentials[c].replaces
    BY <1>1, RevokedRow, UsedRow
  <2>2. \/ credentials' = [credentials EXCEPT ![c] = gone]
        \/ credentials' = [credentials EXCEPT ![c] = used]
        \/ UNCHANGED credentials
    BY <1>4 DEF Revokes, Uses
  <2> HIDE DEF gone, used
  <2>3. QED BY <1>1, <1>2, <2>1, <2>2
<1>5. ASSUME NEW old \in Credential, NEW c \in Credential, NEW at \in 0..MaxTime, Rotates(old, c, at)
      PROVE  RotationsEnd'
  <2> DEFINE gone == [credentials[old] EXCEPT !.revoked = TRUE]
             row == NewRow(at, old)
  <2>1. gone.replaces = credentials[old].replaces /\ row.replaces = old
    BY <1>1, RevokedRow, NewRows
  <2>2. /\ credentials' = [credentials EXCEPT ![old] = gone, ![c] = row]
        /\ ~Exists(c) /\ c # old
    BY <1>5 DEF Rotates
  <2> HIDE DEF gone, row
  <2>3. credentials[c].replaces = None /\ ~Replaced(c)
    BY <2>2, Constants DEF IInv, Rows, Replaced
  <2>4. /\ credentials'[c].replaces = old
        /\ \A d \in Credential : d # c => credentials'[d].replaces = credentials[d].replaces
    BY <1>1, <2>1, <2>2
  <2>5. \A d \in Credential : d # old => HeirsOf(d)' \subseteq HeirsOf(d)
    BY <2>4 DEF HeirsOf
  <2>6. HeirsOf(c) = {} /\ c \in HeirsOf(old)'
    BY <2>3, <2>4 DEF HeirsOf, Replaced
  <2>7. ASSUME NEW S \in SUBSET Credential, S # {} PROVE \E d \in S : HeirsOf(d)' \cap S = {}
    <3>1. CASE c \in S
      BY <2>2, <2>5, <2>6, <3>1
    <3>2. CASE c \notin S
      <4>1. PICK d \in S : HeirsOf(d) \cap S = {}
        BY <2>7 DEF RotationsEnd
      <4>2. HeirsOf(d)' \subseteq HeirsOf(d) \cup {c}
        BY <2>4, <4>1 DEF HeirsOf
      <4>3. QED BY <3>2, <4>1, <4>2
    <3>3. QED BY <3>1, <3>2
  <2>8. QED BY <2>7 DEF RotationsEnd
<1>6. QED BY <1>2, <1>3, <1>4, <1>5 DEF TableStep, Waits

\* Every line of rotations ends in a credential that was not replaced: no
\* rotation leads back, however many run at once
\* (rotate, shortcut-import-credentials.service.ts:163-197).
THEOREM EveryLineEnds == Spec => []Line!LinesEnd
<1>1. Init => RotationsEnd
  BY Constants DEF Init, RotationsEnd, HeirsOf
<1>2. RotationsEnd => Line!LinesEnd
  <2> SUFFICES ASSUME RotationsEnd, NEW S \in SUBSET Credential, S # {}
               PROVE  \E c \in S : Heirs[c] \notin S
    BY DEF Line!LinesEnd
  <2>1. PICK c \in S : HeirsOf(c) \cap S = {}
    BY DEF RotationsEnd
  <2>2. Heirs[c] = HeirOf(c) /\ (HeirOf(c) \in HeirsOf(c) \/ HeirOf(c) = None)
    BY <2>1 DEF Heirs, HeirOf
  <2>3. QED BY <2>1, <2>2, Constants
<1>3. QED BY <1>1, <1>2, RotationsEndStep, Invariance, PTL DEF Spec

=============================================================================
