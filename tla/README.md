# Budgetify API: verification

TLA+ models of the Budgetify API (NestJS, Prisma, PostgreSQL), the TLC runs that
check them on small instances and the TLAPS proofs about them. Paths below are
relative to the repository; `modules/` stands for `src/modules/`.

Users of the API record what they pay and receive. They tell the server about a
transfer themselves, an iPhone Shortcut forwards the provider's SMS, and a
review turns what the SMS says into a received payment or an income. All state
is in PostgreSQL; the server keeps none between requests and may be restarted,
or run several times, at any moment. What is hard is therefore what requests do
to each other between two of their statements.

Contents: [inventory](#inventory) · [how the code is modelled](#how-the-code-is-modelled) ·
[modules](#modules) · [runs](#runs) · [proofs](#proofs) · [findings](#findings) ·
[not modelled](#not-modelled) · [plan](#plan)

## Inventory

| Component (code) | State | Operations | Meets | What is hard | What makes it correct |
|---|---|---|---|---|---|
| Message imports (`modules/financial-message-imports`) | `FinancialMessageImport` rows: status, details, raw text, duplicate mark, link to what they became | ingest, list, detail, update, confirm, dismiss, expiry, retention sweep | writes received payments and incomes; called with a Shortcut credential; a timer | two deliveries of one message; review against expiry; a serializable confirm with retries against READ COMMITTED dismiss and update; restart between retirements | money is recorded once, from what was confirmed, and only for confirmed imports; raw text does not outlive review; nothing waits for ever |
| Outgoing transactions (`modules/transactions`) | `Transaction`, `TransactionEvent` | create, USSD opened, provider result, manual result | the reports read them | repeated and concurrent reports; an idempotency key used twice; compare-and-set on a status read earlier | the ledger explains the status; a settled payment stays settled; acknowledged reports are kept; a reference settles one payment |
| Received payments (`modules/received-transactions`) | `ReceivedTransaction` | record by hand, record from SMS, classify | imports and incomes write them too | two ways to record one SMS; classification against a link | a reference is received once; a recorder is answered with what it asked for |
| Incomes (`modules/incomes`) | `Income` | create, update, receive, link, archive, candidates | link received payments | any order of edits around a link | a linked income says what its payment says; what is offered can be linked |
| Shortcut credentials (`modules/shortcut-import-credentials`) | `ShortcutImportCredential` | create, rotate, revoke, use by the guard | authorise ingest | a limit counted before an insert; a clock read before the transaction; five attempts | never more active than the maximum; each leaves service for one reason |
| Account deletion (`modules/users`, `modules/auth`) | `User.deletedAt`, `deletionScheduledFor`, `Session` | request, resolve at sign-in or activity, cancel, finalize, sweep | every authenticated request | a sweep working on a list read earlier; activity at the moment an account falls due; a request that reads the clock twice | grace is given; only a due account is deleted; what is due is settled |
| Sign-in (`modules/auth`) | one-time-code challenges, setup grants, password credentials, users | send and submit codes, count mistakes, issue and consume grants | opens sessions | a code replaced, expired or exhausted while it is being checked | an opening uses up a challenge and shows a code sent to its mailbox (that a code opens once does not hold, see findings); one active grant; a grant sets one password; mistakes belong to a code |
| Reports, lists and tariff (`modules/transactions`, `modules/received-transactions`: history, lists, analytics, fees) | none of their own | page through the history or one table, analytics of a period, quote | read both tables without a transaction | every query sees another state of the tables | pages are pages of the whole; figures differ only by what arrived meanwhile |
| Parser, provider registry and rollout | none | identify a provider, parse, decide a status and a confidence, hold back a provider that is not enabled | ingest, update | several providers' names in one text, refunds and debits | the sender decides; nothing is guessed; only what is complete, of an enabled provider and not a debit is taken as parsed |
| Pilot summary (`financial-message-pilot.service.ts`) | none | health and readiness of providers over the imports of some days | reads the imports | statuses that were computed from rows since changed; three ratios with zero denominators | a provider that is not enabled is called ready on messages whose every detail was given, or erased, by their owner; an alarm can be traced to a provider |
| E-mail, tokens, encryption, error filter, configuration, DTOs, Swagger | none | | every component | library code or I/O | not modelled |

`PROJECT.json` lists the components with their files, and the hazards of this
code line by line with the property that would catch each.

## How the code is modelled

**Statements and transactions.** PostgreSQL runs transactions at READ COMMITTED
unless the code asks for more. Such a handler is split where another request can
get between two of its statements in a way that matters: a `...Begin` action does
the reads and checks, keeping in `requests[r]` what was read, and a
`...Write`/`...Commit` action does the writes. Statements after a write that holds
the row's lock up to the commit are part of that write's action. A statement that
updates under a condition evaluates the condition when it runs, on the row as it
then is; the conditional updates of the code are guards of the write action.

A SERIALIZABLE transaction is a snapshot kept at its begin and a commit that is
possible only if nothing it read has changed; an abort is possible at any time,
which allows more than PostgreSQL's conflict detection does. The retry loops count
attempts and start again from a new snapshot, as the code does. Where all reads of
such a transaction are of rows it also writes, it is one atomic step (incomes).

**Unique indexes** are guards or error paths of the inserting action, with the
code's handling of P2002 (look the winner up, compare, answer or refuse).

**Requests** are crashes' unit: `Restart` forgets every open request, and nothing
else. Refusals, and repeats that are answered from what is stored, change no table;
they are the branches that free the request.

**Time** is a clock that any step may find advanced up to `MaxTime`. Day and minute
constants of the configuration are small numbers with the same order relations.
`SignIn` lets a challenge or grant expire at any moment instead of keeping a clock.

**Data** is as coarse as the properties allow: one user (every query is scoped by
the user's id), amounts, texts, references as model values, a parsed message as
a constant function of the message, validated bodies as sets of values.

**History variables** record what no table keeps, for properties only: what a client
was told (`acknowledged`, `created`, `answers`), what happened to a row (`disconnected`,
`straddled`, `asked`, `erased`, `sent`, `accepted`, `passwords`), what a reader may have
missed (`known`, `shown`, `news`). No guard reads them. `draws` and `mistakes` of `SignIn` are such
counts too, and bounded by its constants.

## Modules

`FinancialMessageImports` models `financial-message-imports.service.ts`,
`financial-message-review.service.ts` and `financial-message-retention.service.ts`.
`imports` is the import table, `received` and `incomes` what confirmations write,
`requests` the open handlers, `now` the clock. `IngestBegin/IngestCommit/IngestAbort`
are a delivery and its two answers to a collision; `UpdateBegin/UpdateWrite` and
`DismissBegin/DismissWrite` the READ COMMITTED reviews; `ConfirmBegin` to
`ConfirmAbort` the serializable confirmation with its retries; `List`, `DetailView`
expire what is overdue first, as the code does (`expireOne` runs in a statement of
its own before the transaction; it commutes with the first read and is merged with
it); `RunOnce` is one pass of the timer and `RecordElsewhere` a payment recorded by
the other component. A correction may set a detail, leave it out or carry an explicit null,
which the DTO lets through (`Patches`, `Erasable`): the write takes the null (`Written`,
`WrittenReference`), while the parse status is computed as if it had not been sent
(`Corrected`), so that a row can be stored PARSED without its amount or sender. `erased`
remembers which details of a row were lost that way.

`ImportLifecycle` is what a user is promised, without rows or requests: a message is
delivered, corrected, then recorded with what it said last, or discarded. The
refinement mapping (`Outcomes`, `Drafts`, `Books`) calls an import recorded once it
has a received payment, whatever its status says, because the code lets a dismissal
overwrite the status of a confirmed import (see findings): the lifecycle promises that
the books keep what was confirmed, not that the import stays confirmed.
The payments and incomes that confirmations write implement `IncomeBook`, too, the
specification `ReceivedPayments` implements (`Heard`, `Stated`, `BookedFrom`): an income
is named by the payment it is made with, and a payment recorded elsewhere is heard of
without details. So each of the two modules that write these tables keeps the same book
whatever the part of the other it contains does.

`OutgoingTransactions` models the four services that write `Transaction` and
`TransactionEvent`; `ledger[t][c]` is the event of a client event id. A result reads
row and event, then does compare-and-set, upsert and commit in one step, since the
compare-and-set holds the row's lock. Two reads of one handler are merged: events are
never deleted, a status never goes back and a reference is never released.
`PaymentLifecycle` is its abstract specification: a payment is created, started and
settled once, with an outcome that stays.

`ReceivedPayments` models recording, classification and incomes. Payments and
incomes are named by their `clientEventId`. A classification is split at the snapshot
of its UPDATE statement: PostgreSQL re-reads the locked row, but not the `Income`
table the condition also mentions. `ConfirmImport` is the writing half of an import's
confirmation, modelled in full in `FinancialMessageImports`. A client may choose any event
id for what it records, the id an import will be recorded under included.
`IncomeBook` is its abstract specification, without classifications, requests or archives:
a payment is heard of once and never says anything else; an income may be restated until
it is booked from one payment of its amount, and stays booked from it. The mapping
(`Heard`, `Stated`, `BookedFrom`) ignores whether an income is archived: archiving one
must not free its payment for another.

`ShortcutCredentials` models create, rotate, revoke and the guard. A handler reads the
clock before its transaction, so it carries any earlier reading `at`. `CredentialLine` is its
abstract specification, without clocks and requests: a credential is issued, then replaced
by one new credential or disconnected, and its user may be told at any later time that it is
disconnected. The mapping (`Standings`, `Heirs`) calls a credential replaced when a row was
created in its place. A revocation that comes after a rotation is a `Tell`: it changes
nothing, neither for the credential nor for its replacement.

`AccountDeletion` models `UserAccountLifecycleService`, the sweep and the requests
that resolve an account first, cancel its deletion or finalize it. A request for deletion
reads the clock twice: `Resolve` looks whether the schedule it read is due, `Ask` whether it
lies ahead. One that falls due in between is put off by a new grace period, and `Schedule`
writes it over whatever the account then says. `Abort` and
`SweepAbort` are transient database errors; a refresh that finds its account due
deletes it inside a transaction the refusal then rolls back.

`SignIn` models `EmailOtpAuthService`, `OtpService`, `PasswordAuthService`. Looking the
user up, checking a challenge and consuming it are separate steps; consuming is one
step because the deletion of the challenge's row makes rivals wait. The deletion does
not look at the code again. Mistakes are counted by code hash, over all addresses,
after the answer, by one statement for each of the two tables (`CountMistake`), the second
of which may never run. The sessions a new password ends are rows of `AccountDeletion`
(`Logout`). `MailboxProof` is its abstract specification, without rows, clocks and
requests: what was sent to an address and is outstanding is used up by one proof of the
mailbox, which shows a code that was sent there, admits its owner and may buy a grant; the
newest grant sets one password. It counts how often each code was sent and accepted and does
not promise that the code shown is the outstanding one, nor that it is accepted once, because
the code does not keep that promise (see findings).
The mapping (`Outstanding`, `Holders`, `Unspent`) forgets what a challenge says and whether
it expired: expiry and mistakes only take possibilities away.

`PaymentRules` holds the pure rules: fee bands, the period a report is compared with,
and the figures a report states (shares, changes, the order of groups). Percentages are
integers in hundredths, rounded half up; the code computes them in floating point and may
be off by one in the last digit when a quotient is next to a half.

`PaymentReports` models the history, the lists of the two tables and the analytics as
readers whose every query is a step, in any order (the code runs them with
`Promise.all`), while payments are made, settled and received. A history reads rows and
counts of both tables, a list rows and count of one; the walk goes on while `hasNextPage`
says so. Of the filters those are modelled that payments enter and leave: the status, and for
the list of received payments the classification, which is not kept as a column: a query under
it finds any part of the payments there are (`ReceivedFound`), as if classifications had been
changed between any two queries. A part of a report is the set of payments its query counted, so two parts can be
compared payment by payment. Of the grouped queries `groups` stands for both of the
outgoing ones and `receivedGroups` for those of received payments. Evidence from a
provider's API is counted by the code but written by none of it.

`MessageParsing` is what ingest makes of a delivered message: a message is a record of
what the parser's expressions find in it (sender, providers the text mentions, words of
direction, amount, reference), `Identify`, `Direction`, `ParseStatus`, `Confidence` and the
rollout are functions of it, and `Read` is the whole. The runs of the imports compute
their constant `Parse` with it (`MCFinancialMessageImports`).

`ImportPilot` adds the pilot summary to the states of `FinancialMessageImports`: one query
over the imports of a window, so it is a function of a state and not a process.
It runs with the imports.

The detail of an outgoing payment is two queries, payment and events, and part of
`OutgoingTransactions` (`DetailIsExplained`).

`MC*` modules give the constants of the runs; a module without one is run directly.

## Runs

Deadlock is checked in every run. "States" are distinct states.

| Run | Instance | States | Shows |
|---|---|---|---|
| `ImportsReview` | 2 imports, 2 requests, 2 payments, a message that lacks sender and reference and one that has both, a correction that gives both and one that erases both, 1 attempt, no provider enabled | 498,834 | money follows confirmation, raw text goes with review, what is recorded is what is pending at that step; the tables implement `ImportLifecycle` and `IncomeBook`, by which a reference is paid once; a provider is called ready on details that were given or erased by their owner, an alarm names a provider |
| `ImportsTimely` | 2 imports of one text, clock to 2, lookback and lifetime 1, 2 attempts, the provider enabled | 108,678 | one of two deliveries of a text is flagged; no import waits for ever |
| `OutgoingPayments` | 2 payments, 2 requests, 2 event ids, 1 key, 2 results | 388,670 | ledger and status agree and explain each other when read by two queries, acknowledged reports are kept, repeated creates agree, a reference settles one; implements `PaymentLifecycle` |
| `ReceivedPayments` | 2 payments, one under the event id of an import, 2 incomes, 2 requests, 1 reference, 2 interchangeable amounts, 2 classifications | 675,243 | incomes say what their payments say, answers match records, a reference is received once; the tables implement `IncomeBook` |
| `ShortcutCredentials` | 3 credentials, at most 1 active, 2 requests, 2 attempts, clock to 2 | 525,147 | the maximum, and one reason for each end of service; the table implements `CredentialLine` |
| `AccountDeletion` | 2 accounts, 2 sessions, 1 request, sweep of 1, clock to 2 | 532,493 | grace is given; what is due is settled |
| `SignIn` | 1 address, 2 codes, 2 draws, 2 mistakes, 2 grants, 2 requests | 787,207 | one active grant, mistakes belong to a code; the tables implement `MailboxProof`, by which an opening uses up a challenge and shows a code sent to its mailbox, and a grant sets one password |
| `PaymentReports` | 2 sent, 1 received, pages of 1, two periods, clock to 1 | 2.29 M | pages are pages of the whole and miss only for news; figures add up but for news; periods meet |
| `ImportsConfirmedFinal`, `ReceivedLinkedIsIncome`, `AccountDeletedWhenDue`, `CodeOpensOnce` | the smallest that show it, or those of the run beside them | | the findings |

**Bounds.** Two requests reach every pairwise race; a third adds only a second rival
for a row whose lock or index has already chosen a winner. Two rows of a table with
one reference, key or text are the least that can collide. `MaxTime` goes past the
longest duration of the instance, so that every row can be before, at and after its
deadline; in `PaymentReports` it makes creation, settlement and both periods differ.
`Skew` is 0 there; with 1 more payments are in a period, at many times the states. `MaxAttempts` is 2 where retrying matters (`ImportsTimely`,
`ShortcutCredentials`), 1 where the state space is spent on a second import. The pilot's alarm is raised from a sample of 1 at 50 %, so that
one import waiting and one reviewed are on both sides of it; its windows reach back as far
as the clock, and the cut at 5000 rows is never reached. `SignIn`
has one address because users meet only in the count of mistakes, which its bound
`MaxMistakes` and redrawn codes exercise on one address as well. `ShortcutCredentials`
has a maximum of 1: the count is compared once, and what matters is one place wanted
twice. `AccountDeletion` has one request beside its sweep, since a second does not fit: that
a request may overlap another, so that a schedule is written late over a newer one, is covered
for the grace period by the theorem `GraceGiven`, which is of any number of requests.

**Symmetry** is over rows and requests that nothing distinguishes, and is used by no
run that checks liveness; the refinements are checked without fairness and so are safety
properties. `Heirs` chooses a credential, but from a set that never has two.

**Fairness.** Imports: the clock advances and the retention timer keeps firing, since
`setInterval` re-arms whatever a pass did and a restart begins with a pass
(`WF` of `Tick` and `RunOnce`). Accounts: a sweep begins again, takes the next account
of its list and commits it infinitely often if it can (`SF` of `SweepNext` and
`SweepCommit`): database errors are transient. No fairness is assumed of users or
requests.

**Reading the properties.** `ActiveWithinMaximum` has an exception the code really has:
a rotation that read the clock before its credential expired and commits afterwards
adds one, as a create in between may have counted the place as free.
`PagingMissesOnlyForNews` states how far paging can be trusted: a payment that arrives
between the query for the rows and the query for their count makes `hasNextPage` false
one page early, so an old payment is missed, but never more of them than arrived.
Under the PENDING filter and under a classification payments leave the list and offsets do
skip; the property excludes those two. `ReadyIsReviewed` is not trivially so: the parse status
an update stores was computed from a row read before the write, and as if the nulls it writes
had not been sent. It says that what is counted as parsed has every detail but those its owner
erased; it does not say that such a row is complete, for it need not be. `AttemptsBelongToCode`
is stated per code over all addresses, as the code counts: a mistake made with one address is
counted against another that holds the same four digits. `AlarmNamesAProvider` relates a
ratio over all imports to the ratios of each provider's. `ReportAddsUp`, `ConfirmationsAddUp` and `PeriodsMeet` allow the
figures of one response to differ by the payments settled while it was computed, and
by nothing else.

Every property of a passing run has a mutant, a plausible slip in the code that TLC
finds to violate it (`PROJECT.json`, "mutants"); the mutated forms stand before
the definition they mutate, marked `Mutant:`.

## Proofs

`FinancialMessageImportsProofs` proves, for any number of imports, payments, requests,
messages and any limits:

- `TypeCorrect`: `Spec => []TypeOK`;
- `MoneySafe`: `Spec => []MoneyFollowsConfirmation`, an import and the payment recorded
  from it name each other and the same income, and a confirmed import has a payment;
- `RawTextPurged`: `Spec => []RawTextOnlyWhilePending`;
- `RecordsPending`: the action property that a confirmation records the details and
  reference the import has at that very step;
- `PaidOnce`: `Spec => []ReferencePaidOnce`, a provider reference names one payment;
- `RepeatsFlagged`: `Spec => []RepeatedTextIsFlagged`, by an invariant of its own: what
  an insert may show as clear it compares with the rows of its moment, and a rewrite of a
  row never clears a flag (`RewritesKeepFlags`);
- `ReadyReviewed`: `Spec => []ReadyIsReviewed`, by two facts more: in a row taken as parsed of
  a provider that is not enabled every detail is there or was erased by its owner
  (`RowsReviewed` of `Given`), and an open correction that found the details complete leaves
  none out but those it, or one before it, erases (`CorrectionsComplete` of `Covers`). The
  second holds although the row may be written meanwhile because no write loses a detail
  without noting it erased (`Advances`), and is needed because the write does not look again;
- `AlarmNames`: `Spec => []AlarmNamesAProvider`, a fact about any finite sample: take the
  smallest part of it that is made of whole groups, alarming, and has no lagging group; without one
  of its groups it still is (`LessOneGroup`), so there is none (`NothingUnexplained`);
- `Implementation`: `Spec => Lifecycle!Spec`;
- `ReceiptsKept`: `Spec => Receipts!Spec`, the refinement of `IncomeBook`: every payment that
  appears, by a confirmation or elsewhere, is heard of under a reference nobody used, and
  books an income of its own or none (`ReceiptIsHeard`).

All rest on one inductive invariant, `IInv`, checked with TLC before it was proved:
`TypeOK`, the two properties, and two facts they need. `OpenChecked` says
of every open confirmation that what it checked holds of its snapshot, and of every open
correction and dismissal that its import exists; without it a commit could record an
import that was never reviewable. `LinkOnlyWhenDecided` says that only a confirmed or
dismissed import has a payment; without it a second confirmation could replace the
link. The assumptions are those the module states of its
constants: sentinels are no values, `Parse` yields parsed messages, limits are numbers; for
the pilot summary also that tables are finite and that a message is parsed as it stands only
when its provider is enabled (`RolloutAssumption`), which `ParsedExactly` proves of the parser
and TLC evaluates on the `Parse` of every run.
Those of the other modules are of the same kind, and that what is counted is finite
(`FiniteAssumption` of `ShortcutCredentials` and `SignIn`).
`TypeStep` and `InvStep` go through
`Next` action by action; the many writes that only rewrite undecided rows share one lemma
(`RewriteStep`), as openings of handlers do (`OpeningStep`), while inserting and confirming
have lemmas of their own. For the refinement, `LifecycleStep` shows that every action is a
lifecycle step or a stutter: a rewrite discards or corrects or does nothing
(`DiscardsOrNothing`, `CorrectsOrNothing`), an insert delivers, a confirmation records.

`OutgoingTransactionsProofs` proves of any number of payments, requests, keys, event ids
and possible results: `TypeCorrect`, `LedgerExplains` (the events that changed a status form
one path that ends in the row), `ResultsStay`, `CreationsAsAsked`, `ReferencesDiffer`,
`DetailExplained`, and `Implementation` of `PaymentLifecycle`. A step does one of five things
to the tables (`TableStep`): nothing, create, start, settle, or note a report that changes
no status; the theorems are proved from that and not from `Next`. The invariant: the ledger
of a payment is one its status can have (`LedgerFits`), an open request holds what was read
when it was (`Fits`: statuses only advance, so what it read is an earlier status), what was
answered is in the tables (`AnswersFit`), a key has one row (`KeysDiffer`).

`ReceivedPaymentsProofs`: `TypeCorrect`, `BooksAgree` (an income booked from a payment says
what it says, and a payment is booked once), `AnswersStay`, `OnePayment` and
`Implementation` of `IncomeBook`, for any number of payments, incomes and requests, and
`OffersHold`, which needs no invariant: the conditions of two queries are written alike. A step
writes payments (`PaymentStep`) or incomes (`IncomeStep`) in few ways, and the properties are about what is in the two tables, so that
no fact about open requests is needed beyond their types: every write checks again. The
answers' invariant `AnswersFit` adds that the row an answer names was there, whichever event
id the client chose, and
`BookedExists`, needed for the refinement, that only an income that was created is booked:
without it a create could restate a booked income. Each step hears of a payment, restates
an income that is not booked, books one, does all three (a confirmation) or nothing.

`ShortcutCredentialsProofs`: `TypeCorrect`, `WithinMaximum`, `OutOfService`, for any maximum,
lifetime and number of attempts, over finitely many credentials. `ActiveWithinMaximum` is not
inductive: a create counts in one transaction and inserts much later. `OpenCreatesHaveRoom`
is what makes it so: at the moment a create that can still commit read the clock there is, by
the table as it is now, still room. No step but another create takes that room (`RoomKept`), and
another create makes the first one fail to serialize. Rotation exchanges one credential for
another (`Exchange`), unless it straddled an expiry. `Implementation` of `CredentialLine`
takes the same five steps of the table (`TableStep`): a create issues, a rotation replaces, a
revocation disconnects or tells, the others stutter; that a credential replaced cannot be
disconnected, nor the reverse, is `Reasons`. Of the lines so implemented it proves
`LinesHold` (a credential whose user was told of its end does not serve, two lines never
meet) and `EveryLineEnds`: among any credentials there is one whose replacement is not among
them, so rotations form no circle. That is an invariant of its own (`RotationsEnd`), since
the new end of a line was never replaced.

`SignInProofs`: `TypeCorrect`, `OneGrant`, `OnePassword`, `MistakesBelong`,
over finitely many addresses and requests. The invariant adds `GrantsAreIssued` (a request that
sets a password holds a grant that was issued), `PasswordsUseGrants` (a grant that has set a
password is consumed), `CodesAreSent` (what a challenge holds, and what a request found right,
was sent to its address) and `MistakesPaid`: the mistakes counted against a challenge, with
those its table still has to count, are no more than were made under its code. `Implementation` of `MailboxProof` needs one
fact more, `LoginsHaveAccounts`: a handler keeps the challenge it looked up when it began
(`KeysHeld`) and accounts do not go away, so whoever works on a login challenge has one. A
code sent is a `Send`, a challenge consumed a `Prove` that may give a grant (`GivesGrant`), a
password set spends it; expiry, checks and mistakes stutter.

`AccountDeletionProofs`: `TypeCorrect`, and `GraceGiven` for any number of accounts, sessions and
requests. The invariant says of every moment that is remembered anywhere, in a row, in an
open request or in the sweep's list, that it is a grace period after its user first asked.
A request keeps the reading of the clock it will schedule from, so overlapping requests are
covered. No fairness is used.

`MessageParsingProofs` proves of every message: `SenderDecides` (a sender that is an alias of a
provider names it, whatever the text mentions), `NothingIsGuessed`, `ParsedExactly` (the
status is PARSED exactly when provider, amount and a credit were found and the provider is
enabled), `ConfidenceTells`.

`PaymentReportsProofs` proves of the pure rules, for every amount and period: `OneBand`
(each amount the calculator accepts lies in exactly one band), `FeeGrows` (a larger
transfer never costs less), `PreviousMeets` (the compared period is as long, adjacent and
disjoint), `SharesMakeUpTheWhole` (two shares make up 100 % or a hundredth more),
`ChangeTellsTheWay`, `GroupsHaveOneOrder` (the order of groups does not depend on the
database's).

Of the readers it proves, for any finite tables, page size, filters and periods: `TypeCorrect`,
`PageIsCutAlways`, `PagingMissesOnlyNews`, `ReportAlwaysAddsUp`, `ConfirmationsAlwaysAddUp` and
`PeriodsAlwaysMeet`. `PagingMissesOnlyNews` is of every filter but PENDING and a classification
(`Open`): it bounds what is missed by what entered meanwhile and does not say that everything
is shown. The properties are about answers; the invariant says what every open
request has read so far. What was read of a table holds everything that was there when the page
was turned or the report begun, and nothing that is not there now (`ReadSince` in `PageFits`,
`PartFits` in `ReportFits`); the rows of a page are still there (`RowsAreThere`); and what was
known and lies before the page, by its rank among what is not news, has been shown
(`Turned`): the offset of the next page is a rank, so the walk cannot jump over an old payment. A
completed payment has evidence of one kind (`EvidenceKept`), which `ConfirmationsAddUp` needs.
Steps of the tables preserve all this for one reason: the rows a reader asks for only grow, and by
news only (`Grows`, `TablesGrow`), and no step reorders rows that are not news. The page
itself is `BeyondIsTheRest` and `FrontOfUnion`: in a strict order the front of a union is cut
from the fronts of its parts, provided the merge's order (`OrderIsStrict`), which adds a
tie-breaker between the tables, is that of the database within each of them. Minimal elements stand in for induction over sets (`LeastNatural`,
`Foremost`), by the library's well-foundedness theorems.

Only model-checked: liveness (`NothingWaits`, `DueIsSettled`), which TLAPS cannot do under
fairness. Every invariant, action property and refinement of a passing run has a theorem.
Three invariants are proved and not run: `ReferencePaidOnce` and `GrantSetsOnce`, which the
refinements of `IncomeBook` and `MailboxProof` already need, and `CandidatesAreLinkable`, which
compares two queries on one state.

## Findings

Each has a run whose counterexample is the scenario.

1. `ConfirmedIsFinal`: dismiss and update check PENDING in one statement and write by id
   in another, at READ COMMITTED. One that overlaps a confirmation turns a CONFIRMED
   import into DISMISSED or changes its details, against "Only pending imported messages
   can be changed." (`financial-message-review.service.ts:413`).
2. `LinkedIsIncome`: a reclassification that waited for a link overwrites the
   classification the link set, since its condition reads `Income` on an older snapshot.
3. `DeletedWhenDue`: finalizing looks only at `deletedAt`, so an account whose deletion was
   cancelled after the sweep listed it is deleted all the same.
4. `CodeOpensOnce`: a code is compared with the challenge that was read, and the challenge is
   then deleted by its user or address. Of two submissions that found one code right, the
   first uses the challenge up, a new code is sent, and the second deletes the challenge of the
   new code: one code has opened twice and the new one is gone, against "The OTP is deleted on
   success and is single-use." (`email-auth.swagger.ts:71`).

Some behaviours the models contain are no findings, because nothing in the repository says
which outcome is right:

- an opening whose event id a result has just taken is answered as recorded;
- a revocation that read a credential before its rotation leaves the replacement active
  (`ImplementsLine` says that this is all it does);
- a second delivery of a known provider reference marks the row that holds it, the original, as
  the duplicate and stores nothing else; that row can then no longer be confirmed;
- an explicit null in a correction erases a detail of an import whose status says PARSED;
- a deletion that falls due between a request's two readings of the clock is put off by a whole
  grace period.

## Not modelled

The regular expressions of the parser, AES, JWTs, HMACs, e-mail bodies, DTO validation,
rate limits, error mapping and wiring: libraries, text or I/O. Alerts of the imports: a
webhook whose failure is only logged. The refusal of an old Shortcut version or a disabled
mode, which precedes any state. The normalisation of a receiver's number and the making of
a transaction's own reference. Filters that a payment never enters or leaves (type, category, dates,
evidence), and search, whose matches do change: a settlement rewrites the receiver's name. Timestamps that are set together with the status they belong to. Counts of
unfinished payments in the analytics. The detail of a received payment, one query, and the
list of incomes with its totals. Revocation of partnerships at an account's deletion:
nothing creates one. `services/password/*` and its repositories: a second copy of
`PasswordAuthService` that no controller uses. Tables without code (loans, savings, todos,
expenses, budgets).

Of the hazards these have no property: sessions opened while their account is being deleted,
and an address registered between a look-up and the code that is sent; what the code does is
in the models or follows from them, and nothing says what it should do. A password reset
ends the sessions that exist (`password-auth.service.ts:204`, `password-auth.swagger.ts:133`);
what a log-in or a refresh that is under way leaves behind is not stated.

## How it was built and what is left

In this order: imports with their proofs, outgoing payments, received payments and incomes,
credentials, account deletion, sign-in, reports; then parsing and the pilot summary, the
details and lists, and the proofs of every module that changes state, then of the readers and the
pilot summary, and last the refinements of `CredentialLine`, `MailboxProof` and, by the imports,
`IncomeBook`. Left:

1. Sessions in full (expiry, rotation of refresh tokens) in `AccountDeletion`'s terms.
2. A composition of imports and received payments over one payment table, replacing
   `RecordElsewhere` and `ConfirmImport`; that both implement `IncomeBook` goes part of the way.
