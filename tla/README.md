# Union Bank: a TLA+ development

Specifications, model-checking configurations and machine-checked proofs for the
banking back end in `src/src/unionbank`. Paths below are relative to
`src/src/unionbank/` unless they start with another directory of the repository.

1. [The system](#1-the-system)
2. [Inventory](#2-inventory)
3. [Modules](#3-modules)
4. [How the modules follow the code](#4-how-the-modules-follow-the-code)
5. [Runs and properties](#5-runs-and-properties)
6. [What the code does not keep](#6-what-the-code-does-not-keep)
7. [Proofs](#7-proofs)
8. [Not modelled](#8-not-modelled)
9. [Plan](#9-plan)

## 1. The system

A FastAPI application (with a CLI and a browser front end on the same services)
over one SQL database, SQLite or PostgreSQL. Requests are served by *synchronous*
handlers, each on a thread of the worker process's thread pool;
`scripts/docker-entrypoint.sh` starts four uvicorn workers and `k8s/deployment.yaml`
two replicas. Three kinds of state matter:

| state | where | lifetime |
|---|---|---|
| tables: accounts, transactions, idempotency_keys, loans, savings_goals, login_attempts, refresh_tokens, notifications, audit_log | the database | permanent; changed by commits |
| a SQLAlchemy session per *thread* (`infrastructure/database.py`, `get_session`) | thread-local | as long as the thread: no request and no middleware closes it or rolls it back |
| account locks, rate-limit windows, the notification breaker, the Redis client | module globals | as long as the process, and one copy per process |

A service method reads rows into dataclasses (`account_repo.get`), computes, writes
whole rows back (`account_repo.update` re-queries the row and assigns every column),
and commits the session. Autoflush is off and the isolation level is READ COMMITTED
in effect (PostgreSQL's default; SQLite in WAL mode before its first write), so what
makes a read-modify-write safe is only what the code adds: the per-account locks.

## 2. Inventory

For each component: its state, its operations, what is hard about it, what makes it
correct, and where it is modelled. `PROJECT.json` lists the same components with
their status, and the hazards at their lines.

**Deposits, withdrawals, transfers** (`application/transfer_service.py`). State:
accounts, transactions, idempotency_keys. Each operation: validate, lock, claim the
idempotency key, read, check, write, commit, record the result, notify. Hard:
interleaved read-modify-writes, retries with the same key while the first call runs, a
crash or a failing statement between the commits. Correct when no update is lost,
nothing is overdrawn, transfers move both legs or none, and a key moves money at most
once and is answered consistently. *`TransactionService`.*

**Account locks** (`application/services_shared.py`, `_account_lock`). One
`threading.Lock` per account and process, used by those three operations only.
Correct when two threads never hold one account's lock and no cycle of waits arises.
*`TransactionService`.*

**Database sessions and engine** (`infrastructure/database.py`). What a failed
request leaves in the session that the next one inherits; stale updates. *Partly: the
session in `TransactionService`, `Branch`, `Access` and `AsyncBank`; the pool and
the exchange of the engine are not modelled.*

**Interest** (`apply_interest`) and **account administration** (`account_service.py`:
profile, password, freeze, unfreeze, close, delete). They write account rows
*without* the account lock, beside deposits and transfers on the same rows. Hard:
stale writes, an update of a row that was soft-deleted meanwhile, the audit entry as a
separate commit. *`AccountService`, `Branch`.*

**Loans** (`loan_service.py`: apply, approve, reject, pay_emi) and **savings goals**
(create, contribute, delete; update in the routes). No locks. Hard: two approvals,
approval against rejection, two payments of one instalment, contribution against
deletion and against an update that writes back what it read. Correct when a
principal is paid out once, what leaves the balance is what the loan counts as paid,
and balance plus goals is conserved. *`LoanService`, `Branch`.*

**Logins and lockout, access and refresh tokens, second factor**
(`application/auth_service.py`, `repositories_pkg/auth_repository.py`,
`repositories_pkg/admin_repository.py`, `entrypoints/api/common.py`, the auth routes of
both versions). State: login_attempts, refresh_tokens, token versions, the
administrator's TOTP secret. Hard: the read-increment-write of the count; an expired
lockout deleted but not committed; a token verified, then revoked; a secret read,
verified and written back later. *`Access`.*

**HTTP routes, rate limiter, cached account list** (`entrypoints/api/`,
`utils/account_rate_limit.py`, `infrastructure/cache.py`). Hard: a window cleaned,
counted and appended to without a lock; a list read before and stored after an
invalidation; a Redis that fails between a commit and the answer; pages of a statement
that grows; statistics of several queries. *`Api`; readiness probe, metrics and
rendering left out.*

**Command line** (`entrypoints/cli/`). Each terminal is a process of its own that keeps
copies of rows while it waits for input. Hard: the copies. *`CommandLine`.*

**Async services** (`application/services_pkg/`, `infrastructure/async_*.py`). A second
implementation of the services, used by tests and documentation; one `AsyncSession`
is shared by every task. Hard: every await. *`AsyncBank`; its read methods are left
out.*

**Notifications and their breaker, front end, JSON file store, migrations, metrics,
analytics.** *Not modelled*, section 8.

## 3. Modules

| module | role |
|---|---|
| `Bank` | abstract specification: atomic deposits, withdrawals and transfers; each idempotency key decided once |
| `TransactionService` | the three operations as the worker threads run them; properties; the inductive invariants |
| `Tables` | rows of the shared tables; what a call asks of its session; `UpdateRow`, the row an UPDATE leaves |
| `AccountService`, `LoanService` | each service method as a function from the rows read to a refusal or a set of writes |
| `Services` | the calls as one family: `Decision`, `TransferDecision`, `RowsAfter` |
| `Branch` | extends `Services`: statement-by-statement interleaving of all calls in one process, with failing commits and crashes |
| `Api` | extends `Services`: the routes of both versions, limiter, cached lists, walks and reports |
| `CommandLine` | extends `Services`: terminals beside an API process |
| `AsyncBank` | extends `Services`: the async services over their one shared session |
| `Access` | logins, lockout, tokens, passwords, second factor |
| `MCTransactionService`, `MCBranch`, `MCApi`, `MCCommandLine`, `MCAsyncBank`, `MCAccess` | constants for TLC |
| `TransactionService_proofs` | type correctness, mutual exclusion of the locks, a call holds the locks of all its accounts; the ledger: double entry, no lost update, no overdraft; keys: one moves money once, its record tells its outcome, reported success is kept; TransactionService implements Bank |
| `Services_proofs` | what each service decides on sound rows: types, signs, the books of loans and goals, the instalment, what a commit adds to an account |
| `Branch_proofs` | every property of `Branch` |
| `Access_proofs` | every property of `Access` |
| `AsyncBank_proofs` | every property of `AsyncBank`: types, keys and answers, then the money |
| `CommandLine_proofs` | every property of `CommandLine` |
| `Api_proofs` | types, limiter, cached lists, answers and created goals of `Api`; the filter of a list |
| `ApiReaders_proofs` | walks and reports of `Api`; the books behind them; the sort of a statement |

`AccountService` and `LoanService` hold the *decisions*; `Branch`, `Api`, `CommandLine`
and `AsyncBank` compose them with what surrounds them, each at the grain at which its
own hazards show: `Branch` takes a call apart into its statements; `Api` and
`CommandLine` take it as one step and take apart the route or the screen around it;
`AsyncBank` steps from await to await. No module has a recursive operator.

Operators marked `mutant:` are not part of the specification: each is a plausible
mistake in the definition that follows or precedes it, and `PROJECT.json` names the
property that notices when it takes that definition's place.

## 4. How the modules follow the code

### TransactionService

One `t \in Threads` is one thread of a worker's pool. It serves one request at a time;
`pc[t]` says which statement of `deposit`, `withdraw` or `transfer` it executes next.
An action covers everything from one database statement (or lock operation) up to the
next, since this is where other threads and processes may come between.

| code | model |
|---|---|
| early returns on amount and self-transfer | `Submit` with `IsValid` |
| `with _account_lock(*sorted)` | `Acquire`, one lock per step, ascending; `LockFree` looks at threads of the same worker only |
| `_claim_idempotency`: `get` / `flush` of the pending record / `get` after IntegrityError | `ClaimLookup` / `ClaimInsert` / `ClaimReread` |
| `account_repo.get` of sender and recipient, and the checks | `GetSender`, `GetReceiver`, `Permitted` |
| `account_repo.update` (its re-query) | `UpdateSender`, `UpdateReceiver` |
| `commit()` with the statement rows and the claim | `Commit`: `Written`, `EntryFor`, `WithClaims` |
| `_complete_idempotency` after a success / after a failed check | `Complete` / `RefuseRequest` |
| leaving the `with` block | `Release` |
| `except (OSError, ValueError, TypeError)` handlers | `ClaimStorageError`, `TransferAborts`, `CompleteSwallows` |
| a SQLAlchemyError, which nothing catches | `DatabaseError`, `SavepointError`, then `PoisonedCall` |
| a worker process dies | `Crash` |

`rows`, `txns` and `idem` are the *committed* tables. What a session holds before its
commit is `flushed` (pending records), and `snap`/`base`: the dataclass the service
works on, and the row `update()` found when it re-queried. The UPDATE that SQLAlchemy
emits sets the columns in which the dataclass differs from that row, hence `Merge`;
since the flush that issues it belongs to the commit or immediately precedes it,
writing is part of `Commit`. The identity map holds rows weakly and the repositories
keep no reference, so a second `get` sees the table, not an old object. `clock`, and
`key` and `stamp` of an entry, are history. `Classify` is nondeterministic where the
code compares a claim's age with ten minutes.

Deliberate coarseness: a failing SELECT is not modelled. On SQLite a flushed claim
holds the write lock of the whole database; the model makes only an INSERT of the
same key wait, which allows more interleavings. On SQLite an unkeyed transfer's
outermost savepoint release commits; an OSError between that release and the commit
that follows is not modelled. The "corrupt" classification of a record cannot arise
from records this code wrote. Only the v2 account routes pass keys.

### Branch

A thread's call goes through the stages `lock` (deposits and withdrawals only), `read`,
`readAgain` (the methods that fetch a second row), `flush`, `commit` and `audit`. `Decide`
applies `Decision` of `Services` to the rows in `seen`; `Flush` stores in `base` what
the repositories re-query; `Commit` applies `UpdateRow` to the tables as they are
by then. So a column in which the stale copy agrees with the re-queried row is not
written, one in which it differs is written over whatever came between. `Fails` is
the commit the database refuses: `update()` of a row that is soft-deleted by then
inserts the same account number again (`account_repository.py:46`), and an UPDATE of a
goal that is gone finds no row; the session then stays `poisoned`. `Audit` is
`_audit_log`'s own commit. `Crash` empties every thread and lock and keeps the tables.

The decisions are those of the methods, early return by early return:
`MonthlyInterest` is `apply_interest`'s arithmetic with its rounding to paise, `Emi`
that of `calculate_emi` (exact, in paise, for every rate in tenths of a per cent: the
monthly rate is a fraction in lowest terms), `OfferedTerms` the product table,
`RepaidLoan` the capped last payment.
`FreezeAccount` also clears `active`, `UnfreezeAccount` does not set it again
(`account_service.py:186`): an unfrozen account stays closed.

A loan or goal id that a call creates is generated: no two calls create the same one
(`FreshId`). The account of a call is the one its route has authenticated; an approval or a
rejection is about the account of the loan (`Consistent`), but no service compares the
owner of a goal with the account of the call (`contribute` and `delete_goal` look the
goal up by its id alone), so calls use the goals of other accounts too (`Mixed`).

History variables: `done`, the bag of committed calls; `raced`, the accounts on which
two calls overlapped of which at least one takes no lock, and those whose goals were
used from another account.

### Access

Each request is a sequence of steps on a thread: `Check` (lock, account, password),
`Record` / `CommitFailure` (the re-queried row, its commit), `Reset`, `Mint` (the token
pair), `Verify` for refreshes, `ReadChange` / `Requery` / `Store` for passwords and the
second factor. `dying[t]` are the rows an expired lock has marked for deletion in the
thread's session (`is_locked`, which does not commit): whichever request commits next on
that thread deletes them, if a row still has that id (`Deleting`). The session holds the
marked object until then, and a query that finds the row answers that object, as stale as
it is (`Seen`). The menu says which database serves the behaviour, since two things
differ (`menu.naive`): SQLite loses time zones, and comparing such a time with an aware one
is an error (`record_failure`), which `is_locked` avoids; and SQLite gives a new row the id
after the highest in the table, PostgreSQL's sequence none it has given before
(`lastId`, `NewIds`). The v1 refresh route looks for a claim
the verified token does not return, so it makes a pair for nobody and revokes
nothing; `RefreshSubject` says so. The v1 password route writes the account
itself and leaves the token version alone; the administrator's password, which has a
v1 route only, has no version to raise (`SetAdminPassword`).

History variables: `wrong`, `told` and `lapsed` count the wrong passwords *answered* to a
subject since its last right one, whatever became of the row: `told` are the subjects whose
last wrong password was answered as the locking one, `lapsed` those who were wrong again
after a lock had run out, from when on `wrong` counts anew. `overlapped` holds what two
requests at once were about (`Matter`): a subject's logins, a subject's password, the
second factor, or one refresh token at one version of the API. `spent` is the sequence of
v2 exchanges, with whether the database stored them; `proven` are the secrets a code has
been shown for.

### Api

`Routes` is the table of handlers: who may call (`by`), what the route checks itself
before the service does (`check`), whether the limiter counts it, which service it
calls, which refusals have codes other than 400, what follows the commit (`after`),
and what it reads. A request arrives through the CSRF middleware and the dependency
that loads the account; a limited one passes `CleanUp`, `CountOperations` and `Record`,
the three unlocked parts of `check_and_record`; `Serve` is the service as one step.
`Invalidate`, `Lookup`, `Query` and `Fill` use the client of `RedisCache`: `new` until its
first use, then `up` or `off` for good; the exceptions of redis-py are not the builtin
ones the code catches, so a Redis that stops answering raises through the route.
`_invalidate_admin_account_cache` of `routes/accounts.py:105` imports a name that does not
exist and swallows the error, so only the administrator's v1 routes invalidate.
A registration takes an `Unused` number (`generate_account_number` looks for one); the
new account is missing from a list cached before it, until that expires.
`NextPage` walks a statement by cursor (`get_paginated_keyset`) or by page number;
`RunQuery` runs a report query by query.

### CommandLine

A terminal has a `screen`; `doing` and `shown` are the operation whose prompts it answers
and the rows it read before them; `session` is the `Account` object, refreshed in
three columns at the head of the dashboard's loop (`Dashboard`) and otherwise only by
what its own operations answer (`ObjectBalance`). `Begin` shows rows, `Confirm` goes on
with what was shown. `FinishEdit` writes the whole goal as shown, and any target: what is
typed there reaches neither the routes' nor the service's check. `Api` is a call committed
by another process. `foreign` names the terminals whose account, or goals, somebody else
has written since their copy was last read: no service asks whether a goal is its account's,
so a call `Touched` the goal's owner as well. `FreshIds`: goals and loans get ids nobody
has used. Screens whose code raises end the process
(`crashed`): the close screen calls the service without the password, the export a
method that the repository lacks, the validators' booleans are taken for messages.

### AsyncBank

A call is a task; `Program` is the sequence of statements its service awaits, and tasks
interleave between any two. There is one session: `working` are the tables as its
open transaction sees them, `stored` as committed. `Commit` stores everything that
is pending, whoever wrote it; `Discard` loses it, whoever wrote it. `LockOf` is one
lock per *set* of accounts, so the lock of a transfer is neither its sender's nor its
receiver's. `Fail` has four causes: a storage fault, a broken session, a pending row
that cannot be flushed, and SQLAlchemy's refusal of a session in concurrent use
(possible, never certain). `Handled` are the except clauses that roll back. `Says` are
the outcomes a service can answer, `Refusals` those that promise nothing was moved;
`CallsAssumption` says that keys come with movements only and that a profile or a password
is one of the numbers that stand for them.

History: `tangled` are the calls that were in the session with one they share no lock with,
`raced` the accounts that such a pair both touch, or that one of them writes in parts
(`Torn`), those a rollback of another task may have robbed (`Bystanders`), and those
of a goal used from an account that does not own it (`Mixed`).

## 5. Runs and properties

Every bound is a constant or a field of a *menu*: a menu is a small set of calls that
can affect each other together with how many of them a behaviour makes; the initial
state chooses one. Menus take the place of one product of all calls, which TLC could
not exhaust; each hazard of `PROJECT.json` has the calls it needs in one menu.

| run | instance | distinct states |
|---|---|---|
| `one_worker` | 1 worker, 2 threads, 2 accounts (balances 1 and 0), 1 key, 3 requests, 1 crash, 1 fault; fairness, no symmetry | 729 thousand |
| `savepoint` | 2 workers, 2 keys, 3 requests, 1 fault, savepoints may fail | 3.5 million |
| `branch` | 2 threads, an account with 2 loans and 2 goals, a second that uses its loan and goal; 5 calls one at a time or 3 calls two at once, of the life cycle, lending and saving menus; 1 crash | 1.7 million |
| `access` | 2 threads, two customers (one frozen), an unknown one, the administrator; 2 attempts lock; up to 5 requests, 3 minutes, 1 fault; menus on either database, some with locks that have run out before the start: the frozen customer's on PostgreSQL, whose request ends without a commit and leaves the mark behind | 1.6 million |
| `command_line` | 2 terminals, 2 accounts, 4 to 7 inputs and 1 or 2 API calls | 124 thousand |
| `api` | 2 threads, 2 accounts and a number to register, 16 menus of 2 to 5 requests, up to 3 ticks or 2 outages; 2 operations a window, pages of 1 | 0.6 million |
| `async` | 2 tasks, 2 accounts and one to register, 2 goals, 1 key; menus of 2 to 4 calls with a fault, a crash, up to 2 ticks; a goal is used by its owner and from the other account | 0.9 million |
| `lost_update`, `orphan_claim`, `lost_result`, `poisoned_session`, `double_disbursement` | 2 requests each; one property each, violated: section 6 | |

*Why these bounds.* Every race in this code is between one call that has read and one
that commits meanwhile, so two threads, tasks or terminals reach it; the third and
later requests come after, to meet what the two have left in a session, a lockout row,
a cache or a key record. Balances are chosen so that one withdrawal exhausts an account,
a goal is reached by one contribution, a loan is cleared by the second of two
instalments, two operations fill the limiter's window and one page is not the statement.
The theorems of section 7 lift the runs `one_worker`, `savepoint`, `branch`, `access`,
`command_line`, `api` and `async` to any number of everything.

Properties of `one_worker` and `savepoint`:

- `StatementAddsUp`: each statement row's balance is the previous one plus its signed
  amount, and the account's balance is the last row's. A lost update breaks it.
- `NeverOverdrawn`: racing withdrawals and transfers never take more than there is.
- `DoubleEntry`: each transfer leg has its counterpart, same commit, same amount.
- `KeyTellsOutcome`: a record is pending or successful exactly when money moved under
  its key. `KeyMovesOnce`: all statement rows under a key come from one commit.
  `SuccessIsRecorded`: a success the caller was told is not contradicted by the record.
- `ImplementsBank`: each step is a step of `Bank` or a stutter (`BankView`).
- `EveryCallReturns`: every accepted request is answered.

Properties of `branch`, where most calls take no lock:

- `LoanBooksAddUp`, `BalancesStayPositive`: hold *whatever overlaps*. The two columns a
  payment writes are never torn apart; each balance written is one some call checked.
- `AuditTellsTheTruth`: no audit entry without its commit; none missing but between the
  two commits or after a crash.
- `MoneyIsKept`, `LoansMatchStatements`, `GoalsAreMarked`, `IdleMoneyStays`: hold for
  accounts on which no unlocked call overlapped another. The exception is exact in
  kind: without it TLC finds lost updates in a few steps, see section 6.

Properties of `access`:

- `GuessesAreCounted`: unless two logins of the subject overlapped, the row never counts
  more than was guessed, and on PostgreSQL it counts every wrong password but one, the
  first after a lock that has run out (section 6): the caller is told of the lock with wrong
  password `MaxAttempts`, after a lock with the one after that, and never later.
- `LockHolds`: on PostgreSQL, unless logins overlapped, a lock lasts its time, in spite of
  rows marked in sessions by earlier requests that ended without a commit.
  `LockedIsTrue`: "locked" is never said in vain, on PostgreSQL unless logins overlapped.
- `RefreshedOnce`: v2 exchanges a refresh token again only after an exchange whose new
  token the database refused, or if two requests with the token overlapped.
- `PasswordEndsAccess`: no access token handed out before a v2 password change is accepted
  after it, whatever overlapped the change except another change. It does not speak of
  refresh tokens, which the change leaves alone (section 6).
- `EnabledSecretIsProven`: the second factor is on only with a secret for which a
  code was verified, unless two changes of it overlapped.

Properties of `command_line`: `SessionBalanceIsTrue` (the copy agrees with the account as
long as nobody else wrote the account or one of its goals), `MoneyIsKept` (unless a goal was edited from an old copy),
`ConfirmedIsDone` (an administrator's confirmation does what was shown: a freeze never
unfreezes), `OneFirstAdmin` (unless two `create-admin` overlapped).

Properties of `api`: `LimiterHolds` (for accounts whose requests did not overlap),
`ListTellsStatus` (the cached list shows what a v1 administrator route changed last),
`AnswersTellOutcome` (success exactly when something changed, unless Redis failed),
`CreatedIsShown`, `WalksAreComplete` (pages by cursor return every row once, pages by
number every row), `ReportsAddUp` (loans in transition are counted twice, never
missed; an exported statement explains the balance unless a goal was deleted, and
deposits less withdrawals explain the total of the statistics if no requests met and
no goal or account was deleted or changed its money otherwise).

Properties of `async`: `MoneyIsKept`, `KeysMoveOnce`, `AnswersTellOutcome`, for calls that
met only calls of the same lock, through faults, crashes and broken sessions. No service
compares the owner of a goal with the account of the call; where a goal is used from
another account, money goes from one to the other, and `MoneyIsKept` speaks of neither.

*Deadlock* is checked in every run but `savepoint` and `orphan_claim`, where an orphaned
claim in an idle session makes another INSERT of its key wait for good. Elsewhere the
only way to stop is `Finished` or `Closing`: all requests of the bound served.

*Fairness.* `FairSpec` of `TransactionService` assumes weak fairness of `Advance(t)` for
each thread: the operating system schedules a thread that can run. A wait for a lock or
for another session's INSERT needs no more: its holder advances and is never blocked by
the waiter, because locks are taken in ascending order and a session that holds a
claim already has all its locks. Nothing is assumed of clients, faults or crashes. The
other modules state safety only: the one lock of `Branch` and of `AsyncBank` is held by
a call that waits for nothing, and the other calls have no waits at all.

## 6. What the code does not keep

Five runs expect a violation; each is a statement made in the repository, and
`PROJECT.json` quotes it.

- `lost_update` — with two worker processes, two deposits read the same balance and
  both commit. `src/PROJECT_OVERVIEW.md` promises `SELECT ... FOR UPDATE`; no query of the
  repository uses it, and the locks that serialise the operations are of one process.
- `orphan_claim` — a database error in the flush that ends a transfer's savepoint
  undoes the savepoint only; the claim stays in the thread's session, and the thread's
  next commit makes it a pending record of a transfer that never happened.
- `lost_result` — a crash between the commit of the movement and the commit of its
  result: repetitions of the key are never given the result, against
  ADR-0005 and the overview.
- `poisoned_session` — after a database error in a flush or commit nothing rolls the
  thread's session back, and the thread's next request meets it.
- `double_disbursement` — "Only pending loans can be approved", but two approvals that
  both read the loan as pending both pay its principal out.

The exceptions in the properties of section 5 mark what else does not hold, found
by TLC when the exception is left out:

- Interest, loans, goals and administration write account rows without the account
  lock: beside each other, or beside a deposit, one of the two balances is lost.
- Overlapping logins of one subject lose counts, may end a lock early, and on PostgreSQL
  may be told of a lock that a reset has deleted.
- On SQLite a lock may end early without any overlap: a session that marked an expired
  row commits late, when the row's id has been given to a new one, of the same subject or
  of another, and deletes that one. Hence the restriction of `LockHolds`.
- On PostgreSQL the first wrong password after a lock has run out is lost: `is_locked` marks
  the row, `record_failure` counts on the marked object, and the commit deletes it. The
  next lock comes one guess late. `GuessesAreCounted` states exactly that.
- Two account changes of the v1 and v2 routes differ: v2 administrator routes, closing
  and the v1 account routes leave the cached list as it was.
- A cursor is a timestamp: rows of one timestamp can be skipped at a page border.
- Async transfers have a lock of their own, so a transfer and a deposit on one account
  overlap (`services_pkg/transaction_service.py:77` promises no lost updates), and any
  commit or rollback takes the pending rows of all tasks with it.
- Editing a goal in a terminal overwrites contributions made since it was shown, and
  says "Goal updated!" of a goal that is gone.

Noticed without a property: the docstring of `_account_lock` says the locks are
released in reverse order, its `finally` clause releases them in ascending order, to no
effect. `get_statistics` sums the balances of all accounts that are not deleted, while
`total_balance()` counts active ones only; totals by type keep the transactions of deleted
accounts. The exported statement shows interest and loan credits with a minus. The
admin panel of the CLI checks the password of either of two names and changes the
first's. A deleted account's session is not logged out of a terminal. A password change
through v2 revokes no refresh token: one handed out before it is still exchanged, for access
tokens of the new version.

## 7. Proofs

Each theorem holds for every value of the constants its module's assumption allows.

### TransactionService

The theorems are about `Spec` of `TransactionService`, under `ConstantsAssumption` (sets
of any size, including infinite ones; any bounds).

| theorem | needs | states |
|---|---|---|
| `TypeCorrect` | | `[]TypeOK` |
| `LocksExclude` | | `[]MutualExclusion` |
| `CallsHoldTheirLocks` | | `[]LocksCoverBody` |
| `LegsComeInPairs` | | `[]DoubleEntry` |
| `NoLostUpdate` | `OneProcess` | `[]StatementAddsUp` |
| `NoOverdraft` | `OneProcess` | `[]NeverOverdrawn` |
| `NoKeyMovesTwice` | | `[]KeyMovesOnce` |
| `RecordTellsOutcome` | `~SavepointMayFail` | `[]KeyTellsOutcome` |
| `SuccessIsKept` | | `[]SuccessIsRecorded` |
| `ServiceImplementsBank` | `OneProcess`, `~SavepointMayFail` | `ImplementsBank` |

The assumptions are needed: `lost_update` refutes the second group without
`OneProcess`, `orphan_claim` refutes `KeyTellsOutcome` without `~SavepointMayFail`.

*Locks.* `MutualExclusion` and `LocksCoverBody` (a call inside the `with` block holds
exactly the locks of the accounts it touches) are inductive together with `TypeOK`.

*Ledger.* `StatementAddsUp` is not inductive: `Commit` writes what was computed from
reads some steps earlier. The strengthening is `ReadsAreCurrent`: between its reads
and its commit, a call's copies equal the table. Under `OneProcess` it is preserved
because another thread's `Commit` changes only accounts it has locked, and by mutual
exclusion and `LocksCoverBody` those are not the reader's. From it, the committed
balance is the previous one plus the entry's amount, and `Permitted` (checked against
the copies) bounds a withdrawal by the balance in the table.

*Keys.* The invariant is `ClaimsAreExclusive`: at most one session holds a claim on a
key, none once the key has a record, and a call between its claim and its commit holds
its own. It rests on the unique key column (`InsertMayRun`), not on locks, so it needs
no assumption on workers. With `MovementsAreRecorded` and `StampsArePast` it gives
`KeyMovesOnce`: a commit under a key finds no record, hence no earlier movement.
`KeyTellsOutcome` also needs the converse, that no claim is committed
without its movement: `NoOrphanClaims`, which holds unless a savepoint fails.

*Refinement.* By cases on the actions: `Commit` is a deposit, a withdrawal or a transfer
of `Bank` (`ReadsAreCurrent` for the balance and its guard, `ClaimsAreExclusive` for
`Fresh`), `RefuseRequest` with a key is `Refuse`, all others stutter.

### Branch

Under `BranchAssumption`: any finite sets of threads, loans and goals, any accounts, any
menus and bounds. It asks of the opening rows what the database's own constraints and
the services' checks give: balances not negative, books of loans that add up, goals
marked exactly when reached.

| theorem | states |
|---|---|
| `InstalmentCoversInterest` (`Services_proofs`) | at any rate and tenure the instalment is a natural number, and at least the first month's interest to half a paisa |
| `TypesAreKept` | `[]TypeOK` |
| `BalancesArePositive` | `[]BalancesStayPositive` |
| `LoanBooksBalance` | `[]LoanBooksAddUp` |
| `MoneyStaysTogether` | `[]MoneyIsKept` |
| `StatementsTellLoans` | `[]LoansMatchStatements` |
| `MarksAreTrue` | `[]GoalsAreMarked` |
| `IdleAccountsRest` | `IdleMoneyStays` |
| `AuditIsTrue` | `[]AuditTellsTheTruth` |

*Services.* Services_proofs is about the decisions alone, whoever runs them: on sound rows
(`GoodRows`) every service leaves sound rows, and `RowsAfter`, the rows a call leaves when
nobody comes between, changes balance plus savings by what the entries bring in, keeps the
books of its loan and the mark of its goal. `Branch` cites these lemmas for its commits.

*Sound* is inductive whatever overlaps. Neither `BalancesStayPositive` nor
`LoanBooksAddUp` is: a commit writes columns computed from `seen` over the row as it is by
then, in which the columns that `base` already agrees with stay. So `Sound` says that
every row held in a session is sound too (`SoundRows`), that it is a row of the
same loan or goal with the same owner and principal as the table's (`Snapshots`), and that
an id about to be created is free and nobody else's (`NewIds`). The columns `paid` and
`remaining` change together because each is a function of the other and the principal.

*Calm* is about accounts outside `raced`: two calls at once on such an account both
take its lock (`Alone`), a holder is alone (`Locks`), so what a thread has read still is
what the table has (`Current`), and its commit is a commit of `RowsAfter`. *Told*, the
conjunction of the three properties of the books with `LoansSettled`, follows step by step:
a commit changes one summand of each sum and appends its entries. A sum over a finite
set is a recursive function; what is needed of it (one summand changed, one entry
appended) is proved from its defining equation, by the least counterexample in the
order of naturals, since the induction theorems are out of reach.

*Tallied* counts, for every audited call, the audit entries and the threads between their
two commits against the commits done.

### Access

Under `AccessAssumption`: any finite set of threads, any customers, menus, limits (of
two attempts or more) and bounds, on either database.

| theorem | states |
|---|---|
| `TypesAreKept` | `[]TypeOK` |
| `EnabledIsProven` | `[]EnabledSecretIsProven` |
| `AccessTokensEnd` | `PasswordEndsAccess` |
| `RefreshesAreOnce` | `[]RefreshedOnce` |
| `GuessesCount` | `[]GuessesAreCounted` |
| `LockLasts` | `LockHolds` |
| `LocksAreTrue` | `LockedIsTrue` |

*Sound* (types, what a stage says of its request, and that what two requests under way
are both about is in `overlapped`) is inductive whatever overlaps; each other
invariant rests on it. *Factored*: the secret a request is about to enable was shown a
code for, and what it has read of the flag still holds. *Versioned*: no token is ahead of
its subject's version, and a change under way holds exactly the next one.
*Rotated*: a token whose exchange was stored is revoked, and one that a request is about to
exchange is not, because it was not when the request verified it and only an exchange
that overlaps the request could have revoked it since.

*Numbered, Naive, Counted* follow the rows of the login attempts through the sessions.
`GuessesAreCounted` and `LockHolds` are far from inductive: a deletion decided in one
request is made by a later one, perhaps minutes and requests away. `Numbered` says that ids
identify rows on PostgreSQL, and that every marked row was at its limit and out of time.
`Naive` says that on SQLite a row at the limit has a time and a failure about to be
committed is not one of a marked row. `Counted`, for subjects whose logins did not
overlap: a marked copy of the subject's row is the row as it stands or the row is gone
(`Row`), and what a login under way has decided is still so (`Recording`, `Inserting`,
`Updating`, `Resetting`). All steps but four only delete rows (`Less`), and each
conjunct survives deletion; the check, the recording, and the three ways of its
commit (`Gives`, `Updates`, `Inserts`) are taken one by one. From `Counted` a marked row
has run out and a lock has not, so that no commit deletes a lock (`LockLasts`).

*Tallied* relates that row to the answers. The wrong passwords are the count, and the one
that was lost if a lock has run out since the last right one. A commit of somebody else's
could take counts away; it does not, because the row of a subject who can log in is marked
only by the subject's own login, and that login does not end without its commit (`Marked`), which
finds the row it was drafted for (`Present`). So a deletion of a row that counts is `Gives`,
of a row at the limit, whose lock the subject has been told of.

### AsyncBank

Under `AsyncAssumption` and `CallsAssumption`: any set of tasks, any accounts and keys, any
finite set of goals, any calls, menus and bounds. The goals at the opening belong to
accounts and hold no negative savings, as every goal the services write does.

| theorem | states |
|---|---|
| `TypesAreKept` | `[]TypeOK` |
| `KeysMove` | `[]KeysMoveOnce` |
| `AnswersTell` | `[]AnswersTellOutcome` |
| `MoneyStays` | `[]MoneyIsKept` |

*Orderly* holds whatever overlaps. What a busy task still has to await is one of the tails
of its program, or what the code puts in its place (`Staged`, `Tails`): a finite family
for each call, so that the tail of a tail is again one (`TheProgramFollows`) and "the
task is at its commit" says what it has done. Numbers are never shared and a busy task
is unanswered (`Numbered`), a lock has one holder (`Exclusive`), and two tasks in the
session that the code does not mean to serialize are in `tangled` (`Tangles`). So a
holder outside `tangled` is alone in the session.

*Truthful* is about calls and keys outside `tangled`. What a task has written is nowhere,
pending in the session or committed, by its stage (`ProgressOf`); `PreparedOf` is the
answer it carries from one statement to the next. `ToldOf` is `AnswersTellOutcome` of one
answer. `KeysMoveOnce` alone is not inductive: between the commit of the money and that
of the record a key has moved money and is not completed, and a rollback takes the claim
and what it covers back together. `ClaimsOf` therefore follows a key through the life of
its claim: without a claimant the session sees of the key what is committed (`Agreed`);
with one, `Claimed` says at each stage which half is pending and which is committed.

A statement changes the session in one of a few ways, and a lemma each shows that
`Truthful` survives it: it only looks (`LookKept`), marks an effect (`MarkKept`), commits
(`CommitKept`, `StoreKept`, `LogKept`), claims a key (`TakeKept`), records a result
(`RecordKept`), loses a claim to another (`RetreatKept`, `YieldKept`) or loses what is
pending (`LoseKept`). Every action of `Statement` and `Fail` is then one of these, with the
types of what it writes from `Services_proofs`.

*Funded* is the money, of the accounts outside `raced`. `MoneyIsKept` is not inductive, for
three reasons. A transfer, a contribution and the deletion of a goal write two rows, with
an await between: `WorkingMoney` says that the session then lacks exactly what the call
still owes its account (`Owes`, `Missing`), and `OthersOweNothing` that no other holder owes
that account anything, because two holders that share no lock have raced on all that
either writes in parts (`Apart`). A write assigns columns computed from a row read some
awaits before: `Sees` and `SeesReceiver` keep that row equal to the session's until it is
used, and `Granted` what has been checked of it. And a rollback of any task takes the
pending rows of all: the accounts of the others have then raced, and those left are as
committed (`RollbackFunded`), while a commit finds nothing owed (`NothingOwed`). Goals need
`OwnGoalOf`, a goal is used by its owner or its accounts have raced, and `NewIdOf` and
`OneMaker`, a created goal was nobody's. `WriteOn` and `FundedKept` then leave, of each
statement that writes, one equation: what the balance, the savings and the statement gain
is what the call owes more (`GrantedBrings`, `UpdatePays`, `GoalWritten`).

### CommandLine

Under `CommandLineAssumption`, `CallsAssumption` and `MenusAssumption`: any set of
terminals, any finite tables, any menus and calls of the API. Of the inputs they ask only
that they are of the right sort, of the opening rows what they ask in `Branch`.

| theorem | states |
|---|---|
| `Typed` | `[]TypeOK` |
| `SessionsTellTheTruth` | `[]SessionBalanceIsTrue` |
| `MoneyKept` | `[]MoneyIsKept` |
| `FirstAdminAlone` | `[]OneFirstAdmin` |
| `ConfirmationsHold` | `ConfirmedIsDone` |

*Sound* is the inductive invariant. `SessionBalanceIsTrue` alone is not: a deleted goal's
refund is added to the object from the goal *shown*, so a terminal whose account and
goals nobody else has written must also have shown what the goal still holds, of a goal that
is still the account's (`Copied`, `Prompted`); and an operation on an account that was
deleted would move the row and the object apart, so an unmarked session's account is not
deleted. `TypeOK` needs `Seated`: what a screen says of the session and the prompts.
`OneFirstAdmin` needs that a terminal asks in create-admin only while there is no
administrator, and alone (`FirstAdmin`).

*Two halves of a step.* What a step does to the tables is `Lawful` for the terminals that
do not take it: rows stay sound, accounts and owners stay (`Grown`), the books balance, and
whoever has a session on what was written is marked (`Untouched`). There are four kinds of
such a step, a lemma each: a call of a service (`ServeIsLawful`), the transfer
(`TransferIsLawful`), the edit (`EditIsLawful`) and the registration
(`RegistrationIsLawful`); the sums are those of `Services_proofs`. What it does to the
terminal itself is `Moved`, one lemma per action. `Lawful` and `Moved` together give
`Sound` again (`StepIsSound`).

*ConfirmedIsDone*: only the answer to the last prompt takes a terminal out of the prompts
(`OnlyAnswersMove`), "done" is said of accepted calls only (`AdminDecision`), and the call
is on the rows of now, which `AcceptedPlan` of `Services_proofs` describes.

### Api

Under `ApiAssumption` and `RequestsAssumption`: any set of threads, any finite tables of
accounts, loans and goals, any menus, window, maximum and lifetime of a list. Of the requests
they ask that they are of the right sort, of the opening rows what they ask in `Branch`.

| theorem | states |
|---|---|
| `Typed` | `[]TypeOK` |
| `LimiterKeepsItsPromise` | `[]LimiterHolds` |
| `CachedListsTellTheTruth` | `[]ListTellsStatus` |
| `AnswersAreTrue` | `[]AnswersTellOutcome` |
| `CreatorsSeeTheirGoal` | `[]CreatedIsShown` |
| `WalksReturnEverything` (`ApiReaders_proofs`) | `[]WalksAreComplete` |
| `ReportsTellTheTruth` (`ApiReaders_proofs`) | `[]ReportsAddUp` |

*The filter.* The limiter's window, the row order after a deletion and an account's goals are
all list comprehensions, `Kept`. What is known of it (its range and length, that filtering
twice is filtering by the intersection, what its last element is) is proved from its
defining equation over all sequences, again by a least counterexample (`AllSequences`).

*ThreadsSound* says what a stage knows of its route: what it has written, what it may still
create. `RoutesSuit` is the table of handlers gone through once. *MeetingsSeen*: two
requests under way have crowded the accounts they meet on. So an account outside `crowded`
is one request's only, and so is the goal it names (`Alone`).

*LimiterSound.* `LimiterHolds` is about all times past, `operations` about the current
window only: times the limiter has forgotten must never be needed again. The invariant
says that the list and the history agree on the window of every moment from now on
(`SameWindows`), that what a thread found when it cleaned up is still what it would
find, the clock aside (`Looked`), and that a thread about to record has found room.

*TablesSound*: the rows are sound, the row order lists each stored goal once, ids about to be
created are free. What a commit writes is `Written`, from the lemmas of `Services_proofs`
for all calls (`ServeWrites`); nothing else writes (`OnlyServeWrites`).

*ListsSound.* The property alone is not inductive: a list may be on its way from the database
to the cache. `PagesTold` says of those, too, that they tell the status of every settled
account, and `CacheSound` that nothing is cached by a client that has never reached Redis,
so that an invalidation which fails silently leaves no old list behind.

*AnswersSound.* Between the commit and the answer a request reads again. `Finds` says that what
it has written is still there to be found: the created goal is the last of its account, the
goal of a contribution exists. Others store and delete goals meanwhile, and any request
may name any goal; `OwnLastStays` and `Alone` show that those of other accounts do not matter.

*BooksSound* is what walks and reports are read from. `LedgerSound`: a statement only
grows, in the order of time. `ExportsTrue`: the part of `ReportsAddUp` about exports, which is
about the tables alone. `TransfersPair`: what left accounts by transfer has reached others,
unless goals took some. `OpeningKept`: a goal that was refunded, or an account that was
deleted, is never again as it was at the opening, so that `NoRefund` and `NoDeletion`, once
false, stay false. That a served request changes a balance by the rows it adds (`Books`,
`ServeBooks`) comes from the plans of the services in `Services_proofs`, one case per service.

*ReadersSound* follows a client in the middle. The rows of a statement are numbered in the
order they were committed, and `NewestIs` shows that the sort by time, newest first, is these
numbers counted down (`Down`) wherever times differ; a sort being a choice among bijections,
that is a statement about any bijection that sorts, by a least counterexample. So a page by
cursor continues the countdown (`KeysetPage`), and `CursorHolds` says that a walker has the
first k of it and its cursor is the time of the k-th. By page number rows move to later pages as
new ones arrive: `PagesHold` only says that whatever is not ahead has been returned. For a
loan report, `LoansCounted`: what is counted so far, and the loans whose status is
*still to be queried*, are together at least the loans there were at the start. A loan moves
only forward, and the queries run in the order of its life, so a step of another
request takes no loan from "still to be queried" to "queried already" uncounted
(`LoansCountedStays`); the mutant `ByName`, queries in alphabetical order, breaks just this. For
the statistics, `BooksRead` keeps each total equal to the table's as long as no requests met,
since then nobody writes between two queries (`QuietReports`).

*What the attempt found.* Two conditions of `ReportsAddUp` were true of the instance and false
in general. It excused only accounts whose own savings had changed; but `delete_goal` refunds
whoever names the goal's id (`loan_service.py:512`), so another account's balance grows
without a row. And the statistics excused the deletion of opening accounts only, not that
of an account registered since, whose deposits stay in the totals. The property now says
`NoRefund` and `NoDeletion`, and the run has requests for both.

### Only model-checked

- `EveryCallReturns`: liveness under fairness is out of the prover's reach.
- The five violations, which are statements about one behaviour each.

## 8. Not modelled

- *Notifications and their circuit breaker.* `NOTIFICATION_BREAKER.call(f)(args)` calls
  `f` without its arguments before the outer call is made; the TypeError is swallowed
  by every caller, so notifications change nothing.
- *The connection pool and the exchange of the engine* (`database.py`): their limits are
  those of SQLAlchemy's pool, whose behaviour is not in this repository.
- *Some routes.* `v2_list_loans` and `v2_get_loan` raise a TypeError for running loans on
  SQLite (a naive date is compared with an aware one) and otherwise only read;
  `v2_admin_view_transactions` merges statements up to a page's length and sorts what it
  has; the readiness probe and metrics only report; `routes/totp.py` is shadowed
  by the equal paths of `routes/auth.py`; `models.py` is the shape of requests.
- *The async read methods and the async loan tables*: they change nothing.
- *Front end, JSON file store (tests only), migrations, metrics, logging, analytics*:
  no state of the bank depends on them.
- *Cryptography*: hashes, signatures and TOTP codes are compared as the values they
  stand for.
- *The operating system*, but for the death of a process: a full disk that tears a
  write, a lost database are left to the database.

In the modelled components: names, ages and addresses are one column; wording and
layout are left out except where a property is about a status code or a message;
amounts are whole paise, where the code rounds a float to two places; SELECTs do not
fail except in a broken session.

## 9. Plan

Done: `Bank` and `TransactionService` with their proofs; the unlocked writers, loans and
goals (`Branch`), logins and tokens (`Access`), routes, limiter and cache (`Api`),
terminals (`CommandLine`), async services (`AsyncBank`); the proofs of the safety properties
of all of them.

What is left, none of it needed by another part: the connection pool, once it is decided
which of its limits the deployment relies on.
