-------------------------- MODULE TransactionService --------------------------
(***************************************************************************)
(* TransactionService.deposit, withdraw and transfer as the API's worker   *)
(* threads run them: per-account locks of one process, the idempotency     *)
(* claim, the reads and the whole-row writes of the account repository,    *)
(* the commit of the money movement and the second commit that records its *)
(* result.  Threads interleave between any two database statements; a      *)
(* worker process may crash; a statement may fail.                         *)
(*                                                                         *)
(* Reads are READ COMMITTED (SQLite in WAL mode outside a write            *)
(* transaction, PostgreSQL's default): they see the last committed rows.   *)
(* What a thread has flushed is visible to others only after its commit.   *)
(***************************************************************************)
EXTENDS Integers, Sequences, FiniteSets

CONSTANTS
    Threads,      \* request threads of the API's thread pools
    Workers,      \* uvicorn worker processes
    WorkerOf,     \* [Threads -> Workers]
    Accounts,     \* account numbers, ordered as the code's sorted() orders them
    Keys,         \* idempotency keys clients send
    NoKey,        \* the request carries no key
    Amounts,      \* amounts clients send, 0 and negative ones included
    OpeningRow,   \* [Accounts -> Row]: the accounts table at the start
    MaxRequests,  \* bound: requests submitted in a behaviour
    MaxCrashes,   \* bound: worker crashes
    MaxFaults,    \* bound: statements that fail
    SavepointMayFail  \* whether a statement inside a transfer's savepoint is one of them

\* A row of the accounts table; the columns that no request reads are left out.
Row == [balance : Int, active : BOOLEAN, frozen : BOOLEAN, deleted : BOOLEAN]

ASSUME ConstantsAssumption ==
    /\ WorkerOf \in [Threads -> Workers]
    /\ Accounts \subseteq Nat /\ Accounts # {}
    /\ NoKey \notin Keys
    /\ Amounts \subseteq Int
    /\ OpeningRow \in [Accounts -> Row]
    /\ \A a \in Accounts : OpeningRow[a].balance >= 0
    /\ {MaxRequests, MaxCrashes, MaxFaults} \subseteq Nat
    /\ SavepointMayFail \in BOOLEAN

Ops == {"deposit", "withdraw", "transfer"}

\* to is the account itself except in a transfer.
Call == [op : Ops, acc : Accounts, to : Accounts, amount : Int,
         key : Keys \cup {NoKey}]
Request == {r \in [op : Ops, acc : Accounts, to : Accounts, amount : Amounts,
                   key : Keys \cup {NoKey}] : r.op # "transfer" => r.to = r.acc}

\* What a thread's request holds before its first one.
NoRequest == LET a == CHOOSE a \in Accounts : TRUE
             IN  [op |-> "deposit", acc |-> a, to |-> a, amount |-> 0, key |-> NoKey]

\* A row of the transactions table.  key and stamp are history: the request's
\* key, and the position of its commit (the legs of one transfer share it, as
\* they share their timestamp in the code).
EntryTypes == {"DEPOSIT", "WITHDRAW", "TRANSFER_OUT", "TRANSFER_IN"}
Entry == [type : EntryTypes, amount : Int, balance : Int, target : Accounts,
          key : Keys \cup {NoKey}, stamp : Nat]

\* An idempotency record: not there, the claim, or the stored result.
Records == {"absent", "pending", "ok", "refused"}

Stages == {"idle", "lock", "claim", "insert", "reclaim", "getSender",
           "getReceiver", "updateSender", "updateReceiver", "commit",
           "complete", "refuse", "release"}

Replies == {"none", "ok", "refused", "pending", "incomplete", "storage",
            "failed", "invalid", "error", "lost"}

VARIABLES
    rows,       \* accounts table
    txns,       \* transactions table, per account in commit order
    idem,       \* idempotency_keys table
    clock,      \* history: number of committed money movements
    pc,         \* stage of the request a thread serves
    req,        \* that request
    held,       \* account locks a thread holds
    snap,       \* account_repo.get: the dataclass copies a thread works on
    base,       \* account_repo.update: the row it re-queried, per account
    flushed,    \* keys whose pending records a thread's session holds uncommitted
    poisoned,   \* the thread's session awaits a rollback nobody issues
    reply,      \* last answer of a thread
    issued, crashes, faults   \* counters for the bounds

dbVars == <<rows, txns, idem, clock>>
callVars == <<req, held, snap, base, flushed, poisoned, reply>>
boundVars == <<issued, crashes, faults>>
vars == <<dbVars, pc, callVars, boundVars>>

-------------------------------------------------------------------------------
(* Helpers *)

Deposits(r) == r.op = "deposit"
Transfers(r) == r.op = "transfer"
Touched(t) == {req[t].acc, req[t].to}
Keyed(t) == req[t].key # NoKey

\* Account.can_transact
CanTransact(row) == row.active /\ ~row.frozen

\* The early returns of deposit, withdraw and transfer before any lock is taken.
IsValid(r) ==
    /\ r.amount > 0
    /\ Transfers(r) => r.acc # r.to

\* The checks between the reads and the writes, s and d the rows read for the
\* account and for a transfer's recipient.
\* mutant: a transfer is not checked.
WithdrawalCovers(r, s) == r.op = "withdraw" => r.amount <= s.balance
Covers(r, s) == Deposits(r) \/ r.amount <= s.balance
Permitted(r, s, d) ==
    /\ ~s.deleted /\ CanTransact(s)
    /\ Transfers(r) => ~d.deleted /\ CanTransact(d)
    /\ Covers(r, s)

\* idempotency_repo.get: the committed record, or the one of the session itself.
Record(t, k) == IF k \in flushed[t] THEN "pending" ELSE idem[k]

\* _classify_idempotency_record: a claim reads as pending, or as incomplete once it
\* is older than _IDEMPOTENCY_STALE_SECONDS; no record at all as incomplete.
Classify(record) ==
    {a \in {"ok", "refused", "pending", "incomplete"} :
        \/ a = record
        \/ a = "incomplete" /\ record \in {"absent", "pending"}}

\* What request r adds to account a, and the row it leaves in a's statement.
Delta(r, a) ==
    IF a = r.acc /\ ~Deposits(r) THEN -r.amount ELSE r.amount

OneTransferType(r, a) == \* mutant: the legs of a transfer are not told apart
    IF Transfers(r) THEN "TRANSFER" ELSE IF Deposits(r) THEN "DEPOSIT" ELSE "WITHDRAW"
EntryType(r, a) ==
    IF Deposits(r) THEN "DEPOSIT"
    ELSE IF ~Transfers(r) THEN "WITHDRAW"
    ELSE IF a = r.acc THEN "TRANSFER_OUT" ELSE "TRANSFER_IN"

NewBalance(t, a) == snap[t][a].balance + Delta(req[t], a)

EntryForRecipient(t, a) == \* mutant: both legs name the recipient
    [type |-> EntryType(req[t], a), amount |-> req[t].amount,
     balance |-> NewBalance(t, a), target |-> req[t].to,
     key |-> req[t].key, stamp |-> clock]

EntryFor(t, a) ==
    [type |-> EntryType(req[t], a), amount |-> req[t].amount,
     balance |-> NewBalance(t, a),
     target |-> IF a = req[t].acc THEN req[t].to ELSE req[t].acc,
     key |-> req[t].key, stamp |-> clock]

\* account_repo.update writes every column of the dataclass; the UPDATE that
\* SQLAlchemy emits sets those that differ from the row it re-queried.
Merge(mine, seen, stored) == IF mine # seen THEN mine ELSE stored
Written(t, a) ==
    [balance |-> Merge(NewBalance(t, a), base[t][a].balance, rows[a].balance),
     active |-> Merge(snap[t][a].active, base[t][a].active, rows[a].active),
     frozen |-> Merge(snap[t][a].frozen, base[t][a].frozen, rows[a].frozen),
     deleted |-> rows[a].deleted]

\* A lock is a threading.Lock of its process: threads of other workers have their own.
LockPerThread(t, a) == TRUE \* mutant: each thread has its own lock registry
LockFree(t, a) == \A u \in Threads \ {t} : WorkerOf[u] = WorkerOf[t] => a \notin held[u]

\* sorted(): the next lock is the lowest one not held yet.
SenderFirst(t, a) == a = req[t].acc \/ req[t].acc \in held[t] \* mutant: unsorted
IsNext(t, a) == \A b \in Touched(t) \ held[t] : a <= b

\* The INSERT of a claim waits while another transaction holds the same key.
InsertAtOnce(t) == TRUE \* mutant: the key column is not unique
InsertMayRun(t) == \A u \in Threads : req[t].key \notin flushed[u]

\* A commit makes every claim the session holds a pending record; then, as after a
\* rollback, the session holds none.
WithoutClaims(t) == idem \* mutant: the movement commits without its claim
WithClaims(t) == [k \in Keys |-> IF k \in flushed[t] THEN "pending" ELSE idem[k]]
DropClaims(t) == flushed' = [flushed EXCEPT ![t] = {}]

Answer(t, a) == reply' = [reply EXCEPT ![t] = a]
Goto(t, stage) == pc' = [pc EXCEPT ![t] = stage]

-------------------------------------------------------------------------------
(* A request *)

Init ==
    /\ rows = OpeningRow
    /\ txns = [a \in Accounts |-> <<>>]
    /\ idem = [k \in Keys |-> "absent"]
    /\ clock = 0
    /\ pc = [t \in Threads |-> "idle"]
    /\ req = [t \in Threads |-> NoRequest]
    /\ held = [t \in Threads |-> {}]
    /\ snap = [t \in Threads |-> OpeningRow]
    /\ base = [t \in Threads |-> OpeningRow]
    /\ flushed = [t \in Threads |-> {}]
    /\ poisoned = [t \in Threads |-> FALSE]
    /\ reply = [t \in Threads |-> "none"]
    /\ issued = 0 /\ crashes = 0 /\ faults = 0

\* A client's request reaches an idle thread; an invalid one is answered at once.
Submit(t, r) ==
    /\ pc[t] = "idle"
    /\ issued < MaxRequests
    /\ issued' = issued + 1
    /\ req' = [req EXCEPT ![t] = r]
    /\ IF IsValid(r)
       THEN Goto(t, "lock") /\ Answer(t, "none")
       ELSE UNCHANGED pc /\ Answer(t, "invalid")
    /\ UNCHANGED <<dbVars, held, snap, base, flushed, poisoned, crashes, faults>>

\* _account_lock: the next lock in ascending order; the last one opens the body.
Acquire(t) ==
    /\ pc[t] = "lock"
    /\ \E a \in Touched(t) \ held[t] :
          /\ IsNext(t, a)
          /\ LockFree(t, a)
          /\ held' = [held EXCEPT ![t] = @ \cup {a}]
          /\ Goto(t, IF Touched(t) \subseteq held[t] \cup {a} THEN "claim" ELSE "lock")
    /\ UNCHANGED <<dbVars, req, snap, base, flushed, poisoned, reply, boundVars>>

\* _claim_idempotency, first look: no key, no record yet, or a record to answer with.
ClaimLookup(t) ==
    /\ pc[t] = "claim"
    /\ \/ /\ ~Keyed(t)
          /\ Goto(t, "getSender")
          /\ UNCHANGED reply
       \/ /\ Keyed(t) /\ ~poisoned[t]
          /\ Record(t, req[t].key) = "absent"
          /\ Goto(t, "insert")
          /\ UNCHANGED reply
       \/ /\ Keyed(t) /\ ~poisoned[t]
          /\ Record(t, req[t].key) # "absent"
          /\ \E a \in Classify(Record(t, req[t].key)) : Answer(t, a)
          /\ Goto(t, "release")
    /\ UNCHANGED <<dbVars, req, held, snap, base, flushed, poisoned, boundVars>>

\* mutant: the claim is committed, not flushed.
ClaimCommitted(t) ==
    /\ pc[t] = "insert" /\ Keyed(t)
    /\ idem[req[t].key] = "absent"
    /\ idem' = [idem EXCEPT ![req[t].key] = "pending"]
    /\ Goto(t, "getSender")
    /\ UNCHANGED <<rows, txns, clock, req, held, snap, base, flushed, poisoned, reply,
                   boundVars>>

\* The pending record is flushed, or its primary key collides with a committed one and
\* the session is rolled back.
ClaimInsert(t) ==
    /\ pc[t] = "insert" /\ Keyed(t)
    /\ InsertMayRun(t)
    /\ \/ /\ idem[req[t].key] = "absent"
          /\ flushed' = [flushed EXCEPT ![t] = @ \cup {req[t].key}]
          /\ Goto(t, "getSender")
       \/ /\ idem[req[t].key] # "absent"
          /\ Goto(t, "reclaim")
          /\ DropClaims(t)
    /\ UNCHANGED <<dbVars, req, held, snap, base, poisoned, reply, boundVars>>

\* The second look, after the IntegrityError.
ClaimReread(t) ==
    /\ pc[t] = "reclaim"
    /\ \E a \in Classify(idem[req[t].key]) : Answer(t, a)
    /\ Goto(t, "release")
    /\ UNCHANGED <<dbVars, req, held, snap, base, flushed, poisoned, boundVars>>

\* account_repo.get of the account, and the checks of a deposit or a withdrawal.
GetSender(t) ==
    /\ pc[t] = "getSender" /\ ~poisoned[t]
    /\ snap' = [snap EXCEPT ![t][req[t].acc] = rows[req[t].acc]]
    /\ Goto(t, IF Transfers(req[t]) THEN "getReceiver"
               ELSE IF Permitted(req[t], rows[req[t].acc], rows[req[t].acc])
               THEN "updateSender" ELSE "refuse")
    /\ UNCHANGED <<dbVars, req, held, base, flushed, poisoned, reply, boundVars>>

\* account_repo.get of a transfer's recipient, and a transfer's checks.
GetReceiver(t) ==
    /\ pc[t] = "getReceiver"
    /\ snap' = [snap EXCEPT ![t][req[t].to] = rows[req[t].to]]
    /\ Goto(t, IF Permitted(req[t], snap[t][req[t].acc], rows[req[t].to])
               THEN "updateSender" ELSE "refuse")
    /\ UNCHANGED <<dbVars, req, held, base, flushed, poisoned, reply, boundVars>>

\* account_repo.update re-queries the row it is about to overwrite.
UpdateSender(t) ==
    /\ pc[t] = "updateSender"
    /\ base' = [base EXCEPT ![t][req[t].acc] = rows[req[t].acc]]
    /\ Goto(t, IF Transfers(req[t]) THEN "updateReceiver" ELSE "commit")
    /\ UNCHANGED <<dbVars, req, held, snap, flushed, poisoned, reply, boundVars>>

UpdateReceiver(t) ==
    /\ pc[t] = "updateReceiver"
    /\ base' = [base EXCEPT ![t][req[t].to] = rows[req[t].to]]
    /\ Goto(t, "commit")
    /\ UNCHANGED <<dbVars, req, held, snap, flushed, poisoned, reply, boundVars>>

\* account_repo.commit: balances, statement rows and the claim, in one transaction.
Commit(t) ==
    /\ pc[t] = "commit"
    /\ \A a \in Touched(t) : ~base[t][a].deleted
    /\ rows' = [a \in Accounts |-> IF a \in Touched(t) THEN Written(t, a) ELSE rows[a]]
    /\ txns' = [a \in Accounts |-> IF a \in Touched(t)
                                   THEN Append(txns[a], EntryFor(t, a)) ELSE txns[a]]
    /\ clock' = clock + 1
    /\ idem' = WithClaims(t)
    /\ DropClaims(t)
    /\ IF Keyed(t)
       THEN Goto(t, "complete") /\ UNCHANGED reply
       ELSE Goto(t, "release") /\ Answer(t, "ok")
    /\ UNCHANGED <<req, held, snap, base, poisoned, boundVars>>

\* _complete_idempotency of a success: a second commit, after the money has moved.
Complete(t) ==
    /\ pc[t] = "complete"
    /\ idem' = [idem EXCEPT ![req[t].key] = "ok"]
    /\ Answer(t, "ok")
    /\ Goto(t, "release")
    /\ UNCHANGED <<rows, txns, clock, req, held, snap, base, flushed, poisoned, boundVars>>

\* A failed check: with a key, the claim and the failure are committed together.
\* Without one nothing is committed or rolled back.
RefuseRequest(t) ==
    /\ pc[t] = "refuse"
    /\ IF Keyed(t)
       THEN idem' = [WithClaims(t) EXCEPT ![req[t].key] = "refused"] /\ DropClaims(t)
       ELSE UNCHANGED <<idem, flushed>>
    /\ Answer(t, "refused")
    /\ Goto(t, "release")
    /\ UNCHANGED <<rows, txns, clock, req, held, snap, base, poisoned, boundVars>>

\* The finally clause of _account_lock, in ascending order; the call's locals die.
Release(t) ==
    /\ pc[t] = "release"
    /\ \E a \in held[t] :
          /\ \A b \in held[t] : a <= b
          /\ held' = [held EXCEPT ![t] = @ \ {a}]
          /\ Goto(t, IF held[t] = {a} THEN "idle" ELSE "release")
    /\ snap' = [snap EXCEPT ![t] = OpeningRow]
    /\ base' = [base EXCEPT ![t] = OpeningRow]
    /\ UNCHANGED <<dbVars, req, flushed, poisoned, reply, boundVars>>

-------------------------------------------------------------------------------
(* What goes wrong *)

\* The call ends with answer a, and its locks go next.
EndCall(t, a) ==
    /\ Answer(t, a)
    /\ Goto(t, "release")
    /\ UNCHANGED <<dbVars, req, held, snap, base, issued, crashes>>

\* It ends, and the session's transaction is rolled back.
Abandon(t, a) == EndCall(t, a) /\ DropClaims(t)

Fault == faults < MaxFaults /\ faults' = faults + 1

\* except (OSError, ValueError, TypeError) around the claim's INSERT.
ClaimStorageError(t) ==
    /\ pc[t] = "insert" /\ Fault
    /\ Abandon(t, "storage") /\ UNCHANGED poisoned

\* transfer's own handler of those errors: rollback, no record, a failure result.
TransferAborts(t) ==
    /\ pc[t] = "commit" /\ Transfers(req[t]) /\ Fault
    /\ Abandon(t, "failed") /\ UNCHANGED poisoned

\* _complete_idempotency swallows them: the result is answered but not recorded.
CompleteSwallows(t) ==
    /\ pc[t] \in {"complete", "refuse"} /\ Keyed(t) /\ Fault
    /\ Abandon(t, IF pc[t] = "complete" THEN "ok" ELSE "refused") /\ UNCHANGED poisoned

\* A database error in a flush or commit: nobody catches it.  The database has rolled
\* back, the session waits for a rollback() that nobody calls.
DatabaseError(t) ==
    /\ \/ pc[t] \in {"insert", "commit", "complete"}
       \/ /\ pc[t] = "refuse"
          /\ Keyed(t)
    /\ Fault
    /\ Abandon(t, "error")
    /\ poisoned' = [poisoned EXCEPT ![t] = TRUE]

\* A database error in the flush that ends a transfer's savepoint undoes the savepoint
\* only: nobody catches it, and the claim stays in the session's open transaction.
SavepointError(t) ==
    /\ SavepointMayFail
    /\ pc[t] = "commit" /\ Transfers(req[t]) /\ Fault
    /\ EndCall(t, "error")
    /\ UNCHANGED <<flushed, poisoned>>

\* The session of that thread then refuses every statement.
PoisonedCall(t) ==
    /\ poisoned[t]
    /\ \/ pc[t] = "getSender"
       \/ /\ pc[t] = "claim"
          /\ Keyed(t)
    /\ Abandon(t, "error")
    /\ UNCHANGED <<poisoned, faults>>

\* A worker process dies: its threads, locks and open transactions are gone.
Crash(w) ==
    /\ crashes < MaxCrashes
    /\ crashes' = crashes + 1
    /\ \E t \in Threads : WorkerOf[t] = w /\ pc[t] # "idle"
    /\ pc' = [t \in Threads |-> IF WorkerOf[t] = w THEN "idle" ELSE pc[t]]
    /\ held' = [t \in Threads |-> IF WorkerOf[t] = w THEN {} ELSE held[t]]
    /\ flushed' = [t \in Threads |-> IF WorkerOf[t] = w THEN {} ELSE flushed[t]]
    /\ snap' = [t \in Threads |-> IF WorkerOf[t] = w THEN OpeningRow ELSE snap[t]]
    /\ base' = [t \in Threads |-> IF WorkerOf[t] = w THEN OpeningRow ELSE base[t]]
    /\ poisoned' = [t \in Threads |-> WorkerOf[t] # w /\ poisoned[t]]
    /\ reply' = [t \in Threads |-> IF WorkerOf[t] = w /\ pc[t] # "idle"
                                   THEN "lost" ELSE reply[t]]
    /\ UNCHANGED <<dbVars, req, issued, faults>>

-------------------------------------------------------------------------------

\* A statement of the code that the thread's own scheduling will run.
Advance(t) ==
    \/ Acquire(t) \/ ClaimLookup(t) \/ ClaimInsert(t) \/ ClaimReread(t)
    \/ GetSender(t) \/ GetReceiver(t) \/ UpdateSender(t) \/ UpdateReceiver(t)
    \/ Commit(t) \/ Complete(t) \/ RefuseRequest(t) \/ Release(t)
    \/ PoisonedCall(t)

Fails(t) ==
    \/ ClaimStorageError(t) \/ TransferAborts(t) \/ CompleteSwallows(t)
    \/ DatabaseError(t) \/ SavepointError(t)

\* Every submitted request has been answered and the bound is used up.
Finished ==
    /\ issued = MaxRequests
    /\ \A t \in Threads : pc[t] = "idle"
    /\ UNCHANGED vars

Next ==
    \/ \E t \in Threads, r \in Request : Submit(t, r)
    \/ \E t \in Threads : Advance(t)
    \/ \E t \in Threads : Fails(t)
    \/ \E w \in Workers : Crash(w)
    \/ Finished

Spec == Init /\ [][Next]_vars

FairSpec == Spec /\ \A t \in Threads : WF_vars(Advance(t))

-------------------------------------------------------------------------------
(* Properties *)

TypeOK ==
    /\ rows \in [Accounts -> Row]
    /\ txns \in [Accounts -> Seq(Entry)]
    /\ idem \in [Keys -> Records]
    /\ clock \in Nat
    /\ pc \in [Threads -> Stages]
    /\ req \in [Threads -> Call]
    /\ held \in [Threads -> SUBSET Accounts]
    /\ snap \in [Threads -> [Accounts -> Row]]
    /\ base \in [Threads -> [Accounts -> Row]]
    /\ flushed \in [Threads -> SUBSET Keys]
    /\ poisoned \in [Threads -> BOOLEAN]
    /\ reply \in [Threads -> Replies]
    /\ {issued, crashes, faults} \subseteq Nat

Signed(e) == IF e.type \in {"DEPOSIT", "TRANSFER_IN"} THEN e.amount ELSE -e.amount
BalanceBefore(a, i) == IF i = 1 THEN OpeningRow[a].balance ELSE txns[a][i - 1].balance

\* Every statement adds up: each row's recorded balance is the previous one plus its
\* signed amount, and the account's balance is the last recorded one.  A lost update,
\* or a write from a stale read, breaks it.
StatementAddsUp ==
    \A a \in Accounts :
        /\ \A i \in 1 .. Len(txns[a]) :
              txns[a][i].balance = BalanceBefore(a, i) + Signed(txns[a][i])
        /\ rows[a].balance = BalanceBefore(a, Len(txns[a]) + 1)

\* No balance is ever negative: the CHECK constraint of the accounts table never has
\* to refuse a write, whatever withdrawals and transfers race for the same money.
NeverOverdrawn == \A a \in Accounts : rows[a].balance >= 0

Mirrors(e, f, a) ==
    /\ {e.type, f.type} = {"TRANSFER_OUT", "TRANSFER_IN"}
    /\ f.target = a /\ f.amount = e.amount /\ f.stamp = e.stamp /\ f.key = e.key

\* Double entry: every leg of a transfer has its counterpart in the other account's
\* statement, across crashes, failed commits and concurrent transfers.
DoubleEntry ==
    \A a \in Accounts : \A i \in 1 .. Len(txns[a]) :
        LET e == txns[a][i] IN
        e.type \in {"TRANSFER_OUT", "TRANSFER_IN"} =>
            \E j \in 1 .. Len(txns[e.target]) : Mirrors(e, txns[e.target][j], a)

MovedUnder(k) == \E a \in Accounts : \E i \in 1 .. Len(txns[a]) : txns[a][i].key = k

\* The committed record of a key tells whether money moved under it: a pending or a
\* successful one if and only if it did, even when its holder crashed.
KeyTellsOutcome == \A k \in Keys : idem[k] \in {"pending", "ok"} <=> MovedUnder(k)

\* All statement rows of one key belong to one commit: a key never moves money twice.
KeyMovesOnce ==
    \A a, b \in Accounts : \A i \in 1 .. Len(txns[a]), j \in 1 .. Len(txns[b]) :
        txns[a][i].key = txns[b][j].key /\ txns[a][i].key # NoKey
            => txns[a][i].stamp = txns[b][j].stamp

\* A caller told that its keyed request succeeded is never contradicted by the record.
SuccessIsRecorded ==
    \A t \in Threads :
        /\ pc[t] \in {"release", "idle"} /\ reply[t] = "ok"
        /\ Keyed(t)
        => idem[req[t].key] \in {"pending", "ok"}

\* A key is answered with its result: once money has moved under it and the request
\* that moved it is over, a repetition is told that it succeeded.
Replays(t) ==
    /\ pc[t] \in {"claim", "reclaim"} /\ pc'[t] = "release"
    /\ MovedUnder(req[t].key)
    /\ \A u \in Threads : pc[u] = "complete" => req[u].key # req[t].key
SameKeySameResult == [][\A t \in Threads : Replays(t) => reply'[t] = "ok"]_vars

\* A failed request leaves nothing behind in its thread's session: the next one starts
\* without its broken transaction and without its claims.
CallsStartClean == \A t \in Threads : pc[t] = "lock" => ~poisoned[t] /\ flushed[t] = {}

\* What Bank's observer sees: committed balances, and each key's decision.
OutcomeOf(k) ==
    IF idem[k] = "absent" THEN "none"
    ELSE IF idem[k] = "refused" THEN "refused" ELSE "moved"

BankView == INSTANCE Bank WITH
    OpeningBalance <- [a \in Accounts |-> OpeningRow[a].balance],
    balance <- [a \in Accounts |-> rows[a].balance],
    outcome <- [k \in Keys |-> OutcomeOf(k)]

\* The service implements Bank: atomic movements, each key decided once.
ImplementsBank == BankView!BankSpec

\* Every request a thread has accepted is answered: the locks and the waits for a
\* claim's INSERT never block each other in a cycle.
EveryCallReturns == \A t \in Threads : pc[t] # "idle" ~> pc[t] = "idle"

-------------------------------------------------------------------------------
(* Why the properties hold: the inductive invariants their proofs rest on *)

\* The stages between acquiring the last lock and releasing the first one.
Body == {"claim", "insert", "reclaim", "getSender", "getReceiver", "updateSender",
         "updateReceiver", "commit", "complete", "refuse"}

\* Two threads of one worker never hold the same account lock.
MutualExclusion ==
    \A t, u \in Threads :
        t # u /\ WorkerOf[t] = WorkerOf[u] => held[t] \cap held[u] = {}

LocksCoverBody ==
    \A t \in Threads :
        /\ held[t] \subseteq Touched(t)
        /\ pc[t] \in Body => held[t] = Touched(t)
        /\ pc[t] = "idle" => held[t] = {}

CallsAreValid ==
    \A t \in Threads :
        /\ ~Transfers(req[t]) => req[t].to = req[t].acc
        /\ pc[t] # "idle" => IsValid(req[t]) /\ req[t].amount \in Amounts

\* Under one process's locks, what a call has read is still what the table holds.
ReadsAreCurrent ==
    \A t \in Threads : LET a == req[t].acc
                           b == req[t].to
                       IN
        /\ pc[t] \in {"getReceiver", "updateSender", "updateReceiver", "commit"}
              => snap[t][a] = rows[a]
        /\ pc[t] \in {"updateSender", "updateReceiver", "commit"}
              => snap[t][b] = rows[b] /\ Permitted(req[t], rows[a], rows[b])
        /\ pc[t] \in {"updateReceiver", "commit"} => base[t][a] = rows[a]
        /\ pc[t] = "commit" => base[t][b] = rows[b]

\* The stages between a keyed call's claim and the commit that makes it durable.
Claiming == {"getSender", "getReceiver", "updateSender", "updateReceiver", "commit",
             "refuse"}

\* At most one session holds a claim on a key, and none once the key has a record.
ClaimsAreExclusive ==
    /\ \A t \in Threads :
          /\ pc[t] \in Claiming /\ Keyed(t) => req[t].key \in flushed[t]
          /\ pc[t] \in {"insert", "reclaim", "complete"} => Keyed(t)
          /\ \A k \in flushed[t] : idem[k] = "absent"
          /\ pc[t] = "complete" => idem[req[t].key] = "pending"
    /\ \A t, u \in Threads : t # u =>
          /\ flushed[t] \cap flushed[u] = {}
          /\ pc[t] = "complete" /\ pc[u] = "complete" => req[t].key # req[u].key

\* Unless a savepoint failed, a session holds no claim but its own call's.
NoOrphanClaims ==
    \A t \in Threads : flushed[t] \subseteq
        IF pc[t] \in Claiming /\ Keyed(t) THEN {req[t].key} ELSE {}

MovementsAreRecorded == \A k \in Keys : MovedUnder(k) => idem[k] \in {"pending", "ok"}

StampsArePast ==
    \A a \in Accounts : \A i \in 1 .. Len(txns[a]) : txns[a][i].stamp < clock

OneProcess == \A t, u \in Threads : WorkerOf[t] = WorkerOf[u]
================================================================================
