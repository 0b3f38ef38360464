------------------------------- MODULE AsyncBank -------------------------------
(***************************************************************************)
(* The asynchronous services of application/services_pkg over the one      *)
(* AsyncSession that AsyncContainer gives all of them.  A call is a task   *)
(* that runs from one awaited statement to the next; its program is the    *)
(* sequence of its statements, and tasks interleave between any two.  The  *)
(* session has a single transaction: every task reads the changes pending  *)
(* in it, any commit commits, and any rollback discards, those of all.     *)
(***************************************************************************)
EXTENDS Services, SequencesExt

CONSTANTS
    Tasks,
    Accounts, Goals, Keys, NoKey,       \* idempotency keys
    OpeningAccounts, OpeningGoals,
    Calls,                              \* what the callers ask for
    Menus,        \* bound: the calls of a behaviour, how many are made, how many at once,
                  \* storage failures, crashes and clock ticks
    MaxAttempts, Lockout                \* MAX_LOGIN_ATTEMPTS, LOGIN_LOCKOUT_MINUTES

ASSUME AsyncAssumption ==
    /\ Accounts \subseteq Nat \ {0} /\ NoKey \notin Keys
    /\ OpeningAccounts \in [Accounts -> AccountRow]
    /\ IsFiniteSet(Goals) /\ OpeningGoals \in [Goals -> GoalRow]
    /\ \A g \in Goals : OpeningGoals[g].owner \in Accounts \cup {0} /\ SoundGoal(OpeningGoals[g])
    /\ {MaxAttempts, Lockout} \subseteq Nat \ {0}

VARIABLES
    stored,     \* the tables as committed
    working,    \* the tables as the session's open transaction sees them
    broken,     \* a statement has failed and nobody has rolled the session back
    clock,      \* in steps longer than _IDEMPOTENCY_STALE_SECONDS
    todo,       \* a task's statements from the one it awaits on; none when it is idle
    call, number,   \* the call a task serves and the call's number
    seen,       \* the rows it has read
    result,     \* the answer it is about to give
    menu, faults, crashes,   \* bounds
    answers,    \* history: every call and the answer it has had
    unsure,     \* history: calls whose commit took effect and reported a failure
    tangled,    \* history: calls that overlapped one they share no lock with
    raced       \* history: accounts whose rows such calls may have torn, or whose goals
                \* were used from another account
locals == <<call, number, seen, result>>
history == <<answers, unsure, tangled, raced>>
vars == <<stored, working, broken, clock, todo, locals, menu, faults, crashes, history>>

-------------------------------------------------------------------------------
(* The statements a service awaits, in order *)

\* AsyncTransactionService
Deposit == <<"account", "update", "commit">>
Withdraw == <<"account", "update", "commit">>
Transfer == <<"account", "receiver", "update", "updateReceiver", "commit">>
Interest == <<"account", "update", "commit">>
\* AsyncAccountService
UpdateTheProfile == <<"account", "update", "commit">>
ChangeThePassword == <<"account", "update", "increment", "commit">>
CloseTheAccount == <<"account", "update", "commit">>
\* AsyncAdminService
Freeze == <<"account", "setFrozen", "setActive", "commit", "log">>
Unfreeze == <<"account", "setFrozen", "commit", "log">>
Delete == <<"account", "remove", "commit", "log">>
ChangeAdminPassword == <<"admin", "setPassword", "commit", "log">>
\* AsyncSavingsGoalService; a goal without savings is deleted without the refund
CreateTheGoal == <<"add", "commit">>
ContributeToGoal == <<"account", "goal", "update", "addToGoal", "commit">>
DeleteTheGoal == <<"goal", "dropGoal", "refund", "update", "commit">>
\* AsyncAuthService; what a login awaits after its reads depends on the password
CustomerLogin == <<"isLocked", "account">>
AdminLogin == <<"isLocked", "admin">>
CustomerRegister == <<"add", "commit">>
FailedLogin == <<"attempt", "failure", "commit">>
GoodLogin == <<"reset", "commit">>

Programs ==
    [deposit |-> Deposit, withdraw |-> Withdraw, transfer |-> Transfer, interest |-> Interest,
     profile |-> UpdateTheProfile, password |-> ChangeThePassword, close |-> CloseTheAccount,
     freeze |-> Freeze, unfreeze |-> Unfreeze, delete |-> Delete,
     adminPassword |-> ChangeAdminPassword, createGoal |-> CreateTheGoal,
     contribute |-> ContributeToGoal, deleteGoal |-> DeleteTheGoal,
     login |-> CustomerLogin, adminLogin |-> AdminLogin, register |-> CustomerRegister]

Movements == {"deposit", "withdraw", "transfer"}

\* _get_account_lock: one lock per set of account numbers, so that the lock of a transfer
\* is neither its sender's nor its receiver's.  Only movements take one.
LockOf(c) == IF c.op = "transfer" THEN {c.acc, c.to}
             ELSE IF c.op \in Movements THEN {c.acc} ELSE {}

LateClaim(c) ==   \* mutant: the key is claimed once the money has moved
    (IF LockOf(c) # {} THEN <<"lock">> ELSE <<>>) \o Programs[c.op]
    \o (IF c.key # NoKey THEN <<"claim", "insert", "complete", "store">> ELSE <<>>)
Program(c) ==
    LET locks == IF LockOf(c) # {} THEN <<"lock">> ELSE <<>>
        claims == IF c.key # NoKey THEN <<"claim", "insert">> ELSE <<>>
        completes == IF c.key # NoKey THEN <<"complete", "store">> ELSE <<>>
    IN  locks \o claims \o Programs[c.op] \o completes

\* guess is the password a login offers; value an amount, a target, a profile, a password.
Call == [op : DOMAIN Programs, acc : Accounts, to : Accounts, goal : Goals, value : Int,
         guess : Int, key : Keys \cup {NoKey}]
ASSUME CallsAssumption ==
    \A c \in Calls :
        /\ c \in Call
        /\ c.key # NoKey => c.op \in Movements
        /\ c.op \in {"profile", "password", "register"} => c.value >= 0

\* What a service refuses before it awaits anything.
RefusedAtOnce(c) ==
    \/ c.op \in Movements \cup {"contribute", "createGoal"} /\ c.value <= 0
    \/ c.op = "transfer" /\ c.acc = c.to

Busy(t) == todo[t] # <<>>
Holds(t) == Busy(t) /\ Head(todo[t]) # "lock"
Others(t) == {u \in Tasks \ {t} : Holds(u)}

-------------------------------------------------------------------------------
(* What a call is answered; "none" is no answer yet *)

Refusals == {"not found", "frozen or closed", "insufficient", "locked", "already frozen",
             "not frozen", "closed", "no interest", "storage_error", "failed"}
Says == Refusals \cup {"none", "done", "refused", "wrong password", "pending", "incomplete",
                       "error"}

-------------------------------------------------------------------------------
(* The tables.  A failed login is counted under an account or under "admin", here 0. *)

AttemptRow == [exists : BOOLEAN, count : Nat, until : Nat]
NoAttempt == [exists |-> FALSE, count |-> 0, until |-> 0]
KeyRow == [status : {"none", "pending", "completed"}, result : Says, born : Nat]
NoRecord == [status |-> "none", result |-> "none", born |-> 0]
Logins == Accounts \cup {0}
LoginOf(c) == IF c.op = "adminLogin" THEN 0 ELSE c.acc

OpeningTables ==
    [accounts |-> OpeningAccounts, statements |-> [a \in Accounts |-> <<>>],
     goals |-> OpeningGoals, versions |-> [a \in Accounts |-> 0],
     attempts |-> [l \in Logins |-> NoAttempt], keys |-> [k \in Keys |-> NoRecord],
     admin |-> 0,          \* the administrator's password
     audit |-> {},         \* the calls with an entry in the audit log
     effects |-> {},       \* history: the calls that have written something
     doomed |-> FALSE]     \* a row whose key is taken waits for the flush

\* How a login attempt row is counted, and what an expired lock leaves of it.
Counted(row) ==
    LET over == row.until # 0 /\ clock >= row.until
        count == IF over THEN 1 ELSE row.count + 1
    IN  [exists |-> TRUE, count |-> count,
         until |-> IF count >= MaxAttempts THEN clock + Lockout
                   ELSE IF over THEN 0 ELSE row.until]
LockedOut(row) == row.count >= MaxAttempts /\ clock < row.until
LockExpired(row) == row.count >= MaxAttempts /\ ~LockedOut(row)

\* _classify_idempotency_record, and the answer that goes with each class.
Classified(row) ==
    IF row.status = "completed" THEN row.result
    ELSE IF row.status = "none" THEN "claimed"
    ELSE IF row.born < clock THEN "incomplete" ELSE "pending"

\* The decision of a service on the rows it has read.
LoginVerdict(row, guess) ==
    IF row.deleted THEN Refused("not found")
    ELSE IF ~CanTransact(row) THEN Refused("frozen or closed")
    ELSE IF guess # row.password THEN Refused("wrong password") ELSE Done(NoWrites)
Verdict(c, rows) ==
    CASE c.op = "transfer" -> TransferDecision(rows.account, rows.receiver, FALSE, c.value)
      [] c.op = "login" -> LoginVerdict(rows.account, c.guess)
      [] c.op \in {"adminLogin", "adminPassword"} ->
             IF c.guess = rows.admin THEN Done(NoWrites) ELSE Refused("wrong password")
      [] OTHER -> Decision(c, rows)
Writes(t) == Verdict(call[t], seen[t]).writes

NoRows == [account |-> OpeningAccounts[CHOOSE a \in Accounts : TRUE],
           receiver |-> OpeningAccounts[CHOOSE a \in Accounts : TRUE],
           goal |-> OpeningGoals[CHOOSE g \in Goals : TRUE], admin |-> 0, attempt |-> FALSE]

-------------------------------------------------------------------------------
(* Stages *)

Init ==
    /\ stored = OpeningTables /\ working = OpeningTables
    /\ broken = FALSE /\ clock = 0
    /\ todo = [t \in Tasks |-> <<>>]
    /\ call = [t \in Tasks |-> CHOOSE c \in Calls : TRUE]
    /\ number = [t \in Tasks |-> 0]
    /\ seen = [t \in Tasks |-> NoRows]
    /\ result = [t \in Tasks |-> "none"]
    /\ menu \in Menus
    /\ faults = 0 /\ crashes = 0
    /\ answers = <<>> /\ unsure = {} /\ tangled = {} /\ raced = {}

\* The call is answered, its locals die, its lock is released.
Finish(t, say) ==
    /\ todo' = [todo EXCEPT ![t] = <<>>]
    /\ answers' = [answers EXCEPT ![number[t]].say = say]
    /\ seen' = [seen EXCEPT ![t] = NoRows]
    /\ result' = [result EXCEPT ![t] = "none"]
    /\ UNCHANGED <<call, number>>
\* The task goes on with what the services still have to do, or answers.
Continue(t, rest, rows, say) ==
    IF rest = <<>> THEN Finish(t, say)
    ELSE /\ todo' = [todo EXCEPT ![t] = rest]
         /\ seen' = [seen EXCEPT ![t] = rows]
         /\ result' = [result EXCEPT ![t] = say]
         /\ UNCHANGED <<call, number, answers>>
Proceed(t) == Continue(t, Tail(todo[t]), seen[t], result[t])

\* Two calls the code means to serialize.
Serialized(c, d) ==
    /\ {c.op, d.op} \subseteq Movements
    /\ \/ c.op = "transfer" /\ d.op = "transfer" /\ {c.acc, c.to} = {d.acc, d.to}
       \/ c.op # "transfer" /\ d.op # "transfer" /\ c.acc = d.acc
Touched(c) == IF c.op = "transfer" THEN {c.acc, c.to} ELSE {c.acc}
Bystanders(t) == UNION {Touched(call[u]) : u \in Others(t)}   \* of a rollback
\* Calls whose rows are written by more than one statement.
Torn(c) == IF c.op \in {"transfer", "contribute", "deleteGoal"} THEN Touched(c) ELSE {}

\* The accounts a goal belongs to, or will when a pending call creates it.
Uses(t, g) == Busy(t) /\ call[t].op \in GoalCalls /\ call[t].goal = g
GoalOwners(g) == ({working.goals[g].owner} \ {0})
    \cup {call[t].acc : t \in {u \in Tasks : Uses(u, g) /\ call[u].op = "createGoal"}}
\* No service compares the owner of a goal with the account of the call.
Mixed(c) ==
    IF c.op \in GoalCalls /\ ~(GoalOwners(c.goal) \subseteq {c.acc})
    THEN GoalOwners(c.goal) \cup {c.acc} ELSE {}

\* Registered account numbers and ids of goals are new.
Fresh(c) ==
    /\ c.op = "register" => /\ working.accounts[c.acc] = OpeningAccounts[c.acc]
                            /\ OpeningAccounts[c.acc].deleted
                            /\ \A t \in Tasks : Busy(t) => call[t].op # "register"
    /\ c.op = "createGoal" => /\ working.goals[c.goal].owner = 0
                              /\ \A t \in Tasks : ~Uses(t, c.goal)

Submit(t, c) ==
    /\ ~Busy(t) /\ Len(answers) < menu.most
    /\ Cardinality({u \in Tasks : Busy(u)}) < menu.width
    /\ c \in menu.calls /\ Fresh(c)
    /\ LET met == {u \in Tasks : Busy(u) /\ ~Serialized(call[u], c)}
           n == Len(answers) + 1
       IN  /\ answers' = Append(answers, [call |-> c,
                              say |-> IF RefusedAtOnce(c) THEN "refused" ELSE "none"])
           /\ tangled' = IF met = {} THEN tangled ELSE tangled \cup {n} \cup {number[u] : u \in met}
           /\ raced' = raced \cup Mixed(c) \cup (IF met = {} THEN {} ELSE Torn(c))
                  \cup UNION {(Touched(c) \cap Touched(call[u])) \cup Torn(call[u]) : u \in met}
           /\ IF RefusedAtOnce(c) THEN UNCHANGED <<todo, locals>>
              ELSE /\ todo' = [todo EXCEPT ![t] = Program(c)]
                   /\ call' = [call EXCEPT ![t] = c]
                   /\ number' = [number EXCEPT ![t] = n]
                   /\ result' = [result EXCEPT ![t] = "done"]
                   /\ seen' = seen
    /\ UNCHANGED <<stored, working, broken, clock, menu, faults, crashes, unsure>>

Lock(t) ==
    /\ Busy(t) /\ Head(todo[t]) = "lock"
    /\ \A u \in Tasks : Holds(u) => LockOf(call[u]) # LockOf(call[t])
    /\ Proceed(t)
    /\ UNCHANGED <<stored, working, broken, clock, menu, faults, crashes, unsure, tangled, raced>>

Careless(t, statement) ==   \* mutant: nothing is flushed, a doomed row is committed
    /\ Busy(t) /\ Head(todo[t]) = statement /\ ~broken
    /\ UNCHANGED <<broken, clock, menu, faults, crashes, unsure, tangled>>
\* A statement that succeeds.  It flushes what is pending before.
Healthy(t, statement) ==
    /\ Busy(t) /\ Head(todo[t]) = statement
    /\ ~broken /\ ~working.doomed
    /\ UNCHANGED <<broken, clock, menu, faults, crashes, unsure, tangled>>
Runs(t, statement) == Healthy(t, statement) /\ UNCHANGED raced
Reads(t, statement) == Runs(t, statement) /\ UNCHANGED <<stored, working>>
Changed(t, statement) == Runs(t, statement) /\ UNCHANGED stored /\ Proceed(t)

\* A refusal of a call with a key is recorded under it.
Refuse(t, say) ==
    IF call[t].key = NoKey THEN Finish(t, say)
    ELSE Continue(t, <<"complete", "store">>, seen[t], say)
\* After its last read a service decides.
Decide(t, rows) ==
    LET verdict == Verdict(call[t], rows)
        rest == Tail(todo[t])
    IN  IF call[t].op \in {"login", "adminLogin"}
        THEN IF verdict.ok THEN Continue(t, GoodLogin, rows, "done")
             ELSE IF verdict.say = "wrong password" THEN Continue(t, FailedLogin, rows, verdict.say)
             ELSE Finish(t, verdict.say)
        ELSE IF verdict.ok THEN Continue(t, rest, rows, "done") ELSE Refuse(t, verdict.say)

-------------------------------------------------------------------------------
(* Idempotency keys *)

\* _claim_idempotency: whoever finds a record answers with it.
Answered(t, row) ==
    IF Classified(row) = "claimed" THEN Proceed(t) ELSE Finish(t, Classified(row))
GetKey(t) == Reads(t, "claim") /\ Answered(t, working.keys[call[t].key])

\* The pending record is added and flushed, unless another has come first: then all that is
\* pending in the session is rolled back, and the record is read again.
InsertKey(t) ==
    LET k == call[t].key IN
    /\ Healthy(t, "insert")
    /\ \/ /\ working.keys[k].status = "none"
          /\ raced' = raced
          /\ working' = [working EXCEPT !.keys[k] =
                 [status |-> "pending", result |-> "none", born |-> clock]]
          /\ Proceed(t)
       \/ /\ working.keys[k].status # "none"
          /\ working' = stored
          /\ raced' = raced \cup Bystanders(t)
          /\ Continue(t, <<"reclaim">>, seen[t], "none")
    /\ UNCHANGED stored
GetKeyAgain(t) ==
    LET row == working.keys[call[t].key] IN
    /\ Reads(t, "reclaim")
    /\ Finish(t, IF row.status = "none" THEN "incomplete" ELSE Classified(row))

\* _complete_idempotency: the claim, if it is still there, gets the result.
CompleteKey(t) ==
    LET k == call[t].key IN
    /\ Changed(t, "complete")
    /\ working' = IF working.keys[k].status = "none" THEN working
                  ELSE [working EXCEPT !.keys[k].status = "completed", !.keys[k].result = result[t]]

-------------------------------------------------------------------------------
(* Reads *)

GetAccount(t) ==
    LET rows == [seen[t] EXCEPT !.account = working.accounts[call[t].acc]]
        goalToCome == [rows EXCEPT !.goal.exists = TRUE]
    IN  /\ Reads(t, "account")
        /\ CASE call[t].op = "transfer" -> Continue(t, Tail(todo[t]), rows, "done")
             [] call[t].op = "contribute" ->
                    IF Verdict(call[t], goalToCome).ok THEN Continue(t, Tail(todo[t]), rows, "done")
                    ELSE Finish(t, Verdict(call[t], goalToCome).say)
             [] OTHER -> Decide(t, rows)
GetReceiver(t) ==
    /\ Reads(t, "receiver")
    /\ Decide(t, [seen[t] EXCEPT !.receiver = working.accounts[call[t].to]])
GetAdmin(t) == Reads(t, "admin") /\ Decide(t, [seen[t] EXCEPT !.admin = working.admin])

\* A goal without savings is not refunded.
GetGoal(t) ==
    LET rows == [seen[t] EXCEPT !.goal = working.goals[call[t].goal]]
    IN  /\ Reads(t, "goal")
        /\ IF call[t].op = "contribute" THEN Decide(t, rows)
           ELSE IF ~rows.goal.exists THEN Finish(t, "not found")
           ELSE Continue(t, IF rows.goal.current > 0 THEN Tail(todo[t]) ELSE <<"dropGoal", "commit">>,
                         rows, "done")
\* The account to refund may be gone.
GetRefunded(t) ==
    LET row == working.accounts[call[t].acc]
    IN  /\ Reads(t, "refund")
        /\ Continue(t, IF row.deleted THEN <<"commit">> ELSE Tail(todo[t]),
                    [seen[t] EXCEPT !.account = row], result[t])

-------------------------------------------------------------------------------
(* Writes: select the row, assign its columns *)

Marked(t, tables) == [tables EXCEPT !.effects = @ \cup {number[t]}]
Category(t) == IF call[t].op \in {"contribute", "interest"} THEN "Savings" ELSE "General"
Row(t, e) == [type |-> e.type, amount |-> e.amount, balance |-> e.balance, category |-> Category(t)]
Posted(t, tables, a, entries) ==
    [tables EXCEPT !.statements[a] = @ \o [i \in DOMAIN entries |-> Row(t, entries[i])]]

\* update() assigns every column, of what may be stale; a row that is gone is added again.
Overwritten(row, columns) == [c \in DOMAIN row |-> IF c \in DOMAIN columns THEN columns[c] ELSE row[c]]
UpdateAccountRow(t) ==
    LET a == call[t].acc
        w == Writes(t)
        written == [working EXCEPT !.accounts[a] = Overwritten(@, w.account)]
    IN  /\ Changed(t, "update")
        /\ working' =
              IF working.accounts[a].deleted THEN [working EXCEPT !.doomed = TRUE]
              ELSE IF call[t].op = "transfer" THEN Marked(t, written)
              ELSE Marked(t, Posted(t, written, a, w.entries))

\* The receiver's row; then both rows of the statements.
UpdateReceiver(t) ==
    LET b == call[t].to
        out == EntryFor(seen[t].account, "TRANSFER_OUT", call[t].value)
        in == EntryFor(seen[t].receiver, "TRANSFER_IN", call[t].value)
        columns == AccountColumns([seen[t].receiver EXCEPT !.balance = in.balance])
        written == [working EXCEPT !.accounts[b] = Overwritten(@, columns)]
    IN  /\ Changed(t, "updateReceiver")
        /\ working' = IF working.accounts[b].deleted THEN [working EXCEPT !.doomed = TRUE]
                      ELSE Posted(t, Posted(t, written, call[t].acc, <<out>>), b, <<in>>)

\* set_frozen, set_active and delete: nothing when the row is gone.
SetColumn(t, statement, columns) ==
    LET a == call[t].acc IN
    /\ Changed(t, statement)
    /\ working' = IF working.accounts[a].deleted THEN working
                  ELSE Marked(t, [working EXCEPT !.accounts[a] = Overwritten(@, columns)])
SetFrozen(t) == SetColumn(t, "setFrozen", [frozen |-> call[t].op = "freeze"])
SetActive(t) == SetColumn(t, "setActive", [active |-> FALSE])
Deleted(t) == SetColumn(t, "remove", [deleted |-> TRUE, active |-> FALSE])

\* The token version, read and raised.
Increment(t) ==
    /\ Changed(t, "increment")
    /\ working' = [working EXCEPT !.versions[call[t].acc] = @ + 1]

SetPassword(t) ==
    /\ Changed(t, "setPassword")
    /\ working' = Marked(t, [working EXCEPT !.admin = call[t].value])

\* The new row of a registration or of a goal is added before anything is awaited.
NewAccount(password) == [balance |-> 0, active |-> TRUE, frozen |-> FALSE, deleted |-> FALSE,
                         profile |-> 0, password |-> password]
Add(t) ==
    LET c == call[t] IN
    /\ Runs(t, "add") /\ UNCHANGED stored /\ Proceed(t)
    /\ working' = Marked(t,
           IF c.op = "register" THEN [working EXCEPT !.accounts[c.acc] = NewAccount(c.value)]
           ELSE [working EXCEPT !.goals[c.goal] = CreateGoal(c.acc, c.value).writes.goal])

AddToGoal(t) ==
    LET g == call[t].goal
        grown == Contribution(working.goals[g], call[t].value)
    IN  /\ Changed(t, "addToGoal")
        /\ working' = IF ~working.goals[g].exists THEN working
                      ELSE [working EXCEPT !.goals[g].current = grown.current,
                                           !.goals[g].completed = grown.completed]
DropGoal(t) ==
    /\ Changed(t, "dropGoal")
    /\ working' = Marked(t, [working EXCEPT !.goals[call[t].goal].exists = FALSE])

-------------------------------------------------------------------------------
(* Login attempts *)

\* An expired row is deleted in the session: whoever commits next deletes it.
IsLocked(t) ==
    LET l == LoginOf(call[t])
        row == working.attempts[l]
    IN  /\ Runs(t, "isLocked") /\ UNCHANGED stored
        /\ working' = IF LockExpired(row) THEN [working EXCEPT !.attempts[l] = NoAttempt] ELSE working
        /\ IF LockedOut(row) THEN Finish(t, "locked") ELSE Proceed(t)

\* record_failure reads twice: whether there is a row, and the row.
GetAttempt(t) ==
    /\ Reads(t, "attempt")
    /\ Continue(t, Tail(todo[t]),
                [seen[t] EXCEPT !.attempt = working.attempts[LoginOf(call[t])].exists], result[t])
RecordFailure(t) ==
    LET l == LoginOf(call[t])
        row == working.attempts[l]
    IN  /\ Changed(t, "failure")
        /\ working' =
              IF seen[t].attempt
              THEN Marked(t, IF row.exists THEN [working EXCEPT !.attempts[l] = Counted(@)] ELSE working)
              ELSE IF row.exists THEN [working EXCEPT !.doomed = TRUE]
              ELSE Marked(t, [working EXCEPT !.attempts[l] =
                                 [exists |-> TRUE, count |-> 1, until |-> 0]])
ResetAttempts(t) ==
    /\ Changed(t, "reset")
    /\ working' = Marked(t, [working EXCEPT !.attempts[LoginOf(call[t])] = NoAttempt])

-------------------------------------------------------------------------------
(* Commits, failures, crashes *)

CommitsIn == {"commit", "store"}
Commit(t) ==
    /\ \E statement \in CommitsIn : Runs(t, statement)
    /\ stored' = working /\ UNCHANGED working
    /\ Proceed(t)
\* _audit_log: a second commit.
Logged(t) == [working EXCEPT !.audit = @ \cup {number[t]}]
Log(t) ==
    /\ Runs(t, "log")
    /\ working' = Logged(t) /\ stored' = working'
    /\ Proceed(t)

\* What makes a statement fail: the session is broken, a pending row cannot be flushed,
\* the storage fails, or SQLAlchemy refuses it because another task's is in flight.
Causes(t) ==
    {cause \in {"broken", "doomed", "fault", "refused"} :
        CASE cause = "broken"  -> broken
          [] cause = "doomed"  -> ~broken /\ working.doomed
          [] cause = "fault"   -> ~broken /\ ~working.doomed /\ faults < menu.faults
          [] cause = "refused" -> ~broken /\ ~working.doomed /\ Others(t) # {}}

SaysDone(t) ==   \* mutant: the answer is prepared before the commit and survives its failure
    IF Head(todo[t]) = "insert" THEN "storage_error"
    ELSE IF call[t].op = "transfer" \/ Head(todo[t]) \in {"complete", "store"} THEN result[t]
    ELSE "unhandled"
\* The except clauses that roll back: of the claim, the transfer and the completion.
Handled(t) ==
    LET statement == Head(todo[t]) IN
    CASE statement = "insert" -> "storage_error"
      [] statement \in {"complete", "store"} -> result[t]
      [] call[t].op = "transfer" /\ statement \in {"update", "updateReceiver", "commit"} -> "failed"
      [] OTHER -> "unhandled"

KeepsPending(t, cause) ==   \* mutant: the handler forgets to roll back
    UNCHANGED <<stored, working, unsure, raced>>
\* The session loses what is pending in it, for all.  A commit that fails may have taken
\* effect, and the caller cannot tell.
Discard(t, cause) ==
    /\ \/ stored' = stored /\ UNCHANGED unsure
       \/ /\ cause = "fault" /\ Head(todo[t]) \in CommitsIn \cup {"log"}
          /\ stored' = IF Head(todo[t]) = "log" THEN Logged(t) ELSE working
          /\ unsure' = unsure \cup {number[t]}
    /\ working' = stored'
    /\ raced' = raced \cup Bystanders(t)
Fail(t, cause) ==
    /\ Holds(t) /\ cause \in Causes(t)
    /\ faults' = faults + IF cause = "fault" THEN 1 ELSE 0
    /\ IF Handled(t) # "unhandled"
       THEN Discard(t, cause) /\ broken' = FALSE /\ Finish(t, Handled(t))
       ELSE /\ Finish(t, "error")
            /\ IF cause = "refused" THEN UNCHANGED <<stored, working, broken, unsure, raced>>
               ELSE Discard(t, cause) /\ broken' = TRUE
    /\ UNCHANGED <<clock, menu, crashes, tangled>>

\* The process dies with its tasks, its locks and its session.
Crash ==
    /\ crashes < menu.crashes /\ \E t \in Tasks : Busy(t)
    /\ crashes' = crashes + 1
    /\ working' = stored /\ broken' = FALSE
    /\ todo' = [t \in Tasks |-> <<>>]
    /\ seen' = [t \in Tasks |-> NoRows]
    /\ result' = [t \in Tasks |-> "none"]
    /\ UNCHANGED <<stored, clock, call, number, menu, faults, history>>

Tick == /\ clock < menu.ticks /\ clock' = clock + 1
        /\ UNCHANGED <<stored, working, broken, todo, locals, menu, faults, crashes, history>>

Closing == Len(answers) = menu.most /\ (\A t \in Tasks : ~Busy(t)) /\ UNCHANGED vars

Statement(t) ==
    \/ GetKey(t) \/ InsertKey(t) \/ GetKeyAgain(t) \/ CompleteKey(t)
    \/ GetAccount(t) \/ GetReceiver(t) \/ GetAdmin(t) \/ GetGoal(t) \/ GetRefunded(t)
    \/ UpdateAccountRow(t) \/ UpdateReceiver(t) \/ SetFrozen(t) \/ SetActive(t) \/ Deleted(t)
    \/ Increment(t) \/ SetPassword(t) \/ Add(t) \/ AddToGoal(t) \/ DropGoal(t)
    \/ IsLocked(t) \/ GetAttempt(t) \/ RecordFailure(t) \/ ResetAttempts(t)
    \/ Commit(t) \/ Log(t)

Next ==
    \/ \E t \in Tasks, c \in Calls : Submit(t, c)
    \/ \E t \in Tasks : Lock(t) \/ Statement(t) \/ \E cause \in Causes(t) : Fail(t, cause)
    \/ Crash
    \/ Tick
    \/ Closing

Spec == Init /\ [][Next]_vars

-------------------------------------------------------------------------------
(* Properties *)

EntryRow == [type : TransactionType, amount : Int, balance : Int, category : {"General", "Savings"}]
TablesOK(tables) ==
    /\ tables.accounts \in [Accounts -> AccountRow]
    /\ \A a \in Accounts : Range(tables.statements[a]) \subseteq EntryRow
    /\ tables.goals \in [Goals -> GoalRow]
    /\ tables.versions \in [Accounts -> Nat]
    /\ tables.attempts \in [Logins -> AttemptRow]
    /\ \A k \in Keys : tables.keys[k] \in KeyRow
    /\ tables.effects \cup tables.audit \subseteq DOMAIN answers

\* The tables keep their types, and what is committed was never doomed.
TypeOK ==
    /\ TablesOK(stored) /\ TablesOK(working) /\ ~stored.doomed
    /\ \A t \in Tasks : Busy(t) => number[t] \in DOMAIN answers /\ call[t] = answers[number[t]].call
    /\ broken \in BOOLEAN
    /\ unsure \cup tangled \subseteq DOMAIN answers /\ raced \subseteq Accounts

Signed(e) ==
    CASE e.type = "TRANSFER_OUT" -> IF e.category = "Savings" THEN 0 ELSE -e.amount
      [] e.type = "WITHDRAW" -> -e.amount
      [] OTHER -> e.amount
MoneyIn(s) == SumOver([i \in DOMAIN s |-> Signed(s[i])], DOMAIN s)
Held(r, a) == IF r.exists /\ r.owner = a THEN r.current ELSE 0
Saved(goals, a) == SumOver([g \in Goals |-> Held(goals[g], a)], Goals)

\* Balance and savings of an account are what it had and what its statement brought in,
\* through storage failures and crashes, whichever calls that take the same lock run at
\* once; as long as no call of another lock, or of none, met them on its rows, and no
\* other account used its goals.
MoneyIsKept ==
    \A a \in Accounts \ raced : ~stored.accounts[a].deleted /\ ~OpeningAccounts[a].deleted =>
        stored.accounts[a].balance + Saved(stored.goals, a)
            = OpeningAccounts[a].balance + Saved(OpeningGoals, a) + MoneyIn(stored.statements[a])

KeyOf(n) == answers[n].call.key
Took(n) ==
    \E m \in stored.effects : m = n \/ (KeyOf(n) # NoKey /\ KeyOf(m) = KeyOf(n))
\* An answer tells what has become of the call, unless it overlapped one that it shares no
\* lock with: after "done" it has been committed, by this call or by the one with its
\* key; after a refusal it has not; after a wrong password the failure is counted.  "failed"
\* means nothing moved, unless the commit itself reported a failure.
AnswersTellOutcome ==
    \A n \in DOMAIN answers \ tangled : LET say == answers[n].say
                                              key == KeyOf(n) IN
        (key # NoKey => \A m \in DOMAIN answers : KeyOf(m) = key => m \notin tangled) =>
            /\ say = "done" => Took(n)
            /\ say = "wrong password" /\ answers[n].call.op \in {"login", "adminLogin"} => Took(n)
            /\ say \in Refusals => n \notin stored.effects \/ n \in unsure

\* A key moves money at most once, and its record tells whether it did: however often its
\* call is repeated, after failures, crashes and ten minutes, unless a call of another
\* lock rolled the claim back or committed it early.
KeysMoveOnce ==
    \A k \in Keys : (\A n \in tangled : KeyOf(n) # k) =>
        LET moved == {n \in stored.effects : KeyOf(n) = k}
        IN  /\ Cardinality(moved) <= 1
            /\ stored.keys[k].status = "completed" => (stored.keys[k].result = "done" <=> moved # {})
            /\ moved # {} => stored.keys[k].status # "none"
===============================================================================
