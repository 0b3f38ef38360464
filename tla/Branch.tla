-------------------------------- MODULE Branch --------------------------------
(***************************************************************************)
(* The services that write accounts, loans and savings goals, run by the   *)
(* threads of one API process.  A call reads its rows, decides, lets the   *)
(* repository re-query the rows it writes, commits, and may write an audit *)
(* entry in a second commit; threads interleave between any two of these.  *)
(* Deposits and withdrawals hold the account's lock, no other call does.   *)
(***************************************************************************)
EXTENDS Services, SequencesExt

CONSTANTS
    Threads,
    Accounts, Loans, Goals,   \* positive account numbers; loan and goal ids
    OpeningAccounts, OpeningLoans, OpeningGoals,   \* the tables at the start
    Calls,       \* the calls clients make
    Menus,       \* bound: the operations of a behaviour, how many calls, how many at once
    MaxCrashes   \* bound: crashes of the process

\* value is the amount, the profile, the password or the goal's target.
Call == [op : Ops, acc : Accounts, loan : Loans, goal : Goals, value : Int, terms : Terms]

ASSUME BranchAssumption ==
    /\ IsFiniteSet(Threads) /\ IsFiniteSet(Loans) /\ IsFiniteSet(Goals)
    /\ Accounts \subseteq Nat \ {0}
    /\ OpeningAccounts \in [Accounts -> AccountRow]
    /\ \A a \in Accounts : OpeningAccounts[a].balance >= 0
    /\ OpeningLoans \in [Loans -> LoanRow]
    /\ \A l \in Loans : /\ OpeningLoans[l].owner \in Accounts \cup {0}
                        /\ SoundLoan(OpeningLoans[l]) /\ SettledLoan(OpeningLoans[l])
    /\ OpeningGoals \in [Goals -> GoalRow]
    /\ \A g \in Goals : /\ OpeningGoals[g].owner \in Accounts \cup {0}
                        /\ SoundGoal(OpeningGoals[g]) /\ MarkedGoal(OpeningGoals[g])
    /\ Calls # {} /\ \A c \in Calls : c \in Call
    /\ \A c \in Calls : c.op \in {"profile", "password", "updateGoal"} => c.value >= 0
    /\ \A m \in Menus : m.ops \subseteq Ops /\ {m.most, m.width} \subseteq Nat
    /\ MaxCrashes \in Nat

VARIABLES
    accounts, statements, loans, goals,   \* the tables
    versions,   \* token versions
    audit,      \* audit log: the bag of its entries, named by the call audited
    pc, call,   \* a thread's stage and the call it serves
    seen,       \* the rows the service has read
    base,       \* the rows the repositories re-queried
    locked,     \* accounts whose lock a thread holds
    poisoned,   \* the thread's session awaits a rollback nobody issues
    reply,      \* the last answer of a thread
    menu, issued, crashes,   \* bounds
    done,       \* history: the bag of committed calls, as audit's
    raced       \* history: accounts on which unlocked calls have overlapped others, or
                \* whose goals were used from another account

tables == <<accounts, statements, loans, goals, versions>>
threadVars == <<pc, call, seen, base, locked, poisoned, reply>>
boundVars == <<menu, issued, crashes>>
history == <<done, raced>>
vars == <<tables, audit, threadVars, boundVars, history>>

-------------------------------------------------------------------------------
(* A call's rows and its decision *)

Rows == [account : AccountRow, loan : LoanRow, goal : GoalRow]
NoCall == CHOOSE c \in Calls : TRUE
NoRows == [account |-> OpeningAccounts[NoCall.acc], loan |-> OpeningLoans[NoCall.loan],
           goal |-> OpeningGoals[NoCall.goal]]
RowsOf(c) == [account |-> accounts[c.acc], loan |-> loans[c.loan], goal |-> goals[c.goal]]

Locking == {"deposit", "withdraw"}
UnlockedDeposit(c) == FALSE \* mutant: deposits do not take the lock either
TakesLock(c) == c.op \in Locking

Plan(t) == Decision(call[t], seen[t])
Writes(t) == Plan(t).writes

\* Calls that read a second row after the first: the loan or goal, then the account.
ReadsTwice(c) == c.op \in {"approve", "payEmi", "contribute", "deleteGoal"}

\* The accounts a loan or goal belongs to, or will when a pending call creates it.
Busy(t) == pc[t] # "idle"
OnLoan(t, l) == Busy(t) /\ call[t].op \in LoanCalls /\ call[t].loan = l
OnGoal(t, g) == Busy(t) /\ call[t].op \in GoalCalls /\ call[t].goal = g
LoanOwners(l) == ({loans[l].owner} \ {0})
    \cup {call[t].acc : t \in {u \in Threads : OnLoan(u, l) /\ call[u].op = "apply"}}
GoalOwners(g) == ({goals[g].owner} \ {0})
    \cup {call[t].acc : t \in {u \in Threads : OnGoal(u, g) /\ call[u].op = "createGoal"}}

\* Ids of loans and goals are generated: no two calls create the same one.
FreshId(c) ==
    /\ c.op = "apply" => loans[c.loan].owner = 0 /\ \A t \in Threads : ~OnLoan(t, c.loan)
    /\ c.op = "createGoal" => goals[c.goal].owner = 0 /\ \A t \in Threads : ~OnGoal(t, c.goal)

\* An approval or a rejection is about the account of the loan.
Consistent(c) == c.op \in {"approve", "reject"} => LoanOwners(c.loan) \subseteq {c.acc}

\* No service compares the owner of a goal with the account of the call.
Mixed(c) ==
    IF c.op \in GoalCalls /\ ~(GoalOwners(c.goal) \subseteq {c.acc})
    THEN GoalOwners(c.goal) \cup {c.acc} ELSE {}

\* Two calls on one account of which at least one takes no lock.
Overlap(c, d) == c.acc = d.acc /\ ~(c.op \in Locking /\ d.op \in Locking)

Goto(t, stage) == pc' = [pc EXCEPT ![t] = stage]
Finish(t, say) ==   \* the answer; the call's locals die and its lock is released
    /\ Goto(t, "idle")
    /\ reply' = [reply EXCEPT ![t] = say]
    /\ locked' = [locked EXCEPT ![t] = {}]
    /\ seen' = [seen EXCEPT ![t] = NoRows]
    /\ base' = [base EXCEPT ![t] = NoRows]
Proceed(t, stage) == Goto(t, stage) /\ UNCHANGED <<reply, locked>>
Tally(bag, e) == IF e \in DOMAIN bag THEN [bag EXCEPT ![e] = @ + 1]
                 ELSE [x \in DOMAIN bag \cup {e} |-> IF x = e THEN 1 ELSE bag[x]]
Count(bag, e) == IF e \in DOMAIN bag THEN bag[e] ELSE 0
EventOf(t) == <<call[t].op, call[t].acc, call[t].loan, call[t].goal>>

-------------------------------------------------------------------------------

Init ==
    /\ accounts = OpeningAccounts
    /\ statements = [a \in Accounts |-> <<>>]
    /\ loans = OpeningLoans
    /\ goals = OpeningGoals
    /\ versions = [a \in Accounts |-> 0]
    /\ audit = <<>> /\ done = <<>> /\ raced = {}
    /\ pc = [t \in Threads |-> "idle"]
    /\ call = [t \in Threads |-> NoCall]
    /\ seen = [t \in Threads |-> NoRows]
    /\ base = seen
    /\ locked = [t \in Threads |-> {}]
    /\ poisoned = [t \in Threads |-> FALSE]
    /\ reply = [t \in Threads |-> "none"]
    /\ menu \in Menus
    /\ issued = 0 /\ crashes = 0

Submit(t, c) ==
    /\ pc[t] = "idle"
    /\ issued < menu.most /\ Cardinality({u \in Threads : Busy(u)}) < menu.width
    /\ c.op \in menu.ops /\ FreshId(c) /\ Consistent(c)
    /\ issued' = issued + 1
    /\ call' = [call EXCEPT ![t] = c]
    /\ Goto(t, IF TakesLock(c) THEN "lock" ELSE "read")
    /\ reply' = [reply EXCEPT ![t] = "none"]
    /\ done' = done
    /\ raced' = raced \cup Mixed(c)
          \cup IF \E u \in Threads : Busy(u) /\ Overlap(call[u], c) THEN {c.acc} ELSE {}
    /\ UNCHANGED <<tables, audit, seen, base, locked, poisoned, menu, crashes>>

Lock(t) ==
    /\ pc[t] = "lock"
    /\ \A u \in Threads : call[t].acc \notin locked[u]
    /\ locked' = [locked EXCEPT ![t] = {call[t].acc}]
    /\ Goto(t, "read")
    /\ UNCHANGED <<tables, audit, call, seen, base, poisoned, reply, boundVars, history>>

Learn(t, rows) == seen' = [seen EXCEPT ![t] = rows] /\ UNCHANGED base
Decide(t, rows) ==
    \/ Decision(call[t], rows).ok /\ Learn(t, rows) /\ Proceed(t, "flush")
    \/ /\ ~Decision(call[t], rows).ok
       /\ Finish(t, Decision(call[t], rows).say)

\* The first read of the service.  A session whose transaction failed refuses it.
Read(t) ==
    /\ pc[t] = "read"
    /\ LET rows == RowsOf(call[t]) IN
       \/ /\ poisoned[t]
          /\ Finish(t, "error")
       \/ /\ ~poisoned[t] /\ ReadsTwice(call[t])
          /\ Learn(t, rows) /\ Proceed(t, "readAgain")
       \/ /\ ~poisoned[t] /\ ~ReadsTwice(call[t])
          /\ Decide(t, rows)
    /\ UNCHANGED <<tables, audit, call, poisoned, boundVars, history>>

\* The second read: the goal of a contribution, the account of the other calls.
ReadAgain(t) ==
    /\ pc[t] = "readAgain"
    /\ LET now == RowsOf(call[t])
           rows == IF call[t].op = "contribute" THEN [seen[t] EXCEPT !.goal = now.goal]
                   ELSE [seen[t] EXCEPT !.account = now.account]
       IN  Decide(t, rows)
    /\ UNCHANGED <<tables, audit, call, poisoned, boundVars, history>>

\* The repositories re-query the rows they are about to write.
Flush(t) ==
    /\ pc[t] = "flush"
    /\ base' = [base EXCEPT ![t] = RowsOf(call[t])]
    /\ Goto(t, "commit")
    /\ UNCHANGED <<tables, audit, call, seen, locked, poisoned, reply, boundVars, history>>

\* update() of a row that is gone inserts it again under the same key; an UPDATE that
\* finds no row is an error of the session.
Fails(t) ==
    \/ Writes(t).whole /\ base[t].account.deleted
    \/ /\ base[t].goal.exists /\ ~goals[call[t].goal].exists
       /\ Writes(t).adds # 0 \/ Changes(Writes(t).goal, base[t].goal)

CommitAccount(t) ==
    accounts' = [accounts EXCEPT ![call[t].acc] =
        IF base[t].account.deleted THEN @
        ELSE UpdateRow(Writes(t).account, base[t].account, @)]
CommitLoan(t) ==
    loans' = [loans EXCEPT ![call[t].loan] =
        UpdateRow(Writes(t).loan, base[t].loan, @)]
CommitGoal(t) ==
    LET w == Writes(t)
        seenGoal == base[t].goal
        creates == call[t].op = "createGoal"
    IN  goals' = [goals EXCEPT ![call[t].goal] =
            IF ~seenGoal.exists /\ ~creates THEN @
            ELSE IF w.drops THEN [@ EXCEPT !.exists = FALSE]
            ELSE IF w.adds # 0
            THEN UpdateRow(Contribution(seenGoal, w.adds), seenGoal, @)
            ELSE UpdateRow(w.goal, seenGoal, @)]

\* One transaction: the rows, the statement entry, the token version.
Commit(t) ==
    /\ pc[t] = "commit" /\ ~Fails(t)
    /\ CommitAccount(t) /\ CommitLoan(t) /\ CommitGoal(t)
    /\ statements' = [statements EXCEPT ![call[t].acc] = @ \o Writes(t).entries]
    /\ versions' = IF Writes(t).bumps THEN [versions EXCEPT ![call[t].acc] = @ + 1]
                   ELSE versions
    /\ done' = Tally(done, EventOf(t))
    /\ \/ Writes(t).audit # "none" /\ Proceed(t, "audit") /\ UNCHANGED <<seen, base>>
       \/ Writes(t).audit = "none" /\ Finish(t, "done")
    /\ UNCHANGED <<audit, call, poisoned, boundVars, raced>>

\* The database refuses the flush; nobody rolls the session back.
CommitFails(t) ==
    /\ pc[t] = "commit" /\ Fails(t)
    /\ poisoned' = [poisoned EXCEPT ![t] = TRUE]
    /\ Finish(t, "error")
    /\ UNCHANGED <<tables, audit, call, boundVars, history>>

\* _audit_log: a second commit.
Audit(t) ==
    /\ pc[t] = "audit"
    /\ audit' = Tally(audit, EventOf(t))
    /\ Finish(t, "done")
    /\ UNCHANGED <<tables, call, poisoned, boundVars, history>>

\* The process dies with its threads, locks and open transactions.
Crash ==
    /\ crashes < MaxCrashes
    /\ \E t \in Threads : pc[t] # "idle"
    /\ crashes' = crashes + 1
    /\ reply' = [t \in Threads |-> IF pc[t] = "idle" THEN reply[t] ELSE "lost"]
    /\ pc' = [t \in Threads |-> "idle"]
    /\ locked' = [t \in Threads |-> {}]
    /\ poisoned' = [t \in Threads |-> FALSE]
    /\ seen' = [t \in Threads |-> NoRows]
    /\ base' = [t \in Threads |-> NoRows]
    /\ UNCHANGED <<tables, audit, call, menu, issued, history>>

Closing == issued = menu.most /\ (\A t \in Threads : pc[t] = "idle") /\ UNCHANGED vars

Advance(t) ==
    Lock(t) \/ Read(t) \/ ReadAgain(t) \/ Flush(t) \/ Commit(t) \/ CommitFails(t) \/ Audit(t)

Next ==
    \/ \E t \in Threads, c \in Calls : Submit(t, c)
    \/ \E t \in Threads : Advance(t)
    \/ Crash
    \/ Closing

Spec == Init /\ [][Next]_vars

-------------------------------------------------------------------------------
(* Properties *)

Stages == {"idle", "lock", "read", "readAgain", "flush", "commit", "audit"}

\* The tables keep their types whichever services overlap, fail or crash.
TypeOK ==
    /\ accounts \in [Accounts -> AccountRow]
    /\ statements \in [Accounts -> Seq(Transaction)]
    /\ loans \in [Loans -> LoanRow]
    /\ goals \in [Goals -> GoalRow]
    /\ versions \in [Accounts -> Nat]
    /\ pc \in [Threads -> Stages]
    /\ call \in [Threads -> Call] /\ seen \in [Threads -> Rows] /\ base \in [Threads -> Rows]
    /\ locked \in [Threads -> SUBSET Accounts]
    /\ poisoned \in [Threads -> BOOLEAN]
    /\ raced \subseteq Accounts
    /\ audit \in [DOMAIN audit -> Nat] /\ done \in [DOMAIN done -> Nat]

\* What the entries of a statement brought in; what a goal holds of an account's money.
Credits(s) == SumOver([i \in DOMAIN s |-> Credit(s[i])], DOMAIN s)
Held(r, a) == IF r.exists /\ r.owner = a THEN r.current ELSE 0
Saved(tbl, a) == SumOver([g \in Goals |-> Held(tbl[g], a)], Goals)

\* Unless an unlocked call overlapped another on an account, or another account used its
\* goals, its money is all there: balance and savings goals together are what the account
\* had and what its statement brought in.  Contributions, refunds and loan payments one after another lose none,
\* nor do the deposits and withdrawals of different threads, which hold the lock.
MoneyIsKept ==
    \A a \in Accounts \ raced : ~accounts[a].deleted =>
        accounts[a].balance + Saved(goals, a)
            = OpeningAccounts[a].balance + Saved(OpeningGoals, a) + Credits(statements[a])

\* A loan's books add up whatever payments, approvals and rejections overlap: the two
\* columns a payment writes are never torn apart.
LoanBooksAddUp == \A l \in Loans : loans[l].paid + loans[l].remaining = loans[l].principal

Total(s, type) == SumOver([i \in DOMAIN s |-> Part(s[i], type)], DOMAIN s)
Runs(r, a) == r.owner = a /\ r.status \in RunningStatus
Lent(r, a) == IF Runs(r, a) THEN r.principal ELSE 0
PaidOff(r, a) == IF Runs(r, a) THEN r.paid ELSE 0
Disbursed(tbl, a) == SumOver([l \in Loans |-> Lent(tbl[l], a)], Loans)
Repaid(tbl, a) == SumOver([l \in Loans |-> PaidOff(tbl[l], a)], Loans)

\* The statements agree with the loans unless calls overlapped: what was disbursed is
\* the principal of the loans that are running or closed, what was repaid is what they
\* count as paid, and a loan is closed exactly when nothing is left to pay.
LoansMatchStatements ==
    \A a \in Accounts \ raced :
        /\ Total(statements[a], "LOAN_DISBURSEMENT") = Disbursed(loans, a) - Disbursed(OpeningLoans, a)
        /\ Total(statements[a], "LOAN_REPAYMENT") = Repaid(loans, a) - Repaid(OpeningLoans, a)
        /\ \A l \in Loans : Runs(loans[l], a) =>
              (loans[l].status = "CLOSED" <=> loans[l].remaining = 0)

\* A goal is marked completed exactly when it has reached its target, through
\* contributions and new targets, unless calls overlapped.
GoalsAreMarked ==
    \A g \in Goals : goals[g].owner \notin raced => MarkedGoal(goals[g])

Idle(a) == ~CanTransact(accounts[a]) \/ accounts[a].deleted
\* The money of a frozen, closed or deleted account does not move, except into and out
\* of its savings goals, unless calls overlapped.
IdleMoneyStays ==
    [][\A a \in Accounts \ raced' : Idle(a) => Len(statements'[a]) = Len(statements[a])
          \/ Last(statements'[a]).type = "TRANSFER_OUT"]_vars

\* No balance is negative, whatever overlaps: each write is a balance some call checked.
BalancesStayPositive == \A a \in Accounts : accounts[a].balance >= 0

Auditing(e) == Cardinality({t \in Threads : pc[t] = "audit" /\ EventOf(t) = e})
\* The audit log never tells of a call that did not commit, and it misses a committed
\* one only while the call is between its commits, or after a crash.
AuditTellsTheTruth ==
    \A e \in DOMAIN done \cup DOMAIN audit : e[1] \in Audited =>
        /\ Count(audit, e) + Auditing(e) <= Count(done, e)
        /\ crashes = 0 => Count(audit, e) + Auditing(e) = Count(done, e)

\* loan_service.py: "Only pending loans can be approved", so a loan is disbursed once.
DisbursedOnce ==
    \A l \in Loans : Cardinality({e \in DOMAIN done : e[1] = "approve" /\ e[3] = l}) <= 1
        /\ \A e \in DOMAIN done : e[1] = "approve" => done[e] <= 1

===============================================================================
