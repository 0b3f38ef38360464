-------------------------------- MODULE Tables --------------------------------
(***************************************************************************)
(* The tables the bank's services share, as the repositories read and      *)
(* write them.  A row is a record; columns no property tells apart are one *)
(* column (profile stands for name, age, gender, mobile and email) or left *)
(* out.  Amounts are whole paise.                                          *)
(***************************************************************************)
EXTENDS Integers, Sequences, FiniteSets, FiniteSetsExt, Functions

\* The sum of f[x] over the x of a finite set, and over all x.
SumOver(f, S) == MapThenSumSet(LAMBDA x : f[x], S)
SumOf(f) == SumOver(f, DOMAIN f)

\* AccountModel and the Account entity; a CHECK of the table forbids balances below zero.
AccountRow == [balance : Int, active : BOOLEAN, frozen : BOOLEAN, deleted : BOOLEAN,
               profile : Nat, password : Nat]

\* LoanModel and the Loan entity; NONE is a loan nobody has applied for, due the number
\* of months after its approval that next_emi_date names, 0 for none.
LoanStatus == {"NONE", "PENDING", "APPROVED", "ACTIVE", "CLOSED", "REJECTED"}
LoanRow == [owner : Nat, status : LoanStatus, principal : Nat, emi : Nat,
            paid : Int, remaining : Int, due : Nat]

\* SavingsGoalModel and the SavingsGoal entity; nothing keeps a target above zero but the
\* routes and the service, and the terminals write it without them.
GoalRow == [exists : BOOLEAN, owner : Nat, target : Int, current : Int,
            completed : BOOLEAN]

\* A loan or a goal that does not exist yet: its id is free.
NoLoan == [owner |-> 0, status |-> "NONE", principal |-> 0, emi |-> 0, paid |-> 0,
           remaining |-> 0, due |-> 0]
NoGoal == [exists |-> FALSE, owner |-> 0, target |-> 0, current |-> 0, completed |-> FALSE]

\* A loan as the service leaves it, and a goal that is marked as the service marks it.
RunningStatus == {"APPROVED", "ACTIVE", "CLOSED"}
SoundLoan(r) ==
    /\ r.paid + r.remaining = r.principal
    /\ r.owner = 0 => r = NoLoan
    /\ r.owner # 0 => r.status # "NONE" /\ r.principal > 0
SettledLoan(r) ==
    /\ r.status = "PENDING" => r.paid = 0
    /\ r.status \in RunningStatus => (r.status = "CLOSED" <=> r.remaining = 0)
SoundGoal(r) == r.current >= 0 /\ (r.owner = 0 => r = NoGoal)
MarkedGoal(r) == r.exists => (r.completed <=> r.current >= r.target)

\* TransactionType, and a row of the transactions table.
TransactionType == {"DEPOSIT", "WITHDRAW", "TRANSFER_OUT", "TRANSFER_IN", "INTEREST",
                    "LOAN_DISBURSEMENT", "LOAN_REPAYMENT"}
Transaction == [type : TransactionType, amount : Int, balance : Int]

\* Account.status and Account.can_transact
Status(row) == IF row.frozen THEN "frozen" ELSE IF ~row.active THEN "closed" ELSE "active"
CanTransact(row) == row.active /\ ~row.frozen

\* Loan.is_active
Repayable(loan) == loan.status \in {"APPROVED", "ACTIVE"}

-------------------------------------------------------------------------------
(* What a call asks of its session.  <<>> assigns no column.               *)

NoWrites == [account |-> <<>>,   \* columns of the account row
             whole |-> FALSE,    \* by AccountRepository.update, not by a set_* method
             loan |-> <<>>,      \* columns of the loan row
             goal |-> <<>>,      \* columns of the goal row
             adds |-> 0,         \* SavingsGoalRepository.contribute
             drops |-> FALSE,    \* SavingsGoalRepository.delete
             entries |-> <<>>,   \* new rows of the transactions table
             bumps |-> FALSE,    \* TokenVersionRepository.increment
             audit |-> "none"]   \* the audit entry of the second commit

Refused(why) == [ok |-> FALSE, say |-> why, writes |-> NoWrites]
Done(writes) == [ok |-> TRUE, say |-> "done", writes |-> writes]

\* map_account_to_model: every column that AccountRepository.update assigns.
AccountColumns(row) == Restrict(row, DOMAIN row \ {"deleted"})

\* AccountRepository.update(row) with the transaction row that goes with it.
EntryFor(row, type, amount) ==
    [type |-> type, amount |-> amount,
     balance |-> row.balance + IF type \in {"DEPOSIT", "TRANSFER_IN", "INTEREST",
                                            "LOAN_DISBURSEMENT"}
                               THEN amount ELSE -amount]
MoveMoney(row, type, amount) ==
    LET entry == EntryFor(row, type, amount) IN
    [NoWrites EXCEPT !.account = AccountColumns([row EXCEPT !.balance = entry.balance]),
                     !.whole = TRUE,
                     !.entries = <<entry>>]
UpdateAccount(row) ==
    [NoWrites EXCEPT !.account = AccountColumns(row), !.whole = TRUE]

\* The row an UPDATE leaves: of the columns assigned it sets those that differ from the
\* row the repository re-queried, seen; the others keep what is stored.
UpdateRow(cols, seen, stored) ==
    [c \in DOMAIN stored |->
        IF c \in DOMAIN cols /\ cols[c] # seen[c] THEN cols[c] ELSE stored[c]]
Changes(cols, seen) == \E c \in DOMAIN cols : cols[c] # seen[c]

\* SavingsGoalRepository.contribute, on the row it re-queried.
Contribution(seen, amount) ==
    LET current == seen.current + amount IN
    [current |-> current, completed |-> seen.completed \/ current >= seen.target]

-------------------------------------------------------------------------------
(* Aggregates over the accounts table *)

Listed(accounts) == {a \in DOMAIN accounts : ~accounts[a].deleted}
WithStatus(accounts, s) == {a \in Listed(accounts) : Status(accounts[a]) = s}
ActiveCount(accounts) == Cardinality(WithStatus(accounts, "active"))
FrozenCount(accounts) == Cardinality({a \in Listed(accounts) : accounts[a].frozen})
ClosedCount(accounts) == Cardinality(WithStatus(accounts, "closed"))
===============================================================================
