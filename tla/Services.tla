------------------------------- MODULE Services -------------------------------
(***************************************************************************)
(* The calls of the bank's services as one family: what a call decides on  *)
(* the rows it has read, and the rows it leaves when nothing interferes.   *)
(***************************************************************************)
EXTENDS AccountService, LoanService

Ops == {"deposit", "withdraw", "interest", "profile", "password", "close", "freeze",
        "unfreeze", "delete", "apply", "approve", "reject", "payEmi", "createGoal",
        "contribute", "deleteGoal", "updateGoal"}
LoanCalls == {"apply", "approve", "reject", "payEmi"}
GoalCalls == {"createGoal", "contribute", "deleteGoal", "updateGoal"}
Audited == {"freeze", "unfreeze", "delete", "apply", "approve", "reject"}

\* deposit and withdraw, as their own module has them, without a key.
Movement(row, type, amount) ==
    IF amount <= 0 THEN Refused("amount")
    ELSE IF row.deleted THEN Refused("not found")
    ELSE IF ~CanTransact(row) THEN Refused("frozen or closed")
    ELSE IF type = "WITHDRAW" /\ amount > row.balance THEN Refused("insufficient")
    ELSE Done(MoveMoney(row, type, amount))

\* The service's decision on the rows it has read.
Decision(c, rows) ==
    CASE c.op = "deposit"    -> Movement(rows.account, "DEPOSIT", c.value)
      [] c.op = "withdraw"   -> Movement(rows.account, "WITHDRAW", c.value)
      [] c.op = "interest"   -> ApplyInterest(rows.account)
      [] c.op = "profile"    -> UpdateProfile(rows.account, c.value)
      [] c.op = "password"   -> ChangePassword(rows.account, 0, c.value)
      [] c.op = "close"      -> CloseAccount(rows.account, c.value)
      [] c.op = "freeze"     -> FreezeAccount(rows.account)
      [] c.op = "unfreeze"   -> UnfreezeAccount(rows.account)
      [] c.op = "delete"     -> DeleteAccount(rows.account)
      [] c.op = "apply"      -> ApplyLoan(c.acc, rows.account, c.terms)
      [] c.op = "approve"    -> ApproveLoan(rows.loan, rows.account)
      [] c.op = "reject"     -> RejectLoan(rows.loan)
      [] c.op = "payEmi"     -> PayEmi(rows.loan, rows.account, c.acc, c.value)
      [] c.op = "createGoal" -> CreateGoal(c.acc, c.value)
      [] c.op = "contribute" -> Contribute(rows.account, rows.goal, c.value)
      [] c.op = "deleteGoal" -> DeleteGoal(rows.goal, rows.account)
      [] c.op = "updateGoal" -> UpdateGoal(rows.goal, c.value)

\* transfer decides on two rows; each leg is then written like a movement of its own.
TransferDecision(sender, receiver, same, amount) ==
    IF amount <= 0 THEN Refused("amount")
    ELSE IF same THEN Refused("own account")
    ELSE IF sender.deleted \/ receiver.deleted THEN Refused("not found")
    ELSE IF ~CanTransact(sender) \/ ~CanTransact(receiver) THEN Refused("frozen or closed")
    ELSE IF amount > sender.balance THEN Refused("insufficient")
    ELSE Done(MoveMoney(sender, "TRANSFER_OUT", amount))

\* What an entry of a statement brought in, a savings contribution nothing: its money is
\* still the customer's.  What it counts in the sum of its type.
Credit(e) == CASE e.type \in {"DEPOSIT", "INTEREST", "LOAN_DISBURSEMENT"} -> e.amount
               [] e.type \in {"WITHDRAW", "LOAN_REPAYMENT"} -> -e.amount
               [] OTHER -> 0
Part(e, type) == IF e.type = type THEN e.amount ELSE 0

\* The rows after the commit of a call that nothing has interfered with.
RowsAfter(op, rows, w) ==
    [account |-> UpdateRow(w.account, rows.account, rows.account),
     loan |-> UpdateRow(w.loan, rows.loan, rows.loan),
     goal |-> IF w.drops THEN [rows.goal EXCEPT !.exists = FALSE]
              ELSE IF w.adds # 0
              THEN UpdateRow(Contribution(rows.goal, w.adds), rows.goal, rows.goal)
              ELSE IF rows.goal.exists \/ op = "createGoal"
              THEN UpdateRow(w.goal, rows.goal, rows.goal) ELSE rows.goal]
===============================================================================
