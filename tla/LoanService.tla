----------------------------- MODULE LoanService ------------------------------
(***************************************************************************)
(* LoanService and SavingsGoalService as functions of the rows a call has  *)
(* read: what the call refuses, and what it writes.  Neither service takes *)
(* the account lock.                                                       *)
(***************************************************************************)
EXTENDS Tables

\* LOAN_PRODUCTS: rates in tenths of a per cent, tenures in months.
LoanProducts ==
    [Personal  |-> [min_rate |-> 100, max_rate |-> 150, max_tenure |-> 60],
     Home      |-> [min_rate |-> 70,  max_rate |-> 100, max_tenure |-> 360],
     Vehicle   |-> [min_rate |-> 80,  max_rate |-> 120, max_tenure |-> 84],
     Education |-> [min_rate |-> 75,  max_rate |-> 110, max_tenure |-> 120],
     Business  |-> [min_rate |-> 120, max_rate |-> 180, max_tenure |-> 120]]

\* What an applicant asks for; the amount is in paise.
Terms == [type : STRING, principal : Int, rate : Int, tenure : Int]

OfferedTerms(terms) ==
    /\ terms.type \in DOMAIN LoanProducts
    /\ 100000 <= terms.principal /\ terms.principal <= 1000000000
    /\ LET product == LoanProducts[terms.type] IN
       /\ terms.tenure \in 1 .. product.max_tenure
       /\ terms.rate \in product.min_rate .. product.max_rate

\* A rate a month as a fraction in lowest terms: rate tenths of a per cent a year are
\* rate / 12000.
CommonDivisors(a, b) == {d \in 1 .. a : a % d = 0 /\ b % d = 0}
MonthlyRate(rate) ==
    LET common == Max(CommonDivisors(rate, 12000)) IN <<rate \div common, 12000 \div common>>

\* calculate_emi, P r (1+r)^n / ((1+r)^n - 1) for r = p/q a month, to the paisa.
Rounded(a, b) == (2 * a + b) \div (2 * b)
Power(k, n) == LET p[i \in 0 .. n] == IF i = 0 THEN 1 ELSE k * p[i - 1] IN p[n]
Emi(principal, rate, tenure) ==
    IF principal <= 0 \/ rate <= 0 \/ tenure <= 0 THEN 0
    ELSE LET p == MonthlyRate(rate)[1]
             q == MonthlyRate(rate)[2]
             grown == Power(q + p, tenure)
         IN  Rounded(principal * p * grown, q * (grown - Power(q, tenure)))

ApplyLoan(owner, row, terms) ==
    IF row.deleted THEN Refused("not found")
    ELSE IF ~CanTransact(row) THEN Refused("frozen or closed")
    ELSE IF ~OfferedTerms(terms) THEN Refused("terms")
    ELSE Done([NoWrites EXCEPT
        !.loan = [owner |-> owner, status |-> "PENDING", principal |-> terms.principal,
                  emi |-> Emi(terms.principal, terms.rate, terms.tenure),
                  paid |-> 0, remaining |-> terms.principal, due |-> 0],
        !.audit = "loan_apply"])

\* LoanRepository.update assigns every column of the loan but its key and its owner.
LoanColumns(loan) == Restrict(loan, DOMAIN loan \ {"owner"})

\* Approval and disbursement are one commit; the audit entry is another.
ApproveLoan(loan, row) ==
    IF loan.status = "NONE" THEN Refused("not found")
    ELSE IF loan.status # "PENDING" THEN Refused("not pending")
    ELSE IF row.deleted THEN Refused("not found")
    ELSE IF ~CanTransact(row) THEN Refused("frozen or closed")
    ELSE Done([MoveMoney(row, "LOAN_DISBURSEMENT", loan.principal) EXCEPT
        !.loan = LoanColumns([loan EXCEPT !.status = "ACTIVE", !.due = 1]),
        !.audit = "loan_approve"])

RejectAny(loan) == \* mutant: any loan can be rejected
    IF loan.status = "NONE" THEN Refused("not found")
    ELSE Done([NoWrites EXCEPT
        !.loan = LoanColumns([loan EXCEPT !.status = "REJECTED"]),
        !.audit = "loan_reject"])
RejectLoan(loan) ==
    IF loan.status = "NONE" THEN Refused("not found")
    ELSE IF loan.status # "PENDING" THEN Refused("not pending")
    ELSE Done([NoWrites EXCEPT
        !.loan = LoanColumns([loan EXCEPT !.status = "REJECTED"]),
        !.audit = "loan_reject"])

\* The loan after a payment: the one that clears the debt closes it.
OverpaidLoan(loan, payment) == \* mutant: the payment is not capped at the debt
    [loan EXCEPT !.paid = @ + payment,
                 !.remaining = Max({0, @ - payment}),
                 !.status = IF payment >= loan.remaining THEN "CLOSED" ELSE @,
                 !.due = IF payment >= loan.remaining THEN 0 ELSE @ + 1]
RepaidLoan(loan, payment) ==
    LET actual == Min({payment, loan.remaining})
        closes == loan.remaining - actual <= 0
    IN  [loan EXCEPT !.paid = @ + actual,
                     !.remaining = IF closes THEN 0 ELSE @ - actual,
                     !.status = IF closes THEN "CLOSED" ELSE @,
                     !.due = IF closes THEN 0 ELSE @ + 1]

\* amount 0 stands for a request without one: the loan's EMI is paid.
PayEmi(loan, row, payer, amount) ==
    LET payment == IF amount = 0 THEN loan.emi ELSE amount IN
    IF loan.status = "NONE" THEN Refused("not found")
    ELSE IF ~Repayable(loan) THEN Refused("not active")
    ELSE IF loan.owner # payer THEN Refused("not the owner")
    ELSE IF row.deleted THEN Refused("not found")
    ELSE IF ~CanTransact(row) THEN Refused("frozen or closed")
    ELSE IF payment <= 0 THEN Refused("amount")
    ELSE IF payment > row.balance THEN Refused("insufficient")
    ELSE Done([MoveMoney(row, "LOAN_REPAYMENT", Min({payment, loan.remaining})) EXCEPT
        !.loan = LoanColumns(RepaidLoan(loan, payment))])

-------------------------------------------------------------------------------
(* SavingsGoalService *)

CreateGoal(owner, target) ==
    IF target <= 0 THEN Refused("amount")
    ELSE Done([NoWrites EXCEPT !.goal = [exists |-> TRUE, owner |-> owner,
                                         target |-> target, current |-> 0, completed |-> FALSE]])

\* Neither frozen nor closed accounts are refused.
UncheckedContribute(row, goal, amount) == \* mutant: the balance is not checked
    IF amount <= 0 THEN Refused("amount")
    ELSE IF row.deleted THEN Refused("not found")
    ELSE IF ~goal.exists THEN Refused("not found")
    ELSE Done([MoveMoney(row, "TRANSFER_OUT", amount) EXCEPT !.adds = amount])
MislabelledContribute(row, goal, amount) == \* mutant: a type the enumeration does not have
    IF row.deleted \/ ~goal.exists \/ amount \notin 1 .. row.balance THEN Refused("no")
    ELSE Done([MoveMoney(row, "SAVINGS", amount) EXCEPT !.adds = amount])
Contribute(row, goal, amount) ==
    IF amount <= 0 THEN Refused("amount")
    ELSE IF row.deleted THEN Refused("not found")
    ELSE IF amount > row.balance THEN Refused("insufficient")
    ELSE IF ~goal.exists THEN Refused("not found")
    ELSE Done([MoveMoney(row, "TRANSFER_OUT", amount) EXCEPT !.adds = amount])

\* The saved amount goes back to the account, without a row in its statement.
DeleteGoal(goal, row) ==
    IF ~goal.exists THEN Refused("not found")
    ELSE IF goal.current > 0 /\ ~row.deleted
    THEN Done([UpdateAccount([row EXCEPT !.balance = @ + goal.current])
               EXCEPT !.drops = TRUE])
    ELSE Done([NoWrites EXCEPT !.drops = TRUE])

\* update_savings_goal: the route reads, changes and writes the whole goal itself.
RetargetOnly(goal, target) == \* mutant: is_completed is not computed again
    IF ~goal.exists THEN Refused("not found")
    ELSE Done([NoWrites EXCEPT !.goal = [target |-> target, current |-> goal.current]])
UpdateGoal(goal, target) ==
    IF ~goal.exists THEN Refused("not found")
    ELSE Done([NoWrites EXCEPT !.goal = [target |-> target, current |-> goal.current,
                                         completed |-> goal.current >= target]])
===============================================================================
