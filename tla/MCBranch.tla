------------------------------- MODULE MCBranch -------------------------------
(***************************************************************************)
(* One account with a loan and a goal, a second account that uses the same *)
(* loan and goal, and menus of calls that can affect each other.           *)
(***************************************************************************)
EXTENDS Branch, TLC

Row(balance) == [balance |-> balance, active |-> TRUE, frozen |-> FALSE,
                 deleted |-> FALSE, profile |-> 0, password |-> 0]
MCOpeningAccounts == 1 :> Row(60000) @@ 2 :> Row(500)
MCOpeningLoans == 1 :> NoLoan @@ 2 :> [owner |-> 1, status |-> "PENDING", principal |-> 100000,
                       emi |-> 50751, paid |-> 0, remaining |-> 100000, due |-> 0]
MCOpeningGoals ==
    1 :> NoGoal @@ 2 :> [exists |-> TRUE, owner |-> 1, target |-> 200, current |-> 100, completed |-> FALSE]

GoodTerms == [type |-> "Personal", principal |-> 100000, rate |-> 120, tenure |-> 2]
BadTerms == [GoodTerms EXCEPT !.rate = 90]

Plain(op, value) == [op |-> op, acc |-> 1, loan |-> 1, goal |-> 1, value |-> value,
                     terms |-> GoodTerms]
LoanCall(op, l, value) == [Plain(op, value) EXCEPT !.loan = l]
GoalCall(op, g, value) == [Plain(op, value) EXCEPT !.goal = g]
MCCalls ==
    {Plain("deposit", 100), Plain("withdraw", 60000), Plain("withdraw", 0),
     Plain("interest", 0), Plain("profile", 1), Plain("password", 1), Plain("close", 0),
     Plain("close", 9), Plain("freeze", 0), Plain("unfreeze", 0), Plain("delete", 0),
     Plain("apply", 0), [Plain("apply", 0) EXCEPT !.terms = BadTerms]}
    \cup {LoanCall(op, l, 0) : op \in {"approve", "reject", "payEmi"}, l \in {1, 2}}
    \cup {LoanCall("payEmi", l, 70000) : l \in {1, 2}}
    \cup {GoalCall("createGoal", 1, 100), GoalCall("updateGoal", 2, 100)}
    \cup {GoalCall(op, g, 100) : op \in {"contribute", "deleteGoal"}, g \in {1, 2}}
    \cup {[c EXCEPT !.acc = 2] : c \in {LoanCall("payEmi", 2, 100), GoalCall("deleteGoal", 2, 0),
                                       GoalCall("contribute", 2, 100)}}

Lifecycle == {"deposit", "withdraw", "interest", "profile", "password", "close",
              "freeze", "unfreeze", "delete"}
Lending == {"deposit", "withdraw", "apply", "approve", "reject", "payEmi", "freeze"}
Saving == {"deposit", "withdraw", "createGoal", "contribute", "deleteGoal", "updateGoal",
           "delete"}
Menu(ops, most, width) == [ops |-> ops, most |-> most, width |-> width]
MCMenus == {Menu(ops, 5, 1) : ops \in {Lifecycle, Lending, Saving}}
           \cup {Menu(ops, 3, 2) : ops \in {Lifecycle, Lending, Saving}}
MCLendingMenus == {Menu(Lending, 2, 2)}
ThreadSymmetry == Permutations(Threads)
===============================================================================
