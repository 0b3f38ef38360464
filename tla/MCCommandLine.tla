---------------------------- MODULE MCCommandLine ----------------------------
(***************************************************************************)
(* Two terminals and the API on two accounts, one of them with a goal and  *)
(* a loan application; menus of inputs and calls that meet.                *)
(***************************************************************************)
EXTENDS CommandLine, TLC

CONSTANTS simon, manager

Row(balance) == [balance |-> balance, active |-> TRUE, frozen |-> FALSE,
                 deleted |-> FALSE, profile |-> 0, password |-> 0]
MCOpeningAccounts == 1 :> Row(60000) @@ 2 :> Row(100)
MCOpeningLoans == 1 :> [owner |-> 1, status |-> "PENDING", principal |-> 100000,
                        emi |-> 50751, paid |-> 0, remaining |-> 100000, due |-> 0]
MCOpeningGoals ==
    1 :> [exists |-> FALSE, owner |-> 0, target |-> 0, current |-> 0, completed |-> FALSE]
 @@ 2 :> [exists |-> TRUE, owner |-> 1, target |-> 200, current |-> 100, completed |-> FALSE]

MCTerms == [type |-> "Personal", principal |-> 100000, rate |-> 120, tenure |-> 2]
Plain(op, value) == [op |-> op, acc |-> 1, to |-> 2, loan |-> 1, goal |-> 2, value |-> value,
                     terms |-> MCTerms, user |-> simon]
MCApiCalls == {Plain("deposit", 100), Plain("withdraw", 100), Plain("freeze", 0),
               Plain("unfreeze", 0), Plain("close", 0), Plain("delete", 0),
               Plain("contribute", 100), Plain("deleteGoal", 0), Plain("approve", 0),
               Plain("interest", 0), [Plain("contribute", 100) EXCEPT !.acc = 2]}

Menu(inputs, most, calls, mostCalls) ==
    [inputs |-> inputs, most |-> most, calls |-> calls, mostCalls |-> mostCalls,
     admins |-> simon :> 0]
Money1 == {Plain("login", 0), Plain("login", 1), Plain("deposit", 100), Plain("withdraw", 70000),
           Plain("transfer", 100), [Plain("transfer", 100) EXCEPT !.to = 1],
           [Plain("login", 0) EXCEPT !.acc = 2], Plain("interest", 0)}
Saving == {Plain("login", 0), [Plain("createGoal", 100) EXCEPT !.goal = 1],
           Plain("contribute", 100), Plain("editGoal", 50), Plain("editGoal", -50),
           Plain("deleteGoal", 0)}
Panel == {[Plain("adminLogin", 0) EXCEPT !.user = u] : u \in {simon, manager}}
         \cup {Plain(op, 0) : op \in {"freeze", "delete", "approve", "reject", "adminPassword"}}
Rest == {Plain("login", 0), Plain("profile", 0), Plain("profile", 1), Plain("profile", 2),
         Plain("password", 0), Plain("close", 0), Plain("export", 0),
         [Plain("register", 1) EXCEPT !.acc = 3], [Plain("register", 0) EXCEPT !.acc = 3]}
Bootstraps == {[Plain("bootstrap", 0) EXCEPT !.user = u] : u \in {simon, manager}}
MCMenus == {Menu(Money1, 6, {"withdraw", "freeze", "close"}, 1),
            Menu(Saving, 7, {"contribute", "deposit", "deleteGoal"}, 1),
            Menu(Panel, 6, {"freeze", "unfreeze", "approve", "delete"}, 1),
            Menu(Rest, 5, {"delete"}, 1),
            Menu({Plain("login", 0), Plain("contribute", 100), Plain("deleteGoal", 0)}, 5,
                 {"contribute", "delete"}, 2),
            [Menu(Bootstraps, 4, {}, 0) EXCEPT !.admins = <<>>]}
TerminalSymmetry == Permutations(Terminals)
===============================================================================
