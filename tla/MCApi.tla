--------------------------------- MODULE MCApi ---------------------------------
(***************************************************************************)
(* Two threads, two accounts, one with a goal, a number to register, and   *)
(* menus of routes that meet: the limiter, the cached list, goals, loans,  *)
(* the walks, registrations.                                               *)
(***************************************************************************)
EXTENDS Api, TLC

Row(balance) == [balance |-> balance, active |-> TRUE, frozen |-> FALSE,
                 deleted |-> FALSE, profile |-> 0, password |-> 0]
MCOpeningAccounts == 1 :> Row(50000) @@ 2 :> Row(100) @@ 3 :> Unused
MCOpeningLoans == 1 :> [owner |-> 1, status |-> "PENDING", principal |-> 100000,
                        emi |-> 50751, paid |-> 0, remaining |-> 100000, due |-> 0]
               @@ 2 :> [owner |-> 0, status |-> "NONE", principal |-> 0,
                        emi |-> 0, paid |-> 0, remaining |-> 0, due |-> 0]
MCOpeningGoals == 1 :> [NoGoal EXCEPT !.exists = TRUE, !.owner = 1, !.target = 200]
               @@ 2 :> NoGoal @@ 3 :> NoGoal

MCTerms == [type |-> "Personal", principal |-> 100000, rate |-> 120, tenure |-> 2]
Ask(route, value) == [route |-> route, acc |-> 1, to |-> 1, loan |-> 1, goal |-> 1,
                      value |-> value, terms |-> MCTerms, csrf |-> "absent"]
To2(route, value) == [Ask(route, value) EXCEPT !.to = 2]
MCRequests ==
    {Ask(route, 0) : route \in
        {"freeze", "unfreeze", "delete", "freezeV2", "unfreezeV2", "deleteV2", "close",
         "closeV2", "profile", "profileV2", "interest", "deleteGoal", "deleteGoalV2",
         "payEmiV2", "approveV2", "rejectV2", "list", "search", "keyset", "offset", "health",
         "statistics", "statisticsV2", "loanStatistics", "pendingLoans", "allLoans", "accountsV2",
         "searchV2", "statement", "statementV2", "mini", "miniV2", "goals", "goalsV2"}}
    \cup {Ask(route, 100) : route \in
        {"deposit", "depositV2", "contribute", "contributeV2", "updateGoal"}}
    \cup {To2(route, 100) : route \in {"transfer", "transferV2"}}
    \cup {[Ask(route, 100) EXCEPT !.goal = 2] : route \in {"createGoal", "createGoalV2"}}
    \cup {[Ask("createGoal", 100) EXCEPT !.goal = 3], Ask("transfer", 100),
          Ask("withdraw", 60000), Ask("withdrawV2", 100),
          Ask("close", -1), [Ask("closeV2", 1) EXCEPT !.csrf = "same"],
          [Ask("applyV2", 0) EXCEPT !.loan = 2],
          [Ask("deposit", 100) EXCEPT !.csrf = "other"],
          [Ask("freeze", 0) EXCEPT !.acc = 2, !.to = 2],
          [Ask("deleteGoal", 0) EXCEPT !.acc = 2, !.to = 2, !.goal = 2],
          [Ask("deleteGoal", 0) EXCEPT !.acc = 2, !.to = 2],
          [Ask("depositV2", 100) EXCEPT !.acc = 3, !.to = 3]}
    \cup {[Ask(route, value) EXCEPT !.acc = 3, !.to = 3] : value \in {-1, 1},
             route \in {"register", "registerV2"}}
    \cup {[Ask("register", 1) EXCEPT !.acc = 3, !.to = 3, !.csrf = "other"],
          [Ask("transferV2", 100) EXCEPT !.to = 3], [Ask("freeze", 0) EXCEPT !.acc = 3, !.to = 3],
          [Ask("delete", 0) EXCEPT !.acc = 3, !.to = 3]}

Menu(routes, most, ticks, failures) ==
    [routes |-> routes, most |-> most, ticks |-> ticks, outages |-> failures]
MCMenus ==
    {Menu({"deposit", "withdraw"}, 4, 2, 0), Menu({"deposit", "transfer"}, 3, 1, 0),
     Menu({"list", "search", "freeze", "unfreezeV2"}, 4, 2, 0),
     Menu({"list", "freeze", "unfreeze", "delete"}, 4, 0, 1),
     Menu({"list", "freeze", "freezeV2", "close", "deleteV2", "health"}, 3, 0, 2),
     Menu({"createGoal", "contribute", "deleteGoal", "deleteGoalV2"}, 4, 0, 0),
     Menu({"createGoalV2", "contribute", "contributeV2", "updateGoal", "delete"}, 3, 0, 0),
     Menu({"approveV2", "rejectV2", "applyV2", "payEmiV2", "interest", "closeV2", "transferV2",
           "profile", "profileV2", "freeze"}, 3, 0, 0),
     Menu({"depositV2", "withdrawV2", "keyset", "offset"}, 5, 3, 0),
     Menu({"depositV2", "withdrawV2", "transferV2", "freezeV2", "statistics"}, 3, 0, 0),
     Menu({"applyV2", "approveV2", "rejectV2", "payEmiV2", "loanStatistics"}, 4, 0, 0),
     Menu({"depositV2", "statement", "mini", "statementV2", "miniV2"}, 4, 1, 0),
     Menu({"deleteV2", "createGoalV2", "applyV2", "statisticsV2", "pendingLoans", "allLoans",
           "accountsV2", "searchV2", "goals", "goalsV2"}, 2, 0, 0),
     Menu({"register", "list", "freeze", "delete"}, 4, 0, 0),
     Menu({"registerV2", "transferV2", "statistics"}, 4, 0, 0),
     Menu({"registerV2", "depositV2", "delete", "statistics"}, 4, 0, 0)}
ThreadSymmetry == Permutations(Threads)
===============================================================================
