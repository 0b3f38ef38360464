------------------------------ MODULE MCAsyncBank ------------------------------
(***************************************************************************)
(* Two accounts of which one saves, a third number not yet registered, one *)
(* key; menus of calls that can affect each other.                         *)
(***************************************************************************)
EXTENDS AsyncBank, TLC

CONSTANTS k1

AnAccount(balance) == [balance |-> balance, active |-> TRUE, frozen |-> FALSE,
                       deleted |-> FALSE, profile |-> 0, password |-> 0]
Unregistered == [AnAccount(0) EXCEPT !.active = FALSE, !.deleted = TRUE]
MCOpeningAccounts == 1 :> AnAccount(600) @@ 2 :> AnAccount(200) @@ 3 :> Unregistered
MCOpeningGoals ==
    1 :> [exists |-> FALSE, owner |-> 0, target |-> 0, current |-> 0, completed |-> FALSE]
 @@ 2 :> [exists |-> TRUE, owner |-> 1, target |-> 200, current |-> 100, completed |-> FALSE]

Plain(op, value) == [op |-> op, acc |-> 1, to |-> 2, goal |-> 1, value |-> value,
                     guess |-> 0, key |-> NoKey]
Keyed(op, value) == [Plain(op, value) EXCEPT !.key = k1]
OnGoal(op, g) == [Plain(op, 100) EXCEPT !.goal = g]
Guess(op, guess) == [Plain(op, 1) EXCEPT !.guess = guess]
BothWays(op) == {Plain(op, 100), Keyed(op, 100)}
Elsewhere(c) == [c EXCEPT !.acc = 2]
Moving == {Keyed("deposit", 100), Plain("withdraw", 100), Keyed("transfer", 100),
           Elsewhere(Keyed("deposit", 100))}
Repeated == UNION {BothWays(op) : op \in {"deposit", "withdraw", "transfer"}}
            \cup {Keyed("withdraw", 800), Plain("withdraw", 0)}
Upkeep == {Plain(op, 1) : op \in {"interest", "profile", "password", "freeze", "unfreeze",
                                  "delete", "deposit"}} \cup {Plain("close", 0)}
Saving == {Plain("deposit", 100), Plain("delete", 1), OnGoal("createGoal", 1)}
          \cup {OnGoal(op, g) : op \in {"contribute", "deleteGoal"}, g \in {1, 2}}
          \cup {Elsewhere(OnGoal("contribute", 2))}
Signing == {Guess(op, g) : op \in {"login", "adminLogin", "adminPassword"}, g \in {0, 9}}
           \cup {[Plain("register", 0) EXCEPT !.acc = 3], Plain("freeze", 1)}
MCCalls == Moving \cup Repeated \cup Upkeep \cup Saving \cup Signing

Menu(calls, most, width, failures, deaths, ticks) ==
    [calls |-> calls, most |-> most, width |-> width, faults |-> failures,
     crashes |-> deaths, ticks |-> ticks]
MCMenus ==
    {Menu(Moving, 2, 2, 1, 1, 0), Menu(Moving, 3, 2, 0, 0, 0), Menu(Repeated, 3, 1, 1, 1, 1),
     Menu(Signing, 4, 1, 0, 0, 2), Menu(Signing, 3, 1, 0, 1, 1)}
    \cup {Menu(calls, 3, 1, 1, 1, 0) : calls \in {Upkeep, Saving}}
    \cup {Menu(calls, 2, 2, 0, 0, 0) : calls \in {Upkeep, Saving, Signing}}
TaskSymmetry == Permutations(Tasks)
===============================================================================
