----------------------------- MODULE CommandLine -----------------------------
(***************************************************************************)
(* The command line: terminals, each a process with a customer's or the    *)
(* administrator's menus, beside the API's process on the same database.   *)
(* A menu shows what it has read and then waits for an input, while other  *)
(* processes write; a customer's session keeps a copy of the account.      *)
(* Calls of the services are one step here; Branch takes them apart.       *)
(***************************************************************************)
EXTENDS Services, SequencesExt

CONSTANTS
    Terminals,
    OpeningAccounts, OpeningLoans, OpeningGoals,   \* the tables at the start
    NewAccounts,    \* the account numbers registrations generate
    Simon,          \* the user name the admin panel changes the password of
    AdminName,      \* the other one it looks up
    Timeout,        \* SESSION_TIMEOUT_SECONDS
    ApiCalls,       \* calls the API process may serve
    Menus,          \* the administrators at the start; bound: the inputs and API calls
    MaxClock        \* bound

Accounts == DOMAIN OpeningAccounts \cup NewAccounts
UserNames == {Simon, AdminName}
AdminPasswords == 0 .. 1

\* What somebody at a terminal goes for: value is an amount, a target or a password.
Inputs == [op : STRING, acc : Accounts, to : Accounts, loan : DOMAIN OpeningLoans,
           goal : DOMAIN OpeningGoals, value : Int, terms : Terms, user : UserNames]

\* The opening rows are what the database's CHECK and the services leave.  A profile and a
\* password are numbers; the routes let only targets above zero through to a service.
ASSUME CommandLineAssumption ==
    /\ Accounts \subseteq Nat \ {0} /\ DOMAIN OpeningAccounts \cap NewAccounts = {}
    /\ \A S \in {Accounts, DOMAIN OpeningLoans, DOMAIN OpeningGoals} : IsFiniteSet(S)
    /\ OpeningAccounts \in [DOMAIN OpeningAccounts -> AccountRow]
    /\ \A a \in DOMAIN OpeningAccounts : OpeningAccounts[a].balance >= 0
    /\ OpeningLoans \in [DOMAIN OpeningLoans -> LoanRow]
    /\ \A l \in DOMAIN OpeningLoans : SoundLoan(OpeningLoans[l])
    /\ OpeningGoals \in [DOMAIN OpeningGoals -> GoalRow]
    /\ \A g \in DOMAIN OpeningGoals : SoundGoal(OpeningGoals[g])
    /\ Simon # AdminName
    /\ Timeout \in Nat \ {0} /\ MaxClock \in Nat
ASSUME CallsAssumption ==
    /\ ApiCalls # {}
    /\ \A c \in ApiCalls : /\ c \in Inputs /\ c.op \in Ops
                           /\ c.op \in {"profile", "password", "updateGoal"} => c.value >= 0
ASSUME MenusAssumption ==
    \A m \in Menus : /\ \A c \in m.inputs : /\ c \in Inputs
                                            /\ c.op = "bootstrap" => c.value \in AdminPasswords
                     /\ m.calls \subseteq Ops /\ {m.most, m.mostCalls} \subseteq Nat
                     /\ m.admins \in [DOMAIN m.admins -> AdminPasswords]
                     /\ DOMAIN m.admins \subseteq UserNames

VARIABLES
    accounts, statements, loans, goals, admins,   \* the tables
    clock,
    screen,     \* the menu a terminal is in
    doing,      \* the operation whose prompts a terminal answers
    shown,      \* the rows that operation has read
    session,    \* the account object of a customer's session
    active,     \* its last_activity
    says,       \* the last message of a terminal
    menu, typed, served,   \* bounds
    foreign,    \* history: sessions whose account or goals others wrote since the refresh
    stale,      \* history: accounts with a goal that was edited from an old copy
    together    \* history: two bootstraps have overlapped

tables == <<accounts, statements, loans, goals, admins>>
terminal == <<screen, doing, shown, session, active, says>>
bounds == <<menu, typed, served>>
history == <<foreign, stale, together>>
vars == <<tables, clock, terminal, bounds, history>>

-------------------------------------------------------------------------------
(* Rows and sessions *)

SomeInput == CHOOSE c \in ApiCalls : TRUE
RowsOf(c) == [account |-> accounts[c.acc], loan |-> loans[c.loan], goal |-> goals[c.goal]]
NoRows == [account |-> OpeningAccounts[SomeInput.acc], loan |-> OpeningLoans[SomeInput.loan],
           goal |-> OpeningGoals[SomeInput.goal]]

\* Bank.login copies the row into an Account object; acc 0 is nobody's session.
Session == [acc : Nat, balance : Int, active : BOOLEAN, frozen : BOOLEAN, password : Nat]
NoSession == [acc |-> 0, balance |-> 0, active |-> FALSE, frozen |-> FALSE, password |-> 0]
SessionOf(a) ==
    [acc |-> a, balance |-> accounts[a].balance, active |-> accounts[a].active,
     frozen |-> accounts[a].frozen, password |-> accounts[a].password]

\* Bank._dashboard refreshes three columns, and none when the account is gone.
Refreshed(s) ==
    IF accounts[s.acc].deleted THEN s
    ELSE [s EXCEPT !.balance = accounts[s.acc].balance, !.active = accounts[s.acc].active,
                   !.frozen = accounts[s.acc].frozen]

\* check_session_timeout
InTime(t) == clock - active[t] < Timeout

Goals(a) == {g \in DOMAIN goals : goals[g].exists /\ goals[g].owner = a}
ActiveGoals(a) == {g \in Goals(a) : ~goals[g].completed}

\* The accounts whose money a call changes: no service asks whose goal it is given.  New
\* loans and goals have ids nobody has used.
Touched(c) == {c.acc} \cup IF c.op \in GoalCalls \ {"createGoal"} THEN {goals[c.goal].owner} ELSE {}
FreshIds(c) ==
    /\ c.op = "createGoal" => goals[c.goal].owner = 0
    /\ c.op = "apply" => loans[c.loan].owner = 0

\* One call of a service on the rows of now, and the others with a session on its accounts.
Serve(others, c, rows, w) ==
    LET after == RowsAfter(c.op, rows, w) IN
    /\ accounts' = [accounts EXCEPT ![c.acc] = after.account]
    /\ loans' = [loans EXCEPT ![c.loan] = after.loan]
    /\ goals' = [goals EXCEPT ![c.goal] = after.goal]
    /\ statements' = [statements EXCEPT ![c.acc] = @ \o w.entries]
    /\ foreign' = foreign \cup {u \in others : session[u].acc \in Touched(c)}

-------------------------------------------------------------------------------

Init ==
    /\ accounts = OpeningAccounts /\ loans = OpeningLoans /\ goals = OpeningGoals
    /\ statements = [a \in DOMAIN OpeningAccounts |-> <<>>]
    /\ clock = 0
    /\ screen = [t \in Terminals |-> "main"]
    /\ doing = [t \in Terminals |-> SomeInput]
    /\ shown = [t \in Terminals |-> NoRows]
    /\ session = [t \in Terminals |-> NoSession]
    /\ active = [t \in Terminals |-> 0]
    /\ says = [t \in Terminals |-> "nothing"]
    /\ menu \in Menus /\ admins = menu.admins /\ typed = 0 /\ served = 0
    /\ foreign = {} /\ stale = {} /\ together = FALSE

\* An input at a terminal leads to a screen and a message.
Type(t) ==
    /\ typed < menu.most /\ typed' = typed + 1
    /\ UNCHANGED <<clock, menu, served>>
Show(t, next, message) ==
    /\ screen' = [screen EXCEPT ![t] = next]
    /\ says' = [says EXCEPT ![t] = message]
Remain(t, message) == Show(t, screen[t], message)
NoService == UNCHANGED <<accounts, statements, loans, goals, foreign>>
NoPrompt == UNCHANGED <<doing, shown>>
KeepObject(t) == UNCHANGED <<session, foreign>>   \* mutant: the object outlives its session
Leave(t) ==   \* Bank.current_account = None
    /\ session' = [session EXCEPT ![t] = NoSession]
    /\ foreign' = foreign \ {t}

-------------------------------------------------------------------------------
(* Main menu *)

\* Bank.register: a new number's row is created; value 0 stands for input it refuses.
Register(t, c) ==
    /\ screen[t] = "main" /\ c.op = "register" /\ Type(t)
    /\ \/ c.value = 0 /\ Remain(t, "invalid") /\ UNCHANGED <<accounts, statements>>
       \/ /\ c.value # 0 /\ c.acc \in NewAccounts \ DOMAIN accounts
          /\ accounts' = [a \in DOMAIN accounts \cup {c.acc} |->
                 IF a = c.acc THEN [balance |-> 0, active |-> TRUE, frozen |-> FALSE,
                                    deleted |-> FALSE, profile |-> 0, password |-> 0]
                 ELSE accounts[a]]
          /\ statements' = [a \in DOMAIN accounts' |-> IF a = c.acc THEN <<>> ELSE statements[a]]
          /\ Remain(t, "done")
    /\ NoPrompt
    /\ UNCHANGED <<loans, goals, admins, session, active, foreign, stale, together>>

\* What AuthService.customer_login answers, its lockout aside.
LoginAnswer(row, guess) ==
    IF row.deleted THEN "not found" ELSE IF row.frozen THEN "frozen"
    ELSE IF ~row.active THEN "closed" ELSE IF guess # row.password THEN "wrong password"
    ELSE "done"
Login(t, c) ==
    /\ screen[t] = "main" /\ c.op = "login" /\ c.acc \in DOMAIN accounts /\ Type(t)
    /\ LET answer == LoginAnswer(accounts[c.acc], c.value) IN
       \/ /\ answer = "done" /\ Show(t, "loop", answer)
          /\ session' = [session EXCEPT ![t] = SessionOf(c.acc)]
          /\ active' = [active EXCEPT ![t] = clock]
       \/ answer # "done" /\ Remain(t, answer) /\ UNCHANGED <<session, active>>
    /\ NoService /\ NoPrompt /\ UNCHANGED <<admins, stale, together>>

AdminLogin(t, c) ==
    /\ screen[t] = "main" /\ c.op = "adminLogin" /\ Type(t)
    /\ IF c.user \in DOMAIN admins /\ admins[c.user] = c.value THEN Show(t, "admin", "done")
       ELSE Remain(t, "wrong password")
    /\ NoService /\ NoPrompt /\ UNCHANGED <<admins, session, active, stale, together>>

\* The create-admin command: it looks for administrators, asks, and creates one.
AnyTime == TRUE   \* mutant: the command does not look first
NoAdminYet == DOMAIN admins = {}
StartBootstrap(t, c) ==
    /\ screen[t] = "main" /\ c.op = "bootstrap" /\ Type(t)
    /\ \/ NoAdminYet /\ Show(t, "bootstrap", "asking")
          /\ doing' = [doing EXCEPT ![t] = c]
          /\ together' = (together \/ \E u \in Terminals : screen[u] = "bootstrap")
       \/ ~NoAdminYet /\ Remain(t, "exists") /\ UNCHANGED <<doing, together>>
    /\ NoService /\ UNCHANGED <<admins, shown, session, active, stale>>
FinishBootstrap(t) ==
    LET c == doing[t] IN
    /\ screen[t] = "bootstrap" /\ Type(t)
    /\ IF c.user \in DOMAIN admins THEN Show(t, "crashed", "error") /\ UNCHANGED admins
       ELSE /\ admins' = [u \in DOMAIN admins \cup {c.user} |->
                             IF u = c.user THEN c.value ELSE admins[u]]
            /\ Show(t, "main", "done")
    /\ NoService /\ NoPrompt /\ UNCHANGED <<session, active, stale, together>>

-------------------------------------------------------------------------------
(* The customer's session *)

\* The head of the dashboard's loop: the timeout, the refresh, the state of the account.
Dashboard(t) ==
    LET s == Refreshed(session[t]) IN
    /\ screen[t] = "loop"
    /\ \/ ~InTime(t) /\ Show(t, "main", "timed out") /\ Leave(t)
       \/ InTime(t) /\ s.frozen /\ Show(t, "main", "frozen") /\ Leave(t)
       \/ InTime(t) /\ ~s.frozen /\ ~s.active /\ Show(t, "main", "closed") /\ Leave(t)
       \/ /\ InTime(t) /\ ~s.frozen /\ s.active /\ Show(t, "dashboard", "menu")
          /\ session' = [session EXCEPT ![t] = s]
          /\ foreign' = IF accounts[s.acc].deleted THEN foreign ELSE foreign \ {t}
    /\ NoPrompt
    /\ UNCHANGED <<tables, clock, active, bounds, stale, together>>

\* A choice of the dashboard sets last_activity; one of the submenus does not.
Choose(t) ==
    /\ screen[t] = "dashboard" /\ Type(t)
    /\ active' = [active EXCEPT ![t] = clock]
    /\ \/ \E next \in {"services", "transactions", "settings"} :
             Show(t, next, "menu") /\ UNCHANGED <<session, foreign>>
       \/ Show(t, "main", "logged out") /\ Leave(t)
    /\ NoPrompt /\ UNCHANGED <<tables, stale, together>>
Navigate(t) ==
    /\ Type(t)
    /\ \/ screen[t] = "services" /\ Show(t, "goals", "menu")
       \/ screen[t] = "goals" /\ Show(t, "services", "menu")
       \/ screen[t] \in {"services", "transactions", "settings"} /\ Show(t, "loop", "menu")
       \/ screen[t] = "admin" /\ Show(t, "main", "logged out")
    /\ NoService /\ NoPrompt /\ UNCHANGED <<admins, session, active, stale, together>>

\* Operations that read nothing before their prompts.  The object takes the balance the
\* service answers, and the service of goals answers none.
MenuOf == [deposit |-> "transactions", withdraw |-> "transactions",
           interest |-> "services", createGoal |-> "goals"]
Operate(t, c) ==
    /\ c.op \in DOMAIN MenuOf /\ screen[t] = MenuOf[c.op] /\ c.acc = session[t].acc /\ Type(t)
    /\ FreshIds(c)
    /\ LET d == Decision(c, RowsOf(c)) IN
       \/ /\ d.ok /\ Serve(Terminals \ {t}, c, RowsOf(c), d.writes) /\ Remain(t, "done")
          /\ session' = [session EXCEPT ![t].balance =
                             IF c.op = "createGoal" THEN @ ELSE accounts'[c.acc].balance]
       \/ ~d.ok /\ Remain(t, d.say) /\ NoService /\ UNCHANGED session
    /\ NoPrompt /\ UNCHANGED <<admins, active, stale, together>>

\* Settings.  validate_name and its kin return whether the value is valid, and are taken
\* for error messages; what gets past them ends in an error nobody catches.
ProfileOutcome(value) == CASE value = 0 -> "crashed"   \* nothing, age, gender, bad names
                           [] value = 1 -> "settings"  \* a good name, mobile or email
                           [] OTHER -> "main"          \* an age that is no number
PasswordOutcome(s, guess) == "settings"   \* a wrong one is refused, every new one too
CloseOutcome == "crashed"                 \* the service is called without the password
ExportOutcome == "crashed"                \* the repository has no such method
Settle(t, c) ==
    LET next == CASE c.op = "profile" -> ProfileOutcome(c.value)
                  [] c.op = "password" -> PasswordOutcome(session[t], c.value)
                  [] c.op = "close" -> CloseOutcome
                  [] OTHER -> ExportOutcome
    IN
    /\ c.op \in {"profile", "password", "close", "export"}
    /\ screen[t] = IF c.op = "export" THEN "services" ELSE "settings"
    /\ Type(t) /\ Show(t, next, "error")
    /\ IF next = "settings" THEN UNCHANGED <<session, foreign>> ELSE Leave(t)
    /\ NoPrompt /\ UNCHANGED <<tables, active, stale, together>>

-------------------------------------------------------------------------------
(* Operations that show rows, wait for prompts, and go on with what they have shown *)

\* AccountOperationsMixin.transfer_funds on the recipient.
TransferObstacle(s, c) ==
    LET row == accounts[c.to] IN
    IF row.deleted THEN "not found" ELSE IF c.to = s.acc THEN "own account"
    ELSE IF row.frozen THEN "frozen" ELSE IF ~row.active THEN "closed" ELSE "none"
\* Admin._freeze_account and _delete_account on the account, _loan_management on the loan.
FreezeObstacle(row) ==
    IF row.deleted THEN "not found" ELSE IF ~row.active /\ ~row.frozen THEN "closed" ELSE "none"
DeleteObstacle(row) == IF row.deleted THEN "not found" ELSE "none"
LoanObstacle(loan) ==
    IF loan.status = "NONE" THEN "not found" ELSE IF loan.status # "PENDING" THEN "decided" ELSE "none"

Obstacle(t, c) ==
    CASE c.op = "transfer" -> TransferObstacle(session[t], c)
      [] c.op = "contribute" -> IF c.goal \in ActiveGoals(c.acc) THEN "none" ELSE "no goal"
      [] c.op \in {"editGoal", "deleteGoal"} -> IF c.goal \in Goals(c.acc) THEN "none" ELSE "no goal"
      [] c.op = "freeze" -> FreezeObstacle(accounts[c.acc])
      [] c.op = "delete" -> DeleteObstacle(accounts[c.acc])
      [] OTHER -> LoanObstacle(loans[c.loan])

AdminOps == {"freeze", "delete", "approve", "reject"}
ScreenOf(op) == CASE op = "transfer" -> "transactions" [] op \in AdminOps -> "admin"
                  [] OTHER -> "goals"
Begin(t, c) ==
    /\ c.op \in {"transfer", "contribute", "editGoal", "deleteGoal"} \cup AdminOps
    /\ screen[t] = ScreenOf(c.op)
    /\ c.op \notin AdminOps => c.acc = session[t].acc
    /\ c.op \in {"approve", "reject"} => c.acc = loans[c.loan].owner
    /\ c.acc \in DOMAIN accounts /\ (c.op = "transfer" => c.to \in DOMAIN accounts)
    /\ Type(t)
    /\ \/ /\ Obstacle(t, c) = "none" /\ Show(t, "asking", "asking")
          /\ doing' = [doing EXCEPT ![t] = c]
          /\ shown' = [shown EXCEPT ![t] = RowsOf(c)]
       \/ Obstacle(t, c) # "none" /\ Remain(t, Obstacle(t, c)) /\ NoPrompt
    /\ NoService /\ UNCHANGED <<admins, session, active, stale, together>>

\* The prompts end with an answer other than the one that confirms.
Cancel(t) ==
    /\ screen[t] = "asking" /\ Type(t) /\ Show(t, ScreenOf(doing[t].op), "cancelled")
    /\ NoService /\ NoPrompt /\ UNCHANGED <<admins, session, active, stale, together>>

\* The balance of the object after a success: what the service of transfers answers; the
\* amount less for a contribution; for a deleted goal what the goal shown had.
ForgottenRefund(t, balance) == balance   \* mutant: the object misses the refund
ObjectBalance(t, balance) ==
    IF doing[t].op = "deleteGoal" THEN balance + shown[t].goal.current
    ELSE IF doing[t].op \in {"contribute", "transfer"} THEN balance - doing[t].value ELSE balance

FinishTransfer(t) ==
    LET c == doing[t]
        d == TransferDecision(accounts[c.acc], accounts[c.to], c.acc = c.to, c.value)
        credit == EntryFor(accounts[c.to], "TRANSFER_IN", c.value)
    IN
    /\ c.op = "transfer"
    /\ \/ /\ d.ok /\ Show(t, "transactions", "done")
          /\ accounts' = [accounts EXCEPT ![c.acc].balance = @ - c.value,
                                          ![c.to].balance = credit.balance]
          /\ statements' = [statements EXCEPT ![c.acc] = @ \o d.writes.entries,
                                              ![c.to] = Append(@, credit)]
          /\ session' = [session EXCEPT ![t].balance = accounts'[c.acc].balance]
          /\ foreign' = foreign \cup {u \in Terminals : u # t /\ session[u].acc \in {c.acc, c.to}}
          /\ UNCHANGED <<loans, goals>>
       \/ ~d.ok /\ Show(t, "transactions", d.say) /\ NoService /\ UNCHANGED session
    /\ UNCHANGED stale

\* AccountGoalsMixin._edit_goal writes the goal it has shown, with the new target; a goal
\* that is gone stays gone, and the terminal says it has updated it.
StartedOver(t, target) == \* mutant: a new target starts the goal over
    [shown[t].goal EXCEPT !.target = target, !.current = 0, !.completed = FALSE]
EditedGoal(t, target) ==
    [shown[t].goal EXCEPT !.target = target, !.completed = shown[t].goal.current >= target]
FinishEdit(t) ==
    LET c == doing[t] IN
    /\ c.op = "editGoal"
    /\ goals' = [goals EXCEPT ![c.goal] = IF @.exists THEN EditedGoal(t, c.value) ELSE @]
    /\ stale' = IF goals[c.goal].current # shown[t].goal.current THEN stale \cup {c.acc} ELSE stale
    /\ foreign' = foreign \cup {u \in Terminals : u # t /\ session[u].acc = c.acc}
    /\ Show(t, "goals", "done")
    /\ UNCHANGED <<accounts, statements, loans, session>>

\* Everything else goes to a service; the freeze prompt has named one of two.
ToggleNow(c, row, now) == [c EXCEPT !.op = IF now.frozen THEN "unfreeze" ELSE "freeze"] \* mutant
Asked(c, row, now) ==
    IF c.op = "freeze" /\ row.frozen THEN [c EXCEPT !.op = "unfreeze"] ELSE c
FinishService(t) ==
    LET asked == IF doing[t].op = "freeze"
                 THEN Asked(doing[t], shown[t].account, accounts[doing[t].acc]) ELSE doing[t]
        d == Decision(asked, RowsOf(asked))
        next == ScreenOf(doing[t].op)
    IN
    /\ doing[t].op \notin {"transfer", "editGoal"}
    /\ \/ /\ d.ok /\ Show(t, next, "done") /\ Serve(Terminals \ {t}, asked, RowsOf(asked), d.writes)
          /\ session' = [session EXCEPT ![t].balance = ObjectBalance(t, @)]
       \/ ~d.ok /\ Show(t, next, d.say) /\ NoService /\ UNCHANGED session
    /\ UNCHANGED stale
Confirm(t) ==
    /\ screen[t] = "asking" /\ Type(t)
    /\ \/ FinishTransfer(t)
       \/ FinishEdit(t)
       \/ FinishService(t)
    /\ NoPrompt /\ UNCHANGED <<admins, active, together>>

\* The panel checks the password of one of two administrators and writes the first's.
ChangeAdminPassword(t, c) ==
    LET user == IF Simon \in DOMAIN admins THEN Simon ELSE AdminName IN
    /\ screen[t] = "admin" /\ c.op = "adminPassword" /\ Type(t)
    /\ \/ /\ user \in DOMAIN admins /\ admins[user] = c.value /\ Remain(t, "done")
          /\ admins' = [u \in DOMAIN admins |-> IF u = Simon THEN 1 - c.value ELSE admins[u]]
       \/ /\ ~(user \in DOMAIN admins /\ admins[user] = c.value)
          /\ Remain(t, "wrong password") /\ UNCHANGED admins
    /\ NoService /\ NoPrompt /\ UNCHANGED <<session, active, stale, together>>

-------------------------------------------------------------------------------

\* The API's process commits a call.
Api(c) ==
    LET d == Decision(c, RowsOf(c)) IN
    /\ served < menu.mostCalls /\ c.op \in menu.calls /\ c.acc \in DOMAIN accounts /\ FreshIds(c)
    /\ d.ok /\ Serve(Terminals, c, RowsOf(c), d.writes)
    /\ served' = served + 1
    /\ UNCHANGED <<admins, clock, terminal, menu, typed, stale, together>>

Tick == /\ clock < MaxClock /\ clock' = clock + 1
        /\ UNCHANGED <<tables, terminal, bounds, history>>

Closing == typed = menu.most /\ (\A t \in Terminals : screen[t] # "loop") /\ UNCHANGED vars

Operation(t, c) ==
    \/ Register(t, c) \/ Login(t, c) \/ AdminLogin(t, c) \/ StartBootstrap(t, c)
    \/ Operate(t, c) \/ Settle(t, c) \/ Begin(t, c) \/ ChangeAdminPassword(t, c)
Next ==
    \/ \E t \in Terminals, c \in menu.inputs : Operation(t, c)
    \/ \E t \in Terminals : Dashboard(t) \/ Choose(t) \/ Navigate(t) \/ Confirm(t)
                            \/ Cancel(t) \/ FinishBootstrap(t)
    \/ \E c \in ApiCalls : Api(c)
    \/ Tick
    \/ Closing

Spec == Init /\ [][Next]_vars

-------------------------------------------------------------------------------
(* Properties *)

Screens == {"main", "loop", "dashboard", "services", "transactions", "settings", "goals",
            "admin", "asking", "bootstrap", "crashed"}

\* The types, and a terminal has a session exactly on the screens of one.
TypeOK ==
    /\ DOMAIN accounts \subseteq Accounts /\ \A a \in DOMAIN accounts : accounts[a] \in AccountRow
    /\ DOMAIN statements = DOMAIN accounts
    /\ \A a \in DOMAIN statements : \A i \in DOMAIN statements[a] : statements[a][i] \in Transaction
    /\ loans \in [DOMAIN OpeningLoans -> LoanRow] /\ goals \in [DOMAIN OpeningGoals -> GoalRow]
    /\ admins \in [DOMAIN admins -> AdminPasswords] /\ DOMAIN admins \subseteq UserNames
    /\ screen \in [Terminals -> Screens] /\ session \in [Terminals -> Session]
    /\ \A t \in Terminals : (session[t].acc = 0) =
           (\/ screen[t] \in {"main", "admin", "bootstrap", "crashed"}
            \/ screen[t] = "asking" /\ doing[t].op \in AdminOps)

\* The balance a session works with and shows is the account's, however many operations
\* of the session go by without a refresh, unless somebody else wrote the account.
SessionBalanceIsTrue ==
    \A t \in Terminals \ foreign : session[t].acc # 0 =>
        session[t].balance = accounts[session[t].acc].balance

Money(accs, gls) ==
    SumOf([a \in DOMAIN accs |-> accs[a].balance])
      + SumOf([g \in DOMAIN gls |-> IF gls[g].exists THEN gls[g].current ELSE 0])
Credits == SumOf([a \in DOMAIN statements |->
                     SumOf([i \in DOMAIN statements[a] |-> Credit(statements[a][i])])])
\* The bank's money is kept by terminals and API together, until somebody edits a goal
\* that others have paid into since it was shown, or an account is deleted.
MoneyIsKept ==
    stale = {} /\ (\A a \in DOMAIN accounts : ~accounts[a].deleted) =>
        Money(accounts, goals) = Money(OpeningAccounts, OpeningGoals) + Credits

Happened(c, row) ==
    CASE c.op = "freeze" -> /\ accounts[c.acc].frozen = row.account.frozen
                            /\ accounts'[c.acc].frozen = ~row.account.frozen
      [] c.op = "delete" -> accounts'[c.acc].deleted
      [] c.op = "approve" -> /\ loans[c.loan].status = "PENDING"
                             /\ accounts'[c.acc].balance
                                    = accounts[c.acc].balance + row.loan.principal
      [] OTHER -> loans[c.loan].status = "PENDING" /\ loans'[c.loan].status = "REJECTED"
\* What an administrator has confirmed is what happens, although the rows may have
\* changed since they were shown: a freeze never unfreezes, a loan is approved once.
ConfirmedIsDone ==
    [][\A t \in Terminals : /\ screen[t] = "asking" /\ doing[t].op \in AdminOps
                            /\ screen'[t] = "admin" /\ says'[t] = "done"
        => Happened(doing[t], shown[t])]_vars

\* create-admin creates the first administrator and no other, unless two are at it.
OneFirstAdmin ==
    menu.admins = <<>> /\ ~together => Cardinality(DOMAIN admins) <= 1
===============================================================================
