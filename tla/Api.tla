---------------------------------- MODULE Api ----------------------------------
(***************************************************************************)
(* The HTTP routes over the services, run by the threads of one API        *)
(* process: the middleware, what a route checks for itself, the limiter of *)
(* money movements, the call of the service, what follows it (invalidating *)
(* the cached account list, reading the goal again), the status code, and  *)
(* clients that walk a statement page by page.  A service call is one step *)
(* here; what interleaves inside of it is the subject of module Branch.    *)
(***************************************************************************)
EXTENDS Services, SequencesExt

CONSTANTS
    Threads,
    Accounts, Loans, Goals, OpeningAccounts, OpeningLoans, OpeningGoals,
    Requests,            \* what clients send
    Menus,               \* bound: the routes of a behaviour, how many requests, how many
                         \* clock ticks, and how often Redis fails or returns
    MaxOps, Window,      \* MONEY_MOVEMENT_RATE_LIMIT: so many in a window
    Ttl,                 \* how long a list stays cached
    PageSize,            \* of the clients that walk a statement
    MiniLimit            \* the rows of a mini statement

VARIABLES
    accounts, statements, loans, goals,   \* the tables; statements are stamped
    order,        \* the ids of the stored goals, oldest row first
    operations,   \* AccountRateLimiter._operations
    cache,        \* Redis: the cached lists and when they expire
    redis,        \* Redis answers
    client,       \* RedisCache: "new", "up" (_available) or "off" (tried and failed)
    clock,
    pc, request, local, reply,   \* a thread's stage, its request and its answer
    menu, issued, outages,       \* bounds
    crowded,      \* history: accounts of which two requests have overlapped
    admitted,     \* history: the times at which the limiter let a request pass
    settled       \* history: accounts whose status was last changed by a v1 route of the
                  \* administrator, while no list was being read, and invalidated since
tables == <<accounts, statements, loans, goals, order>>
cacheVars == <<cache, redis, client>>
threadVars == <<pc, request, local, reply>>
boundVars == <<menu, issued, outages>>
history == <<crowded, admitted, settled>>
vars == <<tables, operations, cacheVars, clock, threadVars, boundVars, history>>

-------------------------------------------------------------------------------
(* The routes.  A route names what it checks before anything else, whether *)
(* the limiter counts it, the service it calls, the codes of refusals that *)
(* are not 400, what it does after the commit, and what it reads.          *)

Handler == [by |-> "customer", check |-> "nothing", limited |-> FALSE, op |-> "none",
            codes |-> <<>>, after |-> "answer", reads |-> <<>>]
NotFound == [why \in {"not found"} |-> 404]

\* routes/accounts.py.  _invalidate_admin_account_cache of this module imports a name that
\* does not exist and swallows the ImportError: it invalidates nothing.
DepositMoney == [Handler EXCEPT !.op = "deposit", !.limited = TRUE]
WithdrawMoney == [Handler EXCEPT !.op = "withdraw", !.limited = TRUE]
TransferFunds == [Handler EXCEPT !.op = "transfer", !.limited = TRUE, !.check = "parties"]
CloseV1 == [Handler EXCEPT !.op = "close", !.check = "text"]
ProfileV1 == [Handler EXCEPT !.op = "profile", !.codes = NotFound]
\* routes/admin.py
ForgetfulFreeze == [Handler EXCEPT !.by = "admin", !.op = "freeze"] \* mutant: stays cached
FreezeV1 == [Handler EXCEPT !.by = "admin", !.op = "freeze", !.codes = NotFound,
    !.after = "invalidate"]
UnfreezeV1 == [Handler EXCEPT !.by = "admin", !.op = "unfreeze", !.codes = NotFound,
    !.after = "invalidate"]
DeleteV1 == [Handler EXCEPT !.by = "admin", !.op = "delete", !.codes = NotFound,
    !.after = "invalidate"]
InterestCodes == [why \in {"not found", "frozen or closed"} |-> 500]
InterestV1 == [Handler EXCEPT !.op = "interest", !.check = "exists",
    !.codes = InterestCodes]
\* routes/savings.py
CreateGoalV1 == [Handler EXCEPT !.op = "createGoal", !.after = "newest"]
UpdateGoalV1 == [Handler EXCEPT !.op = "updateGoal", !.codes = NotFound]
ContributeV1 == [Handler EXCEPT !.op = "contribute", !.check = "balance", !.after = "goal"]
DeleteGoalV1 == [Handler EXCEPT !.op = "deleteGoal", !.codes = NotFound]
\* v2/accounts.py
DepositV2 == [Handler EXCEPT !.op = "deposit"]
WithdrawV2 == [Handler EXCEPT !.op = "withdraw"]
TransferV2 == [Handler EXCEPT !.op = "transfer", !.check = "both exist"]
CloseV2 == [Handler EXCEPT !.op = "close", !.check = "text and password"]
ProfileV2 == [Handler EXCEPT !.op = "profile", !.codes = NotFound]
\* v2/savings.py
CreateGoalV2 == [Handler EXCEPT !.op = "createGoal", !.after = "newest"]
ContributeV2 == [Handler EXCEPT !.op = "contribute", !.after = "goal"]
DeleteGoalV2 == [Handler EXCEPT !.op = "deleteGoal"]
\* v2/loans.py and v2/admin.py: the list that v1 caches is not invalidated
ApplyV2 == [Handler EXCEPT !.op = "apply"]
PayEmiV2 == [Handler EXCEPT !.op = "payEmi"]
ApproveV2 == [Handler EXCEPT !.by = "admin", !.op = "approve", !.codes = NotFound]
RejectV2 == [Handler EXCEPT !.by = "admin", !.op = "reject", !.codes = NotFound]
FreezeV2 == [Handler EXCEPT !.by = "admin", !.op = "freeze", !.codes = NotFound]
UnfreezeV2 == [Handler EXCEPT !.by = "admin", !.op = "unfreeze", !.codes = NotFound]
DeleteV2 == [Handler EXCEPT !.by = "admin", !.op = "delete", !.codes = NotFound]
\* routes/auth.py and v2/auth.py
RegisterV1 == [Handler EXCEPT !.by = "anyone", !.op = "register", !.check = "text"]
RegisterV2 == [Handler EXCEPT !.by = "anyone", !.op = "register", !.check = "text"]
\* readers: the cached lists, the walks, the health check
Lists == [Handler EXCEPT !.by = "admin", !.after = "lookup"]
Walks == [Handler EXCEPT !.after = "page"]
AdminWalk == [Walks EXCEPT !.by = "admin"]
Health == [Handler EXCEPT !.by = "anyone", !.after = "ping"]

\* What is read in one query each, in this order.  LoanService.get_loan_statistics follows a
\* loan through its life; AdminService.get_statistics reads the accounts before the totals.
ByName == \* mutant: in alphabetical order, an approved loan can be missed
    <<"ACTIVE", "APPROVED", "CLOSED", "PENDING", "REJECTED", "disbursed", "outstanding">>
LoanQueries ==
    <<"PENDING", "APPROVED", "ACTIVE", "CLOSED", "REJECTED", "disbursed", "outstanding">>
AccountQueries == <<"aggregate", "count", "DEPOSIT", "WITHDRAW", "TRANSFER_OUT">>
Report(by, queries) == [Handler EXCEPT !.by = by, !.after = "report", !.reads = queries]

StatisticsV1 == Report("admin", AccountQueries)
StatisticsV2 == Report("admin", AccountQueries)
LoanStatisticsV2 == Report("admin", LoanQueries)
PendingLoansV2 == Report("admin", <<"pending">>)
AllLoansV2 == Report("admin", <<"loans">>)
AccountsV2 == Report("admin", <<"customers", "page">>)
SearchV2 == Report("admin", <<"page">>)
StatementV1 == Report("customer", <<"statement">>)
StatementV2 == Report("customer", <<"statement">>)
MiniV1 == Report("customer", <<"mini">>)
MiniV2 == Report("customer", <<"mini">>)
GoalsV1 == Report("customer", <<"goals">>)
GoalsV2 == Report("customer", <<"goals">>)

Routes ==
    [deposit |-> DepositMoney, withdraw |-> WithdrawMoney, transfer |-> TransferFunds,
     close |-> CloseV1, profile |-> ProfileV1, freeze |-> FreezeV1, unfreeze |-> UnfreezeV1,
     delete |-> DeleteV1, interest |-> InterestV1, createGoal |-> CreateGoalV1,
     updateGoal |-> UpdateGoalV1, contribute |-> ContributeV1, deleteGoal |-> DeleteGoalV1,
     depositV2 |-> DepositV2, withdrawV2 |-> WithdrawV2, transferV2 |-> TransferV2,
     closeV2 |-> CloseV2, profileV2 |-> ProfileV2, createGoalV2 |-> CreateGoalV2,
     contributeV2 |-> ContributeV2, deleteGoalV2 |-> DeleteGoalV2, applyV2 |-> ApplyV2,
     payEmiV2 |-> PayEmiV2, approveV2 |-> ApproveV2, rejectV2 |-> RejectV2,
     freezeV2 |-> FreezeV2, unfreezeV2 |-> UnfreezeV2, deleteV2 |-> DeleteV2,
     list |-> Lists, search |-> Lists, keyset |-> Walks, offset |-> AdminWalk,
     health |-> Health, statistics |-> StatisticsV1, statisticsV2 |-> StatisticsV2,
     loanStatistics |-> LoanStatisticsV2, pendingLoans |-> PendingLoansV2,
     allLoans |-> AllLoansV2, accountsV2 |-> AccountsV2, searchV2 |-> SearchV2,
     statement |-> StatementV1, statementV2 |-> StatementV2, mini |-> MiniV1,
     miniV2 |-> MiniV2, goals |-> GoalsV1, goalsV2 |-> GoalsV2, register |-> RegisterV1,
     registerV2 |-> RegisterV2]

\* value is the amount, the profile, the password or the target; at a closing, -1 stands
\* for a form that does not say CLOSE, at a registration for one that is not valid.  csrf: the cookie is absent, or the header agrees.
Request == [route : DOMAIN Routes, acc : Accounts, to : Accounts, loan : Loans, goal : Goals,
            value : Int, terms : Terms, csrf : {"absent", "same", "other"}]

\* The tables as the services leave them.
ASSUME ApiAssumption ==
    /\ Accounts \subseteq Nat \ {0} /\ Goals \subseteq Nat \ {0}
    /\ IsFiniteSet(Accounts) /\ IsFiniteSet(Loans) /\ IsFiniteSet(Goals)
    /\ OpeningAccounts \in [Accounts -> AccountRow]
    /\ \A a \in Accounts : OpeningAccounts[a].balance >= 0
    /\ OpeningLoans \in [Loans -> LoanRow] /\ \A l \in Loans : SoundLoan(OpeningLoans[l])
    /\ OpeningGoals \in [Goals -> GoalRow] /\ \A g \in Goals : SoundGoal(OpeningGoals[g])
    /\ \A m \in Menus : m.routes \subseteq DOMAIN Routes /\ {m.most, m.ticks, m.outages} \subseteq Nat
    /\ {MaxOps, Window, Ttl, PageSize, MiniLimit} \subseteq Nat \ {0}
\* A profile or a password is a number; the target of a goal is not negative.
Offers(r) == Routes[r.route].op \in {"profile", "updateGoal"} => r.value >= 0
Registers(r) == Routes[r.route].op = "register" => r.value = -1 \/ r.value > 0
ASSUME RequestsAssumption ==
    /\ Requests # {}
    /\ \A r \in Requests : r \in Request /\ Offers(r) /\ Registers(r)

RouteOf(t) == Routes[request[t].route]
Serving(t, stage) == pc[t] = stage

-------------------------------------------------------------------------------
(* What the routes check, and what the readers return *)

\* CSRFProtectMiddleware: a writing request with the cookie needs the header that agrees,
\* but for a registration.
CsrfRefuses(r) == r.csrf = "other" /\ Routes[r.route].op \notin {"none", "register"}

\* get_current_customer
AccountGone(r) == Routes[r.route].by = "customer" /\ accounts[r.acc].deleted

\* transfer_funds
PartiesRefusal(sender, receiver, same) ==
    IF sender.deleted \/ receiver.deleted THEN 404
    ELSE IF same THEN 400
    ELSE IF ~CanTransact(receiver) THEN 403 ELSE 0
\* v2_close_account
CloseRefusal(row, guess) ==
    IF guess = -1 THEN 400
    ELSE IF row.deleted THEN 404
    ELSE IF guess # row.password THEN 400 ELSE 0
\* contribute_to_goal
BalanceRefusal(row, amount) ==
    IF row.deleted THEN 404 ELSE IF amount > row.balance THEN 400 ELSE 0

Refusal(r) ==
    LET row == accounts[r.acc]
        to == accounts[r.to]
        check == Routes[r.route].check
    IN  CASE check = "parties"           -> PartiesRefusal(row, to, r.acc = r.to)
          [] check = "both exist"        -> IF row.deleted \/ to.deleted THEN 404 ELSE 0
          [] check = "text"              -> IF r.value = -1 THEN 400 ELSE 0
          [] check = "text and password" -> CloseRefusal(row, r.value)
          [] check = "exists"            -> IF row.deleted THEN 404 ELSE 0
          [] check = "balance"           -> BalanceRefusal(row, r.value)
          [] OTHER                       -> 0

Unexamined(handler, why) == 200 \* mutant: the result of the service is not examined
CodeOf(handler, why) == IF why \in DOMAIN handler.codes THEN handler.codes[why] ELSE 400

\* The elements of s that are in S, in their order: a filter of a list.
Kept(s, S) ==
    LET kept[n \in 0 .. Len(s)] ==
            IF n = 0 THEN <<>>
            ELSE IF s[n] \in S THEN Append(kept[n - 1], s[n]) ELSE kept[n - 1]
    IN  kept[Len(s)]

\* f with v at x.
With(f, x, v) == [y \in DOMAIN f \cup {x} |-> IF y = x THEN v ELSE f[y]]

\* One page of the account list, whose pages here hold every account.
Page == [a \in Listed(accounts) |-> Status(accounts[a])]
PageKey(r) == r.route
Live(key) == key \in DOMAIN cache /\ cache[key].expires > clock

\* get_by_account of the transaction repository: the positions of the statement, newest
\* first; rows of one timestamp in the order of the index.
Newest(a) ==
    LET rows == DOMAIN statements[a]
        Later(i, j) == \/ statements[a][i].at > statements[a][j].at
                       \/ statements[a][i].at = statements[a][j].at /\ i > j
    IN  CHOOSE s \in Bijection(rows, rows) : \A i, j \in rows : i < j => Later(s[i], s[j])
FirstFew(s, n) == SubSeq(s, 1, Min({n, Len(s)}))

\* get_paginated_keyset; a cursor of -1 is none.  One row more tells whether there are more.
KeysetNoMore(a, limit, cursor) == \* mutant: the row that tells of more is not fetched
    LET older == {i \in DOMAIN statements[a] : cursor = -1 \/ statements[a][i].at < cursor}
        items == FirstFew(Kept(Newest(a), older), limit)
    IN  [items |-> items, more |-> Len(items) > limit,
         cursor |-> IF items = <<>> THEN -1 ELSE statements[a][Last(items)].at]
Keyset(a, limit, cursor) ==
    LET older == {i \in DOMAIN statements[a] : cursor = -1 \/ statements[a][i].at < cursor}
        found == FirstFew(Kept(Newest(a), older), limit + 1)
        items == FirstFew(found, limit)
    IN  [items |-> items, more |-> Len(found) > limit,
         cursor |-> IF items = <<>> THEN -1 ELSE statements[a][Last(items)].at]
\* get_paginated, of one account; the client asks until a page is short.
Offset(a, limit, page) ==
    LET rest == SubSeq(Newest(a), (page - 1) * limit + 1, Len(statements[a]))
        items == FirstFew(rest, limit)
    IN  [items |-> items, more |-> Len(items) = limit, cursor |-> page + 1]

\* get_statistics of the account repository: frozen and closed accounts have balances too.
Statistics ==
    [total |-> Cardinality(Listed(accounts)), active |-> ActiveCount(accounts),
     frozen |-> FrozenCount(accounts), closed |-> ClosedCount(accounts),
     balance |-> SumOf([a \in Listed(accounts) |-> accounts[a].balance])]

\* The aggregates over loans and transactions.  Transactions of deleted accounts remain.
LoansIn(statuses) == {l \in Loans : loans[l].status \in statuses}
CountByStatus(status) == Cardinality(LoansIn({status}))
TotalDisbursed ==
    SumOf([l \in LoansIn({"APPROVED", "ACTIVE", "CLOSED"}) |-> loans[l].principal])
TotalOutstanding == SumOf([l \in LoansIn({"APPROVED", "ACTIVE"}) |-> loans[l].remaining])
PartsOf(s, type) == SumOf([i \in DOMAIN s |-> Part(s[i], type)])
TotalByType(type) == SumOf([a \in Accounts |-> PartsOf(statements[a], type)])
CountTransactions == SumOf([a \in Accounts |-> Len(statements[a])])

\* The export: credits other than deposits and received transfers carry a minus as well.
Sign(type) == IF type \in {"DEPOSIT", "TRANSFER_IN"} THEN 1 ELSE -1
Exported(a) == [i \in DOMAIN statements[a] |->
                   Sign(statements[a][i].type) * statements[a][i].amount]

-------------------------------------------------------------------------------
(* Stages *)

NoLocal == [kept |-> <<>>, page |-> <<>>, cursor |-> -1, got |-> <<>>, start |-> 0,
            report |-> <<>>, wrote |-> FALSE]
NoReply == [code |-> 0, wrote |-> FALSE, shown |-> 0, got |-> <<>>, start |-> 0, report |-> <<>>]

Goto(t, stage) == pc' = [pc EXCEPT ![t] = stage]
Stay(t, stage) == Goto(t, stage) /\ UNCHANGED <<local, reply>>
Answer(t, l, code, shown) ==
    /\ Goto(t, "idle")
    /\ local' = [local EXCEPT ![t] = NoLocal]
    /\ reply' = [reply EXCEPT ![t] = [code |-> code, wrote |-> l.wrote, shown |-> shown,
                                      got |-> l.got, start |-> l.start,
                                      report |-> l.report]]

\* Where a request goes once the middleware has let it in, and after its route's check.
Checked(handler) == IF handler.limited THEN "clean up"
                    ELSE IF handler.op # "none" THEN "serve" ELSE handler.after
Entered(handler) == IF handler.check # "nothing" THEN "check" ELSE Checked(handler)

\* The opening goals were stored in some order.
StoredGoals == {g \in Goals : OpeningGoals[g].exists}
Init ==
    /\ accounts = OpeningAccounts
    /\ statements = [a \in Accounts |-> <<>>]
    /\ loans = OpeningLoans /\ goals = OpeningGoals
    /\ order \in Bijection(1 .. Cardinality(StoredGoals), StoredGoals)
    /\ operations = [a \in Accounts |-> <<>>]
    /\ cache = <<>> /\ redis = TRUE /\ client = "new"
    /\ clock = 0
    /\ pc = [t \in Threads |-> "idle"]
    /\ request = [t \in Threads |-> CHOOSE r \in Requests : TRUE]
    /\ local = [t \in Threads |-> NoLocal]
    /\ reply = [t \in Threads |-> NoReply]
    /\ menu \in Menus
    /\ issued = 0 /\ outages = 0
    /\ crowded = {} /\ settled = Accounts
    /\ admitted = [a \in Accounts |-> <<>>]

\* An account number that nobody has: like a deleted account, no row answers to it.  Requests
\* register with a password other than 0, so that no account becomes one again.
Unused == [balance |-> 0, active |-> FALSE, frozen |-> FALSE, deleted |-> TRUE,
           profile |-> 0, password |-> 0]
\* Ids of accounts, loans and goals are generated: no two requests create the same one.
FreshId(r) ==
    LET op == Routes[r.route].op
        Pending(u) == pc[u] # "idle"
    IN  /\ op = "register" => accounts[r.acc] = Unused /\ OpeningAccounts[r.acc] = Unused /\ \A u \in Threads :
                               Pending(u) => request[u].acc # r.acc
        /\ op = "apply" => loans[r.loan].owner = 0 /\ \A u \in Threads :
                               Pending(u) => request[u].loan # r.loan
        /\ op = "createGoal" => goals[r.goal].owner = 0 /\ \A u \in Threads :
                               Pending(u) => request[u].goal # r.goal

\* The accounts a request is about.
Parties(r) == IF Routes[r.route].reads \in {AccountQueries, LoanQueries} THEN Accounts
              ELSE {r.acc, r.to}
\* The accounts on which two requests meet.  A goal is whoever's names its id: the routes
\* and the service do not look at its owner.
Meeting(p, r) ==
    (Parties(p) \cap Parties(r))
        \cup IF {Routes[p.route].op, Routes[r.route].op} \subseteq GoalCalls /\ p.goal = r.goal
             THEN {p.acc, r.acc} ELSE {}

\* A request arrives and passes the middleware and the dependency of its route.
Arrive(t, r) ==
    /\ pc[t] = "idle" /\ issued < menu.most
    /\ r.route \in menu.routes /\ FreshId(r)
    /\ issued' = issued + 1
    /\ request' = [request EXCEPT ![t] = r]
    /\ IF CsrfRefuses(r) THEN Answer(t, NoLocal, 403, 0)
       ELSE IF AccountGone(r) THEN Answer(t, NoLocal, 401, 0)
       ELSE /\ Goto(t, Entered(Routes[r.route]))
            /\ reply' = [reply EXCEPT ![t] = NoReply]
            /\ local' = local
    /\ crowded' = crowded \cup UNION {Meeting(request[u], r) : u \in {v \in Threads : pc[v] # "idle"}}
    /\ UNCHANGED <<tables, operations, cacheVars, clock, menu, outages, admitted, settled>>

Check(t) ==
    /\ Serving(t, "check")
    /\ LET code == Refusal(request[t]) IN
       IF code # 0 THEN Answer(t, NoLocal, code, 0) ELSE Stay(t, Checked(RouteOf(t)))
    /\ UNCHANGED <<tables, operations, cacheVars, clock, request, boundVars, history>>

InWindow(now) == {ts \in Nat : ts > now - Window}
\* check_and_record, without a lock: the list of a window is made,
CleanUp(t) ==
    /\ Serving(t, "clean up")
    /\ local' = [local EXCEPT ![t].kept = Kept(operations[request[t].acc], InWindow(clock))]
    /\ Goto(t, "count")
    /\ UNCHANGED <<tables, operations, cacheVars, clock, request, reply, boundVars, history>>

\* stored and counted,
OneMore(count) == count > MaxOps \* mutant: one operation too many
Full(count) == count >= MaxOps
CountOperations(t) ==
    /\ Serving(t, "count")
    /\ operations' = [operations EXCEPT ![request[t].acc] = local[t].kept]
    /\ IF Full(Len(local[t].kept)) THEN Answer(t, NoLocal, 429, 0)
       ELSE Stay(t, "record")
    /\ UNCHANGED <<tables, cacheVars, clock, request, boundVars, history>>

\* and the operation appended.
Record(t) ==
    /\ Serving(t, "record")
    /\ operations' = [operations EXCEPT ![request[t].acc] = Append(@, clock)]
    /\ admitted' = [admitted EXCEPT ![request[t].acc] = Append(@, clock)]
    /\ Stay(t, "serve")
    /\ UNCHANGED <<tables, cacheVars, clock, request, boundVars, crowded, settled>>

-------------------------------------------------------------------------------
(* The service, and what follows it *)

RowsOf(r) == [account |-> accounts[r.acc], loan |-> loans[r.loan], goal |-> goals[r.goal]]
CallOf(r) == [op |-> Routes[r.route].op, acc |-> r.acc, value |-> r.value, terms |-> r.terms]
\* AuthService.customer_register: it refuses nothing; a failing notification changes nothing.
CustomerRegister(password) ==
    Done([NoWrites EXCEPT !.account = [balance |-> 0, active |-> TRUE, frozen |-> FALSE,
                                       deleted |-> FALSE, profile |-> 0, password |-> password]])
Verdict(r) ==
    CASE Routes[r.route].op = "transfer" ->
            TransferDecision(accounts[r.acc], accounts[r.to], r.acc = r.to, r.value)
      [] Routes[r.route].op = "register" -> CustomerRegister(r.value)
      [] OTHER -> Decision(CallOf(r), RowsOf(r))
Stamp(entry) == [type |-> entry.type, amount |-> entry.amount, balance |-> entry.balance,
                 at |-> clock]
Stamped(entries) == [i \in DOMAIN entries |-> Stamp(entries[i])]

\* The tables after the service's commit.
Transferred(r) ==
    LET out == EntryFor(accounts[r.acc], "TRANSFER_OUT", r.value)
        in == EntryFor(accounts[r.to], "TRANSFER_IN", r.value)
    IN  /\ accounts' = [accounts EXCEPT ![r.acc].balance = out.balance,
                                        ![r.to].balance = in.balance]
        /\ statements' = [statements EXCEPT ![r.acc] = Append(@, Stamp(out)),
                                            ![r.to] = Append(@, Stamp(in))]
        /\ UNCHANGED <<loans, goals, order>>
KeptOrder(op, drops, goal) == \* mutant: a deleted goal is still listed
    IF op = "createGoal" THEN Append(order, goal) ELSE order
RowOrder(op, drops, goal) ==
    IF drops THEN Kept(order, Goals \ {goal})
    ELSE IF op = "createGoal" THEN Append(order, goal) ELSE order
Committed(r, writes) ==
    LET op == Routes[r.route].op
        rows == RowsAfter(op, RowsOf(r), writes)
    IN  /\ accounts' = [accounts EXCEPT ![r.acc] = rows.account]
        /\ loans' = [loans EXCEPT ![r.loan] = rows.loan]
        /\ goals' = [goals EXCEPT ![r.goal] = rows.goal]
        /\ order' = RowOrder(op, writes.drops, r.goal)
        /\ statements' = [statements EXCEPT ![r.acc] = @ \o Stamped(writes.entries)]

InvalidatingRoutes == {"freeze", "unfreeze", "delete"}
Settling(t) ==
    settled' = IF \A a \in Accounts : Status(accounts'[a]) = Status(accounts[a])
                                      /\ accounts'[a].deleted = accounts[a].deleted
               THEN settled
               ELSE IF request[t].route \in InvalidatingRoutes /\ \A u \in Threads : pc[u] # "fill"
               THEN settled \cup {request[t].acc} ELSE settled \ {request[t].acc}

Serve(t) ==
    /\ Serving(t, "serve")
    /\ LET r == request[t]
           verdict == Verdict(r)
           after == RouteOf(t).after
           wrote == [local[t] EXCEPT !.wrote = TRUE]
       IN  \/ /\ ~verdict.ok
              /\ Answer(t, local[t], CodeOf(RouteOf(t), verdict.say), 0)
              /\ UNCHANGED <<tables, settled>>
           \/ /\ verdict.ok
              /\ IF RouteOf(t).op = "transfer" THEN Transferred(r)
                 ELSE Committed(r, verdict.writes)
              /\ Settling(t)
              /\ IF after = "answer" THEN Answer(t, wrote, 200, 0)
                 ELSE /\ Goto(t, after)
                      /\ local' = [local EXCEPT ![t] = wrote]
                      /\ reply' = reply
    /\ UNCHANGED <<operations, cacheVars, clock, request, boundVars, crowded, admitted>>

\* The created goal is looked up as the last of the account's goals.
OwnGoals(a) == Kept(order, {g \in Goals : goals[g].owner = a})
FirstGoal(mine) == Head(mine) \* mutant: the oldest goal is shown
ShownGoal(mine) == Last(mine)
ShowNewest(t) ==
    /\ Serving(t, "newest")
    /\ LET mine == OwnGoals(request[t].acc) IN
       IF mine = <<>> THEN Answer(t, local[t], 500, 0)
       ELSE Answer(t, local[t], 200, ShownGoal(mine))
    /\ UNCHANGED <<tables, operations, cacheVars, clock, request, boundVars, history>>

\* The goal a contribution went to is read again.
ShowGoal(t) ==
    /\ Serving(t, "goal")
    /\ LET g == request[t].goal IN
       IF goals[g].exists THEN Answer(t, local[t], 200, g) ELSE Answer(t, local[t], 404, 0)
    /\ UNCHANGED <<tables, operations, cacheVars, clock, request, boundVars, history>>

-------------------------------------------------------------------------------
(* RedisCache.  The exceptions of redis-py are not the ones the code catches. *)

Raises == client # "off" /\ ~redis
Reachable == client # "off" /\ redis
\* _connect tries once; a client that failed to connect is off for good.
Connect == client' = IF client = "new" THEN IF redis THEN "up" ELSE "off" ELSE client

Invalidate(t) ==
    /\ Serving(t, "invalidate")
    /\ Connect
    /\ cache' = IF Reachable THEN <<>> ELSE cache
    /\ settled' = IF Raises THEN settled \ {request[t].acc} ELSE settled
    /\ Answer(t, local[t], IF Raises THEN 500 ELSE 200, 0)
    /\ UNCHANGED <<tables, operations, redis, clock, request, boundVars, crowded, admitted>>

\* The cached list is looked up,
Lookup(t) ==
    /\ Serving(t, "lookup")
    /\ Connect
    /\ IF Raises THEN Answer(t, NoLocal, 500, 0)
       ELSE IF Reachable /\ Live(PageKey(request[t])) THEN Answer(t, NoLocal, 200, 0)
       ELSE Stay(t, "query")
    /\ UNCHANGED <<tables, operations, cache, redis, clock, request, boundVars, history>>

\* read from the database when it is not there,
Query(t) ==
    /\ Serving(t, "query")
    /\ local' = [local EXCEPT ![t].page = Page]
    /\ Goto(t, "fill")
    /\ UNCHANGED <<tables, operations, cacheVars, clock, request, reply, boundVars, history>>

\* and stored.
Fill(t) ==
    /\ Serving(t, "fill")
    /\ Connect
    /\ LET entry == [page |-> local[t].page, expires |-> clock + Ttl]
           key == PageKey(request[t])
       IN  cache' = IF Reachable THEN With(cache, key, entry) ELSE cache
    /\ Answer(t, NoLocal, IF Raises THEN 500 ELSE 200, 0)
    /\ UNCHANGED <<tables, operations, redis, clock, request, boundVars, history>>

\* v2_health_check pings the cache, and does not look at the answer.
Ping(t) ==
    /\ Serving(t, "ping")
    /\ Connect
    /\ Answer(t, NoLocal, IF client = "new" /\ ~redis THEN 500 ELSE 200, 0)
    /\ UNCHANGED <<tables, operations, cache, redis, clock, request, boundVars, history>>

\* A client asks for the next page, until it is told, or sees, that there is none.
NextPage(t) ==
    /\ Serving(t, "page")
    /\ LET r == request[t]
           first == local[t].got = <<>>
           page == IF r.route = "keyset" THEN Keyset(r.acc, PageSize, local[t].cursor)
                   ELSE Offset(r.acc, PageSize, IF first THEN 1 ELSE local[t].cursor)
           now == [local[t] EXCEPT !.got = @ \o page.items, !.cursor = page.cursor,
                                   !.start = IF first THEN Len(statements[r.acc]) ELSE @]
       IN  IF page.more THEN Goto(t, "page") /\ local' = [local EXCEPT ![t] = now] /\ reply' = reply
           ELSE Answer(t, now, 200, 0)
    /\ UNCHANGED <<tables, operations, cacheVars, clock, request, boundVars, history>>

\* A reader runs one query after the other; each sees what is committed by then.
Summary(mine) ==
    [goals |-> mine, saved |-> SumOf([g \in Range(mine) |-> goals[g].current]),
     target |-> SumOf([g \in Range(mine) |-> goals[g].target]),
     completed |-> Cardinality({g \in Range(mine) : goals[g].completed})]
Value(query, r) ==
    CASE query \in LoanStatus -> CountByStatus(query)
      [] query \in TransactionType -> TotalByType(query)
      [] query = "disbursed"   -> TotalDisbursed
      [] query = "outstanding" -> TotalOutstanding
      [] query = "aggregate"   -> Statistics
      [] query = "count"       -> CountTransactions
      [] query = "pending"     -> LoansIn({"PENDING"})
      [] query = "loans"       -> LoansIn(LoanStatus \ {"NONE"})
      [] query = "customers"   -> Cardinality(Listed(accounts))
      [] query = "page"        -> Page
      [] query = "statement"   -> Newest(r.acc)
      [] query = "mini"        -> FirstFew(Newest(r.acc), MiniLimit)
      [] query = "goals"       -> Summary(OwnGoals(r.acc))
\* History: how many rows a report is about, when its first query runs.
Rows(r) == IF Routes[r.route].reads = LoanQueries THEN Cardinality(LoansIn(LoanStatus \ {"NONE"}))
           ELSE Len(statements[r.acc])
RunQuery(t) ==
    /\ Serving(t, "report")
    /\ LET r == request[t]
           done == local[t].report
           queries == RouteOf(t).reads
           query == queries[Cardinality(DOMAIN done) + 1]
           now == [local[t] EXCEPT !.report = With(done, query, Value(query, r)),
                                   !.start = IF done = <<>> THEN Rows(r) ELSE @]
       IN  IF query = Last(queries) THEN Answer(t, now, 200, 0)
           ELSE Goto(t, "report") /\ local' = [local EXCEPT ![t] = now] /\ reply' = reply
    /\ UNCHANGED <<tables, operations, cacheVars, clock, request, boundVars, history>>

-------------------------------------------------------------------------------

Tick ==
    /\ clock < menu.ticks
    /\ clock' = clock + 1
    /\ UNCHANGED <<tables, operations, cacheVars, threadVars, boundVars, history>>

\* Redis stops answering, or answers again with what it held.
Outage ==
    /\ outages < menu.outages
    /\ outages' = outages + 1
    /\ redis' = ~redis
    /\ UNCHANGED <<tables, operations, cache, client, clock, threadVars, menu, issued, history>>

Closing == issued = menu.most /\ (\A t \in Threads : pc[t] = "idle") /\ UNCHANGED vars

Advance(t) ==
    \/ Check(t) \/ CleanUp(t) \/ CountOperations(t) \/ Record(t) \/ Serve(t)
    \/ ShowNewest(t) \/ ShowGoal(t)
    \/ Invalidate(t) \/ Lookup(t) \/ Query(t) \/ Fill(t) \/ Ping(t) \/ NextPage(t)
    \/ RunQuery(t)

Next ==
    \/ \E t \in Threads, r \in Requests : Arrive(t, r)
    \/ \E t \in Threads : Advance(t)
    \/ Tick
    \/ Outage
    \/ Closing

Spec == Init /\ [][Next]_vars

-------------------------------------------------------------------------------
(* Properties *)

Stages == {"idle", "check", "clean up", "count", "record", "serve", "newest", "goal",
           "invalidate", "lookup", "query", "fill", "ping", "page", "report"}

\* The types; the row order of the goals lists each stored goal once.
TypeOK ==
    /\ accounts \in [Accounts -> AccountRow]
    /\ loans \in [Loans -> LoanRow] /\ goals \in [Goals -> GoalRow]
    /\ Range(order) = {g \in Goals : goals[g].exists} /\ IsInjective(order)
    /\ pc \in [Threads -> Stages]
    /\ request \in [Threads -> Requests]
    /\ \A a \in Accounts : Range(operations[a]) \subseteq 0 .. clock
    /\ client \in {"new", "up", "off"} /\ redis \in BOOLEAN
    /\ \A k \in DOMAIN cache : k \in {"list", "search"} /\ cache[k].expires \in Nat

\* account_rate_limit.py: within any window the limiter lets MaxOps money movements of an
\* account pass, through whichever v1 routes, as long as its requests did not overlap: it
\* cleans up, counts and records without a lock.
LimiterHolds ==
    \A a \in Accounts \ crowded : \A ts \in 0 .. clock :
        Cardinality({i \in DOMAIN admitted[a] : admitted[a][i] \in ts .. ts + Window - 1}) <= MaxOps

Changing(a) == \E t \in Threads : pc[t] = "invalidate" /\ request[t].acc = a
\* The account list of the administrator tells the status of every account that a v1 route
\* changed last, from the moment the route has answered, unless Redis failed under it or
\* a list was being read: then an old list is stored after the new ones were deleted.
ListTellsStatus ==
    \A k \in DOMAIN cache : Live(k) => \A a \in settled :
        ~Changing(a) => /\ a \in DOMAIN cache[k].page <=> a \in Listed(accounts)
                        /\ a \in Listed(accounts) => cache[k].page[a] = Status(accounts[a])

\* A request that met no other on its accounts is answered with a success exactly when
\* it has changed something; only a failing Redis turns a committed change into an error.
AnswersTellOutcome ==
    \A t \in Threads : LET r == request[t] IN
        reply[t].code # 0 /\ Routes[r.route].op # "none" =>
            /\ reply[t].code = 200 => reply[t].wrote
            /\ reply[t].code # 200 /\ reply[t].wrote =>
                   \/ r.acc \in crowded
                   \/ outages > 0 /\ RouteOf(t).after = "invalidate"

\* A created goal is the one shown to its creator, unless requests of the account overlapped.
CreatedIsShown ==
    \A t \in Threads : LET r == request[t] IN
        RouteOf(t).op = "createGoal" /\ reply[t].code = 200 /\ r.acc \notin crowded =>
            reply[t].shown = r.goal

Apart(a, n) == \A i, j \in 1 .. n : i # j => statements[a][i].at # statements[a][j].at
Reading(r) == r.route \in {"keyset", "offset", "statement", "statementV2", "mini", "miniV2"}
\* A walk returns every transaction that was there when it began, newest first, whatever is
\* added meanwhile: with cursors exactly those and each once, unless timestamps are equal
\* (a cursor skips the rows of its own time); with page numbers possibly some twice.  A
\* statement has them all, a mini statement the last.
WalksAreComplete ==
    \A t \in Threads : LET r == request[t]
                           all == Reverse([i \in 1 .. reply[t].start |-> i]) IN
        reply[t].code = 200 /\ Reading(r) /\ Apart(r.acc, reply[t].start) =>
            /\ r.route = "keyset" => reply[t].got = all
            /\ r.route = "offset" => Range(all) \subseteq Range(reply[t].got)
            /\ "statement" \in DOMAIN reply[t].report => reply[t].report.statement = all
            /\ "mini" \in DOMAIN reply[t].report => reply[t].report.mini = FirstFew(all, MiniLimit)

NoRefund == \A g \in Goals : goals[g].exists \/ goals[g] = OpeningGoals[g]
NoDeletion == \A a \in Accounts : accounts[a].deleted => accounts[a] = OpeningAccounts[a]
Moves(a, types) == \A i \in DOMAIN statements[a] : statements[a][i].type \in types
OpeningBalance == SumOf([a \in Listed(OpeningAccounts) |-> OpeningAccounts[a].balance])
Classed(report) == SumOf([q \in LoanStatus \ {"NONE"} |-> report[q]])
ExportAddsUp(a) == SumOf(Exported(a)) = accounts[a].balance - OpeningAccounts[a].balance
\* AdminService.get_statistics and LoanService.get_loan_statistics read in several queries.
\* Loans that are approved, repaid or rejected meanwhile may be counted twice, and none is
\* missed; without other requests each is counted once, an account is active, frozen or
\* closed, and the deposits and withdrawals explain the total balance (as long as there was
\* nothing else: totals keep the transactions of deleted accounts, whose balance is gone).
\* The signed amounts of an exported statement add up to what the balance has changed by,
\* as long as no goal was deleted (a refund leaves no row, and goes to whoever names the
\* goal) and, as the export shows interest and loans with a minus, without those.
ReportsAddUp ==
    /\ \A a \in Accounts :
           NoRefund /\ Moves(a, TransactionType \ {"INTEREST", "LOAN_DISBURSEMENT"}) =>
               ExportAddsUp(a)
    /\ \A t \in Threads : LET report == reply[t].report IN
           /\ "REJECTED" \in DOMAIN report /\ reply[t].code = 200 =>
                  /\ Classed(report) >= reply[t].start
                  /\ crowded = {} => Classed(report) = reply[t].start
           /\ "aggregate" \in DOMAIN report /\ reply[t].code = 200 =>
                  LET now == report.aggregate IN
                  /\ now.active + now.frozen + now.closed = now.total
                  /\ crowded = {} /\ NoDeletion /\ goals = OpeningGoals
                     /\ (\A a \in Accounts :
                            Moves(a, {"DEPOSIT", "WITHDRAW", "TRANSFER_OUT", "TRANSFER_IN"})) =>
                        now.balance = OpeningBalance + report.DEPOSIT - report.WITHDRAW
===============================================================================
