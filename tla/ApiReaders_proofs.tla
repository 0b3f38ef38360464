------------------------- MODULE ApiReaders_proofs -------------------------
(***************************************************************************)
(* The clients that walk a statement page by page get it all, and the      *)
(* reports add up.  Both come of what the statements are: an export tells  *)
(* an account's balance (ExportsTrue), what left the accounts by transfer  *)
(* has reached them (TransfersPair), rows are never rewritten, and every   *)
(* commit gives later times than those before it (LedgerSound).  A page of *)
(* a statement is then a piece of it, counted from the newest row          *)
(* (KeysetIs, OffsetIs).  The invariant of the readers (ReadersSound) says *)
(* of a thread in the middle of a walk or a report what it has already     *)
(* read, while the others go on.                                           *)
(***************************************************************************)
EXTENDS Api_proofs, SequenceTheorems

-------------------------------------------------------------------------------
(* What the services book *)

\* What the export shows of the entries of a commit, and entries it shows as they are.
Shows(e) == IF e = <<>> THEN 0 ELSE Sign(e[1].type) * e[1].amount
Plain(e) == e # <<>> => e[1].type \notin {"INTEREST", "LOAN_DISBURSEMENT"}
Leg(e) == e # <<>> /\ e[1].type \in {"TRANSFER_OUT", "TRANSFER_IN"}
\* The life of a loan.
Lives(old, new) ==
    \/ new = old
    \/ old = "NONE" /\ new = "PENDING"
    \/ old = "PENDING" /\ new \in {"ACTIVE", "REJECTED"}
    \/ old \in {"APPROVED", "ACTIVE"} /\ new = "CLOSED"
AccountBooked(c, rows, w, new) ==
    /\ AtMostOne(w.entries)
    /\ c.op # "deleteGoal" /\ Plain(w.entries) =>
           new.balance = rows.account.balance + Shows(w.entries)
    /\ c.op = "deleteGoal" => w.entries = <<>>
    /\ Leg(w.entries) => c.op = "contribute"
    /\ rows.account.deleted => new = rows.account

LEMMA AccountBooks ==
  ASSUME NEW c, GoodCall(c), NEW rows, GoodRows(rows), NEW w, PlanIs(c, rows, w),
         NEW new, new = UpdateRow(w.account, rows.account, rows.account)
  PROVE  AccountBooked(c, rows, w, new)
<1> DEFINE r == rows.account
<1>0. /\ c.value \in Int /\ r \in AccountRow /\ r.balance \in Int
      /\ rows.loan.principal \in Int /\ rows.loan.remaining \in Int
      /\ MonthlyInterest(r.balance) \in Int
  BY RowsTyped
<1>1. AtMostOne(w.entries)
  BY PlanTyped DEF TypedPlan
<1>2. new.balance = Balance(w.account, r) /\ new \in AccountRow
  <2>1. w.account \in AccountWrites
    BY PlanTyped DEF TypedPlan
  <2>2. QED
    BY <1>0, <2>1, AccountRowKept, UpdatedAccount DEF Assigned, Balance
<1>a. UpdateRow(<<>>, r, r) = r
  BY <1>0, NothingUpdated DEF AccountRow
<1> DEFINE Moved(type, amount) == [type |-> type, amount |-> amount,
                                   balance |-> EntryFor(r, type, amount).balance]
<1>b. ASSUME NEW type \in TransactionType, NEW amount \in Int, MovesBalance(w, r, type, amount)
      PROVE  /\ w.entries # <<>> /\ w.entries[1].type = type
             /\ type \notin {"INTEREST", "LOAN_DISBURSEMENT"} =>
                    new.balance = r.balance + Shows(w.entries)
  <2>1. w.entries = <<Moved(type, amount)>>
    BY <1>b, Zenon DEF MovesBalance
  <2>2. w.entries # <<>> /\ w.entries[1] = Moved(type, amount)
    BY <2>1
  <2>3. w.entries[1].type = type /\ w.entries[1].amount = amount
    BY <2>2
  <2>4. Shows(w.entries) = Sign(type) * amount
    BY <2>2, <2>3, Zenon DEF Shows
  <2> DEFINE b == EntryFor(r, type, amount).balance
  <2>5. b = r.balance + IF type \in {"DEPOSIT", "TRANSFER_IN", "INTEREST", "LOAN_DISBURSEMENT"}
                        THEN amount ELSE -amount
    BY DEF EntryFor
  <2>6. b \in Int
    BY <1>0, <2>5
  <2> HIDE DEF b
  <2>7. new.balance = b
    <3>1. [r EXCEPT !.balance = b] \in AccountRow /\ [r EXCEPT !.balance = b].balance = b
      BY <1>0, <2>6 DEF AccountRow
    <3>2. w.account = AccountColumns([r EXCEPT !.balance = b])
      BY <1>b, Zenon DEF MovesBalance, b
    <3> DEFINE x == [r EXCEPT !.balance = b]
    <3>a. x \in AccountRow /\ x.balance = b
      BY <3>1
    <3> HIDE DEF x
    <3>b. AccountColumns(x) = [balance |-> x.balance, active |-> x.active,
              frozen |-> x.frozen, profile |-> x.profile, password |-> x.password]
      BY <3>a, AccountColumnsOf
    <3>3. "balance" \in DOMAIN w.account /\ w.account.balance = b
      BY <3>2, <3>a, <3>b DEF x
    <3>4. QED
      BY <1>2, <3>3 DEF Balance
  <2>8. QED
    BY <1>0, <2>2, <2>3, <2>4, <2>5, <2>7 DEF Sign, TransactionType
<1>c. ASSUME NEW cols, w.account = cols, "balance" \notin DOMAIN cols PROVE new.balance = r.balance
  BY <1>2, <1>c DEF Balance
<1>d. ASSUME NEW x \in AccountRow, w.account = AccountColumns(x), x.balance = r.balance
      PROVE  new.balance = r.balance
  <2>1. w.account.balance = r.balance
    BY <1>d, AccountColumnsOf
  <2>2. QED
    BY <1>2, <2>1 DEF Balance
<1>e. Shows(<<>>) = 0
  BY DEF Shows
<1>3. CASE c.op = "deposit"
  <2>1. MovesBalance(w, r, "DEPOSIT", c.value) /\ ~r.deleted
    BY <1>3 DEF PlanIs, Usable
  <2>2. QED
    BY <1>0, <1>1, <1>3, <1>b, <2>1 DEF AccountBooked, Leg, TransactionType
<1>4. CASE c.op = "withdraw"
  <2>1. MovesBalance(w, r, "WITHDRAW", c.value) /\ ~r.deleted
    BY <1>4 DEF PlanIs, Usable
  <2>2. QED
    BY <1>0, <1>1, <1>4, <1>b, <2>1 DEF AccountBooked, Leg, TransactionType
<1>5. CASE c.op = "interest"
  <2>1. MovesBalance(w, r, "INTEREST", MonthlyInterest(r.balance)) /\ ~r.deleted
    BY <1>5 DEF PlanIs, Usable
  <2>2. w.entries # <<>> /\ w.entries[1].type = "INTEREST"
    BY <1>0, <1>b, <2>1 DEF TransactionType
  <2>3. QED
    BY <1>1, <1>5, <2>1, <2>2 DEF AccountBooked, Leg, Plain
<1>6. CASE c.op = "approve"
  <2>1. MovesBalance(w, r, "LOAN_DISBURSEMENT", rows.loan.principal) /\ ~r.deleted
    BY <1>6 DEF PlanIs, Usable
  <2>2. w.entries # <<>> /\ w.entries[1].type = "LOAN_DISBURSEMENT"
    BY <1>0, <1>b, <2>1 DEF TransactionType
  <2>3. QED
    BY <1>1, <1>6, <2>1, <2>2 DEF AccountBooked, Leg, Plain
<1>7. CASE c.op = "payEmi"
  <2>1. PICK p \in Int : MovesBalance(w, r, "LOAN_REPAYMENT", Min({p, rows.loan.remaining}))
    BY <1>7 DEF PlanIs
  <2>2. Min({p, rows.loan.remaining}) \in Int /\ ~r.deleted
    BY <1>0, <1>7, MinOfTwo DEF PlanIs, Usable
  <2>3. QED
    BY <1>1, <1>7, <1>b, <2>1, <2>2 DEF AccountBooked, Leg, TransactionType
<1>8. CASE c.op = "contribute"
  <2>1. MovesBalance(w, r, "TRANSFER_OUT", c.value) /\ ~r.deleted
    BY <1>8 DEF PlanIs
  <2>2. QED
    BY <1>0, <1>1, <1>8, <1>b, <2>1 DEF AccountBooked, Leg, TransactionType
<1>9. CASE c.op = "profile"
  <2>1. /\ w.account = AccountColumns([r EXCEPT !.profile = c.value]) /\ w.entries = <<>>
        /\ ~r.deleted /\ c.value \in Nat
    BY <1>0, <1>9 DEF PlanIs, Assigns, GoodCall
  <2>2. /\ [r EXCEPT !.profile = c.value] \in AccountRow
        /\ [r EXCEPT !.profile = c.value].balance = r.balance
    BY <1>0, <2>1 DEF AccountRow
  <2>3. new.balance = r.balance
    BY <1>d, <2>1, <2>2
  <2>4. QED
    BY <1>0, <1>1, <1>9, <1>e, <2>1, <2>3 DEF AccountBooked, Leg
<1>10. CASE c.op = "password"
  <2>1. /\ w.account = AccountColumns([r EXCEPT !.password = c.value]) /\ w.entries = <<>>
        /\ ~r.deleted /\ c.value \in Nat
    BY <1>0, <1>10 DEF PlanIs, Assigns, GoodCall
  <2>2. /\ [r EXCEPT !.password = c.value] \in AccountRow
        /\ [r EXCEPT !.password = c.value].balance = r.balance
    BY <1>0, <2>1 DEF AccountRow
  <2>3. new.balance = r.balance
    BY <1>d, <2>1, <2>2
  <2>4. QED
    BY <1>0, <1>1, <1>10, <1>e, <2>1, <2>3 DEF AccountBooked, Leg
<1>11. CASE c.op = "close"
  <2>1. /\ w.account = AccountColumns([r EXCEPT !.active = FALSE]) /\ w.entries = <<>>
        /\ ~r.deleted
    BY <1>11 DEF PlanIs, Assigns
  <2>2. /\ [r EXCEPT !.active = FALSE] \in AccountRow
        /\ [r EXCEPT !.active = FALSE].balance = r.balance
    BY <1>0 DEF AccountRow
  <2>3. new.balance = r.balance
    BY <1>d, <2>1, <2>2
  <2>4. QED
    BY <1>0, <1>1, <1>11, <1>e, <2>1, <2>3 DEF AccountBooked, Leg
<1>12. CASE c.op \in {"freeze", "unfreeze", "delete"}
  <2>1. "balance" \notin DOMAIN w.account /\ w.entries = <<>> /\ ~r.deleted
    BY <1>12 DEF PlanIs, Assigns
  <2>2. new.balance = r.balance
    BY <1>c, <2>1
  <2>3. QED
    BY <1>0, <1>1, <1>12, <1>e, <2>1, <2>2 DEF AccountBooked, Leg
<1>13. CASE c.op \in {"apply", "reject", "createGoal", "updateGoal"}
  <2>1. w.account = <<>> /\ w.entries = <<>>
    BY <1>13 DEF PlanIs, Assigns
  <2>2. new = r
    BY <1>a, <2>1
  <2>3. QED
    BY <1>0, <1>1, <1>13, <1>e, <2>1, <2>2 DEF AccountBooked, Leg
<1>14. CASE c.op = "deleteGoal"
  <2>1. w.entries = <<>> /\ (r.deleted => w.account = <<>>)
    BY <1>14 DEF PlanIs, Assigns
  <2>2. r.deleted => new = r
    BY <1>a, <2>1
  <2>3. QED
    BY <1>1, <1>14, <2>1, <2>2 DEF AccountBooked, Leg
<1>15. QED
  BY <1>3, <1>4, <1>5, <1>6, <1>7, <1>8, <1>9, <1>10, <1>11, <1>12, <1>13, <1>14 DEF GoodCall, Ops

LEMMA LoanLives ==
  ASSUME NEW c, GoodCall(c), NEW rows, GoodRows(rows), NEW w, PlanIs(c, rows, w),
         c.op = "apply" => rows.loan.owner = 0,
         NEW new, new = UpdateRow(w.loan, rows.loan, rows.loan)
  PROVE  Lives(rows.loan.status, new.status)
<1> DEFINE r == rows.loan
<1>0. r \in LoanRow /\ SoundLoan(r) /\ LoanPlan(c, rows, w) /\ ScopedPlan(c, w)
  BY PlanLoan, PlanScoped DEF GoodRows
<1>1. new.status = Assigned(w.loan, r, r, "status")
  BY <1>0, UpdatedLoan
<1> HIDE DEF r
<1>2. new.status = r.status \/ new.status = w.loan.status
  BY <1>1 DEF Assigned
<1>3. CASE c.op \notin LoanCalls
  <2>1. w.loan = <<>>
    BY <1>0, <1>3 DEF ScopedPlan
  <2>2. new.status = r.status
    BY <1>1, <2>1 DEF Assigned
  <2>3. QED
    BY <2>2 DEF Lives, r
<1>4. CASE c.op = "apply"
  <2>1. r.status = "NONE" /\ w.loan.status = "PENDING"
    BY <1>0, <1>4 DEF LoanPlan, SoundLoan, NoLoan, r
  <2>2. QED
    BY <1>2, <2>1 DEF Lives, r
<1>5. CASE c.op = "approve"
  <2>1. r.status = "PENDING" /\ w.loan.status = "ACTIVE"
    BY <1>0, <1>5 DEF LoanPlan, r
  <2>2. QED
    BY <1>2, <2>1 DEF Lives, r
<1>6. CASE c.op = "reject"
  <2>1. r.status = "PENDING" /\ w.loan.status = "REJECTED"
    BY <1>0, <1>6 DEF LoanPlan, r
  <2>2. QED
    BY <1>2, <2>1 DEF Lives, r
<1>7. CASE c.op = "payEmi"
  <2>1. r.status \in {"APPROVED", "ACTIVE"} /\ w.loan.status \in {"CLOSED", r.status}
    BY <1>0, <1>7 DEF LoanPlan, r
  <2>2. QED
    BY <1>2, <2>1 DEF Lives, r
<1>8. QED
  BY <1>3, <1>4, <1>5, <1>6, <1>7 DEF LoanCalls

\* A contribution raises what a goal holds; only a goal that is there, or a new one, changes.
GoalBooked(c, old, new) ==
    /\ c.op = "contribute" => new.current > old.current
    /\ c.op \notin {"contribute", "createGoal"} => new.current = old.current
    /\ c.op = "deleteGoal" => old.exists /\ ~new.exists
    /\ new = old \/ old.exists \/ c.op = "createGoal"
LEMMA GoalBooks ==
  ASSUME NEW c, GoodCall(c), NEW rows, GoodRows(rows), NEW w, PlanIs(c, rows, w),
         NEW new, new = RowsAfter(c.op, rows, w).goal
  PROVE  GoalBooked(c, rows.goal, new)
<1> DEFINE r == rows.goal
<1>0. /\ r \in GoalRow /\ GoalPlan(c, rows, w) /\ ScopedPlan(c, w) /\ c.value \in Int
      /\ r.current \in Int /\ r.exists \in BOOLEAN
  BY RowsTyped, PlanGoal, PlanScoped
<1>1. new = IF w.drops THEN [r EXCEPT !.exists = FALSE]
            ELSE IF w.adds # 0 THEN UpdateRow(Contribution(r, w.adds), r, r)
            ELSE IF r.exists \/ c.op = "createGoal" THEN UpdateRow(w.goal, r, r) ELSE r
  BY DEF RowsAfter
<1>2. UpdateRow(<<>>, r, r) = r
  BY <1>0, NothingUpdated DEF GoalRow
<1>3. /\ c.op \in GoalCalls \ {"createGoal"} => r.exists
  BY <1>0 DEF GoalPlan
<1> HIDE DEF r
<1>4. CASE c.op \notin GoalCalls
  <2>1. w.goal = <<>> /\ w.adds = 0 /\ w.drops = FALSE
    BY <1>0, <1>4 DEF ScopedPlan, GoalIdle
  <2>2. new = r
    BY <1>1, <1>2, <2>1
  <2>3. QED
    BY <1>4, <2>2 DEF GoalBooked, GoalCalls, r
<1>5. CASE c.op = "createGoal"
  BY <1>5 DEF GoalBooked
<1>6. CASE c.op = "contribute"
  <2>1. w.adds = c.value /\ w.drops = FALSE /\ c.value > 0
    BY <1>0, <1>6 DEF GoalPlan
  <2> DEFINE cols == Contribution(r, w.adds)
  <2>2. new = UpdateRow(cols, r, r)
    BY <1>0, <1>1, <2>1
  <2>3. "current" \in DOMAIN cols /\ cols.current = r.current + c.value
    BY <2>1 DEF Contribution
  <2> HIDE DEF cols
  <2>4. new.current = r.current + c.value
    BY <1>0, <2>2, <2>3, UpdatedGoal DEF Assigned
  <2>5. QED
    BY <1>0, <1>3, <1>6, <2>1, <2>4 DEF GoalBooked, GoalCalls, r
<1>7. CASE c.op = "deleteGoal"
  <2>1. w.drops = TRUE
    BY <1>0, <1>7 DEF GoalPlan
  <2>2. new.current = r.current /\ ~new.exists
    BY <1>0, <1>1, <2>1 DEF GoalRow
  <2>3. QED
    BY <1>3, <1>7, <2>2 DEF GoalBooked, GoalCalls, r
<1>8. CASE c.op = "updateGoal"
  <2>1. /\ w.drops = FALSE /\ w.adds = 0 /\ w.goal.current = r.current
        /\ "current" \in DOMAIN w.goal
    BY <1>0, <1>8 DEF GoalPlan, r
  <2>2. new = UpdateRow(w.goal, r, r)
    BY <1>1, <1>3, <1>8, <2>1 DEF GoalCalls
  <2>3. new.current = r.current
    BY <1>0, <2>1, <2>2, UpdatedGoal DEF Assigned
  <2>4. QED
    BY <1>3, <1>8, <2>3 DEF GoalBooked, GoalCalls, r
<1>9. QED
  BY <1>4, <1>5, <1>6, <1>7, <1>8 DEF GoalCalls

-------------------------------------------------------------------------------
(* What a served request books *)

\* A stamped row; the statements grow in the order of time.
Entry == [type : TransactionType, amount : Int, balance : Int, at : Nat]
InOrder(s) == \A i, j \in DOMAIN s : i <= j => s[i].at <= s[j].at
LedgerSound ==
    /\ clock \in Nat /\ statements \in [Accounts -> Seq(Entry)]
    /\ \A a \in Accounts : InOrder(statements[a])
                           /\ \A i \in DOMAIN statements[a] : statements[a][i].at <= clock

\* A number that is about to be registered is nobody's, and nobody else registers it.
NumbersFree ==
    /\ \A t \in Threads : Creates(t, "register") =>
           accounts[request[t].acc] = Unused /\ OpeningAccounts[request[t].acc] = Unused
    /\ \A t, u \in Threads : t # u /\ Creates(t, "register") /\ Creates(u, "register") =>
           request[t].acc # request[u].acc

\* Of an account: at most one row is added, and explains the balance unless it is interest
\* or a loan, or there is none because a goal is refunded.
Books(t, a, e) ==
    /\ AtMostOne(e) /\ statements'[a] = statements[a] \o Stamped(e)
    /\ OpOf(t) # "deleteGoal" /\ Plain(e) =>
           accounts'[a].balance = accounts[a].balance + Shows(e)
    /\ Leg(e) => OpOf(t) \in {"transfer", "contribute"}
    /\ accounts[a].deleted =>
           accounts'[a] = accounts[a] \/ (OpOf(t) = "register" /\ a = request[t].acc)
\* The legs of a transfer.
Leaves(type, amount, old, new) ==
    \E x \in Entry : x.type = type /\ x.amount = amount /\ new = Append(old, x)
Transfers(r) ==
    /\ r.acc # r.to
    /\ Leaves("TRANSFER_OUT", r.value, statements[r.acc], statements'[r.acc])
    /\ Leaves("TRANSFER_IN", r.value, statements[r.to], statements'[r.to])
    /\ \A a \in Accounts \ {r.acc, r.to} : statements'[a] = statements[a]
Booked(t) ==
    /\ statements' = [a \in Accounts |-> statements'[a]]
    /\ \A a \in Accounts : \E e : Books(t, a, e)
    /\ OpOf(t) = "transfer" => Transfers(request[t])
    /\ \A l \in Loans : Lives(loans[l].status, loans'[l].status)
    /\ \A g \in Goals \ {request[t].goal} : goals'[g] = goals[g]
    /\ GoalBooked([op |-> OpOf(t)], goals[request[t].goal], goals'[request[t].goal])

LEMMA StampedRows ==
  ASSUME NEW e \in Transaction
  PROVE  Stamped(<<>>) = <<>> /\ Stamped(<<e>>) = <<Stamp(e)>> /\ Stamp(e).type = e.type
         /\ Stamp(e).amount = e.amount /\ Stamp(e).at = clock
<1>1. DOMAIN <<>> = {} /\ DOMAIN <<e>> = {1}
  OBVIOUS
<1>2. /\ Stamped(<<>>) = [i \in {} |-> Stamp(<<>>[i])]
      /\ Stamped(<<e>>) = [i \in {1} |-> Stamp(<<e>>[i])]
  BY <1>1 DEF Stamped
<1>3. <<e>>[1] = e
  OBVIOUS
<1>4. Stamped(<<>>) = <<>>
  BY <1>2
<1> DEFINE x == Stamp(e)
<1>5. x.type = e.type /\ x.amount = e.amount /\ x.at = clock
  BY DEF Stamp
<1>6. Stamped(<<e>>) = [i \in {1} |-> x]
  BY <1>2, <1>3
<1> HIDE DEF x
<1>7. Stamped(<<e>>) = <<x>>
  BY <1>6
<1>8. QED
  BY <1>4, <1>5, <1>7 DEF x

\* Nothing is booked on an account that a commit does not reach.
LEMMA BooksNothing ==
  ASSUME LedgerSound, RowsSound, NEW t \in Threads, NEW a \in Accounts,
         statements'[a] = statements[a], accounts'[a] = accounts[a]
  PROVE  Books(t, a, <<>>)
<1>1. statements[a] \in Seq(Entry) /\ accounts[a].balance \in Int
  BY DEF LedgerSound, RowsSound, AccountRow
<1>2. Stamped(<<>>) = <<>>
  BY DEF Stamped
<1>3. statements[a] \o <<>> = statements[a]
  BY <1>1
<1>4. AtMostOne(<<>>) /\ Shows(<<>>) = 0 /\ ~Leg(<<>>)
  BY DEF AtMostOne, Shows, Leg
<1>5. QED
  BY <1>1, <1>2, <1>3, <1>4 DEF Books

LEMMA CallBooks ==
  ASSUME ThreadsSound, RowsSound, IdsFree, LedgerSound, NEW t \in Threads, pc[t] = "serve",
         OpOf(t) \in Ops, Verdict(request[t]).ok, Committed(request[t], Verdict(request[t]).writes)
  PROVE  Booked(t)
<1> DEFINE r == request[t]
           c == CallOf(r)
           rows == RowsOf(r)
           w == Decision(c, rows).writes
           after == RowsAfter(OpOf(t), rows, w)
<1>0. /\ r \in Requests /\ r.acc \in Accounts /\ r.loan \in Loans /\ r.goal \in Goals
      /\ r.value \in Int /\ r.terms \in Terms /\ Offers(r) /\ Routes[r.route].op = OpOf(t)
  BY AtStage, RequestFields DEF OpOf, RouteOf
<1>1. Verdict(r) = Decision(c, rows)
  <2>1. OpOf(t) # "transfer" /\ OpOf(t) # "register"
    BY DEF Ops
  <2> HIDE DEF c, rows
  <2>2. QED
    BY <1>0, <2>1, Zenon DEF Verdict, c, rows
<1>2. c.op = OpOf(t) /\ c.acc = r.acc /\ c.value = r.value /\ c.terms = r.terms
  BY <1>0 DEF CallOf
<1>3. /\ rows.account = accounts[r.acc] /\ rows.loan = loans[r.loan] /\ rows.goal = goals[r.goal]
  BY DEF RowsOf
<1> HIDE DEF rows, c
<1>4. GoodCall(c)
  <2>1. r.acc \in Nat /\ r.acc # 0
    BY <1>0, ApiAssumption
  <2>2. OpOf(t) \in {"profile", "password", "updateGoal"} => r.value >= 0
    <3>1. OpOf(t) # "password"
      <4>1. Suits(request[t].route, RouteOf(t))
        BY AtStage, Zenon
      <4>2. OpOf(t) \in (Ops \ {"password"}) \cup {"none", "transfer", "register"}
        BY <4>1, Zenon DEF Suits, OpOf
      <4>3. QED
        BY <4>2
    <3>2. QED
      BY <1>0, <3>1 DEF Offers
  <2>3. QED
    BY <1>0, <1>2, <2>1, <2>2 DEF GoodCall
<1>5. GoodRows(rows)
  BY <1>0, <1>3 DEF RowsSound, GoodRows
<1>6. c.op = "apply" => rows.loan.owner = 0
  <2>1. OpOf(t) = "apply" => Creates(t, "apply")
    BY DEF Creates, Before
  <2>2. QED
    BY <1>2, <1>3, <2>1 DEF IdsFree
<1>7. PlanIs(c, rows, w) /\ Committed(r, w)
  BY <1>1, <1>4, <1>5, AcceptedPlan
<1>8. /\ accounts' = [accounts EXCEPT ![r.acc] = after.account]
      /\ loans' = [loans EXCEPT ![r.loan] = after.loan]
      /\ goals' = [goals EXCEPT ![r.goal] = after.goal]
      /\ statements' = [statements EXCEPT ![r.acc] = @ \o Stamped(w.entries)]
  <2> HIDE DEF w
  <2>1. QED
    BY <1>0, <1>7, Zenon DEF Committed, rows
<1>9. /\ after.account = UpdateRow(w.account, rows.account, rows.account)
      /\ after.loan = UpdateRow(w.loan, rows.loan, rows.loan)
      /\ after.goal = RowsAfter(c.op, rows, w).goal
  BY <1>2 DEF RowsAfter
<1> HIDE DEF w, after
<1>10. /\ AccountBooked(c, rows, w, after.account)
       /\ Lives(rows.loan.status, after.loan.status)
       /\ GoalBooked(c, rows.goal, after.goal)
  BY <1>4, <1>5, <1>6, <1>7, <1>9, AccountBooks, LoanLives, GoalBooks
<1>11. /\ accounts \in [Accounts -> AccountRow] /\ statements \in [Accounts -> Seq(Entry)]
       /\ loans \in [Loans -> LoanRow] /\ goals \in [Goals -> GoalRow]
  BY DEF RowsSound, LedgerSound
<1>12. ASSUME NEW a \in Accounts PROVE \E e : Books(t, a, e)
  <2>1. CASE a = r.acc
    <3>1. accounts'[a] = after.account /\ statements'[a] = statements[a] \o Stamped(w.entries)
      BY <1>0, <1>8, <1>11, <2>1
    <3>2. Books(t, a, w.entries)
      BY <1>2, <1>3, <1>10, <2>1, <3>1 DEF AccountBooked, Books
    <3>3. QED
      BY <3>2
  <2>2. CASE a # r.acc
    <3>1. accounts'[a] = accounts[a] /\ statements'[a] = statements[a]
      BY <1>8, <1>11, <2>2
    <3>2. QED
      BY <3>1, BooksNothing
  <2>3. QED
    BY <2>1, <2>2
<1>13. \A l \in Loans : Lives(loans[l].status, loans'[l].status)
  <2>1. loans'[r.loan] = after.loan /\ \A l \in Loans : l # r.loan => loans'[l] = loans[l]
    BY <1>0, <1>8, <1>11
  <2>2. QED
    BY <1>3, <1>10, <2>1 DEF Lives
<1>14. /\ \A g \in Goals \ {r.goal} : goals'[g] = goals[g]
       /\ goals'[r.goal] = after.goal
  BY <1>0, <1>8, <1>11
<1>15. GoalBooked([op |-> OpOf(t)], goals[r.goal], goals'[r.goal])
  BY <1>2, <1>3, <1>10, <1>14 DEF GoalBooked
<1>16. statements' = [a \in Accounts |-> statements'[a]] /\ OpOf(t) # "transfer"
  BY <1>8, <1>11 DEF Ops
<1>17. QED
  BY <1>12, <1>13, <1>14, <1>15, <1>16 DEF Booked

LEMMA RegisterBooks ==
  ASSUME ThreadsSound, RowsSound, NumbersFree, LedgerSound, NEW t \in Threads, pc[t] = "serve",
         OpOf(t) = "register", Committed(request[t], Verdict(request[t]).writes)
  PROVE  Booked(t) /\ \A a \in Accounts \ {request[t].acc} : accounts'[a] = accounts[a]
<1> DEFINE r == request[t]
           rows == RowsOf(r)
           new == [balance |-> 0, active |-> TRUE, frozen |-> FALSE, deleted |-> FALSE,
                   profile |-> 0, password |-> r.value]
           w == [NoWrites EXCEPT !.account = new]
           after == RowsAfter("register", rows, w)
<1>0. /\ r \in Requests /\ r.acc \in Accounts /\ r.loan \in Loans /\ r.goal \in Goals
  BY AtStage, RequestFields, Zenon
<1>1. Verdict(r).writes = w
  <2>1. Verdict(r) = CustomerRegister(r.value)
    BY Zenon DEF Verdict, OpOf, RouteOf
  <2>2. QED
    BY <2>1 DEF CustomerRegister, Done
<1>2. /\ w.account = new /\ w.loan = <<>> /\ w.goal = <<>> /\ w.adds = 0 /\ w.drops = FALSE
      /\ w.entries = <<>> /\ new.balance = 0 /\ "balance" \in DOMAIN new
  BY DEF NoWrites
<1>3. /\ rows.account = accounts[r.acc] /\ rows.loan = loans[r.loan] /\ rows.goal = goals[r.goal]
      /\ rows.account \in AccountRow /\ rows.loan \in LoanRow /\ rows.goal \in GoalRow
  BY <1>0 DEF RowsSound, RowsOf
<1>4. accounts[r.acc] = Unused
  BY DEF NumbersFree, Creates, Before
<1> HIDE DEF rows, w, new
<1>5. /\ after.account = UpdateRow(new, rows.account, rows.account)
      /\ after.loan = UpdateRow(<<>>, rows.loan, rows.loan)
      /\ after.goal = UpdateRow(<<>>, rows.goal, rows.goal) \/ after.goal = rows.goal
  BY <1>2 DEF RowsAfter
<1>6. after.loan = rows.loan /\ after.goal = rows.goal
  <2>1. rows.loan = [col \in DOMAIN rows.loan |-> rows.loan[col]]
        /\ rows.goal = [col \in DOMAIN rows.goal |-> rows.goal[col]]
    BY <1>3 DEF LoanRow, GoalRow
  <2> HIDE DEF after
  <2>2. QED
    BY <1>5, <2>1, NothingUpdated
<1>7. after.account.balance = 0 /\ rows.account.balance = 0
  <2>1. after.account.balance = Assigned(new, rows.account, rows.account, "balance")
    BY <1>3, <1>5, UpdatedAccount
  <2>2. rows.account.balance = 0
    BY <1>3, <1>4 DEF Unused
  <2>3. QED
    BY <1>2, <2>1, <2>2 DEF Assigned
<1>8. /\ accounts' = [accounts EXCEPT ![r.acc] = after.account]
      /\ loans' = [loans EXCEPT ![r.loan] = after.loan]
      /\ goals' = [goals EXCEPT ![r.goal] = after.goal]
      /\ statements' = [statements EXCEPT ![r.acc] = @ \o Stamped(w.entries)]
  <2>1. Routes[r.route].op = "register" /\ Committed(r, w)
    BY <1>1 DEF OpOf, RouteOf
  <2>2. QED
    BY <2>1, Zenon DEF Committed, rows
<1> HIDE DEF after
<1>9. /\ accounts \in [Accounts -> AccountRow] /\ statements \in [Accounts -> Seq(Entry)]
      /\ loans \in [Loans -> LoanRow] /\ goals \in [Goals -> GoalRow]
  BY DEF RowsSound, LedgerSound
<1>10. /\ loans' = loans /\ goals' = goals
  BY <1>0, <1>3, <1>6, <1>8, <1>9
<1>11. ASSUME NEW a \in Accounts PROVE \E e : Books(t, a, e)
  <2>1. CASE a = r.acc
    <3>1. accounts'[a] = after.account /\ statements'[a] = statements[a] \o Stamped(w.entries)
      BY <1>0, <1>8, <1>9, <2>1
    <3>2. AtMostOne(<<>>) /\ Shows(<<>>) = 0 /\ ~Leg(<<>>)
      BY DEF AtMostOne, Shows, Leg
    <3>3. Books(t, a, <<>>)
      BY <1>2, <1>3, <1>7, <2>1, <3>1, <3>2 DEF Books
    <3>4. QED
      BY <3>3
  <2>2. CASE a # r.acc
    <3>1. accounts'[a] = accounts[a] /\ statements'[a] = statements[a]
      BY <1>8, <1>9, <2>2
    <3>2. QED
      BY <3>1, BooksNothing
  <2>3. QED
    BY <2>1, <2>2
<1>12. GoalBooked([op |-> OpOf(t)], goals[r.goal], goals'[r.goal])
  BY <1>10 DEF GoalBooked
<1>13. /\ statements' = [a \in Accounts |-> statements'[a]]
       /\ \A a \in Accounts \ {r.acc} : accounts'[a] = accounts[a]
  BY <1>8, <1>9
<1>14. QED
  BY <1>10, <1>11, <1>12, <1>13 DEF Booked, Lives

LEMMA AppendOne ==
  ASSUME NEW T, NEW s \in Seq(T), NEW x \in T
  PROVE  Append(s, x) = s \o <<x>>
OBVIOUS

LEMMA TransferBooks ==
  ASSUME ThreadsSound, RowsSound, LedgerSound, NEW t \in Threads, OpOf(t) = "transfer",
         Verdict(request[t]).ok, Transferred(request[t])
  PROVE  Booked(t)
<1> DEFINE r == request[t]
           s == accounts[r.acc]
           d == accounts[r.to]
           out == EntryFor(s, "TRANSFER_OUT", r.value)
           in == EntryFor(d, "TRANSFER_IN", r.value)
<1>0. /\ r \in Requests /\ r.acc \in Accounts /\ r.to \in Accounts /\ r.value \in Int
      /\ r.loan \in Loans /\ r.goal \in Goals
  BY AtStage, RequestFields, Zenon
<1>1. /\ accounts \in [Accounts -> AccountRow] /\ s \in AccountRow /\ d \in AccountRow
      /\ statements \in [Accounts -> Seq(Entry)] /\ clock \in Nat
      /\ s.balance \in Int /\ d.balance \in Int
  BY <1>0 DEF RowsSound, LedgerSound, AccountRow
<1>2. Verdict(r) = TransferDecision(s, d, r.acc = r.to, r.value)
  BY Zenon DEF Verdict, OpOf, RouteOf
<1>3. r.acc # r.to /\ ~s.deleted /\ ~d.deleted
  <2>1. TransferDecision(s, d, r.acc = r.to, r.value).ok
    BY <1>2
  <2>2. QED
    BY <2>1 DEF TransferDecision, Refused
<1>4. out.balance = s.balance - r.value /\ in.balance = d.balance + r.value
  BY <1>0, <1>1, TransferLegs
<1>5. /\ out.type = "TRANSFER_OUT" /\ out.amount = r.value
      /\ in.type = "TRANSFER_IN" /\ in.amount = r.value
      /\ out \in Transaction /\ in \in Transaction
  <2>1. /\ out = [type |-> "TRANSFER_OUT", amount |-> r.value, balance |-> out.balance]
        /\ in = [type |-> "TRANSFER_IN", amount |-> r.value, balance |-> in.balance]
    BY DEF EntryFor
  <2>2. out.balance \in Int /\ in.balance \in Int
    BY <1>0, <1>1, <1>4
  <2> HIDE DEF out, in
  <2>3. QED
    BY <1>0, <2>1, <2>2 DEF Transaction, TransactionType
<1>6. /\ accounts' = [accounts EXCEPT ![r.acc].balance = out.balance, ![r.to].balance = in.balance]
      /\ statements' = [statements EXCEPT ![r.acc] = Append(@, Stamp(out)),
                                          ![r.to] = Append(@, Stamp(in))]
      /\ UNCHANGED <<loans, goals, order>>
  BY Zenon DEF Transferred
<1> HIDE DEF out, in
<1>7. /\ Stamped(<<out>>) = <<Stamp(out)>> /\ Stamped(<<in>>) = <<Stamp(in)>>
      /\ Stamp(out).type = "TRANSFER_OUT" /\ Stamp(out).amount = r.value
      /\ Stamp(in).type = "TRANSFER_IN" /\ Stamp(in).amount = r.value
      /\ Stamp(out) \in Entry /\ Stamp(in) \in Entry
  <2>1. \A e \in Transaction : Stamp(e) \in Entry
    BY <1>1 DEF Stamp, Entry, Transaction
  <2>2. QED
    BY <1>5, <2>1, StampedRows
<1>8. /\ statements'[r.acc] = Append(statements[r.acc], Stamp(out))
      /\ statements'[r.to] = Append(statements[r.to], Stamp(in))
      /\ \A a \in Accounts \ {r.acc, r.to} : statements'[a] = statements[a]
      /\ statements' = [a \in Accounts |-> statements'[a]]
  BY <1>0, <1>1, <1>3, <1>6
<1>9. /\ accounts'[r.acc] = [s EXCEPT !.balance = out.balance]
      /\ accounts'[r.to] = [d EXCEPT !.balance = in.balance]
      /\ \A a \in Accounts \ {r.acc, r.to} : accounts'[a] = accounts[a]
  BY <1>0, <1>1, <1>3, <1>6
<1>10. /\ accounts'[r.acc].balance = s.balance - r.value
       /\ accounts'[r.to].balance = d.balance + r.value
  BY <1>1, <1>4, <1>9 DEF AccountRow
<1>11. /\ AtMostOne(<<out>>) /\ AtMostOne(<<in>>) /\ <<out>>[1] = out /\ <<in>>[1] = in
  BY <1>5 DEF AtMostOne
<1>12. Shows(<<out>>) = -r.value /\ Shows(<<in>>) = r.value
  BY <1>0, <1>5, <1>11 DEF Shows, Sign
<1>13. ASSUME NEW a \in Accounts PROVE \E e : Books(t, a, e)
  <2>1. CASE a = r.acc
    <3>1. statements'[a] = statements[a] \o Stamped(<<out>>)
      <4>1. Append(statements[a], Stamp(out)) = statements[a] \o <<Stamp(out)>>
        BY <1>1, <1>7, AppendOne
      <4>2. QED
        BY <1>7, <1>8, <2>1, <4>1
    <3>2. accounts'[a].balance = accounts[a].balance + Shows(<<out>>)
      BY <1>0, <1>1, <1>10, <1>12, <2>1
    <3>3. Books(t, a, <<out>>)
      BY <1>3, <1>11, <2>1, <3>1, <3>2 DEF Books
    <3>4. QED
      BY <3>3
  <2>2. CASE a = r.to
    <3>1. statements'[a] = statements[a] \o Stamped(<<in>>)
      <4>1. Append(statements[a], Stamp(in)) = statements[a] \o <<Stamp(in)>>
        BY <1>1, <1>7, AppendOne
      <4>2. QED
        BY <1>7, <1>8, <2>2, <4>1
    <3>2. accounts'[a].balance = accounts[a].balance + Shows(<<in>>)
      BY <1>0, <1>1, <1>10, <1>12, <2>2
    <3>3. Books(t, a, <<in>>)
      BY <1>3, <1>11, <2>2, <3>1, <3>2 DEF Books
    <3>4. QED
      BY <3>3
  <2>3. CASE a \notin {r.acc, r.to}
    <3>1. accounts'[a] = accounts[a] /\ statements'[a] = statements[a]
      BY <1>8, <1>9, <2>3
    <3>2. QED
      BY <3>1, BooksNothing
  <2>4. QED
    BY <2>1, <2>2, <2>3
<1>14. Transfers(r)
  BY <1>3, <1>7, <1>8 DEF Transfers, Leaves
<1>15. GoalBooked([op |-> OpOf(t)], goals[r.goal], goals'[r.goal])
  BY <1>6 DEF GoalBooked
<1>16. QED
  BY <1>6, <1>8, <1>13, <1>14, <1>15 DEF Booked, Lives

\* A served request has booked what it has written, or has written nothing.
LEMMA ServeBooks ==
  ASSUME ThreadsSound, RowsSound, IdsFree, NumbersFree, LedgerSound, NEW t \in Threads, Serve(t)
  PROVE  UNCHANGED tables \/ Booked(t)
<1>1. pc[t] = "serve"
  BY Zenon DEF Serve, Serving
<1>2. CASE ~Verdict(request[t]).ok
  BY <1>2, Zenon DEF Serve
<1>3. CASE Verdict(request[t]).ok
  <2>1. OpOf(t) \in Ops \cup {"transfer", "register"}
    <3>1. Staged(t) /\ Suits(request[t].route, RouteOf(t))
      BY AtStage, Zenon
    <3>2. OpOf(t) # "none"
      BY <1>1, <3>1 DEF Staged, Before
    <3>3. OpOf(t) \in (Ops \ {"password"}) \cup {"none", "transfer", "register"}
      BY <3>1, Zenon DEF Suits, OpOf
    <3>4. QED
      BY <3>2, <3>3
  <2>2. \/ OpOf(t) = "transfer" /\ Transferred(request[t])
        \/ OpOf(t) # "transfer" /\ Committed(request[t], Verdict(request[t]).writes)
    BY <1>3, Zenon DEF Serve, OpOf
  <2>3. CASE OpOf(t) = "transfer"
    BY <1>3, <2>2, <2>3, TransferBooks
  <2>4. CASE OpOf(t) = "register"
    BY <1>1, <2>2, <2>4, RegisterBooks
  <2>5. CASE OpOf(t) \in Ops
    <3>1. OpOf(t) # "transfer"
      BY <2>5 DEF Ops
    <3>2. QED
      BY <1>1, <1>3, <2>2, <2>5, <3>1, CallBooks
  <2>6. QED
    BY <2>1, <2>3, <2>4, <2>5
<1>4. QED
  BY <1>2, <1>3

\* Only a served request writes.
LEMMA OneServes ==
  ASSUME [Next]_vars
  PROVE  UNCHANGED tables \/ \E t \in Threads : Serve(t)
<1>1. ASSUME NEW t \in Threads, NEW r \in Requests, Arrive(t, r) PROVE UNCHANGED tables
  BY <1>1 DEF Arrive
<1>2. ASSUME NEW t \in Threads, Advance(t), ~Serve(t) PROVE UNCHANGED tables
  BY <1>2 DEF Advance, Check, CleanUp, CountOperations, Record, ShowNewest, ShowGoal,
     Invalidate, Lookup, Query, Fill, Ping, NextPage, RunQuery
<1>3. Tick \/ Outage \/ Closing \/ UNCHANGED vars => UNCHANGED tables
  BY DEF Tick, Outage, Closing, vars
<1>4. QED
  BY <1>1, <1>2, <1>3, Zenon DEF Next

\* Where a thread goes that has been served.
Leaving(t) ==
    /\ pc[t] = "serve" /\ pc'[t] \notin Before /\ OthersStay(t)
    /\ request' = request /\ clock' = clock /\ crowded' = crowded
LEMMA ServerLeaves ==
  ASSUME ThreadsSound, NEW t \in Threads, Serve(t)
  PROVE  Leaving(t)
<1>0. OthersStay(t) /\ request' = request /\ crowded' = crowded
  <2>1. Advance(t)
    BY DEF Advance
  <2>2. QED
    BY <2>1, OneAdvances, Zenon
<1>1. pc[t] = "serve" /\ clock' = clock
  BY Zenon DEF Serve, Serving
<1>2. \/ \E l, code, shown : Answer(t, l, code, shown)
      \/ RouteOf(t).after # "answer" /\ Goto(t, RouteOf(t).after)
  BY Zenon DEF Serve
<1>3. CASE \E l, code, shown : Answer(t, l, code, shown)
  <2>1. pc'[t] = "idle"
    BY <1>3, AnswerGoes, Zenon
  <2>2. QED
    BY <1>0, <1>1, <2>1 DEF Leaving, Before
<1>4. CASE RouteOf(t).after # "answer" /\ Goto(t, RouteOf(t).after)
  <2>1. Staged(t) /\ Suits(request[t].route, RouteOf(t))
    BY AtStage, Zenon
  <2>2. OpOf(t) # "none"
    BY <1>1, <2>1 DEF Staged, Before
  <2>3. RouteOf(t).after \in {"newest", "goal", "invalidate"}
    BY <1>4, <2>1, <2>2 DEF Suits, OpOf
  <2>4. pc'[t] = RouteOf(t).after
    <3>1. pc \in [Threads -> Stages]
      BY Zenon DEF ThreadsSound
    <3>2. QED
      BY <1>4, <3>1 DEF Goto
  <2>5. QED
    BY <1>0, <1>1, <2>3, <2>4 DEF Leaving, Before
<1>5. QED
  BY <1>2, <1>3, <1>4

\* The step of a served request that writes.
Wrote(t) == Leaving(t) /\ Written(t) /\ Booked(t)
LEMMA TablesStep ==
  ASSUME ThreadsSound, RowsSound, IdsFree, NumbersFree, LedgerSound, [Next]_vars
  PROVE  UNCHANGED tables \/ \E t \in Threads : Wrote(t)
<1>1. ASSUME NEW t \in Threads, Serve(t) PROVE UNCHANGED tables \/ Wrote(t)
  <2>1. UNCHANGED tables \/ Written(t)
    BY <1>1, ServeWrites, Zenon
  <2>2. UNCHANGED tables \/ Booked(t)
    BY <1>1, ServeBooks, Zenon
  <2>3. Leaving(t)
    BY <1>1, ServerLeaves
  <2>4. QED
    BY <2>1, <2>2, <2>3 DEF Wrote
<1>2. QED
  BY <1>1, OneServes, Zenon

LEMMA ClockStep == ASSUME clock \in Nat, [Next]_vars PROVE clock' \in Nat /\ clock' >= clock
<1>1. clock' = clock \/ clock' = clock + 1
  BY DEF Next, Arrive, Advance, Check, CleanUp, CountOperations, Record, Serve, ShowNewest,
     ShowGoal, Invalidate, Lookup, Query, Fill, Ping, NextPage, RunQuery, Tick, Outage, Closing, vars
<1>2. QED
  BY <1>1

\* A statement with what a commit adds.
GrownBy(old, e, new) ==
    \/ e = <<>> /\ new = old
    \/ \E x \in Entry : /\ e # <<>> /\ x.type = e[1].type /\ x.amount = e[1].amount
                        /\ x.at = clock /\ new = Append(old, x)
LEMMA Grown ==
  ASSUME LedgerSound, NEW a \in Accounts, NEW e, AtMostOne(e)
  PROVE  GrownBy(statements[a], e, statements[a] \o Stamped(e))
<1>0. statements[a] \in Seq(Entry) /\ clock \in Nat
  BY DEF LedgerSound
<1>1. CASE e = <<>>
  <2>1. Stamped(e) = <<>>
    BY <1>1 DEF Stamped
  <2>2. QED
    BY <1>0, <1>1, <2>1 DEF GrownBy
<1>2. CASE e # <<>>
  <2>1. PICK y \in Transaction : e = <<y>>
    BY <1>2 DEF AtMostOne
  <2>2. Stamped(e) = <<Stamp(y)>> /\ e[1] = y
    BY <2>1, StampedRows
  <2>3. Stamp(y) \in Entry
    BY <1>0 DEF Stamp, Entry, Transaction
  <2>4. Append(statements[a], Stamp(y)) = statements[a] \o <<Stamp(y)>>
    BY <1>0, <2>3, AppendOne
  <2>5. QED
    BY <1>2, <2>1, <2>2, <2>3, <2>4, StampedRows DEF GrownBy
<1>3. QED
  BY <1>1, <1>2

LEMMA AddedInOrder ==
  ASSUME NEW s \in Seq(Entry), NEW c \in Nat, InOrder(s), \A i \in DOMAIN s : s[i].at <= c,
         NEW x \in Entry, x.at = c, NEW r, r = Append(s, x)
  PROVE  r \in Seq(Entry) /\ InOrder(r) /\ \A i \in DOMAIN r : r[i].at <= c
<1>1. /\ DOMAIN r = 1 .. Len(s) + 1 /\ DOMAIN s = 1 .. Len(s) /\ Len(s) \in Nat
      /\ \A i \in 1 .. Len(s) : r[i] = s[i]
      /\ r[Len(s) + 1] = x /\ r \in Seq(Entry)
  OBVIOUS
<1>2. \A i \in DOMAIN r : r[i].at <= c
  BY <1>1
<1>3. ASSUME NEW i \in DOMAIN r, NEW j \in DOMAIN r, i <= j PROVE r[i].at <= r[j].at
  <2>1. CASE j \in DOMAIN s
    <3>1. i \in DOMAIN s
      BY <1>1, <1>3, <2>1
    <3>2. QED
      BY <1>1, <1>3, <2>1, <3>1 DEF InOrder
  <2>2. CASE j = Len(s) + 1
    BY <1>1, <1>2, <2>2
  <2>3. QED
    BY <1>1, <2>1, <2>2
<1>4. QED
  BY <1>1, <1>2, <1>3 DEF InOrder

LEMMA LedgerSoundInit == ASSUME Init PROVE LedgerSound
<1>1. statements = [a \in Accounts |-> <<>>] /\ clock = 0
  BY Zenon DEF Init
<1>2. QED
  BY <1>1 DEF LedgerSound, InOrder

LEMMA LedgerSoundNext ==
  ASSUME ThreadsSound, RowsSound, IdsFree, NumbersFree, LedgerSound, [Next]_vars
  PROVE  LedgerSound'
<1>0. clock \in Nat /\ clock' \in Nat /\ clock' >= clock
  BY ClockStep DEF LedgerSound
<1>1. CASE UNCHANGED tables
  <2>1. statements' = statements
    BY <1>1 DEF tables
  <2>2. ASSUME NEW a \in Accounts, NEW i \in DOMAIN statements[a]
        PROVE  statements[a][i].at <= clock'
    <3>a. statements[a] \in Seq(Entry) /\ statements[a][i].at <= clock
      BY DEF LedgerSound
    <3>b. statements[a][i] \in Entry
      BY <3>a
    <3>1. statements[a][i].at <= clock /\ statements[a][i].at \in Nat
      BY <3>a, <3>b DEF Entry
    <3>2. QED
      BY <1>0, <3>1
  <2>3. QED
    BY <1>0, <2>1, <2>2 DEF LedgerSound
<1>2. CASE \E t \in Threads : Wrote(t)
  <2>1. PICK t \in Threads : Leaving(t) /\ Booked(t)
    BY <1>2 DEF Wrote
  <2>2. /\ clock' = clock /\ statements' = [a \in Accounts |-> statements'[a]]
        /\ \A a \in Accounts : \E e : Books(t, a, e)
    BY <2>1, Zenon DEF Leaving, Booked
  <2>3. ASSUME NEW a \in Accounts
        PROVE  /\ statements'[a] \in Seq(Entry) /\ InOrder(statements'[a])
               /\ \A i \in DOMAIN statements'[a] : statements'[a][i].at <= clock
    <3>0. /\ statements[a] \in Seq(Entry) /\ InOrder(statements[a])
          /\ \A i \in DOMAIN statements[a] : statements[a][i].at <= clock
      BY DEF LedgerSound
    <3>1. PICK e : AtMostOne(e) /\ statements'[a] = statements[a] \o Stamped(e)
      BY <2>2, Zenon DEF Books
    <3>2. CASE statements'[a] = statements[a]
      BY <3>0, <3>2
    <3>3. CASE statements'[a] # statements[a]
      <4>0. GrownBy(statements[a], e, statements'[a])
        BY <3>1, Grown
      <4>1. PICK x \in Entry : x.at = clock /\ statements'[a] = Append(statements[a], x)
        BY <3>3, <4>0 DEF GrownBy
      <4>2. QED
        BY <1>0, <3>0, <4>1, AddedInOrder
    <3>4. QED
      BY <3>2, <3>3
  <2>4. statements' = [a \in Accounts |-> statements'[a]]
    BY <2>2
  <2>5. QED
    BY <1>0, <2>2, <2>3, <2>4 DEF LedgerSound
<1>3. QED
  BY <1>1, <1>2, TablesStep

\* Only an arriving request is new among those about to create something.
LEMMA CreatesShrink ==
  ASSUME ThreadsSound, NEW t \in Threads, Advance(t)
  PROVE  \A u \in Threads : \A op : Creates(u, op)' => Creates(u, op)
<1>0. OthersStay(t) /\ request' = request
  BY OneAdvances, Zenon
<1>1. pc'[t] \in Before => pc[t] \in Before
  <2>1. CASE Serve(t)
    BY <2>1, ServerLeaves DEF Leaving
  <2>2. CASE Invalidate(t)
    <3>1. pc'[t] = "idle"
      BY <2>2, Invalidates
    <3>2. QED
      BY <3>1 DEF Before
  <2>3. CASE ~Serve(t) /\ ~Invalidate(t)
    BY <2>3, OnlyServeWrites DEF OnlyReads
  <2>4. QED
    BY <2>1, <2>2, <2>3
<1>2. \A u \in Threads : pc'[u] \in Before => pc[u] \in Before
  BY <1>0, <1>1 DEF OthersStay
<1>3. \A u \in Threads : OpOf(u)' = OpOf(u)
  BY <1>0 DEF OpOf, RouteOf
<1>4. QED
  BY <1>2, <1>3 DEF Creates

LEMMA NumbersFreeInit == ASSUME Init PROVE NumbersFree
<1>1. pc = [t \in Threads |-> "idle"]
  BY Zenon DEF Init
<1>2. \A t \in Threads : \A op : ~Creates(t, op)
  BY <1>1 DEF Creates, Before
<1>3. QED
  BY <1>2 DEF NumbersFree

LEMMA NumbersFreeNext ==
  ASSUME ThreadsSound, RowsSound, IdsFree, NumbersFree, LedgerSound, [Next]_vars
  PROVE  NumbersFree'
<1>1. ASSUME NEW t \in Threads, NEW r \in Requests, Arrive(t, r) PROVE NumbersFree'
  <2>1. /\ pc[t] = "idle" /\ request' = [request EXCEPT ![t] = r] /\ request'[t] = r
        /\ OthersStay(t)
    BY <1>1, Arrives, Zenon
  <2>2. accounts' = accounts /\ FreshId(r)
    BY <1>1 DEF Arrive, tables
  <2>3. \A u \in Threads : u # t => request'[u] = request[u]
    BY <2>1 DEF ThreadsSound
  <2>4. ASSUME NEW u \in Threads, u # t, Creates(u, "register")'
        PROVE  Creates(u, "register") /\ pc[u] # "idle"
    <3>1. pc'[u] = pc[u] /\ request'[u] = request[u]
      BY <2>1, <2>3, <2>4 DEF OthersStay
    <3>2. QED
      BY <2>4, <3>1 DEF Creates, OpOf, RouteOf, Before
  <2>5. Creates(t, "register")' =>
            /\ accounts[r.acc] = Unused /\ OpeningAccounts[r.acc] = Unused
            /\ \A u \in Threads : pc[u] # "idle" => request[u].acc # r.acc
    <3>1. Creates(t, "register")' => Routes[r.route].op = "register"
      BY <2>1 DEF Creates, OpOf, RouteOf
    <3>2. QED
      BY <2>2, <3>1 DEF FreshId
  <2>6. ASSUME NEW u \in Threads, Creates(u, "register")'
        PROVE  accounts'[request'[u].acc] = Unused /\ OpeningAccounts[request'[u].acc] = Unused
    <3>1. CASE u = t
      BY <2>1, <2>2, <2>5, <2>6, <3>1
    <3>2. CASE u # t
      BY <2>2, <2>3, <2>4, <2>6, <3>2 DEF NumbersFree
    <3>3. QED
      BY <3>1, <3>2
  <2>7. ASSUME NEW u \in Threads, NEW v \in Threads, u # v,
               Creates(u, "register")', Creates(v, "register")'
        PROVE  request'[u].acc # request'[v].acc
    <3>1. CASE u = t
      BY <2>1, <2>3, <2>4, <2>5, <2>7, <3>1
    <3>2. CASE v = t
      BY <2>1, <2>3, <2>4, <2>5, <2>7, <3>2
    <3>3. CASE u # t /\ v # t
      BY <2>3, <2>4, <2>7, <3>3 DEF NumbersFree
    <3>4. QED
      BY <3>1, <3>2, <3>3
  <2>8. QED
    BY <2>6, <2>7 DEF NumbersFree
<1>2. ASSUME request' = request, \A u \in Threads : Creates(u, "register")' => Creates(u, "register"),
             \A u \in Threads : Creates(u, "register")' =>
                 accounts'[request[u].acc] = accounts[request[u].acc]
      PROVE  NumbersFree'
  BY <1>2 DEF NumbersFree
<1>3. ASSUME NEW t \in Threads, Advance(t) PROVE NumbersFree'
  <2>0. request' = request
    BY <1>3, OneAdvances
  <2>1. \A u \in Threads : Creates(u, "register")' => Creates(u, "register")
    BY <1>3, CreatesShrink
  <2>2. CASE UNCHANGED tables
    BY <1>2, <2>0, <2>1, <2>2 DEF tables
  <2>3. CASE \E u \in Threads : Wrote(u)
    <3>1. PICK v \in Threads : Leaving(v) /\ Booked(v)
      BY <2>3 DEF Wrote
    <3>2. ASSUME NEW u \in Threads, Creates(u, "register")'
          PROVE  accounts'[request[u].acc] = accounts[request[u].acc]
      <4>1. Creates(u, "register") /\ accounts[request[u].acc] = Unused
        BY <2>1, <3>2 DEF NumbersFree
      <4>2. accounts[request[u].acc].deleted
        BY <4>1 DEF Unused
      <4>3. request[u].acc \in Accounts
        BY AtStage, RequestFields, Zenon
      <4>4. \/ accounts'[request[u].acc] = accounts[request[u].acc]
            \/ OpOf(v) = "register" /\ request[u].acc = request[v].acc
        BY <3>1, <4>2, <4>3, Zenon DEF Booked, Books
      <4>5. ASSUME OpOf(v) = "register", request[u].acc = request[v].acc PROVE FALSE
        <5>1. Creates(v, "register") /\ ~Creates(v, "register")'
          BY <3>1, <4>5 DEF Leaving, Creates, Before
        <5>2. u # v
          BY <3>2, <5>1
        <5>3. QED
          BY <4>1, <4>5, <5>1, <5>2 DEF NumbersFree
      <4>6. QED
        BY <4>4, <4>5
    <3>3. QED
      BY <1>2, <2>0, <2>1, <3>2
  <2>4. QED
    BY <2>2, <2>3, TablesStep
<1>4. ASSUME UNCHANGED <<accounts, pc, request>> PROVE NumbersFree'
  BY <1>4 DEF NumbersFree, Creates, OpOf, RouteOf
<1>5. QED
  <2>1. Tick \/ Outage \/ Closing \/ UNCHANGED vars => UNCHANGED <<accounts, pc, request>>
    BY DEF Tick, Outage, Closing, vars, threadVars, tables
  <2>2. QED
    BY <1>1, <1>3, <1>4, <2>1, Zenon DEF Next

\* What has become of the opening accounts and goals.
GoalKept(old, new) ==
    old.owner # 0 => /\ new.owner = old.owner
                     /\ ~old.exists => new = old
                     /\ old.exists => new.current >= old.current
AccountKept(old, new) == old.deleted => new = old \/ old = Unused
OpeningKept ==
    /\ \A g \in Goals : GoalKept(OpeningGoals[g], goals[g])
    /\ \A a \in Accounts : AccountKept(OpeningAccounts[a], accounts[a])

LEMMA GoalColumns ==
  ASSUME NEW r \in GoalRow
  PROVE  r.exists \in BOOLEAN /\ r.owner \in Nat /\ r.target \in Int /\ r.current \in Int
BY DEF GoalRow

\* A goal before and after a step.
LEMMA GoalStep ==
  ASSUME ThreadsSound, RowsSound, IdsFree, NEW t \in Threads, Wrote(t), NEW g \in Goals
  PROVE  /\ goals[g] \in GoalRow /\ goals'[g] \in GoalRow
         /\ SoundGoal(goals[g]) /\ SoundGoal(goals'[g])
         /\ goals[g].owner # 0 =>
              /\ goals'[g].owner = goals[g].owner /\ goals'[g].current >= goals[g].current
              /\ goals[g].exists \/ goals'[g] = goals[g]
<1>1. goals[g] \in GoalRow /\ goals'[g] \in GoalRow /\ SoundGoal(goals[g]) /\ SoundGoal(goals'[g])
  BY DEF RowsSound, Wrote, Written
<1>2. goals[g].current \in Int /\ goals'[g].current \in Int
  BY <1>1, GoalColumns
<1>3. CASE g # request[t].goal
  <2>1. goals'[g] = goals[g]
    BY <1>3 DEF Wrote, Written
  <2>2. QED
    BY <1>1, <1>2, <2>1
<1>4. CASE g = request[t].goal
  <2>1. OpOf(t) = "createGoal" => goals[g].owner = 0
    BY <1>4 DEF IdsFree, Wrote, Leaving, Creates, Before
  <2>2. GoalWritten(t, goals[g], goals'[g]) /\ GoalBooked([op |-> OpOf(t)], goals[g], goals'[g])
    BY <1>4 DEF Wrote, Written, Booked
  <2>3. QED
    BY <1>1, <1>2, <2>1, <2>2 DEF GoalWritten, GoalBooked
<1>5. QED
  BY <1>3, <1>4

LEMMA OpeningKeptInit == ASSUME Init PROVE OpeningKept
<1>1. accounts = OpeningAccounts /\ goals = OpeningGoals
  BY Zenon DEF Init
<1>2. \A g \in Goals : OpeningGoals[g].current \in Int
  BY ApiAssumption, GoalColumns
<1>3. QED
  BY <1>1, <1>2 DEF OpeningKept, GoalKept, AccountKept

LEMMA OpeningKeptNext ==
  ASSUME ThreadsSound, RowsSound, IdsFree, NumbersFree, LedgerSound, OpeningKept, [Next]_vars
  PROVE  OpeningKept'
<1>1. CASE UNCHANGED tables
  BY <1>1 DEF tables, OpeningKept
<1>2. CASE \E t \in Threads : Wrote(t)
  <2>1. PICK t \in Threads : Wrote(t)
    BY <1>2
  <2>2. ASSUME NEW g \in Goals PROVE GoalKept(OpeningGoals[g], goals'[g])
    <3>1. GoalKept(OpeningGoals[g], goals[g])
      BY DEF OpeningKept
    <3>2. /\ goals[g] \in GoalRow /\ goals'[g] \in GoalRow
          /\ goals[g].owner # 0 =>
              /\ goals'[g].owner = goals[g].owner /\ goals'[g].current >= goals[g].current
              /\ goals[g].exists \/ goals'[g] = goals[g]
      BY <2>1, GoalStep
    <3>3. /\ goals[g].current \in Int /\ goals'[g].current \in Int
          /\ OpeningGoals[g].current \in Int
      BY <3>2, ApiAssumption, GoalColumns
    <3>4. QED
      BY <3>1, <3>2, <3>3 DEF GoalKept
  <2>3. ASSUME NEW a \in Accounts PROVE AccountKept(OpeningAccounts[a], accounts'[a])
    <3>1. AccountKept(OpeningAccounts[a], accounts[a])
      BY DEF OpeningKept
    <3>2. accounts[a].deleted =>
              accounts'[a] = accounts[a] \/ (OpOf(t) = "register" /\ a = request[t].acc)
      BY <2>1, Zenon DEF Wrote, Booked, Books
    <3>3. OpOf(t) = "register" => OpeningAccounts[request[t].acc] = Unused
      BY <2>1 DEF NumbersFree, Wrote, Leaving, Creates, Before
    <3>4. QED
      BY <3>1, <3>2, <3>3 DEF AccountKept
  <2>4. QED
    BY <2>2, <2>3 DEF OpeningKept
<1>3. QED
  BY <1>1, <1>2, TablesStep

-------------------------------------------------------------------------------
(* Sums over a statement *)

SignedSum(s) == SumOf([i \in DOMAIN s |-> Sign(s[i].type) * s[i].amount])

LEMMA SumOfMore ==
  ASSUME NEW n \in Nat, NEW f, DOMAIN f = 1 .. n, NEW h, DOMAIN h = 1 .. (n + 1),
         \A i \in 1 .. n : f[i] \in Int /\ h[i] = f[i], h[n + 1] \in Int
  PROVE  SumOf(f) \in Int /\ SumOf(h) = SumOf(f) + h[n + 1]
BY SumAppend DEF SumOf

LEMMA SignedAmount ==
  ASSUME NEW x \in Entry PROVE Sign(x.type) * x.amount \in Int
<1>1. x.amount \in Int /\ (Sign(x.type) = 1 \/ Sign(x.type) = -1)
  BY DEF Entry, Sign
<1>2. QED
  BY <1>1

LEMMA EntryPart ==
  ASSUME NEW x \in Entry, NEW type PROVE Part(x, type) \in Int
BY DEF Entry, Part

\* A statement and the statement with one more row.
LEMMA OneMoreRow ==
  ASSUME NEW s \in Seq(Entry), NEW x \in Entry, NEW r, r = Append(s, x)
  PROVE  /\ Len(s) \in Nat /\ DOMAIN s = 1 .. Len(s) /\ DOMAIN r = 1 .. (Len(s) + 1)
         /\ \A i \in 1 .. Len(s) : s[i] \in Entry /\ r[i] = s[i]
         /\ r[Len(s) + 1] = x /\ r \in Seq(Entry)
OBVIOUS

LEMMA SignedSumGrows ==
  ASSUME NEW s \in Seq(Entry), NEW x \in Entry, NEW r, r = Append(s, x)
  PROVE  SignedSum(s) \in Int /\ SignedSum(r) = SignedSum(s) + Sign(x.type) * x.amount
<1> DEFINE n == Len(s)
           Term(y) == Sign(y.type) * y.amount
           f == [i \in DOMAIN s |-> Term(s[i])]
           h == [i \in DOMAIN r |-> Term(r[i])]
<1>1. /\ n \in Nat /\ DOMAIN s = 1 .. n /\ DOMAIN r = 1 .. (n + 1)
      /\ \A i \in 1 .. n : s[i] \in Entry /\ r[i] = s[i]
      /\ r[n + 1] = x
  BY OneMoreRow
<1>2. \A y \in Entry : Term(y) \in Int
  BY SignedAmount
<1>3. SignedSum(s) = SumOf(f) /\ SignedSum(r) = SumOf(h)
  BY DEF SignedSum
<1> HIDE DEF n, Term
<1>4. /\ DOMAIN f = 1 .. n /\ DOMAIN h = 1 .. (n + 1) /\ h[n + 1] = Term(x) /\ Term(x) \in Int
      /\ \A i \in 1 .. n : f[i] \in Int /\ h[i] = f[i]
  BY <1>1, <1>2
<1> HIDE DEF f, h
<1>5. SumOf(f) \in Int /\ SumOf(h) = SumOf(f) + h[n + 1]
  BY <1>1, <1>4, SumOfMore
<1>6. QED
  BY <1>3, <1>4, <1>5 DEF Term

LEMMA PartsGrow ==
  ASSUME NEW s \in Seq(Entry), NEW x \in Entry, NEW type
  PROVE  /\ PartsOf(s, type) \in Int
         /\ PartsOf(Append(s, x), type) = PartsOf(s, type) + Part(x, type)
<1> DEFINE n == Len(s)
           r == Append(s, x)
           f == [i \in DOMAIN s |-> Part(s[i], type)]
           h == [i \in DOMAIN r |-> Part(r[i], type)]
<1>1. /\ n \in Nat /\ DOMAIN s = 1 .. n /\ DOMAIN r = 1 .. (n + 1)
      /\ \A i \in 1 .. n : s[i] \in Entry /\ r[i] = s[i]
      /\ r[n + 1] = x
  BY OneMoreRow
<1>2. \A y \in Entry : Part(y, type) \in Int
  BY EntryPart
<1>3. PartsOf(s, type) = SumOf(f) /\ PartsOf(r, type) = SumOf(h)
  BY DEF PartsOf
<1> HIDE DEF n, r
<1>4. /\ DOMAIN f = 1 .. n /\ DOMAIN h = 1 .. (n + 1) /\ h[n + 1] = Part(x, type)
      /\ Part(x, type) \in Int /\ \A i \in 1 .. n : f[i] \in Int /\ h[i] = f[i]
  BY <1>1, <1>2
<1> HIDE DEF f, h
<1>5. SumOf(f) \in Int /\ SumOf(h) = SumOf(f) + h[n + 1]
  BY <1>1, <1>4, SumOfMore
<1>6. QED
  BY <1>3, <1>4, <1>5 DEF r

LEMMA SumsTyped ==
  ASSUME NEW s \in Seq(Entry), NEW type
  PROVE  SignedSum(s) \in Int /\ PartsOf(s, type) \in Int
<1>1. DOMAIN s = 1 .. Len(s) /\ Len(s) \in Nat /\ \A i \in DOMAIN s : s[i] \in Entry
  OBVIOUS
<1>2. IsFiniteSet(DOMAIN s)
  BY <1>1, FS_Interval
<1> DEFINE f == [i \in DOMAIN s |-> Sign(s[i].type) * s[i].amount]
           h == [i \in DOMAIN s |-> Part(s[i], type)]
<1>3. \A i \in DOMAIN s : f[i] \in Int /\ h[i] \in Int
  BY <1>1, SignedAmount, EntryPart
<1>4. DOMAIN f = DOMAIN s /\ DOMAIN h = DOMAIN s
  OBVIOUS
<1>5. SignedSum(s) = SumOf(f) /\ PartsOf(s, type) = SumOf(h)
  BY DEF SignedSum, PartsOf
<1> HIDE DEF f, h
<1>6. SumOver(f, DOMAIN f) \in Int /\ SumOver(h, DOMAIN h) \in Int
  BY <1>2, <1>3, <1>4, SumInt
<1>7. QED
  BY <1>5, <1>6 DEF SumOf

-------------------------------------------------------------------------------
(* The exported statements *)

Plainly == TransactionType \ {"INTEREST", "LOAN_DISBURSEMENT"}
ExportsTrue == \A a \in Accounts : NoRefund /\ Moves(a, Plainly) => ExportAddsUp(a)
Refunded(g) == ~goals[g].exists /\ goals[g] # OpeningGoals[g]

\* A refunded goal belonged to somebody, and stays as it is.
LEMMA RefundsLast ==
  ASSUME ThreadsSound, RowsSound, IdsFree, OpeningKept, NEW t \in Threads, Wrote(t),
         NEW g \in Goals, Refunded(g)
  PROVE  Refunded(g)'
<1>1. /\ SoundGoal(goals[g]) /\ SoundGoal(OpeningGoals[g]) /\ goals[g] \in GoalRow
      /\ GoalKept(OpeningGoals[g], goals[g])
  BY ApiAssumption, GoalStep DEF OpeningKept
<1>2. goals[g].owner # 0
  BY <1>1 DEF Refunded, SoundGoal, GoalKept
<1>3. goals'[g] = goals[g]
  BY <1>2, GoalStep DEF Refunded
<1>4. QED
  BY <1>3 DEF Refunded

LEMMA DeletionRefunds ==
  ASSUME ThreadsSound, RowsSound, IdsFree, OpeningKept, NEW t \in Threads, Wrote(t),
         OpOf(t) = "deleteGoal"
  PROVE  \E g \in Goals : Refunded(g)'
<1> DEFINE g == request[t].goal
<1>0. g \in Goals
  BY AtStage, RequestFields, Zenon
<1>1. goals[g].exists /\ ~goals'[g].exists
  BY DEF Wrote, Booked, GoalBooked
<1>2. /\ SoundGoal(goals[g]) /\ SoundGoal(OpeningGoals[g]) /\ goals[g] \in GoalRow
      /\ GoalKept(OpeningGoals[g], goals[g])
      /\ goals[g].owner # 0 => goals'[g].owner = goals[g].owner
  BY <1>0, ApiAssumption, GoalStep DEF OpeningKept
<1>3. goals[g].owner # 0
  BY <1>1, <1>2 DEF SoundGoal, NoGoal
<1>4. ASSUME OpeningGoals[g].owner = 0 PROVE goals'[g] # OpeningGoals[g]
  BY <1>2, <1>3, <1>4
<1>5. ASSUME OpeningGoals[g].owner # 0 PROVE goals'[g] # OpeningGoals[g]
  <2>1. OpeningGoals[g].exists
    BY <1>1, <1>2, <1>5 DEF GoalKept
  <2>2. QED
    BY <1>1, <2>1
<1>6. goals'[g] # OpeningGoals[g]
  BY <1>4, <1>5
<1> DEFINE Gone(x) == ~goals'[x].exists /\ goals'[x] # OpeningGoals[x]
<1>7. Gone(g)
  BY <1>1, <1>6
<1>8. PICK x \in Goals : Gone(x)
  BY <1>0, <1>7
<1>9. QED
  BY <1>8 DEF Refunded

LEMMA ExportsTrueInit == ASSUME Init PROVE ExportsTrue
<1>1. statements = [a \in Accounts |-> <<>>] /\ accounts = OpeningAccounts
  BY Zenon DEF Init
<1>2. ASSUME NEW a \in Accounts PROVE ExportAddsUp(a)
  <2> DEFINE f == Exported(a)
  <2>1. DOMAIN f = {}
    BY <1>1 DEF Exported
  <2>2. SumOver(f, {}) = 0
    BY SumUnfold, FS_EmptySet
  <2>3. SumOf(f) = 0
    BY <2>1, <2>2 DEF SumOf
  <2>4. OpeningAccounts[a].balance \in Int
    BY ApiAssumption DEF AccountRow
  <2>5. QED
    BY <1>1, <2>3, <2>4 DEF ExportAddsUp
<1>3. QED
  BY <1>2 DEF ExportsTrue

LEMMA ExportsTrueNext ==
  ASSUME ThreadsSound, RowsSound, IdsFree, NumbersFree, LedgerSound, OpeningKept, ExportsTrue,
         [Next]_vars
  PROVE  ExportsTrue'
<1>1. CASE UNCHANGED tables
  BY <1>1 DEF tables, ExportsTrue, NoRefund, Moves, ExportAddsUp, Exported
<1>2. CASE \E t \in Threads : Wrote(t)
  <2>1. PICK t \in Threads : Wrote(t)
    BY <1>2
  <2>2. ASSUME NEW a \in Accounts, NoRefund', Moves(a, Plainly)' PROVE ExportAddsUp(a)'
    <3>1. NoRefund
      <4>1. ASSUME NEW g \in Goals, Refunded(g) PROVE FALSE
        <5>1. Refunded(g)'
          BY <2>1, <4>1, RefundsLast
        <5>2. QED
          BY <2>2, <5>1 DEF NoRefund, Refunded
      <4>2. QED
        BY <4>1 DEF NoRefund, Refunded
    <3>2. OpOf(t) # "deleteGoal"
      <4>1. ASSUME OpOf(t) = "deleteGoal" PROVE FALSE
        <5>1. \E g \in Goals : Refunded(g)'
          BY <2>1, <4>1, DeletionRefunds
        <5>2. \A g \in Goals : ~Refunded(g)'
          BY <2>2 DEF NoRefund, Refunded
        <5>3. QED
          BY <5>1, <5>2
      <4>2. QED
        BY <4>1
    <3>3. PICK e : Books(t, a, e)
      BY <2>1, Zenon DEF Wrote, Booked
    <3>4. GrownBy(statements[a], e, statements'[a])
      BY <3>3, Grown DEF Books
    <3>5. /\ statements[a] \in Seq(Entry) /\ accounts[a].balance \in Int
          /\ OpeningAccounts[a].balance \in Int
      BY ApiAssumption DEF LedgerSound, RowsSound, AccountRow
    <3>6. CASE e = <<>> /\ statements'[a] = statements[a]
      <4>1. accounts'[a].balance = accounts[a].balance
        BY <3>2, <3>3, <3>5, <3>6 DEF Books, Plain, Shows
      <4>2. Moves(a, Plainly)
        BY <2>2, <3>6 DEF Moves
      <4>3. ExportAddsUp(a)
        BY <3>1, <4>2 DEF ExportsTrue
      <4>4. QED
        BY <3>6, <4>1, <4>3 DEF ExportAddsUp, Exported
    <3>7. CASE \E x \in Entry : /\ e # <<>> /\ x.type = e[1].type /\ x.amount = e[1].amount
                                /\ x.at = clock /\ statements'[a] = Append(statements[a], x)
      <4>1. PICK x \in Entry : /\ e # <<>> /\ x.type = e[1].type /\ x.amount = e[1].amount
                               /\ statements'[a] = Append(statements[a], x)
        BY <3>7
      <4> DEFINE s == statements[a]
                 r == statements'[a]
                 n == Len(s)
      <4>2. /\ n \in Nat /\ DOMAIN s = 1 .. n /\ DOMAIN r = 1 .. (n + 1)
            /\ \A i \in 1 .. n : s[i] \in Entry /\ r[i] = s[i]
            /\ r[n + 1] = x
        BY <3>5, <4>1, OneMoreRow
      <4>3. x.type \in Plainly /\ Moves(a, Plainly)
        BY <2>2, <4>2 DEF Moves
      <4>4. ExportAddsUp(a)
        BY <3>1, <4>3 DEF ExportsTrue
      <4>5. SignedSum(s) = accounts[a].balance - OpeningAccounts[a].balance
        BY <4>4 DEF ExportAddsUp, Exported, SignedSum
      <4>6. /\ SignedSum(r) = SignedSum(s) + Sign(x.type) * x.amount
            /\ Sign(x.type) * x.amount \in Int
        BY <3>5, <4>1, SignedSumGrows, SignedAmount
      <4>7. accounts'[a].balance = accounts[a].balance + Sign(x.type) * x.amount
        BY <3>2, <3>3, <4>1, <4>3 DEF Books, Plain, Shows, Plainly
      <4>8. SignedSum(r) = accounts'[a].balance - OpeningAccounts[a].balance
        <5> HIDE DEF s, r
        <5>1. QED
          BY <3>5, <4>5, <4>6, <4>7
      <4>9. QED
        BY <4>8 DEF ExportAddsUp, Exported, SignedSum
    <3>8. QED
      BY <3>4, <3>6, <3>7 DEF GrownBy
  <2>3. QED
    BY <2>2 DEF ExportsTrue
<1>3. QED
  BY <1>1, <1>2, TablesStep

-------------------------------------------------------------------------------
(* The totals of the transactions *)

\* A goal that is not as it was, but for its target.
Touched(g) ==
    \/ goals[g].owner # OpeningGoals[g].owner
    \/ goals[g].exists # OpeningGoals[g].exists
    \/ goals[g].current # OpeningGoals[g].current
\* What has left accounts for others has arrived, unless goals have taken some.
TransfersPair ==
    \/ \E g \in Goals : Touched(g)
    \/ TotalByType("TRANSFER_OUT") = TotalByType("TRANSFER_IN")

LEMMA TouchedLasts ==
  ASSUME ThreadsSound, RowsSound, IdsFree, OpeningKept, NEW t \in Threads, Wrote(t),
         NEW g \in Goals, Touched(g)
  PROVE  Touched(g)'
<1> DEFINE b == OpeningGoals[g]
           r == goals[g]
           n == goals'[g]
<1>1. /\ SoundGoal(r) /\ SoundGoal(b) /\ GoalKept(b, r)
      /\ r \in GoalRow /\ n \in GoalRow /\ b \in GoalRow
      /\ r.owner # 0 => n.owner = r.owner /\ n.current >= r.current /\ (r.exists \/ n = r)
  BY ApiAssumption, GoalStep DEF OpeningKept
<1>2. /\ r.owner \in Nat /\ r.current \in Int /\ r.exists \in BOOLEAN
      /\ n.owner \in Nat /\ n.current \in Int /\ n.exists \in BOOLEAN
      /\ b.owner \in Nat /\ b.current \in Int /\ b.exists \in BOOLEAN
  BY <1>1, GoalColumns
<1>3. r.owner # b.owner \/ r.exists # b.exists \/ r.current # b.current
  BY DEF Touched
<1> HIDE DEF r, n, b
<1>4. r.owner # 0
  BY <1>1, <1>3 DEF SoundGoal, GoalKept
<1>5. n.owner # b.owner \/ n.exists # b.exists \/ n.current # b.current
  <2>1. CASE r.owner # b.owner
    BY <1>1, <1>4, <2>1
  <2>2. CASE r.owner = b.owner
    <3>1. b.exists /\ r.current >= b.current
      BY <1>1, <1>3, <1>4, <2>2 DEF GoalKept
    <3>2. CASE ~r.exists
      BY <1>1, <1>4, <3>1, <3>2
    <3>3. CASE r.exists
      <4>1. r.current > b.current
        BY <1>2, <1>3, <2>2, <3>1, <3>3
      <4>2. QED
        BY <1>1, <1>2, <1>4, <4>1
    <3>4. QED
      BY <3>2, <3>3
  <2>3. QED
    BY <2>1, <2>2
<1>6. QED
  BY <1>5 DEF Touched, n, b

LEMMA ContributionTouches ==
  ASSUME ThreadsSound, RowsSound, IdsFree, OpeningKept, NEW t \in Threads, Wrote(t),
         OpOf(t) = "contribute"
  PROVE  \E g \in Goals : Touched(g)'
<1> DEFINE g == request[t].goal
           b == OpeningGoals[g]
           r == goals[g]
           n == goals'[g]
<1>0. g \in Goals
  BY AtStage, RequestFields, Zenon
<1>1. /\ SoundGoal(r) /\ SoundGoal(b) /\ GoalKept(b, r)
      /\ r \in GoalRow /\ n \in GoalRow /\ b \in GoalRow
      /\ r.owner # 0 => n.owner = r.owner /\ n.current >= r.current /\ (r.exists \/ n = r)
  BY <1>0, ApiAssumption, GoalStep DEF OpeningKept
<1>2. r.current \in Int /\ n.current \in Int /\ b.current \in Int
  BY <1>1, GoalColumns
<1>3. r.exists /\ n.current > r.current
  BY DEF Wrote, Written, Booked, GoalWritten, GoalBooked
<1> HIDE DEF r, n, b
<1>4. r.owner # 0
  BY <1>1, <1>3 DEF SoundGoal, NoGoal
<1>5. n.owner # b.owner \/ n.current # b.current
  <2>1. CASE b.owner = 0
    BY <1>1, <1>4, <2>1
  <2>2. CASE b.owner # 0
    <3>1. b.exists /\ r.current >= b.current
      BY <1>1, <1>3, <2>2 DEF GoalKept
    <3>2. QED
      BY <1>2, <1>3, <3>1
  <2>3. QED
    BY <2>1, <2>2
<1> DEFINE Differs(x) == \/ goals'[x].owner # OpeningGoals[x].owner
                         \/ goals'[x].exists # OpeningGoals[x].exists
                         \/ goals'[x].current # OpeningGoals[x].current
<1>6. Differs(g)
  BY <1>5 DEF n, b
<1>7. PICK x \in Goals : Differs(x)
  BY <1>0, <1>6
<1>8. QED
  BY <1>7 DEF Touched

\* A total with one statement changed.
LEMMA TotalChanges ==
  ASSUME NEW f \in [Accounts -> Int], NEW h \in [Accounts -> Int], NEW a \in Accounts,
         \A x \in Accounts \ {a} : h[x] = f[x]
  PROVE  SumOf(f) \in Int /\ SumOf(h) = SumOf(f) + h[a] - f[a]
<1>1. IsFiniteSet(Accounts) /\ DOMAIN f = Accounts /\ DOMAIN h = Accounts
  BY ApiAssumption
<1>2. QED
  BY <1>1, SumChange DEF SumOf

PartsBy(table, type) == [a \in Accounts |-> PartsOf(table[a], type)]
LEMMA PartsTyped ==
  ASSUME NEW table \in [Accounts -> Seq(Entry)], NEW type
  PROVE  PartsBy(table, type) \in [Accounts -> Int]
<1>1. \A a \in Accounts : PartsOf(table[a], type) \in Int
  BY SumsTyped
<1>2. QED
  BY <1>1 DEF PartsBy

\* A transfer adds its amount to both totals, and nothing but a contribution to one.
Paired(a, b, type, other, amount) ==
    /\ a # b /\ other # type
    /\ Leaves(type, amount, statements[a], statements'[a])
    /\ Leaves(other, amount, statements[b], statements'[b])
    /\ \A x \in Accounts \ {a, b} : statements'[x] = statements[x]
LEMMA TransferTotals ==
  ASSUME LedgerSound, LedgerSound', NEW a \in Accounts, NEW b \in Accounts,
         NEW type, NEW other, NEW amount \in Int, Paired(a, b, type, other, amount)
  PROVE  TotalByType(type) \in Int /\ TotalByType(type)' = TotalByType(type) + amount
<1>0. /\ a # b /\ other # type
      /\ Leaves(type, amount, statements[a], statements'[a])
      /\ Leaves(other, amount, statements[b], statements'[b])
      /\ \A x \in Accounts \ {a, b} : statements'[x] = statements[x]
  BY DEF Paired
<1> DEFINE f == PartsBy(statements, type)
           h == PartsBy(statements', type)
<1>1. f \in [Accounts -> Int] /\ h \in [Accounts -> Int]
  BY PartsTyped DEF LedgerSound
<1>2. \A x \in Accounts : /\ f[x] = PartsOf(statements[x], type)
                          /\ h[x] = PartsOf(statements'[x], type)
  BY DEF PartsBy
<1>3. SumOf(f) = TotalByType(type) /\ SumOf(h) = TotalByType(type)'
  BY DEF TotalByType, PartsBy
<1>4. statements[a] \in Seq(Entry) /\ statements[b] \in Seq(Entry)
  BY DEF LedgerSound
<1> HIDE DEF f, h
<1>5. h[a] = f[a] + amount
  <2>1. PICK x \in Entry : /\ x.type = type /\ x.amount = amount
                           /\ statements'[a] = Append(statements[a], x)
    BY <1>0 DEF Leaves
  <2>2. PartsOf(statements'[a], type) = PartsOf(statements[a], type) + Part(x, type)
    BY <1>4, <2>1, PartsGrow
  <2>3. Part(x, type) = amount
    BY <2>1 DEF Part
  <2>4. QED
    BY <1>2, <2>2, <2>3
<1>6. h[b] = f[b]
  <2>1. PICK x \in Entry : x.type = other /\ statements'[b] = Append(statements[b], x)
    BY <1>0 DEF Leaves
  <2>2. /\ PartsOf(statements'[b], type) = PartsOf(statements[b], type) + Part(x, type)
        /\ PartsOf(statements[b], type) \in Int
    BY <1>4, <2>1, PartsGrow
  <2>3. Part(x, type) = 0
    BY <1>0, <2>1 DEF Part
  <2>4. QED
    BY <1>2, <2>2, <2>3
<1>7. \A x \in Accounts \ {a} : h[x] = f[x]
  BY <1>0, <1>2, <1>6
<1>8. SumOf(f) \in Int /\ SumOf(h) = SumOf(f) + h[a] - f[a]
  BY <1>1, <1>7, TotalChanges
<1>9. QED
  BY <1>1, <1>3, <1>5, <1>8

LEMMA OthersAddNothing ==
  ASSUME LedgerSound, NEW t \in Threads, Booked(t), OpOf(t) \notin {"transfer", "contribute"},
         NEW type \in {"TRANSFER_OUT", "TRANSFER_IN"}
  PROVE  TotalByType(type)' = TotalByType(type)
<1>1. ASSUME NEW a \in Accounts PROVE PartsOf(statements'[a], type) = PartsOf(statements[a], type)
  <2>1. PICK e : AtMostOne(e) /\ statements'[a] = statements[a] \o Stamped(e) /\ ~Leg(e)
    BY Zenon DEF Booked, Books
  <2>2. GrownBy(statements[a], e, statements'[a])
    BY <2>1, Grown
  <2>3. CASE statements'[a] = statements[a]
    BY <2>3
  <2>4. CASE statements'[a] # statements[a]
    <3>1. PICK x \in Entry : /\ e # <<>> /\ x.type = e[1].type
                             /\ statements'[a] = Append(statements[a], x)
      BY <2>2, <2>4 DEF GrownBy
    <3>2. Part(x, type) = 0
      BY <2>1, <3>1 DEF Leg, Part
    <3>3. statements[a] \in Seq(Entry)
      BY DEF LedgerSound
    <3>4. /\ PartsOf(statements'[a], type) = PartsOf(statements[a], type) + Part(x, type)
          /\ PartsOf(statements[a], type) \in Int
      BY <3>1, <3>3, PartsGrow
    <3>5. QED
      BY <3>2, <3>4
  <2>5. QED
    BY <2>3, <2>4
<1>2. QED
  BY <1>1 DEF TotalByType

LEMMA TransfersPairInit == ASSUME Init PROVE TransfersPair
<1>1. statements = [a \in Accounts |-> <<>>]
  BY Zenon DEF Init
<1>2. \A type : PartsOf(<<>>, type) = PartsOf(<<>>, "TRANSFER_IN")
  <2>1. ASSUME NEW type PROVE PartsOf(<<>>, type) = 0
    <3> DEFINE f == [i \in DOMAIN <<>> |-> Part(<<>>[i], type)]
    <3>1. DOMAIN f = {}
      OBVIOUS
    <3>2. PartsOf(<<>>, type) = SumOf(f)
      BY DEF PartsOf
    <3> HIDE DEF f
    <3>3. SumOver(f, {}) = 0
      BY SumUnfold, FS_EmptySet
    <3>4. QED
      BY <3>1, <3>2, <3>3 DEF SumOf
  <2>2. QED
    BY <2>1
<1>3. QED
  BY <1>1, <1>2 DEF TransfersPair, TotalByType

LEMMA TransfersPairNext ==
  ASSUME ThreadsSound, RowsSound, IdsFree, NumbersFree, LedgerSound, OpeningKept,
         TransfersPair, LedgerSound', [Next]_vars
  PROVE  TransfersPair'
<1>1. CASE UNCHANGED tables
  BY <1>1 DEF tables, TransfersPair, Touched, TotalByType
<1>2. CASE \E t \in Threads : Wrote(t)
  <2>1. PICK t \in Threads : Wrote(t)
    BY <1>2
  <2>2. CASE \E g \in Goals : Touched(g)
    BY <2>1, <2>2, TouchedLasts DEF TransfersPair
  <2>3. CASE OpOf(t) = "contribute"
    BY <2>1, <2>3, ContributionTouches DEF TransfersPair
  <2>4. CASE TotalByType("TRANSFER_OUT") = TotalByType("TRANSFER_IN") /\ OpOf(t) = "transfer"
    <3>1. /\ Transfers(request[t]) /\ request[t].acc \in Accounts /\ request[t].to \in Accounts
          /\ request[t].value \in Int
      BY <2>1, <2>4, AtStage, RequestFields, Zenon DEF Wrote, Booked
    <3> DEFINE r == request[t]
    <3>a. /\ r.acc \in Accounts /\ r.to \in Accounts /\ r.value \in Int
          /\ Paired(r.acc, r.to, "TRANSFER_OUT", "TRANSFER_IN", r.value)
          /\ Paired(r.to, r.acc, "TRANSFER_IN", "TRANSFER_OUT", r.value)
      BY <3>1 DEF Transfers, Paired
    <3> HIDE DEF r
    <3>b. TotalByType("TRANSFER_OUT")' = TotalByType("TRANSFER_OUT") + r.value
      BY <3>a, TransferTotals
    <3>c. TotalByType("TRANSFER_IN")' = TotalByType("TRANSFER_IN") + r.value
      BY <3>a, TransferTotals
    <3>2. /\ TotalByType("TRANSFER_OUT")' = TotalByType("TRANSFER_OUT") + r.value
          /\ TotalByType("TRANSFER_IN")' = TotalByType("TRANSFER_IN") + r.value
      BY <3>b, <3>c
    <3>3. QED
      BY <2>4, <3>2 DEF TransfersPair
  <2>5. CASE /\ TotalByType("TRANSFER_OUT") = TotalByType("TRANSFER_IN")
             /\ OpOf(t) \notin {"transfer", "contribute"}
    BY <2>1, <2>5, OthersAddNothing DEF TransfersPair, Wrote
  <2>6. QED
    BY <2>2, <2>3, <2>4, <2>5 DEF TransfersPair
<1>3. QED
  BY <1>1, <1>2, TablesStep

-------------------------------------------------------------------------------
(* What the deposits and withdrawals explain *)

LEMMA SumPlus ==
  ASSUME NEW f, NEW g, NEW h, NEW S, IsFiniteSet(S),
         \A x \in S : f[x] \in Int /\ g[x] \in Int /\ h[x] = f[x] + g[x]
  PROVE  SumOver(h, S) = SumOver(f, S) + SumOver(g, S)
<1> DEFINE B == {s \in SUBSET S : SumOver(h, s) # SumOver(f, s) + SumOver(g, s)}
<1>1. SUFFICES ASSUME B # {} PROVE FALSE
  OBVIOUS
<1>2. \A s \in SUBSET S : /\ IsFiniteSet(s) /\ Cardinality(s) \in Nat
                          /\ SumOver(f, s) \in Int /\ SumOver(g, s) \in Int
  BY FS_Subset, FS_CardinalityType, SumInt
<1>3. PICK s \in B : \A r \in B : Cardinality(s) <= Cardinality(r)
  BY <1>1, <1>2, LeastSet
<1>4. /\ SumOver(f, s) = IF s = {} THEN 0 ELSE f[Choice(s)] + SumOver(f, s \ {Choice(s)})
      /\ SumOver(g, s) = IF s = {} THEN 0 ELSE g[Choice(s)] + SumOver(g, s \ {Choice(s)})
      /\ SumOver(h, s) = IF s = {} THEN 0 ELSE h[Choice(s)] + SumOver(h, s \ {Choice(s)})
  BY <1>2, SumUnfold
<1>5. s # {}
  BY <1>4
<1> DEFINE c == Choice(s)
           rest == s \ {c}
<1>6. c \in s
  BY <1>5 DEF Choice
<1>7. rest \in SUBSET S /\ Cardinality(rest) = Cardinality(s) - 1
  BY <1>2, <1>6, FS_RemoveElement
<1>8. rest \notin B
  BY <1>2, <1>3, <1>7
<1>9. /\ SumOver(h, rest) = SumOver(f, rest) + SumOver(g, rest)
      /\ SumOver(f, rest) \in Int /\ SumOver(g, rest) \in Int
      /\ f[c] \in Int /\ g[c] \in Int /\ h[c] = f[c] + g[c]
  BY <1>2, <1>6, <1>7, <1>8
<1>10. SumOver(h, s) # SumOver(f, s) + SumOver(g, s)
  OBVIOUS
<1> HIDE DEF B, c, rest
<1>11. QED
  BY <1>4, <1>5, <1>9, <1>10 DEF c, rest

\* A statement of deposits, withdrawals and transfers.
Ordinary == {"DEPOSIT", "WITHDRAW", "TRANSFER_OUT", "TRANSFER_IN"}
LEMMA OrdinarySum ==
  ASSUME NEW s \in Seq(Entry), \A i \in DOMAIN s : s[i].type \in Ordinary
  PROVE  SignedSum(s) + (PartsOf(s, "WITHDRAW") + PartsOf(s, "TRANSFER_OUT"))
             = PartsOf(s, "DEPOSIT") + PartsOf(s, "TRANSFER_IN")
<1> DEFINE S == DOMAIN s
           P(type) == [i \in DOMAIN s |-> Part(s[i], type)]
           e == [i \in DOMAIN s |-> Sign(s[i].type) * s[i].amount]
           out == [i \in DOMAIN s |-> Part(s[i], "WITHDRAW") + Part(s[i], "TRANSFER_OUT")]
           in == [i \in DOMAIN s |-> Part(s[i], "DEPOSIT") + Part(s[i], "TRANSFER_IN")]
<1>1. DOMAIN s = 1 .. Len(s) /\ Len(s) \in Nat /\ \A i \in DOMAIN s : s[i] \in Entry
  OBVIOUS
<1>2. IsFiniteSet(S)
  BY <1>1, FS_Interval
<1>3. \A i \in S : \A type : Part(s[i], type) \in Int
  BY <1>1, EntryPart
<1>4. \A i \in S : /\ Sign(s[i].type) * s[i].amount \in Int
                   /\ Part(s[i], "DEPOSIT") + Part(s[i], "TRANSFER_IN")
                        = Sign(s[i].type) * s[i].amount
                          + (Part(s[i], "WITHDRAW") + Part(s[i], "TRANSFER_OUT"))
  <2>1. TAKE i \in S
  <2>2. s[i].amount \in Int /\ s[i].type \in Ordinary
    BY <1>1 DEF Entry
  <2>3. QED
    BY <2>2 DEF Part, Sign, Ordinary
<1>5. SumOver(out, S) = SumOver(P("WITHDRAW"), S) + SumOver(P("TRANSFER_OUT"), S)
  <2>1. \A i \in S : /\ P("WITHDRAW")[i] \in Int /\ P("TRANSFER_OUT")[i] \in Int
                     /\ out[i] = P("WITHDRAW")[i] + P("TRANSFER_OUT")[i]
    BY <1>3
  <2> HIDE DEF P, out, S
  <2>2. QED
    BY <1>2, <2>1, SumPlus
<1>6. SumOver(in, S) = SumOver(P("DEPOSIT"), S) + SumOver(P("TRANSFER_IN"), S)
  <2>1. \A i \in S : /\ P("DEPOSIT")[i] \in Int /\ P("TRANSFER_IN")[i] \in Int
                     /\ in[i] = P("DEPOSIT")[i] + P("TRANSFER_IN")[i]
    BY <1>3
  <2> HIDE DEF P, in, S
  <2>2. QED
    BY <1>2, <2>1, SumPlus
<1>7. SumOver(in, S) = SumOver(e, S) + SumOver(out, S)
  <2>1. \A i \in S : e[i] \in Int /\ out[i] \in Int /\ in[i] = e[i] + out[i]
    BY <1>3, <1>4
  <2> HIDE DEF e, in, out, S
  <2>2. QED
    BY <1>2, <2>1, SumPlus
<1>8. /\ SignedSum(s) = SumOver(e, S) /\ PartsOf(s, "WITHDRAW") = SumOver(P("WITHDRAW"), S)
      /\ PartsOf(s, "TRANSFER_OUT") = SumOver(P("TRANSFER_OUT"), S)
      /\ PartsOf(s, "DEPOSIT") = SumOver(P("DEPOSIT"), S)
      /\ PartsOf(s, "TRANSFER_IN") = SumOver(P("TRANSFER_IN"), S)
  BY DEF SignedSum, PartsOf, SumOf
<1> HIDE DEF S, P, e, in, out
<1>9. QED
  BY <1>5, <1>6, <1>7, <1>8, Zenon

\* Terms that are zero can be left out.
LEMMA SumOfRest ==
  ASSUME NEW f, NEW S, IsFiniteSet(S), NEW T \in SUBSET S, \A x \in S : f[x] \in Int,
         \A x \in S \ T : f[x] = 0
  PROVE  SumOver(f, S) = SumOver(f, T)
<1> DEFINE B == {s \in SUBSET S : T \subseteq s /\ SumOver(f, s) # SumOver(f, T)}
<1>1. SUFFICES ASSUME B # {} PROVE FALSE
  OBVIOUS
<1>2. \A s \in SUBSET S : IsFiniteSet(s) /\ Cardinality(s) \in Nat /\ SumOver(f, s) \in Int
  BY FS_Subset, FS_CardinalityType, SumInt
<1>3. PICK s \in B : \A r \in B : Cardinality(s) <= Cardinality(r)
  BY <1>1, <1>2, LeastSet
<1>4. PICK x \in s : x \notin T
  OBVIOUS
<1>5. SumOver(f, s) = f[x] + SumOver(f, s \ {x})
  BY <1>2, SumRemove
<1>6. f[x] = 0 /\ s \ {x} \in SUBSET S /\ T \subseteq s \ {x}
  BY <1>4
<1>7. Cardinality(s \ {x}) = Cardinality(s) - 1
  BY <1>2, FS_RemoveElement
<1>8. s \ {x} \notin B
  BY <1>2, <1>3, <1>6, <1>7
<1>9. QED
  BY <1>2, <1>5, <1>6, <1>8

\* What the books say of the total balance, as long as nothing but deposits, withdrawals and
\* transfers has happened.
Clean ==
    /\ NoDeletion /\ \A g \in Goals : ~Touched(g)
    /\ \A a \in Accounts : Moves(a, Ordinary)
TotalBalance == SumOf([a \in Listed(accounts) |-> accounts[a].balance])

LEMMA UntouchedGoals ==
  ASSUME RowsSound, OpeningKept, \A g \in Goals : ~Touched(g)
  PROVE  NoRefund
<1>1. ASSUME NEW g \in Goals, ~goals[g].exists PROVE goals[g] = OpeningGoals[g]
  <2> DEFINE b == OpeningGoals[g]
             r == goals[g]
  <2>1. /\ SoundGoal(r) /\ SoundGoal(b) /\ GoalKept(b, r) /\ r.owner = b.owner /\ ~b.exists
    BY <1>1, ApiAssumption DEF RowsSound, OpeningKept, Touched
  <2>2. CASE b.owner = 0
    BY <2>1, <2>2 DEF SoundGoal
  <2>3. CASE b.owner # 0
    BY <2>1, <2>3 DEF GoalKept
  <2>4. QED
    BY <2>2, <2>3
<1>2. QED
  BY <1>1 DEF NoRefund

LEMMA BooksBalance ==
  ASSUME RowsSound, LedgerSound, OpeningKept, ExportsTrue, TransfersPair, Clean
  PROVE  TotalBalance = OpeningBalance + TotalByType("DEPOSIT") - TotalByType("WITHDRAW")
<1> DEFINE P(type) == PartsBy(statements, type)
           o == [a \in Accounts |-> IF OpeningAccounts[a].deleted THEN 0
                                    ELSE OpeningAccounts[a].balance]
           n == [a \in Accounts |-> IF accounts[a].deleted THEN 0 ELSE accounts[a].balance]
           e == [a \in Accounts |-> SignedSum(statements[a])]
           out == [a \in Accounts |-> P("WITHDRAW")[a] + P("TRANSFER_OUT")[a]]
           in == [a \in Accounts |-> P("DEPOSIT")[a] + P("TRANSFER_IN")[a]]
<1>0. IsFiniteSet(Accounts)
  BY ApiAssumption
<1>1. /\ accounts \in [Accounts -> AccountRow] /\ OpeningAccounts \in [Accounts -> AccountRow]
      /\ statements \in [Accounts -> Seq(Entry)]
      /\ \A a \in Accounts : accounts[a].balance \in Int /\ OpeningAccounts[a].balance \in Int
  BY ApiAssumption DEF RowsSound, LedgerSound, AccountRow
<1>2. ASSUME NEW type
      PROVE  P(type) \in [Accounts -> Int] /\ TotalByType(type) = SumOver(P(type), Accounts)
  BY <1>1, PartsTyped DEF PartsBy, TotalByType, SumOf
<1>3. \A a \in Accounts : /\ o[a] \in Int /\ e[a] \in Int /\ n[a] = o[a] + e[a]
  <2>1. TAKE a \in Accounts
  <2>2. ExportAddsUp(a)
    <3>1. Moves(a, Plainly)
      BY DEF Clean, Moves, Ordinary, Plainly, TransactionType
    <3>2. QED
      BY <3>1, UntouchedGoals DEF Clean, ExportsTrue
  <2>3. SignedSum(statements[a]) = accounts[a].balance - OpeningAccounts[a].balance
    BY <2>2 DEF ExportAddsUp, Exported, SignedSum
  <2>4. /\ accounts[a].deleted => accounts[a] = OpeningAccounts[a]
        /\ AccountKept(OpeningAccounts[a], accounts[a])
    BY DEF Clean, NoDeletion, OpeningKept
  <2>5. OpeningAccounts[a].deleted /\ ~accounts[a].deleted => OpeningAccounts[a].balance = 0
    BY <2>4 DEF AccountKept, Unused
  <2>6. QED
    BY <1>1, <2>3, <2>4, <2>5
<1>4. \A a \in Accounts : out[a] \in Int /\ in[a] = e[a] + out[a]
  <2>1. TAKE a \in Accounts
  <2>2. statements[a] \in Seq(Entry) /\ Moves(a, Ordinary)
    BY <1>1 DEF Clean
  <2>3. \A i \in DOMAIN statements[a] : statements[a][i].type \in Ordinary
    BY <2>2 DEF Moves
  <2>4. SignedSum(statements[a])
           + (PartsOf(statements[a], "WITHDRAW") + PartsOf(statements[a], "TRANSFER_OUT"))
             = PartsOf(statements[a], "DEPOSIT") + PartsOf(statements[a], "TRANSFER_IN")
    BY <2>2, <2>3, OrdinarySum
  <2>5. PartsOf(statements[a], "WITHDRAW") \in Int /\ PartsOf(statements[a], "TRANSFER_OUT") \in Int
    BY <2>2, SumsTyped
  <2>6. QED
    BY <2>4, <2>5 DEF PartsBy
<1>5. SumOver(out, Accounts) = TotalByType("WITHDRAW") + TotalByType("TRANSFER_OUT")
  <2>1. \A a \in Accounts : /\ P("WITHDRAW")[a] \in Int /\ P("TRANSFER_OUT")[a] \in Int
                            /\ out[a] = P("WITHDRAW")[a] + P("TRANSFER_OUT")[a]
    BY <1>2
  <2> HIDE DEF P, out
  <2>2. QED
    BY <1>0, <1>2, <2>1, SumPlus
<1>6. SumOver(in, Accounts) = TotalByType("DEPOSIT") + TotalByType("TRANSFER_IN")
  <2>1. \A a \in Accounts : /\ P("DEPOSIT")[a] \in Int /\ P("TRANSFER_IN")[a] \in Int
                            /\ in[a] = P("DEPOSIT")[a] + P("TRANSFER_IN")[a]
    BY <1>2
  <2> HIDE DEF P, in
  <2>2. QED
    BY <1>0, <1>2, <2>1, SumPlus
<1>7. \A type : TotalByType(type) \in Int
  <2> HIDE DEF P
  <2>1. QED
    BY <1>0, <1>2, SumInt
<1>8. TotalByType("TRANSFER_OUT") = TotalByType("TRANSFER_IN")
  BY DEF Clean, TransfersPair
<1>9. TotalBalance = SumOver(n, Accounts)
  <2> DEFINE T == Listed(accounts)
             f == [a \in T |-> accounts[a].balance]
  <2>1. T \in SUBSET Accounts /\ IsFiniteSet(T)
    BY <1>0, <1>1, FS_Subset DEF Listed
  <2>2. /\ \A a \in T : f[a] = n[a]
        /\ \A a \in Accounts \ T : n[a] = 0
        /\ \A a \in Accounts : n[a] \in Int
    BY <1>1 DEF Listed
  <2>3. TotalBalance = SumOver(f, T)
    BY DEF TotalBalance, SumOf
  <2> HIDE DEF T, f, n
  <2>4. SumOver(f, T) = SumOver(n, T)
    BY <2>1, <2>2, SumSame
  <2>5. SumOver(n, Accounts) = SumOver(n, T)
    BY <1>0, <2>1, <2>2, SumOfRest
  <2>6. QED
    BY <2>3, <2>4, <2>5
<1>10. OpeningBalance = SumOver(o, Accounts)
  <2> DEFINE T == Listed(OpeningAccounts)
             f == [a \in T |-> OpeningAccounts[a].balance]
  <2>1. T \in SUBSET Accounts /\ IsFiniteSet(T)
    BY <1>0, <1>1, FS_Subset DEF Listed
  <2>2. /\ \A a \in T : f[a] = o[a]
        /\ \A a \in Accounts \ T : o[a] = 0
        /\ \A a \in Accounts : o[a] \in Int
    BY <1>1 DEF Listed
  <2>3. OpeningBalance = SumOver(f, T)
    BY DEF OpeningBalance, SumOf
  <2> HIDE DEF T, f, o
  <2>4. SumOver(f, T) = SumOver(o, T)
    BY <2>1, <2>2, SumSame
  <2>5. SumOver(o, Accounts) = SumOver(o, T)
    BY <1>0, <2>1, <2>2, SumOfRest
  <2>6. QED
    BY <2>3, <2>4, <2>5
<1> HIDE DEF P, o, n, e, out, in
<1>11. SumOver(n, Accounts) = SumOver(o, Accounts) + SumOver(e, Accounts)
  BY <1>0, <1>3, SumPlus
<1>12. SumOver(in, Accounts) = SumOver(e, Accounts) + SumOver(out, Accounts)
  BY <1>0, <1>3, <1>4, SumPlus
<1>13. SumOver(o, Accounts) \in Int /\ SumOver(e, Accounts) \in Int
  BY <1>0, <1>3, SumInt
<1>14. QED
  BY <1>5, <1>6, <1>7, <1>8, <1>9, <1>10, <1>11, <1>12, <1>13

\* What has spoiled the books stays.
LEMMA CleanWas ==
  ASSUME ThreadsSound, RowsSound, IdsFree, NumbersFree, LedgerSound, OpeningKept,
         [Next]_vars, Clean'
  PROVE  Clean
<1>1. CASE UNCHANGED tables
  BY <1>1 DEF tables, Clean, NoDeletion, Touched, Moves
<1>2. CASE \E t \in Threads : Wrote(t)
  <2>1. PICK t \in Threads : Wrote(t)
    BY <1>2
  <2>2. \A g \in Goals : ~Touched(g)
    <3>1. ASSUME NEW g \in Goals, Touched(g) PROVE FALSE
      <4>1. Touched(g)'
        BY <2>1, <3>1, TouchedLasts
      <4>2. QED
        BY <4>1 DEF Clean
    <3>2. QED
      BY <3>1
  <2>3. ASSUME NEW a \in Accounts, accounts[a].deleted PROVE accounts[a] = OpeningAccounts[a]
    <3>1. CASE accounts'[a] = accounts[a]
      BY <2>3, <3>1 DEF Clean, NoDeletion
    <3>2. CASE accounts'[a] # accounts[a]
      <4>1. OpOf(t) = "register" /\ a = request[t].acc
        BY <2>1, <2>3, <3>2, Zenon DEF Wrote, Booked, Books
      <4>2. Creates(t, "register")
        BY <2>1, <4>1 DEF Wrote, Leaving, Creates, Before
      <4>3. QED
        BY <4>1, <4>2 DEF NumbersFree
    <3>3. QED
      BY <3>1, <3>2
  <2>4. ASSUME NEW a \in Accounts PROVE Moves(a, Ordinary)
    <3>1. PICK e : Books(t, a, e)
      BY <2>1, Zenon DEF Wrote, Booked
    <3>2. GrownBy(statements[a], e, statements'[a])
      BY <3>1, Grown DEF Books
    <3>3. Moves(a, Ordinary)'
      BY DEF Clean
    <3>4. CASE statements'[a] = statements[a]
      BY <3>3, <3>4 DEF Moves
    <3>5. CASE \E x \in Entry : statements'[a] = Append(statements[a], x)
      <4>1. PICK x \in Entry : statements'[a] = Append(statements[a], x)
        BY <3>5
      <4>2. statements[a] \in Seq(Entry)
        BY DEF LedgerSound
      <4>3. \A i \in DOMAIN statements[a] :
                i \in DOMAIN statements'[a] /\ statements'[a][i] = statements[a][i]
        BY <4>1, <4>2
      <4>4. QED
        BY <3>3, <4>3 DEF Moves
    <3>6. QED
      BY <3>2, <3>4, <3>5 DEF GrownBy
  <2>5. QED
    BY <2>2, <2>3, <2>4 DEF Clean, NoDeletion
<1>3. QED
  BY <1>1, <1>2, TablesStep

-------------------------------------------------------------------------------
(* Positions from the newest on *)

\* The k positions from n downwards.
Down(n, k) == [i \in 1 .. k |-> n + 1 - i]

LEMMA DownTyped ==
  ASSUME NEW n \in Nat, NEW k \in 0 .. n
  PROVE  /\ Down(n, k) \in Seq(Nat) /\ Len(Down(n, k)) = k /\ DOMAIN Down(n, k) = 1 .. k
         /\ \A i \in 1 .. k : Down(n, k)[i] = n + 1 - i
BY DEF Down

LEMMA DownMore ==
  ASSUME NEW n \in Nat, NEW k \in Nat, k < n
  PROVE  Down(n, k + 1) = Append(Down(n, k), n - k)
<1>1. k \in 0 .. n /\ k + 1 \in 0 .. n
  OBVIOUS
<1>2. /\ Len(Down(n, k)) = k /\ Down(n, k) \in Seq(Nat)
      /\ Len(Down(n, k + 1)) = k + 1 /\ Down(n, k + 1) \in Seq(Nat)
      /\ \A i \in 1 .. k : Down(n, k)[i] = n + 1 - i
      /\ \A i \in 1 .. (k + 1) : Down(n, k + 1)[i] = n + 1 - i
  BY <1>1, DownTyped
<1> DEFINE s == Down(n, k)
           r == Down(n, k + 1)
<1> HIDE DEF s, r
<1>3. /\ s \in Seq(Nat) /\ Len(s) = k /\ r \in Seq(Nat) /\ Len(r) = k + 1
      /\ \A i \in 1 .. k : s[i] = n + 1 - i /\ \A j \in 1 .. (k + 1) : r[j] = n + 1 - j
  BY <1>2 DEF s, r
<1>4. /\ Append(s, n - k) \in Seq(Nat) /\ Len(Append(s, n - k)) = k + 1
      /\ \A i \in 1 .. k : Append(s, n - k)[i] = s[i]
      /\ Append(s, n - k)[k + 1] = n - k
  BY <1>3
<1>5. \A i \in 1 .. (k + 1) : Append(s, n - k)[i] = r[i]
  <2>1. TAKE i \in 1 .. (k + 1)
  <2>2. CASE i \in 1 .. k
    BY <1>2, <1>4, <2>2 DEF s, r
  <2>3. CASE i = k + 1
    BY <1>2, <1>4, <2>3 DEF s, r
  <2>4. i \in 1 .. k \/ i = k + 1
    OBVIOUS
  <2>5. QED
    BY <2>2, <2>3, <2>4
<1>6. Append(s, n - k) = r
  BY <1>3, <1>4, <1>5
<1>7. QED
  BY <1>6 DEF s, r

\* The positions up to m, kept of all.
LEMMA KeptDown ==
  ASSUME NEW n \in Nat, NEW m \in 0 .. n, NEW S, S \cap (1 .. n) = 1 .. m
  PROVE  Kept(Down(n, n), S) = Down(m, m)
<1> DEFINE Want(k) == IF k <= n - m THEN <<>> ELSE Down(m, k - (n - m))
           B == {k \in 0 .. n : Kept(Down(n, k), S) # Want(k)}
<1>1. B = {}
  <2>1. SUFFICES ASSUME B # {} PROVE FALSE
    OBVIOUS
  <2>2. PICK k \in B : \A j \in B : k <= j
    <3>1. B \subseteq Nat
      OBVIOUS
    <3>2. QED
      BY <2>1, <3>1, LeastNat
  <2>3. k \in 0 .. n /\ Kept(Down(n, k), S) # Want(k)
    OBVIOUS
  <2>4. k # 0
    <3>1. Down(n, 0) = <<>>
      BY DEF Down
    <3>2. Want(0) = <<>>
      OBVIOUS
    <3>3. QED
      BY <2>3, <3>1, <3>2, KeptOfNone
  <2> DEFINE j == k - 1
  <2>5. j \in Nat /\ j < n /\ j \in 0 .. n /\ j + 1 = k /\ j \notin B
    BY <2>2, <2>3, <2>4
  <2>6. Kept(Down(n, j), S) = Want(j)
    BY <2>5
  <2>7. Down(n, k) = Append(Down(n, j), n - j)
    BY <2>5, DownMore
  <2>8. Down(n, j) \in Seq(Nat) /\ n - j \in Nat /\ n - j \in 1 .. n
    BY <2>5, DownTyped
  <2>9. Kept(Down(n, k), S)
          = IF n - j \in S THEN Append(Kept(Down(n, j), S), n - j) ELSE Kept(Down(n, j), S)
    <3> DEFINE p == Down(n, j)
               x == n - j
    <3>1. p \in Seq(Nat) /\ x \in Nat /\ Down(n, k) = Append(p, x)
      BY <2>7, <2>8
    <3> HIDE DEF p, x
    <3>2. Kept(Append(p, x), S) = IF x \in S THEN Append(Kept(p, S), x) ELSE Kept(p, S)
      BY <3>1, KeptOfMore
    <3>3. QED
      BY <3>1, <3>2 DEF p, x
  <2>10. n - j \in S <=> n - j <= m
    BY <2>8
  <2> HIDE DEF B, j, Want
  <2>11. CASE n - j > m
    <3>1. Want(j) = <<>> /\ Want(k) = <<>>
      BY <2>5, <2>11 DEF Want
    <3>2. QED
      BY <2>3, <2>5, <2>6, <2>9, <2>10, <2>11, <3>1
  <2>12. CASE n - j <= m
    <3> DEFINE d == j - (n - m)
    <3>1. d \in Nat /\ d < m /\ n - j = m - d /\ k - (n - m) = d + 1 /\ m \in Nat
      BY <2>5, <2>12
    <3>2. Want(k) = Down(m, d + 1)
      <4>1. ~(k <= n - m)
        BY <2>5, <2>12
      <4>2. QED
        BY <3>1, <4>1 DEF Want
    <3>3. Want(j) = Down(m, d)
      <4>1. CASE d = 0
        <5>1. Want(j) = <<>>
          BY <2>5, <4>1 DEF Want
        <5>2. Down(m, 0) = <<>>
          BY DEF Down
        <5>3. QED
          BY <4>1, <5>1, <5>2
      <4>2. CASE d # 0
        <5>1. ~(j <= n - m)
          BY <2>5, <3>1, <4>2
        <5>2. QED
          BY <5>1 DEF Want
      <4>3. QED
        BY <4>1, <4>2
    <3>4. Down(m, d + 1) = Append(Down(m, d), m - d)
      BY <3>1, DownMore
    <3> HIDE DEF d
    <3>5. QED
      BY <2>3, <2>6, <2>9, <2>10, <2>12, <3>1, <3>2, <3>3, <3>4
  <2>13. QED
    BY <2>5, <2>11, <2>12
<1>2. Kept(Down(n, n), S) = Want(n)
  BY <1>1
<1>3. Want(n) = Down(m, m)
  <2>1. CASE m = 0
    <3>1. Down(0, 0) = <<>>
      BY DEF Down
    <3>2. QED
      BY <2>1, <3>1
  <2>2. CASE m # 0
    <3>1. ~(n <= n - m) /\ n - (n - m) = m
      BY <2>2
    <3>2. QED
      BY <3>1
  <2>3. QED
    BY <2>1, <2>2
<1>4. QED
  BY <1>2, <1>3

LEMMA DownJoins ==
  ASSUME NEW n \in Nat, NEW k \in 0 .. n, NEW j \in 0 .. (n - k)
  PROVE  Down(n, k) \o Down(n - k, j) = Down(n, k + j)
<1>1. /\ n - k \in Nat /\ k + j \in 0 .. n /\ k \in Nat /\ j \in Nat /\ j \in 0 .. (n - k)
  OBVIOUS
<1> DEFINE s == Down(n, k)
           r == Down(n - k, j)
           w == Down(n, k + j)
<1>2. /\ s \in Seq(Nat) /\ Len(s) = k /\ \A i \in 1 .. k : s[i] = n + 1 - i
      /\ r \in Seq(Nat) /\ Len(r) = j /\ \A i \in 1 .. j : r[i] = (n - k) + 1 - i
      /\ w \in Seq(Nat) /\ Len(w) = k + j /\ \A i \in 1 .. (k + j) : w[i] = n + 1 - i
  BY <1>1, DownTyped
<1> HIDE DEF s, r, w
<1>3. /\ s \o r \in Seq(Nat) /\ Len(s \o r) = k + j
      /\ \A i \in 1 .. (k + j) : (s \o r)[i] = IF i <= k THEN s[i] ELSE r[i - k]
  <2>1. s \in Seq(Nat) /\ r \in Seq(Nat) /\ Len(s) = k /\ Len(r) = j
    BY <1>2
  <2>2. /\ s \o r \in Seq(Nat) /\ Len(s \o r) = Len(s) + Len(r)
        /\ \A i \in 1 .. (Len(s) + Len(r)) :
               (s \o r)[i] = IF i <= Len(s) THEN s[i] ELSE r[i - Len(s)]
    BY <2>1, ConcatProperties
  <2>3. QED
    BY <2>1, <2>2
<1>4. \A i \in 1 .. (k + j) : (s \o r)[i] = w[i]
  <2>1. TAKE i \in 1 .. (k + j)
  <2>2. CASE i <= k
    BY <1>1, <1>2, <1>3, <2>2
  <2>3. CASE ~(i <= k)
    <3>1. i - k \in 1 .. j /\ i \in Int
      BY <1>1, <2>3
    <3>2. QED
      BY <1>1, <1>2, <1>3, <2>3, <3>1
  <2>4. QED
    BY <2>2, <2>3
<1>5. s \o r = w
  <2> DEFINE both == s \o r
  <2>1. both \in Seq(Nat) /\ w \in Seq(Nat) /\ Len(both) = Len(w) /\ Len(w) = k + j
        /\ \A i \in 1 .. (k + j) : both[i] = w[i]
    BY <1>2, <1>3, <1>4
  <2> HIDE DEF both
  <2>2. both = w
    BY <2>1
  <2>3. QED
    BY <2>2 DEF both
<1>6. QED
  BY <1>5 DEF s, r, w

LEMMA FirstFewDown ==
  ASSUME NEW n \in Nat, NEW k \in 0 .. n, NEW c \in Nat
  PROVE  FirstFew(Down(n, k), c) = Down(n, IF c <= k THEN c ELSE k)
<1> DEFINE s == Down(n, k)
           d == IF c <= k THEN c ELSE k
           w == Down(n, d)
<1>1. d \in 0 .. n /\ d <= k /\ d \in Nat /\ k \in Nat
  OBVIOUS
<1>2. Min({c, k}) = d
  BY <1>1, MinOfTwo
<1>3. /\ s \in Seq(Nat) /\ Len(s) = k /\ \A i \in 1 .. k : s[i] = n + 1 - i
      /\ w \in Seq(Nat) /\ Len(w) = d /\ \A i \in 1 .. d : w[i] = n + 1 - i
  BY <1>1, DownTyped
<1> HIDE DEF s, w, d
<1>4. FirstFew(s, c) = SubSeq(s, 1, d)
  BY <1>2, <1>3 DEF FirstFew
<1>5. /\ SubSeq(s, 1, d) \in Seq(Nat) /\ Len(SubSeq(s, 1, d)) = d
      /\ \A i \in 1 .. d : SubSeq(s, 1, d)[i] = s[i]
  BY <1>1, <1>3
<1>6. SubSeq(s, 1, d) = w
  BY <1>1, <1>3, <1>5
<1>7. QED
  BY <1>4, <1>6 DEF s, w, d

\* A statement in the order of its times is read from its end.
LEMMA NewestIs ==
  ASSUME LedgerSound, NEW a \in Accounts
  PROVE  LET n == Len(statements[a]) IN n \in Nat /\ Newest(a) = Down(n, n)
<1> DEFINE n == Len(statements[a])
           rows == DOMAIN statements[a]
           at(i) == statements[a][i].at
           Later(i, j) == at(i) > at(j) \/ (at(i) = at(j) /\ i > j)
           Fits(s) == \A i, j \in rows : i < j => Later(s[i], s[j])
           d == Down(n, n)
<1>1. /\ n \in Nat /\ rows = 1 .. n /\ \A i \in rows : at(i) \in Nat
      /\ \A i, j \in rows : i <= j => at(i) <= at(j)
  <2>1. statements[a] \in Seq(Entry) /\ InOrder(statements[a])
    BY DEF LedgerSound
  <2>2. /\ n \in Nat /\ rows = 1 .. n /\ \A i \in rows : statements[a][i] \in Entry
    BY <2>1
  <2>3. \A i \in rows : at(i) \in Nat
    BY <2>2 DEF Entry
  <2>4. \A i, j \in rows : i <= j => at(i) <= at(j)
    BY <2>1 DEF InOrder
  <2>5. QED
    BY <2>2, <2>3, <2>4
<1>2. \A i, j \in rows : Later(i, j) <=> i > j
  <2>1. TAKE i \in rows, j \in rows
  <2>2. CASE i > j
    BY <1>1, <2>2
  <2>3. CASE i <= j
    BY <1>1, <2>3
  <2>4. QED
    BY <1>1, <2>2, <2>3
<1>3. Newest(a) = CHOOSE s \in Bijection(rows, rows) : Fits(s)
  BY Zenon DEF Newest
<1>4. /\ DOMAIN d = rows /\ \A i \in rows : d[i] = n + 1 - i /\ d[i] \in rows
  BY <1>1 DEF Down
<1>d. d = [i \in 1 .. n |-> n + 1 - i]
  BY DEF Down
<1> HIDE DEF rows, at, Later, d
<1>5. d \in Bijection(rows, rows) /\ Fits(d)
  <2>1. d \in [rows -> rows]
    <3>1. d = [i \in rows |-> n + 1 - i]
      BY <1>1 DEF d, Down
    <3>2. QED
      BY <1>4, <3>1
  <2>2. IsInjective(d)
    BY <1>1, <1>4 DEF IsInjective
  <2>3. \A x \in rows : \E i \in rows : d[i] = x
    <3>1. TAKE x \in rows
    <3>2. n + 1 - x \in rows /\ n + 1 - (n + 1 - x) = x
      BY <1>1
    <3>3. d[n + 1 - x] = x
      BY <1>4, <3>2
    <3>4. QED
      BY <3>2, <3>3
  <2>4. Fits(d)
    BY <1>1, <1>2, <1>4
  <2>5. QED
    BY <2>1, <2>2, <2>3, <2>4 DEF Bijection, Injection, Surjection
<1> DEFINE s == Newest(a)
<1>6. s \in Bijection(rows, rows) /\ Fits(s)
  BY <1>3, <1>5
<1> HIDE DEF s
<1>7. /\ s \in [rows -> rows] /\ \A i, j \in rows : s[i] = s[j] => i = j
      /\ \A x \in rows : \E i \in rows : s[i] = x
      /\ \A i, j \in rows : i < j => s[i] > s[j]
  <2>1. /\ s \in [rows -> rows] /\ \A i, j \in rows : s[i] = s[j] => i = j
        /\ \A x \in rows : \E i \in rows : s[i] = x
    BY <1>6 DEF Bijection, Injection, Surjection, IsInjective
  <2>2. QED
    BY <1>2, <1>6, <2>1
<1>8. \A i \in rows : s[i] = n + 1 - i
  <2> DEFINE B == {i \in rows : s[i] # n + 1 - i}
  <2>1. SUFFICES ASSUME B # {} PROVE FALSE
    OBVIOUS
  <2>2. B \subseteq Nat
    BY <1>1
  <2>3. PICK i \in B : \A j \in B : i <= j
    BY <2>1, <2>2, LeastNat
  <2>4. i \in rows /\ s[i] # n + 1 - i /\ s[i] \in rows /\ i \in 1 .. n /\ s[i] \in 1 .. n
    BY <1>1, <1>7
  <2>5. \A j \in 1 .. (i - 1) : s[j] = n + 1 - j /\ j \in rows
    BY <1>1, <2>3, <2>4
  <2>6. s[i] <= n + 1 - i
    <3>1. ASSUME s[i] > n + 1 - i PROVE FALSE
      <4>1. n + 1 - s[i] \in 1 .. (i - 1) /\ n + 1 - (n + 1 - s[i]) = s[i]
        BY <1>1, <2>4, <3>1
      <4>2. s[n + 1 - s[i]] = s[i] /\ n + 1 - s[i] \in rows
        BY <2>5, <4>1
      <4>3. n + 1 - s[i] = i
        BY <1>7, <2>4, <4>2
      <4>4. QED
        BY <2>4, <4>3, <4>1
    <3>2. QED
      BY <1>1, <2>4, <3>1
  <2>7. PICK j \in rows : s[j] = n + 1 - i
    <3>1. n + 1 - i \in rows
      BY <1>1, <2>4
    <3>2. QED
      BY <1>7, <3>1
  <2>8. j \in 1 .. n /\ j # i
    BY <1>1, <2>4, <2>7
  <2>9. CASE j < i
    <3>1. j \in 1 .. (i - 1)
      BY <2>4, <2>8, <2>9
    <3>2. s[j] = n + 1 - j
      BY <2>5, <3>1
    <3>3. QED
      BY <1>1, <2>4, <2>7, <2>8, <2>9, <3>2
  <2>10. CASE j > i
    <3>1. s[i] > s[j]
      BY <1>7, <2>4, <2>7, <2>10
    <3>2. QED
      BY <1>1, <2>4, <2>6, <2>7, <3>1
  <2>11. QED
    BY <2>4, <2>8, <2>9, <2>10
<1>9. s = d
  <2>1. s = [i \in rows |-> s[i]]
    BY <1>7
  <2>2. QED
    BY <1>1, <1>8, <1>d, <2>1
<1>10. QED
  BY <1>1, <1>9 DEF s, d

Least(n, m) == IF n <= m THEN n ELSE m
Older(a, cursor) == {i \in DOMAIN statements[a] : cursor = -1 \/ statements[a][i].at < cursor}

\* The page before a row.
LEMMA KeysetIs ==
  ASSUME LedgerSound, NEW a \in Accounts, NEW limit \in Nat \ {0}, NEW cursor,
         NEW m \in 0 .. Len(statements[a]), Older(a, cursor) = 1 .. m
  PROVE  LET page == Keyset(a, limit, cursor)
             c == Least(limit, m)
         IN  /\ page.items = Down(m, c) /\ page.more = (m > limit)
             /\ page.cursor = IF c = 0 THEN -1 ELSE statements[a][m + 1 - c].at
<1> DEFINE n == Len(statements[a])
           c == Least(limit, m)
           found == FirstFew(Kept(Newest(a), Older(a, cursor)), limit + 1)
           items == FirstFew(found, limit)
<1>1. n \in Nat /\ Newest(a) = Down(n, n) /\ m \in Nat /\ m <= n
  <2>1. n \in Nat /\ Newest(a) = Down(n, n)
    BY NewestIs
  <2>2. QED
    BY <2>1
<1>2. Kept(Newest(a), Older(a, cursor)) = Down(m, m)
  <2>1. Older(a, cursor) \cap (1 .. n) = 1 .. m
    BY <1>1
  <2>2. QED
    BY <1>1, <2>1, KeptDown
<1>3. found = Down(m, Least(limit + 1, m))
  BY <1>1, <1>2, FirstFewDown DEF Least
<1>4. Least(limit + 1, m) \in 0 .. m /\ c \in 0 .. m
  BY <1>1 DEF Least
<1>5. items = Down(m, c)
  <2>1. FirstFew(Down(m, Least(limit + 1, m)), limit) = Down(m, Least(limit, Least(limit + 1, m)))
    BY <1>1, <1>4, FirstFewDown DEF Least
  <2>2. Least(limit, Least(limit + 1, m)) = Least(limit, m)
    BY <1>1 DEF Least
  <2>3. QED
    BY <1>3, <2>1, <2>2
<1>6. Len(found) > limit <=> m > limit
  <2>1. Len(found) = Least(limit + 1, m)
    BY <1>1, <1>3, <1>4, DownTyped
  <2>2. QED
    BY <1>1, <2>1 DEF Least
<1>7. items = <<>> <=> c = 0
  <2>1. items \in Seq(Nat) /\ Len(items) = c
    BY <1>1, <1>4, <1>5, DownTyped
  <2>2. QED
    BY <2>1
<1>8. c # 0 => Last(items) = m + 1 - c
  <2>1. ASSUME c # 0 PROVE Last(items) = m + 1 - c
    <3>1. Len(items) = c /\ c \in 1 .. c
      <4> HIDE DEF c, items
      <4>1. Len(Down(m, c)) = c
        BY <1>1, <1>4, DownTyped
      <4>2. QED
        BY <1>4, <1>5, <2>1, <4>1
    <3>2. Down(m, c)[c] = m + 1 - c
      <4> HIDE DEF c
      <4>1. QED
        BY <1>1, <1>4, <3>1, DownTyped
    <3>3. QED
      BY <1>5, <3>1, <3>2 DEF Last
  <2>2. QED
    BY <2>1
<1>9. Keyset(a, limit, cursor)
        = [items |-> items, more |-> Len(found) > limit,
           cursor |-> IF items = <<>> THEN -1 ELSE statements[a][Last(items)].at]
  BY Zenon DEF Keyset, Older
<1> HIDE DEF items, found, c
<1>10. QED
  BY <1>5, <1>6, <1>7, <1>8, <1>9 DEF c

\* The page that begins after p positions.
LEMMA OffsetIs ==
  ASSUME LedgerSound, NEW a \in Accounts, NEW limit \in Nat \ {0}, NEW page \in Nat \ {0}
  PROVE  LET n == Len(statements[a])
             m == n - (page - 1) * limit
             c == IF m < 0 THEN 0 ELSE Least(limit, m)
             is == Offset(a, limit, page)
         IN  /\ is.items = IF m < 0 THEN <<>> ELSE Down(m, c)
             /\ is.more = (m >= limit) /\ is.cursor = page + 1
<1> DEFINE n == Len(statements[a])
           p == (page - 1) * limit
           m == n - p
           rest == SubSeq(Newest(a), p + 1, n)
           items == FirstFew(rest, limit)
<1>1. n \in Nat /\ Newest(a) = Down(n, n)
  BY NewestIs
<1>2. p \in Nat
  <2>1. page - 1 \in Nat /\ limit \in Nat
    OBVIOUS
  <2>2. QED
    BY <2>1
<1>3. Offset(a, limit, page)
        = [items |-> items, more |-> Len(items) = limit, cursor |-> page + 1]
  BY Zenon DEF Offset
<1> HIDE DEF p
<1>4. m \in Int /\ m <= n
  BY <1>1, <1>2
<1>5. /\ Newest(a) \in Seq(Nat) /\ Len(Newest(a)) = n
      /\ \A i \in 1 .. n : Newest(a)[i] = n + 1 - i
  <2> HIDE DEF n
  <2>1. n \in 0 .. n
    BY <1>1
  <2>2. /\ Down(n, n) \in Seq(Nat) /\ Len(Down(n, n)) = n
        /\ \A i \in 1 .. n : Down(n, n)[i] = n + 1 - i
    BY <1>1, <2>1, DownTyped
  <2>3. QED
    BY <1>1, <2>2
<1> DEFINE s == Newest(a)
<1> HIDE DEF n, s
<1>6. ASSUME m < 0 PROVE items = <<>> /\ Len(items) # limit
  <2>1. rest = <<>>
    BY <1>1, <1>2, <1>4, <1>5, <1>6 DEF s
  <2>2. FirstFew(<<>>, limit) = <<>>
    <3>1. Min({limit, 0}) = 0
      BY MinOfTwo
    <3>2. QED
      BY <3>1 DEF FirstFew
  <2> HIDE DEF rest
  <2>3. items = <<>>
    BY <2>1, <2>2
  <2> HIDE DEF items
  <2>4. QED
    BY <2>3
<1>7. ASSUME m >= 0 PROVE items = Down(m, Least(limit, m)) /\ (Len(items) = limit <=> m >= limit)
  <2>1. m \in Nat /\ m + p = n /\ Least(limit, m) \in 0 .. m
    BY <1>1, <1>2, <1>4, <1>7 DEF Least
  <2>2. rest = Down(m, m)
    <3> DEFINE d == Down(m, m)
    <3> HIDE DEF m
    <3>a. m \in 0 .. m
      BY <2>1
    <3>1. d \in Seq(Nat) /\ Len(d) = m /\ \A i \in 1 .. m : d[i] = m + 1 - i
      BY <2>1, <3>a, DownTyped
    <3> HIDE DEF d
    <3>2. /\ rest \in Seq(Nat) /\ Len(rest) = m
          /\ \A i \in 1 .. m : rest[i] = s[i + p]
      <4>1. \A i \in (p + 1) .. n : s[i] \in Nat
        BY <1>1, <1>2, <1>5 DEF s
      <4>2. s \in Seq(Nat) /\ Len(s) = n /\ rest = SubSeq(s, p + 1, n)
        BY <1>5 DEF s
      <4> HIDE DEF rest
      <4>3. QED
        BY <1>1, <1>2, <2>1, <4>2
    <3>3. \A i \in 1 .. m : rest[i] = d[i]
      <4>1. TAKE i \in 1 .. m
      <4>2. i + p \in 1 .. n /\ s[i + p] = n + 1 - (i + p)
        BY <1>1, <1>2, <1>5, <2>1 DEF s
      <4>3. QED
        BY <1>1, <1>2, <2>1, <3>1, <3>2, <4>2
    <3> HIDE DEF rest
    <3>4. rest = d
      BY <2>1, <3>1, <3>2, <3>3
    <3>5. QED
      BY <3>4 DEF d
  <2> HIDE DEF m, rest
  <2>3. items = Down(m, Least(limit, m))
    BY <2>1, <2>2, FirstFewDown DEF Least
  <2>4. Len(items) = Least(limit, m)
    BY <2>1, <2>3, DownTyped
  <2>5. QED
    BY <2>1, <2>3, <2>4 DEF Least
<1> HIDE DEF items, m
<1>8. /\ Offset(a, limit, page).items = IF m < 0 THEN <<>> ELSE Down(m, Least(limit, m))
      /\ Offset(a, limit, page).more = (m >= limit) /\ Offset(a, limit, page).cursor = page + 1
  <2>1. m < 0 \/ m >= 0
    BY <1>4
  <2>2. ~(m < 0 /\ m >= 0) /\ (m < 0 => ~(m >= limit))
    BY <1>4
  <2>3. QED
    BY <1>3, <1>6, <1>7, <2>1, <2>2
<1>9. QED
  BY <1>8 DEF m, n, p

-------------------------------------------------------------------------------
(* The invariant of the readers *)

\* Nothing has been read.
Blank(l) == l.got = <<>> /\ l.start = 0 /\ l.report = <<>>
\* A client that walks a statement has what was there from the newest row down to its cursor,
\* or what is not on the pages to come.
CursorHolds(a, n, l) ==
    Apart(a, n) =>
        \E k \in 1 .. (n - 1) : l.got = Down(n, k) /\ l.cursor = statements[a][n + 1 - k].at
PagesHold(a, n, l) ==
    /\ l.cursor \in Nat \ {0}
    /\ \A i \in 1 .. n : i > Len(statements[a]) - (l.cursor - 1) * PageSize => i \in Range(l.got)
Walking(r, l) ==
    /\ Routes[r.route].after = "page" /\ l.report = <<>>
    /\ l.got = <<>> => l.cursor = -1
    /\ l.got # <<>> => /\ l.start \in 0 .. Len(statements[r.acc]) /\ l.got \in Seq(Nat)
                       /\ l.cursor \in Nat
                       /\ r.route = "keyset" => CursorHolds(r.acc, l.start, l)
                       /\ r.route = "offset" => PagesHold(r.acc, l.start, l)

\* A report has the first so many of its queries.
Asked(queries, k) == {queries[i] : i \in 1 .. k}
Begun(r, l) == IF l.report = <<>> THEN Rows(r) ELSE l.start
\* The loans that are counted, and those whose status is still to be counted.
Left(report) == LoanStatus \ ({"NONE"} \cup DOMAIN report)
Counted(report) == SumOver(report, DOMAIN report \cap LoanStatus)
LoansCounted(report, start) ==
    /\ \A q \in DOMAIN report \cap LoanStatus : report[q] \in Nat
    /\ start \in Nat
    /\ Counted(report) + Cardinality(LoansIn(Left(report))) >= start
    /\ crowded = {} => Counted(report) + Cardinality(LoansIn(Left(report))) = start
Parted(now) == now.active + now.frozen + now.closed = now.total
BooksRead(report) ==
    /\ "aggregate" \in DOMAIN report => Parted(report.aggregate)
    /\ crowded = {} =>
           /\ "aggregate" \in DOMAIN report => report.aggregate.balance = TotalBalance
           /\ "DEPOSIT" \in DOMAIN report => report.DEPOSIT = TotalByType("DEPOSIT")
           /\ "WITHDRAW" \in DOMAIN report => report.WITHDRAW = TotalByType("WITHDRAW")
Asking(r, l) ==
    LET queries == Routes[r.route].reads IN
    /\ Routes[r.route].after = "report" /\ l.got = <<>>
    /\ \E k \in 0 .. (Len(queries) - 1) :
           /\ DOMAIN l.report = Asked(queries, k) /\ Cardinality(DOMAIN l.report) = k
           /\ IsFiniteSet(DOMAIN l.report)
           /\ l.report = <<>> <=> k = 0
    /\ queries = LoanQueries => LoansCounted(l.report, Begun(r, l))
    /\ queries = AccountQueries => BooksRead(l.report)

Working(t) ==
    /\ pc[t] \notin {"page", "report"} => Blank(local[t])
    /\ pc[t] = "page" => Walking(request[t], local[t])
    /\ pc[t] = "report" => Asking(request[t], local[t])

\* What has been answered.
Returned(r, l) ==
    Reading(r) =>
        /\ l.start \in 0 .. Len(statements[r.acc])
        /\ Apart(r.acc, l.start) =>
              /\ r.route = "keyset" => l.got = Down(l.start, l.start)
              /\ r.route = "offset" => 1 .. l.start \subseteq Range(l.got)
              /\ "statement" \in DOMAIN l.report => l.report.statement = Down(l.start, l.start)
              /\ "mini" \in DOMAIN l.report =>
                     l.report.mini = FirstFew(Down(l.start, l.start), MiniLimit)
Reported(l) ==
    /\ "REJECTED" \in DOMAIN l.report =>
           /\ Classed(l.report) >= l.start
           /\ crowded = {} => Classed(l.report) = l.start
    /\ "aggregate" \in DOMAIN l.report =>
           /\ Parted(l.report.aggregate)
           /\ crowded = {} /\ Clean =>
                  l.report.aggregate.balance =
                      OpeningBalance + l.report.DEPOSIT - l.report.WITHDRAW
Answered(t) == reply[t].code = 200 => Returned(request[t], reply[t]) /\ Reported(reply[t])
ReadersSound == \A t \in Threads : Working(t) /\ Answered(t)

\* What no step undoes.
Growing ==
    /\ \A a \in Accounts :
           /\ Len(statements[a]) \in Nat /\ Len(statements'[a]) \in Nat
           /\ Len(statements[a]) <= Len(statements'[a])
           /\ \A i \in 1 .. Len(statements[a]) : statements'[a][i] = statements[a][i]
    /\ \A l \in Loans : Lives(loans[l].status, loans'[l].status)
    /\ crowded \subseteq crowded' /\ (Clean' => Clean)

LEMMA StepsGrow ==
  ASSUME ThreadsSound, RowsSound, IdsFree, NumbersFree, LedgerSound, OpeningKept, [Next]_vars
  PROVE  Growing
<1>1. Clean' => Clean
  BY CleanWas
<1>2. crowded \subseteq crowded'
  <2>1. ASSUME NEW t \in Threads, NEW r \in Requests, Arrive(t, r) PROVE crowded \subseteq crowded'
    BY <2>1, Zenon DEF Arrive
  <2>2. ASSUME NEW t \in Threads, Advance(t) PROVE crowded' = crowded
    BY <2>2, OneAdvances
  <2>3. Tick \/ Outage \/ Closing \/ UNCHANGED vars => crowded' = crowded
    BY DEF Tick, Outage, Closing, vars, history
  <2>4. QED
    BY <2>1, <2>2, <2>3, Zenon DEF Next
<1>3. statements \in [Accounts -> Seq(Entry)]
  BY DEF LedgerSound
<1>4. CASE UNCHANGED tables
  BY <1>1, <1>2, <1>3, <1>4 DEF tables, Growing, Lives
<1>5. CASE \E t \in Threads : Wrote(t)
  <2>1. PICK t \in Threads : Booked(t)
    BY <1>5 DEF Wrote
  <2>2. ASSUME NEW a \in Accounts
        PROVE  /\ Len(statements[a]) \in Nat /\ Len(statements'[a]) \in Nat
               /\ Len(statements[a]) <= Len(statements'[a])
               /\ \A i \in 1 .. Len(statements[a]) : statements'[a][i] = statements[a][i]
    <3>1. PICK e : Books(t, a, e)
      BY <2>1, Zenon DEF Booked
    <3>2. GrownBy(statements[a], e, statements'[a])
      BY <3>1, Grown DEF Books
    <3>3. CASE statements'[a] = statements[a]
      BY <1>3, <3>3
    <3>4. CASE \E x \in Entry : statements'[a] = Append(statements[a], x)
      <4>1. PICK x \in Entry : statements'[a] = Append(statements[a], x)
        BY <3>4
      <4>2. statements[a] \in Seq(Entry)
        BY <1>3
      <4>3. QED
        BY <4>1, <4>2
    <3>5. QED
      BY <3>2, <3>3, <3>4 DEF GrownBy
  <2>3. \A l \in Loans : Lives(loans[l].status, loans'[l].status)
    BY <2>1 DEF Booked
  <2>4. QED
    BY <1>1, <1>2, <2>2, <2>3 DEF Growing
<1>6. QED
  BY <1>4, <1>5, TablesStep

\* What has been answered stays true.
LEMMA AnsweredStays ==
  ASSUME Growing, NEW t \in Threads, ThreadsSound, Answered(t),
         reply'[t] = reply[t], request'[t] = request[t]
  PROVE  Answered(t)'
<1> DEFINE r == request[t]
           l == reply[t]
<1>1. r.acc \in Accounts /\ r \in Requests
  BY AtStage, RequestFields, Zenon
<1>2. SUFFICES ASSUME l.code = 200 PROVE Returned(r, l)' /\ Reported(l)'
  BY DEF Answered
<1>3. Returned(r, l) /\ Reported(l)
  BY <1>2 DEF Answered
<1> HIDE DEF r, l
<1>4. r' = r /\ l' = l
  BY DEF r, l
<1>5. Returned(r, l)'
  <2>1. SUFFICES ASSUME Reading(r) PROVE Returned(r, l)'
    BY <1>4 DEF Returned, Reading
  <2>2. l.start \in 0 .. Len(statements[r.acc])
    BY <1>3, <2>1 DEF Returned
  <2>3. /\ Len(statements[r.acc]) \in Nat /\ Len(statements'[r.acc]) \in Nat
        /\ Len(statements[r.acc]) <= Len(statements'[r.acc])
        /\ \A i \in 1 .. l.start : statements'[r.acc][i] = statements[r.acc][i]
    BY <1>1, <2>2 DEF Growing
  <2>4. Apart(r.acc, l.start)' => Apart(r.acc, l.start)
    BY <1>4, <2>3 DEF Apart
  <2>5. l.start \in 0 .. Len(statements'[r.acc])
    BY <2>2, <2>3
  <2>6. QED
    BY <1>3, <1>4, <2>1, <2>4, <2>5 DEF Returned, Reading
<1>6. Reported(l)'
  <2>1. (crowded' = {} => crowded = {}) /\ (Clean' => Clean)
    BY DEF Growing
  <2>2. QED
    BY <1>3, <1>4, <2>1 DEF Reported, Parted, Classed, OpeningBalance
<1>7. QED
  BY <1>4, <1>5, <1>6 DEF r, l

-------------------------------------------------------------------------------
(* Other threads' steps *)

LEMMA LoanOrder ==
  ASSUME NEW k \in 0 .. 6
  PROVE  LET asked == Asked(LoanQueries, k) IN
         /\ Len(LoanQueries) = 7 /\ "NONE" \notin asked
         /\ "PENDING" \in asked <=> k >= 1
         /\ "APPROVED" \in asked <=> k >= 2
         /\ "ACTIVE" \in asked <=> k >= 3
         /\ "CLOSED" \in asked <=> k >= 4
         /\ "REJECTED" \in asked <=> k >= 5
<1> DEFINE asked == Asked(LoanQueries, k)
<1>1. /\ Len(LoanQueries) = 7
      /\ LoanQueries[1] = "PENDING" /\ LoanQueries[2] = "APPROVED" /\ LoanQueries[3] = "ACTIVE"
      /\ LoanQueries[4] = "CLOSED" /\ LoanQueries[5] = "REJECTED"
      /\ LoanQueries[6] = "disbursed" /\ LoanQueries[7] = "outstanding"
  BY DEF LoanQueries
<1>2. \A q : q \in asked <=> \E i \in 1 .. k : q = LoanQueries[i]
  BY DEF Asked
<1>3. \A i \in 1 .. k : i \in {1, 2, 3, 4, 5, 6}
  OBVIOUS
<1> HIDE DEF asked
<1>4. /\ "NONE" \notin asked
      /\ "PENDING" \in asked <=> k >= 1
      /\ "APPROVED" \in asked <=> k >= 2
      /\ "ACTIVE" \in asked <=> k >= 3
      /\ "CLOSED" \in asked <=> k >= 4
      /\ "REJECTED" \in asked <=> k >= 5
  BY <1>1, <1>2, <1>3
<1>5. QED
  BY <1>1, <1>4 DEF asked

\* A loan whose status is to be counted will be.
LEMMA LeftLives ==
  ASSUME NEW k \in 0 .. 6, NEW report, DOMAIN report = Asked(LoanQueries, k),
         NEW old \in Left(report), NEW new \in LoanStatus, Lives(old, new)
  PROVE  new \in Left(report)
<1>1. old \in LoanStatus /\ old # "NONE" /\ old \notin Asked(LoanQueries, k)
  BY DEF Left
<1>2. new \notin Asked(LoanQueries, k) /\ new # "NONE"
  BY <1>1, LoanOrder DEF Lives, LoanStatus
<1>3. QED
  BY <1>2 DEF Left

LEMMA LoanSets ==
  ASSUME NEW S, RowsSound
  PROVE  IsFiniteSet(LoansIn(S)) /\ Cardinality(LoansIn(S)) \in Nat
<1>1. IsFiniteSet(Loans) /\ LoansIn(S) \subseteq Loans
  BY ApiAssumption DEF LoansIn
<1>2. QED
  BY <1>1, FS_Subset, FS_CardinalityType

\* Before the first query every loan is to be counted.
LEMMA NoneToCount ==
  ASSUME RowsSound', NEW report, report = <<>>
  PROVE  LoansCounted(report, Cardinality(LoansIn(LoanStatus \ {"NONE"})))'
<1>1. Left(report) = LoanStatus \ {"NONE"} /\ DOMAIN report \cap LoanStatus = {}
  BY DEF Left
<1>2. Counted(report) = 0
  BY <1>1, SumUnfold, FS_EmptySet DEF Counted
<1> DEFINE c == Cardinality(LoansIn(LoanStatus \ {"NONE"}))'
<1>3. c \in Nat
  <2>1. IsFiniteSet(Loans) /\ LoansIn(LoanStatus \ {"NONE"})' \subseteq Loans
    BY ApiAssumption DEF LoansIn
  <2>2. QED
    BY <2>1, FS_Subset, FS_CardinalityType
<1>4. Counted(report) + c >= c /\ Counted(report) + c = c
  <2> HIDE DEF c
  <2>1. QED
    BY <1>2, <1>3
<1>5. QED
  BY <1>1, <1>3, <1>4 DEF LoansCounted

LEMMA StatusesFinite == IsFiniteSet(LoanStatus)
<1>1. IsFiniteSet({"NONE"})
  BY FS_Singleton
<1>2. /\ IsFiniteSet({"NONE"} \cup {"PENDING"})
      /\ IsFiniteSet((({"NONE"} \cup {"PENDING"}) \cup {"APPROVED"}) \cup {"ACTIVE"})
  BY <1>1, FS_AddElement
<1> DEFINE some == (({"NONE"} \cup {"PENDING"}) \cup {"APPROVED"}) \cup {"ACTIVE"}
<1>3. LoanStatus = (some \cup {"CLOSED"}) \cup {"REJECTED"} /\ IsFiniteSet(some)
  BY <1>2 DEF LoanStatus
<1> HIDE DEF some
<1>4. QED
  BY <1>3, FS_AddElement

LEMMA CountedInt ==
  ASSUME NEW report, \A q \in DOMAIN report \cap LoanStatus : report[q] \in Nat
  PROVE  Counted(report) \in Int
<1>1. IsFiniteSet(LoanStatus)
  BY StatusesFinite
<1>2. IsFiniteSet(DOMAIN report \cap LoanStatus)
  BY <1>1, FS_Subset
<1>3. QED
  BY <1>2, SumInt DEF Counted

LEMMA LoansCountedStays ==
  ASSUME Growing, RowsSound, RowsSound', NEW k \in 0 .. 6, NEW report,
         DOMAIN report = Asked(LoanQueries, k), NEW start, LoansCounted(report, start),
         crowded' = {} => UNCHANGED tables
  PROVE  LoansCounted(report, start)'
<1> DEFINE L == LoansIn(Left(report))
           M == LoansIn(Left(report))'
<1>1. L \subseteq M
  <2>1. ASSUME NEW l \in L PROVE l \in M
    <3>1. l \in Loans /\ loans[l].status \in Left(report)
      BY DEF LoansIn
    <3>2. loans'[l].status \in LoanStatus /\ Lives(loans[l].status, loans'[l].status)
      BY <3>1 DEF RowsSound, LoanRow, Growing
    <3>3. loans'[l].status \in Left(report)
      BY <3>1, <3>2, LeftLives
    <3>4. QED
      BY <3>1, <3>3 DEF LoansIn, Left
  <2>2. QED
    BY <2>1
<1>2. IsFiniteSet(M)
  <2>1. IsFiniteSet(Loans) /\ M \subseteq Loans
    BY ApiAssumption DEF LoansIn
  <2>2. QED
    BY <2>1, FS_Subset
<1>3. Cardinality(L) \in Nat /\ Cardinality(M) \in Nat /\ Cardinality(L) <= Cardinality(M)
  BY <1>1, <1>2, FS_Subset, FS_CardinalityType
<1>4. Counted(report) \in Int /\ start \in Nat
  BY CountedInt DEF LoansCounted
<1>5. crowded' = {} => crowded = {} /\ M = L
  BY DEF Growing, tables, LoansIn, Left
<1>6. /\ \A q \in DOMAIN report \cap LoanStatus : report[q] \in Nat
      /\ Counted(report) + Cardinality(L) >= start
      /\ crowded = {} => Counted(report) + Cardinality(L) = start
  BY DEF LoansCounted
<1>7. Counted(report) + Cardinality(M) >= start
  <2> HIDE DEF L, M
  <2>1. QED
    BY <1>3, <1>4, <1>6
<1>8. crowded' = {} => Counted(report) + Cardinality(M) = start
  BY <1>5, <1>6
<1>9. QED
  BY <1>4, <1>6, <1>7, <1>8 DEF LoansCounted, Counted

LEMMA WalkingStays ==
  ASSUME Growing, NEW r \in Requests, NEW l, Walking(r, l)
  PROVE  Walking(r, l)'
<1>1. r.acc \in Accounts
  BY RequestFields
<1> DEFINE a == r.acc
           n == l.start
<1>2. /\ Len(statements[a]) \in Nat /\ Len(statements'[a]) \in Nat
      /\ Len(statements[a]) <= Len(statements'[a])
      /\ \A i \in 1 .. Len(statements[a]) : statements'[a][i] = statements[a][i]
  BY <1>1 DEF Growing
<1>3. SUFFICES ASSUME l.got # <<>>
               PROVE  /\ n \in 0 .. Len(statements'[a])
                      /\ r.route = "keyset" => CursorHolds(a, n, l)'
                      /\ r.route = "offset" => PagesHold(a, n, l)'
  BY DEF Walking
<1>4. /\ n \in 0 .. Len(statements[a])
      /\ r.route = "keyset" => CursorHolds(a, n, l)
      /\ r.route = "offset" => PagesHold(a, n, l)
  BY <1>3 DEF Walking
<1>5. \A i \in 1 .. n : statements'[a][i] = statements[a][i]
  BY <1>2, <1>4
<1> HIDE DEF a, n
<1>6. ASSUME CursorHolds(a, n, l) PROVE CursorHolds(a, n, l)'
  <2>1. SUFFICES ASSUME Apart(a, n)'
                 PROVE  \E k \in 1 .. (n - 1) :
                            l.got = Down(n, k) /\ l.cursor = statements'[a][n + 1 - k].at
    BY DEF CursorHolds
  <2>2. Apart(a, n)
    BY <1>5, <2>1 DEF Apart
  <2>3. PICK k \in 1 .. (n - 1) : l.got = Down(n, k) /\ l.cursor = statements[a][n + 1 - k].at
    BY <1>6, <2>2 DEF CursorHolds
  <2>4. n + 1 - k \in 1 .. n
    BY <1>2, <1>4, <2>3
  <2>5. QED
    BY <1>5, <2>3, <2>4
<1>7. ASSUME PagesHold(a, n, l) PROVE PagesHold(a, n, l)'
  <2> DEFINE p == (l.cursor - 1) * PageSize
  <2>1. l.cursor \in Nat \ {0} /\ \A i \in 1 .. n : i > Len(statements[a]) - p => i \in Range(l.got)
    BY <1>7 DEF PagesHold
  <2>2. p \in Int
    BY <2>1, ApiAssumption
  <2> HIDE DEF p
  <2>3. \A i \in 1 .. n : i > Len(statements'[a]) - p => i \in Range(l.got)
    <3>1. ASSUME NEW i \in 1 .. n, i > Len(statements'[a]) - p PROVE i \in Range(l.got)
      <4>1. i > Len(statements[a]) - p
        BY <1>2, <1>4, <2>2, <3>1
      <4>2. QED
        BY <2>1, <4>1
    <3>2. QED
      BY <3>1
  <2>4. QED
    BY <2>1, <2>3 DEF PagesHold, p
<1>8. QED
  BY <1>2, <1>4, <1>6, <1>7

LEMMA AskingStays ==
  ASSUME Growing, RowsSound, RowsSound', NEW r \in Requests, NEW l, Asking(r, l),
         Routes[r.route].reads \in {AccountQueries, LoanQueries} /\ crowded' = {} =>
             UNCHANGED tables
  PROVE  Asking(r, l)'
<1> DEFINE queries == Routes[r.route].reads
<1>1. PICK k \in 0 .. (Len(queries) - 1) :
          /\ DOMAIN l.report = Asked(queries, k) /\ Cardinality(DOMAIN l.report) = k
          /\ IsFiniteSet(DOMAIN l.report)
          /\ l.report = <<>> <=> k = 0
  BY DEF Asking
<1>2. ASSUME queries = LoanQueries PROVE LoansCounted(l.report, Begun(r, l))'
  <2>1. k \in 0 .. 6
    <3>1. Len(LoanQueries) = 7
      BY LoanOrder
    <3>2. QED
      BY <1>1, <1>2, <3>1
  <2>2. CASE l.report = <<>>
    <3>1. Begun(r, l)' = Cardinality(LoansIn(LoanStatus \ {"NONE"}))'
      BY <1>2, <2>2 DEF Begun, Rows
    <3>2. LoansCounted(l.report, Cardinality(LoansIn(LoanStatus \ {"NONE"})))'
      BY <2>2, NoneToCount
    <3>3. QED
      BY <3>1, <3>2
  <2>3. CASE l.report # <<>>
    <3>1. Begun(r, l) = l.start /\ Begun(r, l)' = l.start
      BY <2>3 DEF Begun
    <3>2. LoansCounted(l.report, l.start)
      BY <1>2, <3>1 DEF Asking
    <3>3. LoansCounted(l.report, l.start)'
      BY <1>1, <1>2, <2>1, <3>2, LoansCountedStays
    <3>4. QED
      BY <3>1, <3>3
  <2>4. QED
    BY <2>2, <2>3
<1>3. ASSUME queries = AccountQueries PROVE BooksRead(l.report)'
  <2>1. BooksRead(l.report)
    BY <1>3 DEF Asking
  <2>2. crowded' = {} => crowded = {} /\ UNCHANGED tables
    BY <1>3 DEF Growing
  <2>3. QED
    BY <2>1, <2>2 DEF BooksRead, Parted, TotalBalance, TotalByType, Listed, tables
<1>4. QED
  BY <1>1, <1>2, <1>3 DEF Asking, Asked

-------------------------------------------------------------------------------
(* Threads that wait, and threads that do not read *)

Watching(u) == pc[u] = "report" /\ RouteOf(u).reads \in {AccountQueries, LoanQueries}

\* A report over all accounts is crowded by whoever writes meanwhile.
LEMMA QuietReports ==
  ASSUME ThreadsSound, MeetingsSeen, RowsSound, IdsFree, NumbersFree, LedgerSound, [Next]_vars,
         NEW u \in Threads, Watching(u), crowded' = {}
  PROVE  UNCHANGED tables
<1>1. SUFFICES ASSUME NEW t \in Threads, Wrote(t) PROVE FALSE
  BY TablesStep
<1>2. pc[t] = "serve" /\ crowded = {}
  BY <1>1 DEF Wrote, Leaving
<1>3. t # u /\ Pending(t) /\ Pending(u)
  BY <1>2 DEF Watching, Pending
<1>4. Meeting(request[t], request[u]) = {}
  BY <1>2, <1>3 DEF MeetingsSeen
<1>5. Parties(request[t]) \cap Parties(request[u]) = {}
  BY <1>4, Zenon DEF Meeting
<1>6. request[t] \in Requests
  BY AtStage, Zenon
<1>7. request[t].acc \in Parties(request[t]) /\ request[t].acc \in Accounts
  BY <1>6, RequestFields, Zenon
<1>8. Parties(request[u]) = Accounts
  BY DEF Watching, RouteOf, Parties
<1>9. QED
  BY <1>5, <1>7, <1>8

LEMMA WorkingStays ==
  ASSUME Growing, ThreadsSound, RowsSound, RowsSound', NEW u \in Threads, Working(u),
         pc'[u] = pc[u], local'[u] = local[u], request'[u] = request[u],
         Watching(u) /\ crowded' = {} => UNCHANGED tables
  PROVE  Working(u)'
<1> DEFINE r == request[u]
           l == local[u]
<1>1. r \in Requests
  BY AtStage, Zenon
<1> HIDE DEF r, l
<1>2. r' = r /\ l' = l
  BY DEF r, l
<1>3. ASSUME pc[u] = "page" PROVE Walking(r, l)'
  <2>1. Walking(r, l)
    BY <1>3 DEF Working, r, l
  <2> DEFINE P(x, y) == Walking(x, y)'
  <2>2. \A x \in Requests : \A y : Walking(x, y) => (Routes[x.route].after = "page")
    BY DEF Walking
  <2>3. QED
    BY <1>1, <1>2, <2>1, WalkingStays
<1>4. ASSUME pc[u] = "report" PROVE Asking(r, l)'
  <2>1. Asking(r, l)
    BY <1>4 DEF Working, r, l
  <2>2. Routes[r.route].reads \in {AccountQueries, LoanQueries} /\ crowded' = {} =>
             UNCHANGED tables
    BY <1>4 DEF Watching, RouteOf, r
  <2>3. QED
    BY <1>1, <1>2, <2>1, <2>2, AskingStays
<1>5. (Blank(local[u]) => Blank(local'[u])) /\ (pc[u] \notin {"page", "report"} => Blank(local[u]))
  BY DEF Working
<1>6. QED
  BY <1>2, <1>3, <1>4, <1>5 DEF Working, r, l

LEMMA BlankAnswers ==
  ASSUME ThreadsSound', LedgerSound', NEW t \in Threads, Blank(reply'[t])
  PROVE  Answered(t)'
<1> DEFINE l == reply'[t]
           a == request'[t].acc
<1>1. l.got = <<>> /\ l.start = 0 /\ l.report = <<>>
  BY DEF Blank
<1>2. DOMAIN l.report = {} /\ Down(0, 0) = <<>>
  BY <1>1 DEF Down
<1>3. a \in Accounts
  <2>1. request'[t] \in Requests
    BY DEF ThreadsSound
  <2>2. QED
    BY <2>1, RequestFields
<1>4. Len(statements'[a]) \in Nat
  <2>1. statements'[a] \in Seq(Entry)
    BY <1>3 DEF LedgerSound, Entry
  <2>2. QED
    BY <2>1
<1>5. Returned(request[t], reply[t])'
  BY <1>1, <1>2, <1>4 DEF Returned
<1>6. Reported(reply[t])'
  BY <1>2 DEF Reported
<1>7. QED
  BY <1>5, <1>6 DEF Answered

\* A thread that does not walk or report brings nothing along.
Empties(t) ==
    /\ pc'[t] \notin {"page", "report"} /\ Blank(local'[t])
    /\ reply'[t] = reply[t] \/ Blank(reply'[t])

LEMMA BlankRecords ==
  ASSUME NEW l, Blank(l), DOMAIN l = DOMAIN NoLocal
  PROVE  /\ Blank(NoLocal) /\ Blank(NoReply)
         /\ Blank([l EXCEPT !.wrote = TRUE])
         /\ \A x : Blank([l EXCEPT !.kept = x]) /\ Blank([l EXCEPT !.page = x])
BY DEF Blank, NoLocal, NoReply

LEMMA AnswerEmpties ==
  ASSUME ThreadsSound, NEW t \in Threads, NEW l, Blank(l),
         \E code, shown : Answer(t, l, code, shown)
  PROVE  Empties(t)
<1>1. PICK code, shown : Answer(t, l, code, shown)
  OBVIOUS
<1>2. /\ pc'[t] = "idle" /\ local'[t] = NoLocal
      /\ reply'[t] = [code |-> code, wrote |-> l.wrote, shown |-> shown,
                      got |-> l.got, start |-> l.start, report |-> l.report]
  BY <1>1, AnswerGoes
<1>3. Blank(NoLocal)
  BY DEF Blank, NoLocal
<1>4. Blank(reply'[t])
  BY <1>2 DEF Blank
<1>5. QED
  BY <1>2, <1>3, <1>4 DEF Empties

LEMMA StayEmpties ==
  ASSUME ThreadsSound, NEW t \in Threads, Blank(local[t]),
         NEW stage \in Stages \ {"page", "report"}, Stay(t, stage)
  PROVE  Empties(t)
<1>1. pc'[t] = stage /\ local'[t] = local[t] /\ reply'[t] = reply[t]
  BY StayedAt
<1>2. QED
  BY <1>1 DEF Empties

LEMMA GotoEmpties ==
  ASSUME ThreadsSound, NEW t \in Threads, NEW stage \in Stages \ {"page", "report"},
         Goto(t, stage), NEW l, Blank(l), local' = [local EXCEPT ![t] = l], reply' = reply
  PROVE  Empties(t)
<1>1. pc'[t] = stage /\ local'[t] = l /\ reply'[t] = reply[t]
  BY GoneTo
<1>2. QED
  BY <1>1 DEF Empties

LEMMA OthersRead ==
  ASSUME ThreadsSound, RowsSound, IdsFree, NEW t \in Threads, Working(t), Advance(t),
         ~NextPage(t), ~RunQuery(t)
  PROVE  Empties(t)
<1> DEFINE l == local[t]
<1>0. /\ pc[t] \notin {"page", "report"} => Blank(l)
      /\ DOMAIN l = DOMAIN NoLocal /\ Staged(t) /\ Suits(request[t].route, RouteOf(t))
  BY AtStage DEF Working, Staged
<1>z. Blank(NoLocal)
  BY DEF Blank, NoLocal
<1>1. ASSUME Check(t) PROVE Empties(t)
  <2>1. pc[t] = "check"
    BY <1>1 DEF Check, Serving
  <2>2. Checked(RouteOf(t)) \in {"clean up", "serve"}
    <3>1. RouteOf(t).op # "none"
      BY <1>0, <2>1 DEF Staged, Before, OpOf
    <3>2. QED
      BY <3>1 DEF Checked
  <2>3. Checked(RouteOf(t)) \in Stages \ {"page", "report"} /\ Blank(l)
    BY <1>0, <2>1, <2>2 DEF Stages
  <2>4. (\E code : Answer(t, NoLocal, code, 0)) \/ Stay(t, Checked(RouteOf(t)))
    BY <1>1, Zenon DEF Check
  <2>5. QED
    BY <1>z, <2>3, <2>4, AnswerEmpties, StayEmpties
<1>2. ASSUME CleanUp(t) PROVE Empties(t)
  <2>1. pc[t] = "clean up" /\ Goto(t, "count") /\ reply' = reply
    BY <1>2, Zenon DEF CleanUp, Serving
  <2>2. PICK x : local' = [local EXCEPT ![t].kept = x]
    BY <1>2, Zenon DEF CleanUp
  <2>3. local' = [local EXCEPT ![t] = [l EXCEPT !.kept = x]]
    BY <2>2
  <2>4. Blank([l EXCEPT !.kept = x])
    BY <1>0, <2>1, BlankRecords
  <2>5. "count" \in Stages \ {"page", "report"}
    BY DEF Stages
  <2>6. QED
    BY <2>1, <2>3, <2>4, <2>5, GotoEmpties
<1>3. ASSUME CountOperations(t) \/ Record(t) PROVE Empties(t)
  <2>1. pc[t] \in {"count", "record"}
    BY <1>3 DEF CountOperations, Record, Serving
  <2>2. Blank(l)
    BY <1>0, <2>1
  <2>3. \/ \E code : Answer(t, NoLocal, code, 0)
        \/ \E stage \in {"record", "serve"} : Stay(t, stage)
    BY <1>3, Zenon DEF CountOperations, Record
  <2>4. {"record", "serve"} \subseteq Stages \ {"page", "report"}
    BY DEF Stages
  <2>5. QED
    BY <1>z, <2>2, <2>3, <2>4, AnswerEmpties, StayEmpties
<1>4. ASSUME Serve(t) PROVE Empties(t)
  <2>1. pc[t] = "serve"
    BY <1>4 DEF Serve, Serving
  <2>2. Blank(l) /\ Blank([l EXCEPT !.wrote = TRUE])
    BY <1>0, <2>1, BlankRecords
  <2>3. RouteOf(t).after # "answer" => RouteOf(t).after \in Stages \ {"page", "report"}
    <3>1. RouteOf(t).op # "none"
      BY <1>0, <2>1 DEF Staged, Before, OpOf
    <3>2. QED
      BY <1>0, <3>1 DEF Suits, Stages
  <2>4. \/ \E code, shown : Answer(t, l, code, shown)
        \/ \E code, shown : Answer(t, [l EXCEPT !.wrote = TRUE], code, shown)
        \/ /\ RouteOf(t).after # "answer" /\ Goto(t, RouteOf(t).after)
           /\ local' = [local EXCEPT ![t] = [l EXCEPT !.wrote = TRUE]]
           /\ reply' = reply
    BY <1>4, ServeWrites, Zenon
  <2> HIDE DEF l
  <2>5. CASE \E code, shown : Answer(t, l, code, shown)
    BY <2>2, <2>5, AnswerEmpties
  <2>6. CASE \E code, shown : Answer(t, [l EXCEPT !.wrote = TRUE], code, shown)
    BY <2>2, <2>6, AnswerEmpties
  <2>7. CASE /\ RouteOf(t).after # "answer" /\ Goto(t, RouteOf(t).after)
             /\ local' = [local EXCEPT ![t] = [l EXCEPT !.wrote = TRUE]]
             /\ reply' = reply
    BY <2>2, <2>3, <2>7, GotoEmpties
  <2>8. QED
    BY <2>4, <2>5, <2>6, <2>7
<1>5. ASSUME ShowNewest(t) \/ ShowGoal(t) \/ Invalidate(t) PROVE Empties(t)
  <2>1. pc[t] \in {"newest", "goal", "invalidate"}
    BY <1>5 DEF ShowNewest, ShowGoal, Invalidate, Serving
  <2>2. Blank(l)
    BY <1>0, <2>1
  <2>3. \E code, shown : Answer(t, l, code, shown)
    BY <1>5, Zenon DEF ShowNewest, ShowGoal, Invalidate
  <2>4. QED
    BY <2>2, <2>3, AnswerEmpties
<1>6. ASSUME Lookup(t) \/ Fill(t) \/ Ping(t) PROVE Empties(t)
  <2>1. pc[t] \in {"lookup", "fill", "ping"}
    BY <1>6 DEF Lookup, Fill, Ping, Serving
  <2>2. Blank(l)
    BY <1>0, <2>1
  <2>3. (\E code, shown : Answer(t, NoLocal, code, shown)) \/ Stay(t, "query")
    BY <1>6, Zenon DEF Lookup, Fill, Ping
  <2>4. "query" \in Stages \ {"page", "report"}
    BY DEF Stages
  <2>5. QED
    BY <1>z, <2>2, <2>3, <2>4, AnswerEmpties, StayEmpties
<1>7. ASSUME Query(t) PROVE Empties(t)
  <2>1. pc[t] = "query" /\ Goto(t, "fill") /\ reply' = reply
    BY <1>7, Zenon DEF Query, Serving
  <2>2. local' = [local EXCEPT ![t] = [l EXCEPT !.page = Page]]
    BY <1>7 DEF Query
  <2>3. Blank([l EXCEPT !.page = Page])
    BY <1>0, <2>1, BlankRecords
  <2>4. "fill" \in Stages \ {"page", "report"}
    BY DEF Stages
  <2>5. QED
    BY <2>1, <2>2, <2>3, <2>4, GotoEmpties
<1>8. QED
  BY <1>1, <1>2, <1>3, <1>4, <1>5, <1>6, <1>7, Zenon DEF Advance

\* A request that arrives starts from nothing.
LEMMA ArrivalWorks ==
  ASSUME ThreadsSound, ThreadsSound', RowsSound', NEW t \in Threads, NEW r \in Requests,
         Arrive(t, r)
  PROVE  Working(t)' /\ Blank(reply'[t])
<1>1. request'[t] = r /\ r.route \in DOMAIN Routes /\ local[t] = NoLocal
  <2>1. pc[t] = "idle" /\ request'[t] = r
    BY Arrives
  <2>2. Staged(t)
    BY AtStage
  <2>3. QED
    BY <2>1, <2>2, RequestFields DEF Staged
<1>2. /\ Blank(NoLocal) /\ Blank(NoReply) /\ NoLocal.report = <<>> /\ NoLocal.got = <<>>
      /\ NoLocal.cursor = -1
  BY DEF Blank, NoLocal, NoReply
<1>3. CASE CsrfRefuses(r) \/ AccountGone(r)
  <2>1. \E code, shown : Answer(t, NoLocal, code, shown)
    BY <1>3, Zenon DEF Arrive
  <2>2. PICK code, shown : Answer(t, NoLocal, code, shown)
    BY <2>1
  <2>3. /\ pc'[t] = "idle" /\ local'[t] = NoLocal
        /\ reply'[t] = [code |-> code, wrote |-> NoLocal.wrote, shown |-> shown,
                        got |-> NoLocal.got, start |-> NoLocal.start,
                        report |-> NoLocal.report]
    BY <2>2, AnswerGoes
  <2>4. Blank(reply'[t])
    BY <1>2, <2>3 DEF Blank
  <2>5. QED
    BY <1>2, <2>3, <2>4 DEF Working
<1>4. CASE ~(CsrfRefuses(r) \/ AccountGone(r))
  <2> DEFINE h == Routes[r.route]
  <2>1. Goto(t, Entered(h)) /\ local' = local /\ reply' = [reply EXCEPT ![t] = NoReply]
    BY <1>4, Zenon DEF Arrive
  <2>2. /\ pc'[t] = Entered(h) /\ local'[t] = NoLocal /\ reply'[t] = NoReply
    BY <1>1, <2>1 DEF Goto, ThreadsSound
  <2>3. Suits(r.route, h)
    BY <1>1, RoutesSuit
  <2> HIDE DEF h
  <2>4. Entered(h) \in {"page", "report"} => h.after = Entered(h)
    BY <2>3 DEF Entered, Checked, Suits
  <2>5. ASSUME Entered(h) = "page" PROVE Walking(request[t], local[t])'
    BY <1>1, <1>2, <2>2, <2>4, <2>5 DEF Walking, h
  <2>6. ASSUME Entered(h) = "report" PROVE Asking(request[t], local[t])'
    <3>1. h.after = "report" /\ h.reads \in ReadLists
      BY <2>3, <2>4, <2>6 DEF Suits
    <3>2. Len(h.reads) > 0 /\ Len(h.reads) \in Nat
      <4>1. Len(AccountQueries) = 5 /\ Len(LoanQueries) = 7
        BY DEF AccountQueries, LoanQueries
      <4>2. h.reads \in ReadLists \ {AccountQueries, LoanQueries} => Len(h.reads) \in {1, 2}
        BY DEF ReadLists
      <4>3. \A n \in {1, 2, 5, 7} : n > 0 /\ n \in Nat
        OBVIOUS
      <4>4. Len(h.reads) \in {1, 2, 5, 7}
        <5>1. CASE h.reads = AccountQueries
          BY <4>1, <5>1, Zenon
        <5>2. CASE h.reads = LoanQueries
          BY <4>1, <5>2, Zenon
        <5>3. CASE h.reads \notin {AccountQueries, LoanQueries}
          BY <3>1, <4>2, <5>3, Zenon
        <5>4. QED
          BY <5>1, <5>2, <5>3, Zenon
      <4>5. QED
        BY <4>3, <4>4
    <3>3. 0 \in 0 .. (Len(h.reads) - 1)
      BY <3>2
    <3>4. /\ DOMAIN <<>> = Asked(h.reads, 0) /\ Cardinality(DOMAIN <<>>) = 0
          /\ IsFiniteSet(DOMAIN <<>>)
      <4>1. DOMAIN <<>> = {} /\ Asked(h.reads, 0) = {}
        BY DEF Asked
      <4>2. QED
        BY <4>1, FS_EmptySet
    <3>5. LoansCounted(<<>>, Cardinality(LoansIn(LoanStatus \ {"NONE"})))'
      BY NoneToCount
    <3>6. h.reads = LoanQueries => LoansCounted(<<>>, Begun(r, NoLocal))'
      BY <1>2, <3>5 DEF Begun, Rows, h
    <3>7. BooksRead(<<>>)'
      <4>1. DOMAIN <<>> = {}
        OBVIOUS
      <4>2. QED
        BY <4>1 DEF BooksRead
    <3>8. QED
      BY <1>1, <1>2, <2>2, <3>1, <3>3, <3>4, <3>6, <3>7 DEF Asking, h
  <2>7. QED
    BY <1>2, <2>2, <2>5, <2>6 DEF Working
<1>5. QED
  BY <1>3, <1>4

-------------------------------------------------------------------------------
(* A page more *)

LEMMA Timely ==
  ASSUME LedgerSound, NEW a \in Accounts
  PROVE  /\ statements[a] \in Seq(Entry) /\ Len(statements[a]) \in Nat
         /\ DOMAIN statements[a] = 1 .. Len(statements[a])
         /\ \A i \in 1 .. Len(statements[a]) : statements[a][i].at \in Nat
         /\ \A i, j \in 1 .. Len(statements[a]) :
                i <= j => statements[a][i].at <= statements[a][j].at
<1>1. statements[a] \in Seq(Entry) /\ InOrder(statements[a])
  BY DEF LedgerSound
<1>2. /\ Len(statements[a]) \in Nat /\ DOMAIN statements[a] = 1 .. Len(statements[a])
      /\ \A i \in 1 .. Len(statements[a]) : statements[a][i] \in Entry
  BY <1>1
<1>3. \A x \in Entry : x.at \in Nat
  BY DEF Entry
<1>4. QED
  BY <1>1, <1>2, <1>3 DEF InOrder

\* What is older than a time is a beginning of the statement.
LEMMA OlderIs ==
  ASSUME LedgerSound, NEW a \in Accounts, NEW cursor \in Nat
  PROVE  \E m \in 0 .. Len(statements[a]) : Older(a, cursor) = 1 .. m
<1> DEFINE n == Len(statements[a])
           at(i) == statements[a][i].at
           Newer == {j \in 1 .. (n + 1) : j = n + 1 \/ at(j) >= cursor}
<1>1. /\ n \in Nat /\ DOMAIN statements[a] = 1 .. n /\ \A i \in 1 .. n : at(i) \in Nat
      /\ \A i, j \in 1 .. n : i <= j => at(i) <= at(j)
  BY Timely
<1>2. \A i : i \in Older(a, cursor) <=> i \in 1 .. n /\ at(i) < cursor
  BY <1>1 DEF Older
<1> HIDE DEF n, at
<1>3. n + 1 \in Newer /\ Newer \subseteq Nat
  BY <1>1
<1>4. PICK j \in Newer : \A i \in Newer : j <= i
  BY <1>3, LeastNat
<1>5. j \in 1 .. (n + 1) /\ \A i \in 1 .. n : i < j => at(i) < cursor
  BY <1>1, <1>4
<1>6. \A i \in 1 .. n : i >= j => at(i) >= cursor
  <2>1. TAKE i \in 1 .. n
  <2>2. HAVE i >= j
  <2>3. j \in 1 .. n /\ at(j) >= cursor
    BY <1>1, <1>4, <2>2
  <2>4. QED
    BY <1>1, <2>2, <2>3
<1>7. \A i \in 1 .. n : at(i) < cursor <=> i < j
  BY <1>1, <1>5, <1>6
<1>8. Older(a, cursor) = 1 .. (j - 1) /\ j - 1 \in 0 .. n
  <2>1. j - 1 \in 0 .. n /\ \A i : i \in 1 .. (j - 1) <=> i \in 1 .. n /\ i < j
    BY <1>1, <1>5
  <2>2. \A i : i \in Older(a, cursor) <=> i \in 1 .. (j - 1)
    BY <1>2, <1>7, <2>1, Zenon
  <2>3. QED
    BY <2>1, <2>2
<1>9. QED
  BY <1>8 DEF n

LEMMA OlderThanRow ==
  ASSUME LedgerSound, NEW a \in Accounts, NEW n \in 0 .. Len(statements[a]), Apart(a, n),
         NEW j \in 1 .. n
  PROVE  Older(a, statements[a][j].at) = 1 .. (j - 1)
<1> DEFINE l == Len(statements[a])
           at(i) == statements[a][i].at
<1>1. /\ l \in Nat /\ DOMAIN statements[a] = 1 .. l /\ \A i \in 1 .. l : at(i) \in Nat
      /\ \A i, k \in 1 .. l : i <= k => at(i) <= at(k)
  BY Timely
<1>2. at(j) # -1 /\ j \in 1 .. l
  BY <1>1
<1>3. \A i : i \in Older(a, at(j)) <=> i \in 1 .. l /\ at(i) < at(j)
  BY <1>1, <1>2 DEF Older
<1>4. \A i, k \in 1 .. n : i # k => at(i) # at(k)
  BY DEF Apart
<1> HIDE DEF l, at
<1>5. \A i \in 1 .. l : at(i) < at(j) <=> i < j
  <2>1. TAKE i \in 1 .. l
  <2>2. at(i) \in Nat /\ at(j) \in Nat
    BY <1>1, <1>2
  <2>3. CASE i < j
    <3>1. at(i) <= at(j) /\ at(i) # at(j)
      BY <1>1, <1>2, <1>4, <2>3
    <3>2. QED
      BY <2>2, <2>3, <3>1
  <2>4. CASE ~(i < j)
    <3>1. at(j) <= at(i)
      BY <1>1, <1>2, <2>4
    <3>2. QED
      BY <2>2, <2>4, <3>1
  <2>5. QED
    BY <2>3, <2>4
<1>6. \A i : i \in 1 .. (j - 1) <=> i \in 1 .. l /\ i < j
  BY <1>1, <1>2
<1>7. \A i : i \in Older(a, at(j)) <=> i \in 1 .. (j - 1)
  BY <1>3, <1>5, <1>6, Zenon
<1>8. Older(a, at(j)) = 1 .. (j - 1)
  BY <1>7
<1>9. QED
  BY <1>8 DEF at

\* What a page with a cursor adds to what a walk has.
Cursored(a, l) ==
    /\ l.got = <<>> => l.cursor = -1
    /\ l.got # <<>> => /\ l.start \in 0 .. Len(statements[a]) /\ l.got \in Seq(Nat)
                       /\ l.cursor \in Nat /\ CursorHolds(a, l.start, l)
KeysetAdds(a, page, n, all) ==
    /\ n \in 0 .. Len(statements[a]) /\ all \in Seq(Nat)
    /\ page.more =>
           /\ all # <<>> /\ page.cursor \in Nat
           /\ Apart(a, n) => \E k \in 1 .. (n - 1) :
                  all = Down(n, k) /\ page.cursor = statements[a][n + 1 - k].at
    /\ ~page.more /\ Apart(a, n) => all = Down(n, n)
LEMMA KeysetPage ==
  ASSUME LedgerSound, NEW a \in Accounts, NEW l, Cursored(a, l),
         NEW page, page = Keyset(a, PageSize, l.cursor),
         NEW n, n = IF l.got = <<>> THEN Len(statements[a]) ELSE l.start
  PROVE  KeysetAdds(a, page, n, l.got \o page.items)
<1>0. /\ l.got = <<>> => l.cursor = -1
      /\ l.got # <<>> => /\ l.start \in 0 .. Len(statements[a]) /\ l.got \in Seq(Nat)
                         /\ l.cursor \in Nat /\ CursorHolds(a, l.start, l)
  BY DEF Cursored
<1> DEFINE size == Len(statements[a])
           first == l.got = <<>>
           all == l.got \o page.items
<1>1. /\ size \in Nat /\ DOMAIN statements[a] = 1 .. size
      /\ \A i \in 1 .. size : statements[a][i].at \in Nat
  BY Timely
<1>2. PageSize \in Nat \ {0}
  BY ApiAssumption
<1>3. n \in 0 .. size /\ l.got \in Seq(Nat)
  <2>1. CASE l.got = <<>>
    BY <1>1, <2>1
  <2>2. CASE l.got # <<>>
    BY <1>0, <2>2
  <2>3. QED
    BY <2>1, <2>2
<1>4. PICK m \in 0 .. size :
          /\ Older(a, l.cursor) = 1 .. m
          /\ Apart(a, n) => \E k \in 0 .. n : /\ m = n - k /\ l.got = Down(n, k)
  <2>1. CASE first
    <3>1. Older(a, l.cursor) = 1 .. size
      BY <1>0, <1>1, <2>1 DEF Older
    <3>2. n = size /\ size \in 0 .. size /\ 0 \in 0 .. n /\ n - 0 = n
      BY <1>1, <2>1
    <3>3. Down(n, 0) = <<>>
      BY DEF Down
    <3>4. QED
      BY <2>1, <3>1, <3>2, <3>3
  <2>2. CASE ~first /\ Apart(a, n)
    <3>1. n = l.start /\ CursorHolds(a, n, l)
      BY <1>0, <2>2
    <3>2. PICK k \in 1 .. (n - 1) : l.got = Down(n, k) /\ l.cursor = statements[a][n + 1 - k].at
      BY <2>2, <3>1 DEF CursorHolds
    <3>3. n + 1 - k \in 1 .. n /\ (n + 1 - k) - 1 = n - k /\ k \in 0 .. n /\ n - k \in 0 .. size
      <4> HIDE DEF size
      <4>1. n \in Nat /\ size \in Nat /\ n <= size
        BY <1>1, <1>3
      <4>2. k \in Nat /\ k >= 1 /\ k <= n - 1
        BY <3>2, <4>1
      <4>3. QED
        BY <4>1, <4>2
    <3>4. Older(a, l.cursor) = 1 .. (n - k)
      <4> DEFINE j == n + 1 - k
      <4>1. j \in 1 .. n /\ j - 1 = n - k /\ l.cursor = statements[a][j].at
        BY <3>2, <3>3
      <4> HIDE DEF j
      <4>2. Older(a, statements[a][j].at) = 1 .. (j - 1)
        BY <1>3, <2>2, <4>1, OlderThanRow
      <4>3. QED
        BY <4>1, <4>2
    <3>5. QED
      BY <3>2, <3>3, <3>4
  <2>3. CASE ~first /\ ~Apart(a, n)
    BY <1>0, <2>3, OlderIs
  <2>4. QED
    BY <2>1, <2>2, <2>3
<1> DEFINE c == Least(PageSize, m)
<1>5. /\ page.items = Down(m, c) /\ page.more = (m > PageSize)
      /\ page.cursor = IF c = 0 THEN -1 ELSE statements[a][m + 1 - c].at
  BY <1>2, <1>4, KeysetIs
<1>6. /\ m \in Nat /\ c \in 0 .. m /\ (m > PageSize => c > 0 /\ c < m) /\ (~(m > PageSize) => c = m)
  BY <1>1, <1>2, <1>4 DEF Least
<1> HIDE DEF size, first, c
<1>7. Down(m, c) \in Seq(Nat) /\ Len(Down(m, c)) = c
  BY <1>6, DownTyped
<1>8. all \in Seq(Nat) /\ Len(all) = Len(l.got) + c /\ Len(l.got) \in Nat
  <2> DEFINE s == l.got
             r == Down(m, c)
  <2>1. s \in Seq(Nat) /\ r \in Seq(Nat) /\ all = s \o r
    BY <1>3, <1>5, <1>7
  <2> HIDE DEF s, r, all
  <2>2. all \in Seq(Nat) /\ Len(all) = Len(s) + Len(r) /\ Len(s) \in Nat
    BY <2>1
  <2>3. QED
    BY <1>7, <2>2 DEF s, r
<1>m. (page.more => m > PageSize) /\ (~page.more => ~(m > PageSize))
  BY <1>5, Zenon
<1> HIDE DEF all
<1>9. ASSUME page.more PROVE all # <<>> /\ page.cursor \in Nat
  <2>1. c > 0 /\ c < m /\ m + 1 - c \in 1 .. size
    BY <1>1, <1>4, <1>m, <1>6, <1>9
  <2>2. page.cursor \in Nat
    BY <1>1, <1>5, <1>6, <2>1
  <2>3. Len(l.got) \in Nat /\ c \in Nat
    BY <1>6, <1>8
  <2>4. Len(all) > 0
    BY <1>8, <2>1, <2>3
  <2>5. QED
    BY <2>2, <2>4
<1>10. ASSUME Apart(a, n)
       PROVE  /\ page.more => \E k \in 1 .. (n - 1) :
                     all = Down(n, k) /\ page.cursor = statements[a][n + 1 - k].at
              /\ ~page.more => all = Down(n, n)
  <2>1. PICK k \in 0 .. n : m = n - k /\ l.got = Down(n, k)
    BY <1>4, <1>10
  <2>2. n \in Nat /\ c \in 0 .. (n - k)
    BY <1>1, <1>3, <1>6, <2>1
  <2>3. all = Down(n, k + c)
    BY <1>5, <2>1, <2>2, DownJoins DEF all
  <2>4. page.more => /\ k + c \in 1 .. (n - 1) /\ m + 1 - c = n + 1 - (k + c) /\ c # 0
    BY <1>2, <1>m, <1>6, <2>1, <2>2
  <2>5. ~page.more => k + c = n
    BY <1>2, <1>m, <1>6, <2>1, <2>2
  <2>6. QED
    BY <1>5, <2>3, <2>4, <2>5
<1>11. QED
  BY <1>3, <1>8, <1>9, <1>10 DEF size, all, KeysetAdds

\* And a page with a number.
LEMMA OffsetPage ==
  ASSUME LedgerSound, NEW a \in Accounts, NEW l,
         l.got # <<>> => /\ l.start \in 0 .. Len(statements[a]) /\ l.got \in Seq(Nat)
                         /\ PagesHold(a, l.start, l),
         NEW number, number = IF l.got = <<>> THEN 1 ELSE l.cursor,
         NEW page, page = Offset(a, PageSize, number),
         NEW n, n = IF l.got = <<>> THEN Len(statements[a]) ELSE l.start
  PROVE  LET all == l.got \o page.items IN
         /\ n \in 0 .. Len(statements[a]) /\ all \in Seq(Nat) /\ page.cursor \in Nat \ {0}
         /\ page.more => all # <<>>
         /\ \A i \in 1 .. n : i > Len(statements[a]) - (page.cursor - 1) * PageSize =>
                i \in Range(all)
         /\ ~page.more => 1 .. n \subseteq Range(all)
<1> DEFINE size == Len(statements[a])
           all == l.got \o page.items
           p == (number - 1) * PageSize
           m == size - p
           c == IF m < 0 THEN 0 ELSE Least(PageSize, m)
<1>1. size \in Nat
  BY Timely
<1>2. PageSize \in Nat \ {0}
  BY ApiAssumption
<1>3. n \in 0 .. size /\ l.got \in Seq(Nat) /\ number \in Nat \ {0}
  <2>1. CASE l.got = <<>>
    BY <1>1, <2>1
  <2>2. CASE l.got # <<>>
    BY <2>2 DEF PagesHold
  <2>3. QED
    BY <2>1, <2>2
<1>4. /\ page.items = (IF m < 0 THEN <<>> ELSE Down(m, c)) /\ page.more = (m >= PageSize)
      /\ page.cursor = number + 1
  BY <1>2, <1>3, OffsetIs
<1>5. \A i \in 1 .. n : i > m => i \in Range(l.got)
  <2>1. CASE l.got = <<>>
    <3>1. p = 0 * PageSize /\ n = size
      BY <2>1
    <3>2. p = 0
      BY <1>2, <3>1
    <3>3. QED
      BY <1>1, <3>1, <3>2
  <2>2. CASE l.got # <<>>
    BY <2>2 DEF PagesHold
  <2>3. QED
    BY <2>1, <2>2
<1>6. p \in Int /\ (page.cursor - 1) * PageSize = p + PageSize /\ page.cursor \in Nat \ {0}
  <2>1. page.cursor - 1 = number /\ page.cursor \in Nat \ {0} /\ number - 1 \in Int
    BY <1>3, <1>4
  <2>2. number * PageSize = (number - 1) * PageSize + PageSize
    BY <1>2, <1>3
  <2>3. p \in Int
    BY <1>2, <2>1
  <2>4. QED
    BY <2>1, <2>2, <2>3
<1> HIDE DEF p, size
<1>7. m \in Int
  BY <1>1, <1>6
<1>8. page.items \in Seq(Nat) /\ \A i \in 1 .. m : i > m - PageSize => i \in Range(page.items)
  <2>1. CASE m < 0
    <3>1. page.items = <<>>
      BY <1>4, <2>1
    <3>2. <<>> \in Seq(Nat)
      OBVIOUS
    <3>3. page.items \in Seq(Nat)
      BY <3>1, <3>2, Zenon
    <3> HIDE DEF m
    <3>4. \A i \in 1 .. m : FALSE
      BY <1>7, <2>1
    <3>5. QED
      BY <3>3, <3>4
  <2>2. CASE ~(m < 0)
    <3>1. m \in Nat /\ c \in 0 .. m /\ (c = PageSize \/ c = m)
      BY <1>2, <1>7, <2>2 DEF Least
    <3>2. page.items = Down(m, c)
      BY <1>4, <2>2
    <3> HIDE DEF m, c
    <3>3. /\ page.items \in Seq(Nat) /\ Len(page.items) = c /\ DOMAIN page.items = 1 .. c
          /\ \A i \in 1 .. c : page.items[i] = m + 1 - i
      BY <3>1, <3>2, DownTyped
    <3>4. ASSUME NEW i \in 1 .. m, i > m - PageSize PROVE i \in Range(page.items)
      <4>1. m + 1 - i \in 1 .. c
        BY <1>2, <3>1, <3>4
      <4>2. page.items[m + 1 - i] = m + 1 - (m + 1 - i) /\ m + 1 - (m + 1 - i) = i
        BY <3>1, <3>3, <4>1
      <4>3. QED
        BY <3>3, <4>1, <4>2 DEF Range
    <3>5. QED
      BY <3>3, <3>4
  <2>3. QED
    BY <2>1, <2>2
<1>9. /\ all \in Seq(Nat) /\ Len(all) = Len(l.got) + Len(page.items)
      /\ Range(l.got) \subseteq Range(all) /\ Range(page.items) \subseteq Range(all)
  <2> DEFINE s == l.got
             r == page.items
             w == all
  <2>1. /\ s \in Seq(Nat) /\ r \in Seq(Nat) /\ w = s \o r
    BY <1>3, <1>8
  <2> HIDE DEF s, r, w
  <2>2. /\ w \in Seq(Nat) /\ Len(w) = Len(s) + Len(r) /\ Len(s) \in Nat /\ Len(r) \in Nat
        /\ DOMAIN w = 1 .. (Len(s) + Len(r)) /\ DOMAIN s = 1 .. Len(s) /\ DOMAIN r = 1 .. Len(r)
        /\ \A i \in 1 .. Len(s) : w[i] = s[i]
        /\ \A i \in 1 .. Len(r) : w[Len(s) + i] = r[i] /\ Len(s) + i \in DOMAIN w
    BY <2>1
  <2>3. Range(s) \subseteq Range(w)
    BY <2>2 DEF Range
  <2>4. Range(r) \subseteq Range(w)
    <3>1. ASSUME NEW i \in DOMAIN r PROVE r[i] \in Range(w)
      <4>1. w[Len(s) + i] = r[i] /\ Len(s) + i \in DOMAIN w
        BY <2>2
      <4>2. QED
        BY <4>1 DEF Range
    <3>2. QED
      BY <3>1 DEF Range
  <2>5. QED
    BY <2>2, <2>3, <2>4 DEF s, r, w
<1>10. \A i \in 1 .. n : i > m - PageSize => i \in Range(all)
  <2>1. TAKE i \in 1 .. n
  <2>2. HAVE i > m - PageSize
  <2>3. CASE i > m
    BY <1>5, <1>9, <2>3
  <2>4. CASE ~(i > m)
    <3>1. i \in 1 .. m
      BY <1>7, <2>4
    <3>2. QED
      BY <1>8, <1>9, <2>2, <3>1
  <2>5. QED
    BY <2>3, <2>4
<1>11. size - (page.cursor - 1) * PageSize = m - PageSize
  BY <1>1, <1>2, <1>6
<1>12. page.more => all # <<>>
  <2>1. SUFFICES ASSUME page.more PROVE all # <<>>
    OBVIOUS
  <2>2. m >= PageSize
    BY <1>4, <2>1
  <2>3. m \in 1 .. m /\ m > m - PageSize
    BY <1>2, <1>7, <2>2
  <2>4. m \in Range(page.items)
    BY <1>8, <2>3
  <2>5. Range(all) # {}
    BY <1>9, <2>4
  <2>6. all = <<>> => Range(all) = {}
    <3> HIDE DEF all
    <3>1. QED
      BY DEF Range
  <2>7. QED
    BY <2>5, <2>6
<1>13. ~page.more => 1 .. n \subseteq Range(all)
  <2>1. ~page.more => ~(m >= PageSize)
    BY <1>4, Zenon
  <2>2. ~page.more => \A i \in 1 .. n : i > m - PageSize
    BY <1>2, <1>3, <1>7, <2>1
  <2>3. QED
    BY <1>10, <2>2
<1>14. QED
  BY <1>3, <1>6, <1>9, <1>10, <1>11, <1>12, <1>13 DEF size

LEMMA NextPageWorks ==
  ASSUME ThreadsSound, LedgerSound, NEW t \in Threads, Working(t), NextPage(t)
  PROVE  Working(t)' /\ (reply'[t] = reply[t] \/ Answered(t)')
<1> DEFINE r == request[t]
           l == local[t]
           a == r.acc
           first == l.got = <<>>
           page == IF r.route = "keyset" THEN Keyset(r.acc, PageSize, l.cursor)
                   ELSE Offset(r.acc, PageSize, IF first THEN 1 ELSE l.cursor)
           n == IF first THEN Len(statements[r.acc]) ELSE l.start
           now == [l EXCEPT !.got = @ \o page.items, !.cursor = page.cursor, !.start = n]
           all == l.got \o page.items
<1>1. /\ pc[t] = "page" /\ request' = request /\ statements' = statements
  BY DEF NextPage, Serving, tables
<1>2. /\ r \in Requests /\ a \in Accounts /\ r.route \in DOMAIN Routes
      /\ DOMAIN l = DOMAIN NoLocal /\ l.wrote = l.wrote
  BY AtStage, RequestFields DEF Staged
<1>3. Walking(r, l)
  BY <1>1 DEF Working
<1>4. Routes[r.route].after = "page" /\ r.route \in {"keyset", "offset"}
  BY <1>2, <1>3, RoutesSuit DEF Walking, Suits
<1>5. \/ page.more /\ Goto(t, "page") /\ local' = [local EXCEPT ![t] = now] /\ reply' = reply
      \/ ~page.more /\ Answer(t, now, 200, 0)
  BY Zenon DEF NextPage
<1>6. now.got = all /\ now.cursor = page.cursor /\ now.start = n /\ now.report = <<>>
  <2>1. l.report = <<>>
    BY <1>3 DEF Walking
  <2>2. DOMAIN l = DOMAIN NoLocal
    BY <1>2
  <2> HIDE DEF page, n
  <2>3. QED
    BY <2>1, <2>2 DEF NoLocal
<1>7. /\ n \in 0 .. Len(statements[a]) /\ all \in Seq(Nat)
      /\ page.more =>
             /\ all # <<>> /\ page.cursor \in Nat
             /\ r.route = "keyset" /\ Apart(a, n) => \E k \in 1 .. (n - 1) :
                    all = Down(n, k) /\ page.cursor = statements[a][n + 1 - k].at
             /\ r.route = "offset" =>
                    /\ page.cursor \in Nat \ {0}
                    /\ \A i \in 1 .. n : i > Len(statements[a]) - (page.cursor - 1) * PageSize =>
                           i \in Range(all)
      /\ ~page.more =>
             /\ r.route = "keyset" /\ Apart(a, n) => all = Down(n, n)
             /\ r.route = "offset" => 1 .. n \subseteq Range(all)
  <2>1. CASE r.route = "keyset"
    <3>1. /\ page = Keyset(a, PageSize, l.cursor)
          /\ n = IF l.got = <<>> THEN Len(statements[a]) ELSE l.start
      BY <2>1
    <3>2. Cursored(a, l)
      BY <1>3, <2>1 DEF Walking, Cursored
    <3>a. a \in Accounts
      BY <1>2
    <3> HIDE DEF page, n, a, l
    <3>3. KeysetAdds(a, page, n, l.got \o page.items)
      BY <3>a, <3>1, <3>2, KeysetPage
    <3>4. QED
      BY <2>1, <3>3 DEF KeysetAdds
  <2>2. CASE r.route = "offset"
    <3> DEFINE number == IF l.got = <<>> THEN 1 ELSE l.cursor
    <3>1. /\ page = Offset(a, PageSize, number)
          /\ n = IF l.got = <<>> THEN Len(statements[a]) ELSE l.start
      BY <2>2
    <3>2. l.got # <<>> => /\ l.start \in 0 .. Len(statements[a]) /\ l.got \in Seq(Nat)
                          /\ PagesHold(a, l.start, l)
      BY <1>3, <2>2 DEF Walking
    <3>3. a \in Accounts /\ number = IF l.got = <<>> THEN 1 ELSE l.cursor
      BY <1>2
    <3> HIDE DEF page, n, a, l, number
    <3>4. /\ n \in 0 .. Len(statements[a]) /\ l.got \o page.items \in Seq(Nat)
          /\ page.cursor \in Nat \ {0}
          /\ page.more => l.got \o page.items # <<>>
          /\ \A i \in 1 .. n : i > Len(statements[a]) - (page.cursor - 1) * PageSize =>
                 i \in Range(l.got \o page.items)
          /\ ~page.more => 1 .. n \subseteq Range(l.got \o page.items)
      BY <3>1, <3>2, <3>3, OffsetPage
    <3>5. QED
      BY <2>2, <3>4
  <2>3. QED
    BY <1>4, <2>1, <2>2
<1> HIDE DEF r, l, a, first, page, n, now, all
<1>8. r' = r /\ a = r.acc
  BY <1>1 DEF r, a
<1>9. CASE page.more /\ Goto(t, "page") /\ local' = [local EXCEPT ![t] = now] /\ reply' = reply
  <2>1. "page" \in Stages
    BY DEF Stages
  <2>2. pc'[t] = "page" /\ local'[t] = now /\ reply'[t] = reply[t]
    BY <1>9, <2>1, GoneTo
  <2>3. Walking(r, now)
    <3>1. r.route = "keyset" => CursorHolds(a, n, now)
      BY <1>6, <1>7, <1>9 DEF CursorHolds
    <3>2. r.route = "offset" => PagesHold(a, n, now)
      BY <1>6, <1>7, <1>9 DEF PagesHold
    <3>3. QED
      BY <1>4, <1>6, <1>7, <1>8, <1>9, <3>1, <3>2 DEF Walking
  <2>4. Walking(request[t], local[t])'
    BY <1>1, <2>2, <2>3 DEF Walking, CursorHolds, PagesHold, Apart, r
  <2>5. QED
    BY <2>2, <2>4 DEF Working
<1>10. CASE ~page.more /\ Answer(t, now, 200, 0)
  <2>1. /\ pc'[t] = "idle" /\ local'[t] = NoLocal
        /\ reply'[t] = [code |-> 200, wrote |-> now.wrote, shown |-> 0,
                        got |-> now.got, start |-> now.start, report |-> now.report]
    BY <1>10, AnswerGoes
  <2>2. reply'[t].got = all /\ reply'[t].start = n /\ reply'[t].report = <<>>
    BY <1>6, <2>1
  <2>3. DOMAIN reply'[t].report = {}
    BY <2>2
  <2>4. Returned(r, reply[t])'
    BY <1>1, <1>7, <1>8, <1>10, <2>2, <2>3 DEF Returned, Apart
  <2>5. Reported(reply[t])'
    BY <2>3 DEF Reported
  <2>6. Blank(NoLocal)
    BY DEF Blank, NoLocal
  <2>7. Working(t)'
    BY <2>1, <2>6 DEF Working
  <2>8. QED
    BY <1>8, <2>4, <2>5, <2>7 DEF Answered, r
<1>11. QED
  BY <1>5, <1>9, <1>10 DEF page, now

-------------------------------------------------------------------------------
(* A query more *)

\* No list asks the same twice.
LEMMA ListsDiffer ==
  ASSUME NEW queries \in ReadLists
  PROVE  /\ Len(queries) \in Nat \ {0} /\ Last(queries) = queries[Len(queries)]
         /\ \A i, j \in 1 .. Len(queries) : i # j => queries[i] # queries[j]
<1>1. CASE queries = AccountQueries
  <2>1. /\ Len(queries) = 5 /\ queries[1] = "aggregate" /\ queries[2] = "count"
        /\ queries[3] = "DEPOSIT" /\ queries[4] = "WITHDRAW" /\ queries[5] = "TRANSFER_OUT"
    BY <1>1 DEF AccountQueries
  <2>2. \A i : i \in 1 .. 5 <=> i \in {1, 2, 3, 4, 5}
    OBVIOUS
  <2> HIDE <1>1
  <2>3. QED
    BY <2>1, <2>2 DEF Last
<1>2. CASE queries = LoanQueries
  <2>1. /\ Len(queries) = 7 /\ queries[1] = "PENDING" /\ queries[2] = "APPROVED"
        /\ queries[3] = "ACTIVE" /\ queries[4] = "CLOSED" /\ queries[5] = "REJECTED"
        /\ queries[6] = "disbursed" /\ queries[7] = "outstanding"
    BY <1>2 DEF LoanQueries
  <2>2. \A i : i \in 1 .. 7 <=> i \in {1, 2, 3, 4, 5, 6, 7}
    OBVIOUS
  <2> HIDE <1>2
  <2>3. QED
    BY <2>1, <2>2 DEF Last
<1>3. CASE queries = <<"customers", "page">>
  <2>1. Len(queries) = 2 /\ queries[1] = "customers" /\ queries[2] = "page"
    BY <1>3
  <2>2. \A i : i \in 1 .. 2 <=> i \in {1, 2}
    OBVIOUS
  <2>3. QED
    BY <2>1, <2>2 DEF Last
<1>4. CASE queries \notin {AccountQueries, LoanQueries, <<"customers", "page">>}
  <2>1. Len(queries) = 1
    BY <1>4 DEF ReadLists
  <2>2. QED
    BY <2>1 DEF Last
<1>5. QED
  BY <1>1, <1>2, <1>3, <1>4

\* A loan whose status is counted moves from those to be counted to the counted.
LEMMA LoanQuery ==
  ASSUME RowsSound, NEW k \in 0 .. 6, NEW report, DOMAIN report = Asked(LoanQueries, k),
         NEW start, LoansCounted(report, start), NEW v, NEW q, q = LoanQueries[k + 1],
         q \in LoanStatus => v = CountByStatus(q)
  PROVE  LoansCounted(With(report, q, v), start)
<1> DEFINE new == With(report, q, v)
           D == DOMAIN report \cap LoanStatus
           E == DOMAIN new \cap LoanStatus
<1>1. /\ DOMAIN new = DOMAIN report \cup {q} /\ new[q] = v
      /\ \A y \in DOMAIN report : y # q => new[y] = report[y]
  BY DEF With
<1>2. q \notin DOMAIN report /\ q # "NONE"
  <2>1. /\ LoanQueries[1] = "PENDING" /\ LoanQueries[2] = "APPROVED" /\ LoanQueries[3] = "ACTIVE"
        /\ LoanQueries[4] = "CLOSED" /\ LoanQueries[5] = "REJECTED"
        /\ LoanQueries[6] = "disbursed" /\ LoanQueries[7] = "outstanding" /\ Len(LoanQueries) = 7
    BY DEF LoanQueries
  <2>2. /\ k + 1 \in {1, 2, 3, 4, 5, 6, 7} /\ k + 1 \in 1 .. 7
        /\ \A i \in 1 .. k : i \in 1 .. 7 /\ i # k + 1
    OBVIOUS
  <2>3. LoanQueries \in ReadLists
    BY DEF ReadLists
  <2>4. \A i \in 1 .. k : LoanQueries[i] # q
    BY <2>1, <2>2, <2>3, ListsDiffer
  <2>5. q # "NONE"
    BY <2>1, <2>2
  <2>6. QED
    BY <2>4, <2>5 DEF Asked
<1>3. /\ \A x \in D : report[x] \in Nat /\ start \in Nat
      /\ Counted(report) + Cardinality(LoansIn(Left(report))) >= start
      /\ crowded = {} => Counted(report) + Cardinality(LoansIn(Left(report))) = start
  BY DEF LoansCounted
<1>4. IsFiniteSet(LoanStatus)
  BY StatusesFinite
<1> HIDE DEF new
<1>5. CASE q \in LoanStatus
  <2>1. E = D \cup {q} /\ q \notin D /\ E \ {q} = D /\ q \in E
    BY <1>1, <1>2, <1>5
  <2>2. IsFiniteSet(E) /\ IsFiniteSet(D)
    BY <1>4, FS_Subset
  <2>3. v \in Nat /\ v = Cardinality(LoansIn({q}))
    BY <1>5, LoanSets DEF CountByStatus
  <2>4. (\A x \in E : new[x] \in Nat) /\ \A y \in D : new[y] = report[y]
    BY <1>1, <1>3, <2>1, <2>3
  <2>5. Counted(new) = v + Counted(report) /\ Counted(report) \in Int
    <3>1. SumOver(new, E) = new[q] + SumOver(new, E \ {q})
      BY <2>1, <2>2, <2>4, SumRemove
    <3>2. SumOver(new, D) = SumOver(report, D)
      BY <2>2, <2>4, SumSame
    <3>3. SumOver(report, D) \in Int
      BY <1>3, <2>2, SumInt
    <3>4. QED
      BY <1>1, <2>1, <3>1, <3>2, <3>3 DEF Counted
  <2>6. Left(report) = Left(new) \cup {q} /\ q \notin Left(new)
    BY <1>1, <1>2, <1>5 DEF Left
  <2> DEFINE A == LoansIn(Left(new))
             B == LoansIn({q})
  <2>7. LoansIn(Left(report)) = A \cup B /\ A \cap B = {}
    BY <2>6 DEF LoansIn
  <2>8. IsFiniteSet(A) /\ IsFiniteSet(B) /\ Cardinality(A) \in Nat /\ Cardinality(B) \in Nat
    BY LoanSets
  <2> HIDE DEF A, B
  <2>9. Cardinality(A \cup B) = Cardinality(A) + Cardinality(B)
    <3>1. Cardinality(A \cup B) = Cardinality(A) + Cardinality(B) - Cardinality(A \cap B)
      BY <2>8, FS_Union
    <3>2. QED
      BY <2>7, <2>8, <3>1, FS_EmptySet
  <2>10. v = Cardinality(B)
    BY <2>3 DEF B
  <2>11. Counted(new) + Cardinality(A) = Counted(report) + Cardinality(A \cup B)
    BY <2>5, <2>8, <2>9, <2>10
  <2>12. QED
    BY <1>3, <2>4, <2>7, <2>11 DEF LoansCounted, new, A
<1>6. CASE q \notin LoanStatus
  <2>1. E = D /\ Left(new) = Left(report) /\ \A x \in D : new[x] = report[x]
    BY <1>1, <1>2, <1>6 DEF Left
  <2>2. IsFiniteSet(D)
    BY <1>4, FS_Subset
  <2>3. Counted(new) = Counted(report)
    BY <2>1, <2>2, SumSame DEF Counted
  <2>4. QED
    BY <1>3, <2>1, <2>3 DEF LoansCounted, new
<1>7. QED
  BY <1>5, <1>6

\* When all have been asked.
LEMMA LoansReported ==
  ASSUME NEW report, DOMAIN report = Asked(LoanQueries, 7), NEW start, LoansCounted(report, start)
  PROVE  /\ Classed(report) >= start
         /\ crowded = {} => Classed(report) = start
<1>1. LoanStatus \ {"NONE"} \subseteq DOMAIN report /\ "NONE" \notin DOMAIN report
  <2>1. /\ LoanQueries[1] = "PENDING" /\ LoanQueries[2] = "APPROVED" /\ LoanQueries[3] = "ACTIVE"
        /\ LoanQueries[4] = "CLOSED" /\ LoanQueries[5] = "REJECTED"
        /\ LoanQueries[6] = "disbursed" /\ LoanQueries[7] = "outstanding"
    BY DEF LoanQueries
  <2>2. \A x : x \in DOMAIN report <=> \E i \in 1 .. 7 : x = LoanQueries[i]
    BY DEF Asked
  <2>3. \A i : i \in 1 .. 7 <=> i \in {1, 2, 3, 4, 5, 6, 7}
    OBVIOUS
  <2>4. QED
    BY <2>1, <2>2, <2>3 DEF LoanStatus
<1>2. DOMAIN report \cap LoanStatus = LoanStatus \ {"NONE"} /\ Left(report) = {}
  BY <1>1 DEF Left
<1>3. Cardinality(LoansIn(Left(report))) = 0
  <2>1. LoansIn(Left(report)) = {}
    BY <1>2 DEF LoansIn
  <2>2. QED
    BY <2>1, FS_EmptySet
<1> DEFINE S == LoanStatus \ {"NONE"}
           f == [q \in S |-> report[q]]
<1>4. Classed(report) = SumOver(f, S)
  BY DEF Classed, SumOf
<1>5. IsFiniteSet(S) /\ \A q \in S : f[q] = report[q]
  BY StatusesFinite, FS_Subset
<1>6. SumOver(f, S) = SumOver(report, S)
  <2> HIDE DEF f, S
  <2>1. QED
    BY <1>5, SumSame
<1>7. Classed(report) = Counted(report)
  BY <1>2, <1>4, <1>6 DEF Counted
<1>8. Counted(report) \in Int
  BY CountedInt DEF LoansCounted
<1>9. QED
  BY <1>3, <1>7, <1>8 DEF LoansCounted

\* Every listed account is active, frozen or closed.
LEMMA StatisticsPart ==
  ASSUME RowsSound
  PROVE  Parted(Statistics) /\ Statistics.balance = TotalBalance
<1> DEFINE L == Listed(accounts)
           A == WithStatus(accounts, "active")
           F == {a \in L : accounts[a].frozen}
           C == WithStatus(accounts, "closed")
<1>1. IsFiniteSet(L)
  <2>1. IsFiniteSet(Accounts) /\ L \subseteq Accounts
    BY ApiAssumption DEF Listed, RowsSound
  <2>2. QED
    BY <2>1, FS_Subset
<1>2. \A a \in L : Status(accounts[a]) \in {"active", "frozen", "closed"}
                   /\ (accounts[a].frozen <=> Status(accounts[a]) = "frozen")
  BY DEF Status
<1>3. /\ L = (A \cup F) \cup C /\ A \cap F = {} /\ (A \cup F) \cap C = {}
      /\ A \subseteq L /\ F \subseteq L /\ C \subseteq L
  BY <1>2 DEF WithStatus
<1>4. /\ Statistics.total = Cardinality(L) /\ Statistics.active = Cardinality(A)
      /\ Statistics.frozen = Cardinality(F) /\ Statistics.closed = Cardinality(C)
      /\ Statistics.balance = TotalBalance
  BY DEF Statistics, ActiveCount, FrozenCount, ClosedCount, TotalBalance
<1> HIDE DEF L, A, F, C
<1>5. IsFiniteSet(A) /\ IsFiniteSet(F) /\ IsFiniteSet(C)
  BY <1>1, <1>3, FS_Subset
<1>6. /\ Cardinality(A \cup F) = Cardinality(A) + Cardinality(F) - Cardinality(A \cap F)
      /\ IsFiniteSet(A \cup F)
  BY <1>5, FS_Union
<1>7. Cardinality((A \cup F) \cup C)
        = Cardinality(A \cup F) + Cardinality(C) - Cardinality((A \cup F) \cap C)
  BY <1>5, <1>6, FS_Union
<1>8. Cardinality({}) = 0 /\ Cardinality(A) \in Nat /\ Cardinality(F) \in Nat
      /\ Cardinality(C) \in Nat
  BY <1>5, FS_EmptySet, FS_CardinalityType
<1>9. Cardinality(L) = Cardinality(A) + Cardinality(F) + Cardinality(C)
  <2>1. Cardinality(A \cap F) = 0 /\ Cardinality((A \cup F) \cap C) = 0
    BY <1>3, <1>8
  <2>2. Cardinality(A \cup F) = Cardinality(A) + Cardinality(F)
    BY <1>6, <1>8, <2>1
  <2>3. Cardinality(L) = Cardinality(A \cup F) + Cardinality(C) - 0
    BY <1>3, <1>7, <2>1
  <2>4. QED
    BY <1>8, <2>2, <2>3
<1>10. QED
  BY <1>4, <1>9 DEF Parted

LEMMA AccountQuery ==
  ASSUME RowsSound, NEW report, BooksRead(report), NEW r, NEW q, NEW v, v = Value(q, r)
  PROVE  BooksRead(With(report, q, v))
<1> DEFINE new == With(report, q, v)
<1>1. /\ DOMAIN new = DOMAIN report \cup {q} /\ new[q] = v
      /\ \A y \in DOMAIN report : y # q => new[y] = report[y]
  BY DEF With
<1>2. q = "aggregate" => v = Statistics
  BY DEF Value, LoanStatus, TransactionType
<1>3. q \in {"DEPOSIT", "WITHDRAW"} => v = TotalByType(q)
  BY DEF Value, LoanStatus, TransactionType
<1> HIDE DEF new
<1>4. "aggregate" \in DOMAIN new =>
         /\ Parted(new.aggregate)
         /\ crowded = {} => new.aggregate.balance = TotalBalance
  <2>1. CASE q = "aggregate"
    BY <1>1, <1>2, <2>1, StatisticsPart
  <2>2. CASE q # "aggregate"
    BY <1>1, <2>2 DEF BooksRead
  <2>3. QED
    BY <2>1, <2>2
<1>5. crowded = {} /\ "DEPOSIT" \in DOMAIN new => new.DEPOSIT = TotalByType("DEPOSIT")
  <2>1. CASE q = "DEPOSIT"
    BY <1>1, <1>3, <2>1
  <2>2. CASE q # "DEPOSIT"
    BY <1>1, <2>2 DEF BooksRead
  <2>3. QED
    BY <2>1, <2>2
<1>6. crowded = {} /\ "WITHDRAW" \in DOMAIN new => new.WITHDRAW = TotalByType("WITHDRAW")
  <2>1. CASE q = "WITHDRAW"
    BY <1>1, <1>3, <2>1
  <2>2. CASE q # "WITHDRAW"
    BY <1>1, <2>2 DEF BooksRead
  <2>3. QED
    BY <2>1, <2>2
<1>7. QED
  BY <1>4, <1>5, <1>6 DEF BooksRead, new

\* The answer of a report that has read all it reads.
LEMMA ReportAnswers ==
  ASSUME RowsSound, LedgerSound, OpeningKept, ExportsTrue, TransfersPair,
         NEW queries \in ReadLists, NEW report, DOMAIN report = Asked(queries, Len(queries)),
         NEW l, l.report = report,
         queries = LoanQueries => LoansCounted(report, l.start),
         queries = AccountQueries => BooksRead(report)
  PROVE  Reported(l)
<1>1. Len(AccountQueries) = 5 /\ Len(LoanQueries) = 7
  BY DEF AccountQueries, LoanQueries
<1>2. ASSUME queries = LoanQueries PROVE Reported(l)
  <2>1. /\ Classed(report) >= l.start
        /\ crowded = {} => Classed(report) = l.start
    BY <1>1, <1>2, LoansReported
  <2>2. "aggregate" \notin DOMAIN report
    <3>1. /\ LoanQueries[1] = "PENDING" /\ LoanQueries[2] = "APPROVED" /\ LoanQueries[3] = "ACTIVE"
          /\ LoanQueries[4] = "CLOSED" /\ LoanQueries[5] = "REJECTED"
          /\ LoanQueries[6] = "disbursed" /\ LoanQueries[7] = "outstanding"
      BY DEF LoanQueries
    <3>2. \A i : i \in 1 .. 7 <=> i \in {1, 2, 3, 4, 5, 6, 7}
      OBVIOUS
    <3>3. \A i \in 1 .. 7 : LoanQueries[i] # "aggregate"
      BY <3>1, <3>2
    <3>4. QED
      BY <1>1, <1>2, <3>3 DEF Asked
  <2>3. QED
    BY <2>1, <2>2 DEF Reported
<1>3. ASSUME queries = AccountQueries PROVE Reported(l)
  <2>1. /\ AccountQueries[1] = "aggregate" /\ AccountQueries[2] = "count"
        /\ AccountQueries[3] = "DEPOSIT" /\ AccountQueries[4] = "WITHDRAW"
        /\ AccountQueries[5] = "TRANSFER_OUT"
    BY DEF AccountQueries
  <2>2. \A i : i \in 1 .. 5 <=> i \in {1, 2, 3, 4, 5}
    OBVIOUS
  <2>3. \A x : x \in DOMAIN report <=> \E i \in 1 .. 5 : x = AccountQueries[i]
    BY <1>1, <1>3 DEF Asked
  <2>4. "REJECTED" \notin DOMAIN report /\ {"aggregate", "DEPOSIT", "WITHDRAW"} \subseteq DOMAIN report
    BY <2>1, <2>2, <2>3
  <2>5. BooksRead(report)
    BY <1>3
  <2>6. crowded = {} /\ Clean =>
            report.aggregate.balance = OpeningBalance + report.DEPOSIT - report.WITHDRAW
    BY <2>4, <2>5, BooksBalance DEF BooksRead
  <2>7. QED
    BY <2>4, <2>5, <2>6 DEF Reported, BooksRead
<1>4. ASSUME queries \notin {AccountQueries, LoanQueries} PROVE Reported(l)
  <2>1. "REJECTED" \notin DOMAIN report /\ "aggregate" \notin DOMAIN report
    <3>1. CASE queries = <<"customers", "page">>
      <4>1. Len(queries) = 2 /\ queries[1] = "customers" /\ queries[2] = "page"
        BY <3>1
      <4>2. \A i : i \in 1 .. 2 <=> i \in {1, 2}
        OBVIOUS
      <4>3. QED
        BY <4>1, <4>2 DEF Asked
    <3>2. CASE queries # <<"customers", "page">>
      <4>1. Len(queries) = 1 /\ queries[1] \notin {"REJECTED", "aggregate"}
        BY <1>4, <3>2 DEF ReadLists
      <4>2. \A i : i \in 1 .. 1 <=> i = 1
        OBVIOUS
      <4>3. QED
        BY <4>1, <4>2 DEF Asked
    <3>3. QED
      BY <3>1, <3>2
  <2>2. QED
    BY <2>1 DEF Reported
<1>5. QED
  BY <1>2, <1>3, <1>4

\* The answer of a statement.
LEMMA StatementAnswers ==
  ASSUME LedgerSound, NEW r \in Requests, Routes[r.route].after = "report",
         NEW report, NEW l, l.report = report, l.start = Rows(r),
         NEW q, q = Routes[r.route].reads[1], DOMAIN report = {q}, report[q] = Value(q, r),
         Reading(r)
  PROVE  Returned(r, l)
<1>1. r.acc \in Accounts /\ r.route \in DOMAIN Routes
  BY RequestFields
<1>2. Suits(r.route, Routes[r.route])
  BY <1>1, RoutesSuit
<1>3. r.route \in {"statement", "statementV2", "mini", "miniV2"}
  BY <1>2 DEF Reading, Suits
<1>4. Routes[r.route].reads \in {<<"statement">>, <<"mini">>}
  BY <1>2, <1>3 DEF Suits
<1>5. q \in {"statement", "mini"} /\ Routes[r.route].reads # LoanQueries
  <2>1. Len(LoanQueries) = 7 /\ Len(<<"statement">>) = 1 /\ Len(<<"mini">>) = 1
        /\ <<"statement">>[1] = "statement" /\ <<"mini">>[1] = "mini"
    BY DEF LoanQueries
  <2>2. QED
    BY <1>4, <2>1
<1> DEFINE n == Len(statements[r.acc])
<1>6. l.start = n /\ n \in Nat /\ Newest(r.acc) = Down(n, n)
  BY <1>1, <1>5, NewestIs DEF Rows
<1>7. /\ q = "statement" => Value(q, r) = Newest(r.acc)
      /\ q = "mini" => Value(q, r) = FirstFew(Newest(r.acc), MiniLimit)
  BY DEF Value, LoanStatus, TransactionType
<1> HIDE DEF n
<1>8. /\ "statement" \in DOMAIN report => report.statement = Down(n, n)
      /\ "mini" \in DOMAIN report => report.mini = FirstFew(Down(n, n), MiniLimit)
  BY <1>5, <1>6, <1>7
<1>9. l.start \in 0 .. n
  BY <1>6
<1>10. QED
  BY <1>3, <1>6, <1>8, <1>9 DEF Returned, n

LEMMA RunQueryWorks ==
  ASSUME ThreadsSound, RowsSound, LedgerSound, OpeningKept, ExportsTrue, TransfersPair,
         NEW t \in Threads, Working(t), RunQuery(t)
  PROVE  Working(t)' /\ (reply'[t] = reply[t] \/ Answered(t)')
<1> DEFINE r == request[t]
           l == local[t]
           done == l.report
           queries == Routes[r.route].reads
           q == queries[Cardinality(DOMAIN done) + 1]
           v == Value(q, r)
           new == With(done, q, v)
           n == IF done = <<>> THEN Rows(r) ELSE l.start
           now == [l EXCEPT !.report = new, !.start = n]
<1>1. /\ pc[t] = "report" /\ request' = request /\ UNCHANGED tables /\ crowded' = crowded
  BY DEF RunQuery, Serving, history
<1>2. /\ r \in Requests /\ r.acc \in Accounts /\ r.route \in DOMAIN Routes
      /\ DOMAIN l = DOMAIN NoLocal
  BY AtStage, RequestFields DEF Staged
<1>3. Asking(r, l)
  BY <1>1 DEF Working
<1>4. Routes[r.route].after = "report" /\ queries \in ReadLists /\ l.got = <<>>
  BY <1>2, <1>3, RoutesSuit DEF Asking, Suits
<1>5. \/ q = Last(queries) /\ Answer(t, now, 200, 0)
      \/ /\ q # Last(queries) /\ Goto(t, "report") /\ local' = [local EXCEPT ![t] = now]
         /\ reply' = reply
  BY Zenon DEF RunQuery, RouteOf
<1>6. now.report = new /\ now.start = n /\ now.got = <<>>
  <2> HIDE DEF new, n, queries, done
  <2>1. QED
    BY <1>2, <1>4 DEF NoLocal
<1>7. PICK k \in 0 .. (Len(queries) - 1) :
          /\ DOMAIN done = Asked(queries, k) /\ Cardinality(DOMAIN done) = k
          /\ IsFiniteSet(DOMAIN done)
          /\ done = <<>> <=> k = 0
  BY <1>3 DEF Asking
<1>8. /\ Len(queries) \in Nat \ {0} /\ Last(queries) = queries[Len(queries)]
      /\ \A i, j \in 1 .. Len(queries) : i # j => queries[i] # queries[j]
  BY <1>4, ListsDiffer
<1>9. /\ q = queries[k + 1] /\ k + 1 \in 1 .. Len(queries)
      /\ q = Last(queries) <=> k + 1 = Len(queries)
  BY <1>7, <1>8
<1>10. n = Begun(r, l)
  BY DEF Begun
<1>11. queries = LoanQueries => LoansCounted(done, n)
  BY <1>3, <1>10 DEF Asking
<1>12. queries = AccountQueries => BooksRead(done)
  BY <1>3 DEF Asking
<1> HIDE DEF r, l, done, queries, q, v, new, n, now
<1>13. q \in LoanStatus => v = CountByStatus(q)
  BY DEF v, Value, LoanStatus, TransactionType
<1>14. DOMAIN new = DOMAIN done \cup {q} /\ new[q] = v /\ new # <<>>
  <2>1. DOMAIN new = DOMAIN done \cup {q} /\ new[q] = v
    BY DEF new, With
  <2>2. new = <<>> => DOMAIN new = {}
    OBVIOUS
  <2>3. QED
    BY <2>1, <2>2
<1>15. /\ DOMAIN new = Asked(queries, k + 1) /\ Cardinality(DOMAIN new) = k + 1
       /\ IsFiniteSet(DOMAIN new)
  <2>1. Asked(queries, k + 1) = Asked(queries, k) \cup {queries[k + 1]}
    <3>1. \A i : i \in 1 .. (k + 1) <=> i \in 1 .. k \/ i = k + 1
      BY <1>7, <1>8
    <3>2. QED
      BY <3>1 DEF Asked
  <2>2. queries[k + 1] \notin Asked(queries, k)
    <3>1. \A i \in 1 .. k : i \in 1 .. Len(queries) /\ i # k + 1
      BY <1>7, <1>8
    <3>2. QED
      BY <1>8, <1>9, <3>1 DEF Asked
  <2>3. Cardinality(DOMAIN done \cup {q}) = k + 1 /\ IsFiniteSet(DOMAIN done \cup {q})
    BY <1>7, <1>9, <2>2, FS_AddElement
  <2>4. QED
    BY <1>7, <1>9, <1>14, <2>1, <2>3
<1>16. ASSUME queries = LoanQueries PROVE LoansCounted(new, n)
  <2>1. k \in 0 .. 6
    <3>1. Len(LoanQueries) = 7
      BY DEF LoanQueries
    <3>2. QED
      BY <1>7, <1>16, <3>1
  <2>2. DOMAIN done = Asked(LoanQueries, k) /\ LoansCounted(done, n) /\ q = LoanQueries[k + 1]
    BY <1>7, <1>9, <1>11, <1>16
  <2>3. QED
    BY <1>13, <2>1, <2>2, LoanQuery DEF new
<1>17. queries = AccountQueries => BooksRead(new)
  BY <1>12, AccountQuery DEF new, v
<1>18. CASE /\ q # Last(queries) /\ Goto(t, "report") /\ local' = [local EXCEPT ![t] = now]
            /\ reply' = reply
  <2>1. "report" \in Stages
    BY DEF Stages
  <2>2. pc'[t] = "report" /\ local'[t] = now /\ reply'[t] = reply[t]
    BY <1>18, <2>1, GoneTo
  <2>3. k + 1 \in 0 .. (Len(queries) - 1) /\ k + 1 # 0
    BY <1>7, <1>8, <1>9, <1>18
  <2>4. Begun(r, now) = n
    BY <1>6, <1>14 DEF Begun
  <2>5. Asking(r, now)
    <3>1. queries = LoanQueries => LoansCounted(now.report, Begun(r, now))
      BY <1>6, <1>16, <2>4
    <3>2. queries = AccountQueries => BooksRead(now.report)
      BY <1>6, <1>17
    <3>3. /\ DOMAIN now.report = Asked(queries, k + 1) /\ Cardinality(DOMAIN now.report) = k + 1
          /\ IsFiniteSet(DOMAIN now.report)
          /\ now.report = <<>> <=> k + 1 = 0
      BY <1>6, <1>14, <1>15, <2>3
    <3>4. Routes[r.route].after = "report" /\ now.got = <<>>
      BY <1>4, <1>6
    <3>5. QED
      BY <2>3, <3>1, <3>2, <3>3, <3>4, Zenon DEF Asking, queries
  <2>6. Asking(request[t], local[t])'
    BY <1>1, <2>2, <2>5 DEF Asking, LoansCounted, BooksRead, Parted, Begun, Rows, Left, Counted,
        LoansIn, TotalBalance, TotalByType, Listed, tables, r, queries
  <2>7. QED
    BY <2>2, <2>6 DEF Working
<1>19. CASE q = Last(queries) /\ Answer(t, now, 200, 0)
  <2>1. /\ pc'[t] = "idle" /\ local'[t] = NoLocal
        /\ reply'[t] = [code |-> 200, wrote |-> now.wrote, shown |-> 0,
                        got |-> now.got, start |-> now.start, report |-> now.report]
    BY <1>19, AnswerGoes
  <2> DEFINE x == reply'[t]
  <2>2. x.got = <<>> /\ x.start = n /\ x.report = new
    BY <1>6, <2>1
  <2> HIDE DEF x
  <2>3. DOMAIN new = Asked(queries, Len(queries))
    BY <1>9, <1>15, <1>19
  <2>4. Reported(x)
    BY <1>4, <1>16, <1>17, <2>2, <2>3, ReportAnswers
  <2>5. Reading(r) => Returned(r, x)
    <3>1. SUFFICES ASSUME Reading(r) PROVE Returned(r, x)
      OBVIOUS
    <3>2. Suits(r.route, Routes[r.route])
      BY <1>2, RoutesSuit
    <3>3. queries = <<"statement">> \/ queries = <<"mini">>
      BY <1>4, <3>1, <3>2 DEF Reading, Suits, queries
    <3>4. Len(queries) = 1
      BY <3>3
    <3>5. k = 0 /\ q = queries[1] /\ DOMAIN done = {}
      BY <1>7, <1>9, <3>4 DEF Asked
    <3>6. DOMAIN new = {q} /\ n = Rows(r)
      BY <1>7, <1>14, <3>5 DEF n
    <3>7. QED
      BY <1>2, <1>4, <1>14, <2>2, <3>1, <3>5, <3>6, StatementAnswers DEF queries, v
  <2>6. Returned(request[t], reply[t])'
    <3>1. Returned(r, x)
      BY <2>5 DEF Returned
    <3>2. QED
      BY <1>1, <3>1 DEF Returned, Reading, Apart, tables, r, x
  <2>7. Reported(reply[t])'
    BY <1>1, <2>4 DEF Reported, Parted, Classed, Clean, NoDeletion, Touched, Moves,
        OpeningBalance, tables, x
  <2>8. Blank(NoLocal)
    BY DEF Blank, NoLocal
  <2>9. QED
    BY <2>1, <2>6, <2>7, <2>8 DEF Working, Answered
<1>20. QED
  BY <1>5, <1>18, <1>19 DEF q, now, queries, new, n, v, done, l, r

LEMMA ReadersSoundInit == ASSUME Init PROVE ReadersSound
<1>1. /\ pc = [t \in Threads |-> "idle"] /\ local = [t \in Threads |-> NoLocal]
      /\ reply = [t \in Threads |-> NoReply]
  BY Zenon DEF Init
<1>2. Blank(NoLocal) /\ NoReply.code = 0
  BY DEF Blank, NoLocal, NoReply
<1>3. ASSUME NEW t \in Threads PROVE Working(t) /\ Answered(t)
  <2>1. pc[t] = "idle" /\ local[t] = NoLocal /\ reply[t] = NoReply
    BY <1>1
  <2>2. QED
    BY <1>2, <2>1 DEF Working, Answered
<1>4. QED
  BY <1>3 DEF ReadersSound

LEMMA WaitersRead ==
  ASSUME ThreadsSound, MeetingsSeen, RowsSound, RowsSound', IdsFree, NumbersFree, LedgerSound,
         OpeningKept, ReadersSound, [Next]_vars, NEW u \in Threads,
         pc'[u] = pc[u], local'[u] = local[u], reply'[u] = reply[u], request'[u] = request[u]
  PROVE  Working(u)' /\ Answered(u)'
<1>1. Growing
  BY StepsGrow
<1>2. Working(u) /\ Answered(u)
  BY DEF ReadersSound
<1>3. Watching(u) /\ crowded' = {} => UNCHANGED tables
  BY QuietReports
<1>4. Working(u)'
  BY <1>1, <1>2, <1>3, WorkingStays
<1>5. Answered(u)'
  BY <1>1, <1>2, AnsweredStays
<1>6. QED
  BY <1>4, <1>5

LEMMA AdvancerReads ==
  ASSUME ThreadsSound, ThreadsSound', RowsSound, IdsFree, NumbersFree, LedgerSound, LedgerSound',
         OpeningKept, ExportsTrue, TransfersPair, ReadersSound, [Next]_vars,
         NEW t \in Threads, Advance(t)
  PROVE  Working(t)' /\ Answered(t)'
<1>1. Working(t) /\ Answered(t)
  BY DEF ReadersSound
<1>2. Growing /\ request' = request
  BY StepsGrow, OneAdvances
<1>3. reply'[t] = reply[t] => Answered(t)'
  BY <1>1, <1>2, AnsweredStays
<1>4. Working(t)' /\ (reply'[t] = reply[t] \/ Answered(t)')
  <2>1. CASE NextPage(t)
    BY <1>1, <2>1, NextPageWorks
  <2>2. CASE RunQuery(t)
    BY <1>1, <2>2, RunQueryWorks
  <2>3. CASE ~NextPage(t) /\ ~RunQuery(t)
    <3>1. Empties(t)
      BY <1>1, <2>3, OthersRead
    <3>2. Working(t)'
      BY <3>1 DEF Empties, Working
    <3>3. reply'[t] = reply[t] \/ Answered(t)'
      BY <3>1, BlankAnswers DEF Empties
    <3>4. QED
      BY <3>2, <3>3
  <2>4. QED
    BY <2>1, <2>2, <2>3
<1>5. QED
  BY <1>3, <1>4

LEMMA ReadersSoundNext ==
  ASSUME ThreadsSound, ThreadsSound', MeetingsSeen, RowsSound, RowsSound', IdsFree, NumbersFree,
         LedgerSound, LedgerSound', OpeningKept, ExportsTrue, TransfersPair, ReadersSound,
         [Next]_vars
  PROVE  ReadersSound'
<1>1. ASSUME NEW t \in Threads, NEW r \in Requests, Arrive(t, r), NEW u \in Threads
      PROVE  Working(u)' /\ Answered(u)'
  <2>1. CASE u = t
    BY <1>1, <2>1, ArrivalWorks, BlankAnswers
  <2>2. CASE u # t
    <3>1. OthersStay(t) /\ request' = [request EXCEPT ![t] = r]
      BY <1>1, Arrives
    <3>2. pc'[u] = pc[u] /\ local'[u] = local[u] /\ reply'[u] = reply[u]
          /\ request'[u] = request[u]
      BY <2>2, <3>1 DEF OthersStay, ThreadsSound
    <3>3. QED
      BY <3>2, WaitersRead
  <2>3. QED
    BY <2>1, <2>2
<1>2. ASSUME NEW t \in Threads, Advance(t), NEW u \in Threads
      PROVE  Working(u)' /\ Answered(u)'
  <2>1. CASE u = t
    BY <1>2, <2>1, AdvancerReads
  <2>2. CASE u # t
    <3>1. OthersStay(t) /\ request' = request
      BY <1>2, OneAdvances
    <3>2. pc'[u] = pc[u] /\ local'[u] = local[u] /\ reply'[u] = reply[u]
          /\ request'[u] = request[u]
      BY <2>2, <3>1 DEF OthersStay
    <3>3. QED
      BY <3>2, WaitersRead
  <2>3. QED
    BY <2>1, <2>2
<1>3. ASSUME Tick \/ Outage \/ Closing \/ UNCHANGED vars, NEW u \in Threads
      PROVE  Working(u)' /\ Answered(u)'
  <2>1. UNCHANGED threadVars
    BY <1>3 DEF Tick, Outage, Closing, vars
  <2>2. QED
    BY <2>1, WaitersRead DEF threadVars
<1>4. QED
  BY <1>1, <1>2, <1>3, Zenon DEF Next, ReadersSound

\* What the books are, in every state.
BooksSound == LedgerSound /\ NumbersFree /\ OpeningKept /\ ExportsTrue /\ TransfersPair
LEMMA BooksStay == Spec => []BooksSound
<1>1. Init => BooksSound
  BY LedgerSoundInit, NumbersFreeInit, OpeningKeptInit, ExportsTrueInit, TransfersPairInit
  DEF BooksSound
<1>2. ThreadsSound /\ TablesSound /\ BooksSound /\ [Next]_vars => BooksSound'
  <2>1. SUFFICES ASSUME ThreadsSound, TablesSound, BooksSound, [Next]_vars PROVE BooksSound'
    OBVIOUS
  <2>2. RowsSound /\ IdsFree
    BY <2>1 DEF TablesSound
  <2>3. LedgerSound /\ NumbersFree /\ OpeningKept /\ ExportsTrue /\ TransfersPair
    BY <2>1 DEF BooksSound
  <2>4. LedgerSound'
    BY <2>1, <2>2, <2>3, LedgerSoundNext
  <2>5. NumbersFree' /\ OpeningKept'
    BY <2>1, <2>2, <2>3, NumbersFreeNext, OpeningKeptNext
  <2>6. ExportsTrue' /\ TransfersPair'
    BY <2>1, <2>2, <2>3, <2>4, ExportsTrueNext, TransfersPairNext
  <2>7. QED
    BY <2>4, <2>5, <2>6 DEF BooksSound
<1>3. QED
  BY <1>1, <1>2, ThreadsStay, TablesStay, PTL DEF Spec

LEMMA ReadersStay == Spec => []ReadersSound
<1>1. ThreadsSound /\ ThreadsSound' /\ MeetingsSeen /\ TablesSound /\ TablesSound'
        /\ BooksSound /\ BooksSound' /\ ReadersSound /\ [Next]_vars => ReadersSound'
  <2>1. SUFFICES ASSUME ThreadsSound, ThreadsSound', MeetingsSeen, TablesSound, TablesSound',
                        BooksSound, BooksSound', ReadersSound, [Next]_vars
                 PROVE  ReadersSound'
    OBVIOUS
  <2>2. RowsSound /\ RowsSound' /\ IdsFree
    BY <2>1 DEF TablesSound
  <2>3. /\ LedgerSound /\ NumbersFree /\ OpeningKept /\ ExportsTrue /\ TransfersPair
        /\ LedgerSound'
    BY <2>1 DEF BooksSound
  <2>4. QED
    BY <2>1, <2>2, <2>3, ReadersSoundNext
<1>2. QED
  BY <1>1, ReadersSoundInit, ThreadsStay, MeetingsStay, TablesStay, BooksStay, PTL DEF Spec

\* Read from its end, the list of the first n numbers counts down.
LEMMA ReverseCounts ==
  ASSUME NEW n \in Nat
  PROVE  LET all == Reverse([i \in 1 .. n |-> i]) IN all = Down(n, n) /\ Range(all) = 1 .. n
<1> DEFINE s == [i \in 1 .. n |-> i]
           d == Down(n, n)
<1>1. Len(s) = n /\ \A i \in 1 .. n : s[i] = i
  OBVIOUS
<1>2. Reverse(s) = [i \in 1 .. n |-> s[(n - i) + 1]]
  BY <1>1 DEF Reverse
<1>3. \A i \in 1 .. n : (n - i) + 1 \in 1 .. n /\ s[(n - i) + 1] = n + 1 - i
  <2>1. TAKE i \in 1 .. n
  <2>2. (n - i) + 1 \in 1 .. n /\ (n - i) + 1 = n + 1 - i
    OBVIOUS
  <2> HIDE DEF s
  <2>3. QED
    BY <1>1, <2>2
<1>4. Reverse(s) = d
  <2> HIDE DEF s
  <2>1. QED
    BY <1>2, <1>3 DEF Down
<1>5. Range(d) = 1 .. n
  <2>1. DOMAIN d = 1 .. n /\ \A i \in 1 .. n : d[i] = n + 1 - i
    BY DEF Down
  <2> HIDE DEF d
  <2>2. ASSUME NEW i \in 1 .. n PROVE i \in Range(d)
    <3>1. n + 1 - i \in 1 .. n /\ n + 1 - (n + 1 - i) = i
      OBVIOUS
    <3>2. d[n + 1 - i] = i
      BY <2>1, <3>1
    <3>3. QED
      BY <2>1, <3>1, <3>2 DEF Range
  <2>3. \A i \in 1 .. n : d[i] \in 1 .. n
    BY <2>1
  <2>4. QED
    BY <2>1, <2>2, <2>3 DEF Range
<1>6. QED
  BY <1>4, <1>5

\* WalksAreComplete, for any statements, page size and requests: a walk through the pages of a
\* statement, with cursors or with numbers, returns what was there when it began, and a
\* statement all of it.
THEOREM WalksReturnEverything == Spec => []WalksAreComplete
<1>1. ThreadsSound /\ BooksSound /\ ReadersSound => WalksAreComplete
  <2>1. SUFFICES ASSUME ThreadsSound, BooksSound, ReadersSound, NEW t \in Threads,
                        reply[t].code = 200, Reading(request[t]),
                        Apart(request[t].acc, reply[t].start)
                 PROVE  LET r == request[t]
                            all == Reverse([i \in 1 .. reply[t].start |-> i])
                        IN  /\ r.route = "keyset" => reply[t].got = all
                            /\ r.route = "offset" => Range(all) \subseteq Range(reply[t].got)
                            /\ "statement" \in DOMAIN reply[t].report =>
                                   reply[t].report.statement = all
                            /\ "mini" \in DOMAIN reply[t].report =>
                                   reply[t].report.mini = FirstFew(all, MiniLimit)
    BY Zenon DEF WalksAreComplete
  <2> DEFINE n == reply[t].start
             all == Reverse([i \in 1 .. n |-> i])
  <2>2. Returned(request[t], reply[t])
    BY <2>1 DEF ReadersSound, Answered
  <2>3. n \in Nat
    <3>1. request[t].acc \in Accounts
      BY <2>1, AtStage, RequestFields
    <3>2. Len(statements[request[t].acc]) \in Nat
      BY <2>1, <3>1, Timely DEF BooksSound
    <3>3. QED
      BY <2>1, <2>2, <3>2 DEF Returned
  <2>4. all = Down(n, n) /\ Range(all) = 1 .. n
    BY <2>3, ReverseCounts
  <2> HIDE DEF all
  <2>5. /\ request[t].route = "keyset" => reply[t].got = Down(n, n)
        /\ request[t].route = "offset" => 1 .. n \subseteq Range(reply[t].got)
        /\ "statement" \in DOMAIN reply[t].report => reply[t].report.statement = Down(n, n)
        /\ "mini" \in DOMAIN reply[t].report =>
               reply[t].report.mini = FirstFew(Down(n, n), MiniLimit)
    BY <2>1, <2>2 DEF Returned
  <2>6. QED
    BY <2>4, <2>5 DEF all
<1>2. QED
  BY <1>1, ThreadsStay, BooksStay, ReadersStay, PTL

\* ReportsAddUp, for any tables and requests: an exported statement explains the balance, a
\* loan report misses no loan and alone counts each once, the statistics split the accounts,
\* and alone the books balance.
THEOREM ReportsTellTheTruth == Spec => []ReportsAddUp
<1>1. BooksSound /\ ReadersSound => ReportsAddUp
  <2>1. SUFFICES ASSUME BooksSound, ReadersSound PROVE ReportsAddUp
    OBVIOUS
  <2>2. \A a \in Accounts :
            NoRefund /\ Moves(a, TransactionType \ {"INTEREST", "LOAN_DISBURSEMENT"}) =>
                ExportAddsUp(a)
    BY <2>1, Zenon DEF BooksSound, ExportsTrue, Plainly
  <2>3. ASSUME NEW t \in Threads, reply[t].code = 200 PROVE Reported(reply[t])
    BY <2>1, <2>3 DEF ReadersSound, Answered
  <2>4. NoDeletion /\ goals = OpeningGoals
        /\ (\A a \in Accounts :
               Moves(a, {"DEPOSIT", "WITHDRAW", "TRANSFER_OUT", "TRANSFER_IN"})) => Clean
    BY DEF Clean, Touched, Ordinary
  <2>5. QED
    BY <2>2, <2>3, <2>4 DEF ReportsAddUp, Reported, Parted
<1>2. QED
  BY <1>1, BooksStay, ReadersStay, PTL
============================================================================
