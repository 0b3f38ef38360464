--------------------------- MODULE CommandLine_proofs ---------------------------
(***************************************************************************)
(* The command line keeps its types, the books and the copies of its       *)
(* sessions, and does what its administrators confirm.  A step changes the *)
(* tables in one of four ways, and the copies of one terminal: the lemmas  *)
(* about the tables say what the others are left with, those about the     *)
(* terminal what it has then.                                              *)
(***************************************************************************)
EXTENDS CommandLine, Services_proofs

-------------------------------------------------------------------------------
(* The inductive invariant *)

\* The tables: rows as the services leave them.
RowsSound ==
    /\ accounts \in [DOMAIN accounts -> AccountRow]
    /\ DOMAIN accounts \subseteq Accounts /\ DOMAIN OpeningAccounts \subseteq DOMAIN accounts
    /\ \A a \in DOMAIN accounts : accounts[a].balance >= 0
    /\ statements \in [DOMAIN accounts -> Seq(Transaction)]
    /\ loans \in [DOMAIN OpeningLoans -> LoanRow]
    /\ \A l \in DOMAIN loans : SoundLoan(loans[l])
    /\ goals \in [DOMAIN OpeningGoals -> GoalRow]
    /\ \A g \in DOMAIN goals : SoundGoal(goals[g])

\* What a terminal has shown before its prompts: rows that keep their owners.
AskedOps == {"transfer", "contribute", "editGoal", "deleteGoal"} \cup AdminOps
GoalOps == {"contribute", "editGoal", "deleteGoal"}
Prompted(t) ==
    LET c == doing[t] IN
    /\ c.op \in AskedOps /\ c.acc \in DOMAIN accounts
    /\ c.op = "transfer" => c.to \in DOMAIN accounts
    /\ c.op \notin AdminOps => c.acc = session[t].acc
    /\ shown[t].account \in AccountRow /\ shown[t].loan \in LoanRow /\ shown[t].goal \in GoalRow
    /\ shown[t].goal.current >= 0
    /\ c.op \in GoalOps => /\ shown[t].goal.exists /\ shown[t].goal.owner = c.acc
                           /\ goals[c.goal].owner = c.acc
    /\ c.op \in {"approve", "reject"} =>
           /\ loans[c.loan].owner = c.acc
           /\ loans[c.loan].principal = shown[t].loan.principal

\* A terminal has a session exactly on the screens of one.
Outside == {"main", "admin", "bootstrap", "crashed"}
Seated(t) ==
    /\ (session[t].acc = 0) =
           (screen[t] \in Outside \/ (screen[t] = "asking" /\ doing[t].op \in AdminOps))
    /\ session[t].acc # 0 => session[t].acc \in DOMAIN accounts
    /\ screen[t] = "bootstrap" => doing[t].value \in AdminPasswords
    /\ screen[t] = "asking" => Prompted(t)
Seats ==
    /\ screen \in [Terminals -> Screens] /\ session \in [Terminals -> Session]
    /\ doing \in [Terminals -> Inputs] /\ DOMAIN shown = Terminals
    /\ \A t \in Terminals : Seated(t)

\* The copies of a session that nobody else has written to.
Copied(t) ==
    t \notin foreign /\ session[t].acc # 0 =>
        /\ ~accounts[session[t].acc].deleted
        /\ session[t].balance = accounts[session[t].acc].balance
        /\ screen[t] = "asking" /\ doing[t].op = "deleteGoal" =>
               shown[t].goal.current = goals[doing[t].goal].current
Copies == \A t \in Terminals : Copied(t)

\* While no two bootstraps overlap, one asks only where there is no administrator.
Panel ==
    /\ menu \in Menus
    /\ admins \in [DOMAIN admins -> AdminPasswords] /\ DOMAIN admins \subseteq UserNames
FirstAdmin ==
    menu.admins = <<>> /\ ~together =>
        /\ \A t, u \in Terminals : screen[t] = "bootstrap" /\ screen[u] = "bootstrap" => t = u
        /\ (\E t \in Terminals : screen[t] = "bootstrap") => DOMAIN admins = {}
        /\ Cardinality(DOMAIN admins) <= 1

Sound == RowsSound /\ Seats /\ Copies /\ MoneyIsKept /\ Panel /\ FirstAdmin

-------------------------------------------------------------------------------
(* What a step leaves to the terminals that do not take it *)

\* Accounts stay, gone ones stay gone; goals and loans keep their owner.
Grown ==
    /\ DOMAIN accounts \subseteq DOMAIN accounts'
    /\ \A a \in DOMAIN accounts : accounts[a].deleted => accounts'[a].deleted
    /\ \A g \in DOMAIN goals : goals[g].owner # 0 => goals'[g].owner = goals[g].owner
    /\ \A l \in DOMAIN loans : loans[l].owner # 0 =>
           loans'[l].owner = loans[l].owner /\ loans'[l].principal = loans[l].principal

\* Whoever else has a session on what was written is marked.
Untouched(u) ==
    u \notin foreign' /\ session[u].acc # 0 =>
        LET a == session[u].acc IN
        /\ u \notin foreign
        /\ accounts'[a].balance = accounts[a].balance
        /\ accounts'[a].deleted = accounts[a].deleted
        /\ \A g \in DOMAIN goals : goals[g].owner = a => goals'[g].current = goals[g].current

Lawful(others) ==
    RowsSound' /\ Grown /\ MoneyIsKept' /\ \A u \in others : Untouched(u)

SameSeat(u) ==
    /\ screen'[u] = screen[u] /\ doing'[u] = doing[u]
    /\ shown'[u] = shown[u] /\ session'[u] = session[u]

\* A terminal that has not moved sits where it sat, and its copies are true or marked.
LEMMA OtherTerminal ==
  ASSUME RowsSound, Grown, NEW u \in Terminals, Seats, Copied(u), SameSeat(u), Untouched(u)
  PROVE  Seated(u)' /\ Copied(u)'
<1> DEFINE c == doing[u]
           a == session[u].acc
<1>1. /\ Seated(u) /\ a \in Nat /\ c \in Inputs
      /\ screen'[u] = screen[u] /\ doing'[u] = doing[u]
      /\ shown'[u] = shown[u] /\ session'[u] = session[u]
  BY DEF Seats, SameSeat, Session
<1>2. /\ c.acc \in Accounts /\ c.goal \in DOMAIN goals /\ c.loan \in DOMAIN loans
      /\ \A x \in Accounts : x # 0
  BY <1>1, CommandLineAssumption DEF Inputs, RowsSound
<1>3. Prompted(u) => Prompted(u)'
  <2>1. SUFFICES ASSUME Prompted(u) PROVE Prompted(u)'
    OBVIOUS
  <2>2. c.op \in GoalOps => goals'[c.goal].owner = c.acc
    BY <1>2, <2>1 DEF Prompted, Grown
  <2>3. c.op \in {"approve", "reject"} =>
          loans'[c.loan].owner = c.acc /\ loans'[c.loan].principal = shown[u].loan.principal
    BY <1>2, <2>1 DEF Prompted, Grown
  <2>4. c.acc \in DOMAIN accounts' /\ (c.op = "transfer" => c.to \in DOMAIN accounts')
    BY <2>1 DEF Prompted, Grown
  <2>5. QED
    BY <1>1, <2>1, <2>2, <2>3, <2>4 DEF Prompted
<1>4. Seated(u)'
  BY <1>1, <1>3 DEF Seated, Grown
<1>5. Copied(u)'
  <2>1. SUFFICES ASSUME u \notin foreign', a # 0
                 PROVE  /\ ~accounts'[a].deleted /\ session[u].balance = accounts'[a].balance
                        /\ screen[u] = "asking" /\ c.op = "deleteGoal" =>
                             shown[u].goal.current = goals'[c.goal].current
    BY <1>1 DEF Copied
  <2>2. /\ u \notin foreign /\ accounts'[a].balance = accounts[a].balance
        /\ accounts'[a].deleted = accounts[a].deleted
        /\ \A g \in DOMAIN goals : goals[g].owner = a => goals'[g].current = goals[g].current
    BY <2>1 DEF Untouched
  <2>3. /\ ~accounts[a].deleted /\ session[u].balance = accounts[a].balance
        /\ screen[u] = "asking" /\ c.op = "deleteGoal" =>
             shown[u].goal.current = goals[c.goal].current
    BY <2>1, <2>2 DEF Copied
  <2>4. screen[u] = "asking" /\ c.op = "deleteGoal" => goals[c.goal].owner = a
    BY <1>1 DEF Seated, Prompted, GoalOps, AdminOps
  <2>5. QED
    BY <1>2, <2>2, <2>3, <2>4
<1>6. QED
  BY <1>4, <1>5

-------------------------------------------------------------------------------
(* The sums over the tables *)

Balances(accs) == SumOf([a \in DOMAIN accs |-> accs[a].balance])
Savings(gls) == SumOf([g \in DOMAIN gls |-> Worth(gls[g])])
Brought(s) == SumOf([i \in DOMAIN s |-> Credit(s[i])])
CreditsIn(sts) == SumOf([a \in DOMAIN sts |-> Brought(sts[a])])

LEMMA SumsAreMoney ==
  /\ \A accs, gls : Money(accs, gls) = Balances(accs) + Savings(gls)
  /\ Credits = CreditsIn(statements) /\ Credits' = CreditsIn(statements')
BY Zenon DEF Money, Balances, Savings, Worth, Credits, CreditsIn, Brought

\* An account that changes changes the sum by what it changes.
LEMMA BalanceShift ==
  ASSUME NEW D, IsFiniteSet(D), NEW accs \in [D -> AccountRow], NEW new \in [D -> AccountRow],
         NEW a \in D, \A x \in D \ {a} : new[x] = accs[x]
  PROVE  /\ Balances(accs) \in Int /\ Balances(new) \in Int
         /\ Balances(new) = Balances(accs) + new[a].balance - accs[a].balance
<1> DEFINE f == [x \in D |-> accs[x].balance]
           h == [x \in D |-> new[x].balance]
<1>1. /\ \A x \in D : f[x] \in Int /\ h[x] \in Int
      /\ \A x \in D \ {a} : h[x] = f[x]
      /\ f[a] = accs[a].balance /\ h[a] = new[a].balance
  BY DEF AccountRow
<1>2. /\ DOMAIN accs = D /\ DOMAIN new = D /\ DOMAIN f = D /\ DOMAIN h = D
  OBVIOUS
<1>3. Balances(accs) = SumOver(f, D) /\ Balances(new) = SumOver(h, D)
  BY <1>2, Zenon DEF Balances, SumOf
<1> HIDE DEF f, h
<1>4. QED
  BY <1>1, <1>3, SumChange

LEMMA SavingsShift ==
  ASSUME NEW D, IsFiniteSet(D), NEW gls \in [D -> GoalRow], NEW new \in [D -> GoalRow],
         NEW g \in D, \A x \in D \ {g} : new[x] = gls[x]
  PROVE  /\ Savings(gls) \in Int /\ Savings(new) \in Int
         /\ Savings(new) = Savings(gls) + Worth(new[g]) - Worth(gls[g])
<1> DEFINE f == [x \in D |-> Worth(gls[x])]
           h == [x \in D |-> Worth(new[x])]
<1>1. /\ \A x \in D : f[x] \in Int /\ h[x] \in Int
      /\ \A x \in D \ {g} : h[x] = f[x]
      /\ f[g] = Worth(gls[g]) /\ h[g] = Worth(new[g])
  BY DEF GoalRow, Worth
<1>2. /\ DOMAIN gls = D /\ DOMAIN new = D /\ DOMAIN f = D /\ DOMAIN h = D
  OBVIOUS
<1>3. Savings(gls) = SumOver(f, D) /\ Savings(new) = SumOver(h, D)
  BY <1>2, Zenon DEF Savings, SumOf
<1> HIDE DEF f, h
<1>4. QED
  BY <1>1, <1>3, SumChange

\* A statement of one entry more brings what the entry does.
LEMMA EntryBrings ==
  ASSUME NEW s \in Seq(Transaction), NEW e, AtMostOne(e)
  PROVE  /\ Brought(s) \in Int /\ CreditOf(e) \in Int
         /\ Brought(s \o e) = Brought(s) + CreditOf(e)
<1> DEFINE n == Len(s)
<1>1. n \in Nat /\ DOMAIN s = 1 .. n /\ \A i \in 1 .. n : s[i] \in Transaction
  OBVIOUS
<1>2. \A x \in Transaction : Credit(x) \in Int
  BY DEF Transaction, Credit
<1>3. IsFiniteSet(DOMAIN s)
  BY <1>1, FS_Interval
<1> HIDE DEF n
<1>4. Brought(s) \in Int
  <2> DEFINE f == [i \in DOMAIN s |-> Credit(s[i])]
  <2>1. (\A i \in DOMAIN s : f[i] \in Int) /\ DOMAIN f = DOMAIN s
    BY <1>1, <1>2
  <2> HIDE DEF f
  <2>2. SumOver(f, DOMAIN f) \in Int
    BY <1>3, <2>1, SumInt
  <2>3. QED
    BY <2>2 DEF f, Brought, SumOf
<1>5. CASE e = <<>>
  <2>1. s \o e = s
    BY <1>5
  <2>2. QED
    BY <1>4, <1>5, <2>1 DEF CreditOf
<1>6. ASSUME NEW x \in Transaction, e = <<x>> PROVE Brought(s \o e) = Brought(s) + Credit(x)
  <2> DEFINE z == s \o e
  <2>1. /\ DOMAIN z = 1 .. (n + 1) /\ z[n + 1] = x
        /\ \A i \in 1 .. n : z[i] = s[i]
    BY <1>1, <1>6 DEF n
  <2> HIDE DEF z
  <2> DEFINE f == [i \in 1 .. n |-> Credit(s[i])]
             h == [i \in 1 .. (n + 1) |-> Credit(z[i])]
  <2>2. /\ \A i \in 1 .. n : f[i] \in Int /\ h[i] = f[i]
        /\ h[n + 1] = Credit(x) /\ h[n + 1] \in Int
    BY <1>1, <1>2, <1>6, <2>1
  <2>3. DOMAIN f = 1 .. n /\ DOMAIN h = 1 .. (n + 1)
    OBVIOUS
  <2>4. Brought(s) = SumOver(f, 1 .. n) /\ Brought(z) = SumOver(h, 1 .. (n + 1))
    BY <1>1, <2>1, <2>3, Zenon DEF Brought, SumOf
  <2> HIDE DEF f, h
  <2>5. QED
    BY <1>1, <2>2, <2>4, SumAppend DEF z
<1>7. ASSUME NEW x \in Transaction, e = <<x>> PROVE e # <<>> /\ e[1] = x
  BY <1>7
<1>8. QED
  BY <1>2, <1>4, <1>5, <1>6, <1>7 DEF CreditOf, AtMostOne

LEMMA SumGrows ==
  ASSUME NEW f, NEW h, NEW S, IsFiniteSet(S), NEW a \in S, NEW d \in Int,
         \A x \in S : f[x] \in Int, h[a] = f[a] + d, \A x \in S \ {a} : h[x] = f[x]
  PROVE  /\ SumOver(f, S) \in Int /\ SumOver(h, S) \in Int
         /\ SumOver(h, S) = SumOver(f, S) + d
<1>1. \A x \in S : f[x] \in Int /\ h[x] \in Int
  OBVIOUS
<1>2. /\ SumOver(f, S) \in Int /\ SumOver(h, S) \in Int
      /\ SumOver(h, S) = SumOver(f, S) + h[a] - f[a]
  BY <1>1, SumChange
<1>3. QED
  BY <1>1, <1>2

OneStatement(D, sts, new, a, e) ==
    /\ IsFiniteSet(D) /\ a \in D /\ AtMostOne(e)
    /\ sts \in [D -> Seq(Transaction)] /\ new \in [D -> Seq(Transaction)]
    /\ new[a] = sts[a] \o e /\ \A x \in D \ {a} : new[x] = sts[x]
LEMMA CreditShift ==
  ASSUME NEW D, NEW sts, NEW new, NEW a, NEW e, OneStatement(D, sts, new, a, e)
  PROVE  /\ CreditsIn(sts) \in Int /\ CreditsIn(new) \in Int
         /\ CreditsIn(new) = CreditsIn(sts) + CreditOf(e)
<1>0. /\ IsFiniteSet(D) /\ a \in D /\ AtMostOne(e)
      /\ sts \in [D -> Seq(Transaction)] /\ new \in [D -> Seq(Transaction)]
      /\ new[a] = sts[a] \o e /\ \A x \in D \ {a} : new[x] = sts[x]
  BY DEF OneStatement
<1> DEFINE f == [x \in D |-> Brought(sts[x])]
           h == [x \in D |-> Brought(new[x])]
<1>1. DOMAIN sts = D /\ DOMAIN new = D /\ DOMAIN f = D /\ DOMAIN h = D
  BY <1>0
<1>2. AtMostOne(<<>>)
  BY DEF AtMostOne
<1>3. \A x \in D : f[x] \in Int
  BY <1>0, <1>2, EntryBrings
<1>4. CreditOf(e) \in Int /\ h[a] = f[a] + CreditOf(e)
  <2>1. sts[a] \in Seq(Transaction) /\ new[a] = sts[a] \o e
    BY <1>0
  <2>2. QED
    BY <1>0, <2>1, EntryBrings
<1>5. \A x \in D \ {a} : h[x] = f[x]
  BY <1>0
<1>6. CreditsIn(sts) = SumOver(f, D) /\ CreditsIn(new) = SumOver(h, D)
  BY <1>1, Zenon DEF CreditsIn, SumOf
<1> HIDE DEF f, h
<1> DEFINE d == CreditOf(e)
<1>7. d \in Int /\ h[a] = f[a] + d
  BY <1>4
<1> HIDE DEF d
<1>8. /\ SumOver(f, D) \in Int /\ SumOver(h, D) \in Int
      /\ SumOver(h, D) = SumOver(f, D) + d
  BY <1>0, <1>3, <1>5, <1>7, SumGrows
<1>9. QED
  BY <1>6, <1>8 DEF d

-------------------------------------------------------------------------------
(* The four ways to change the tables *)

NoCall == accounts' = accounts /\ statements' = statements /\ loans' = loans /\ goals' = goals

LEMMA NoCallIsLawful ==
  ASSUME RowsSound, MoneyIsKept, NoCall, stale' = stale, NEW others,
         \A u \in others : u \in foreign => u \in foreign' \/ session[u].acc = 0
  PROVE  Lawful(others)
<1>1. RowsSound' /\ Grown
  BY DEF RowsSound, Grown, NoCall
<1>2. MoneyIsKept'
  <2>1. /\ Credits' = CreditsIn(statements') /\ Credits = CreditsIn(statements)
    BY SumsAreMoney
  <2>2. QED
    BY <2>1 DEF MoneyIsKept, NoCall
<1>3. \A u \in others : Untouched(u)
  BY DEF Untouched, NoCall
<1>4. QED
  BY <1>1, <1>2, <1>3 DEF Lawful

\* The rows of a call are of its tables.
Called(c) ==
    /\ GoodCall(c) /\ c.acc \in DOMAIN accounts
    /\ c.loan \in DOMAIN OpeningLoans /\ c.goal \in DOMAIN OpeningGoals
    /\ FreshIds(c) /\ Decision(c, RowsOf(c)).ok

LEMMA CalledRows ==
  ASSUME RowsSound, NEW c, Called(c)
  PROVE  /\ GoodRows(RowsOf(c))
         /\ RowsOf(c).account = accounts[c.acc] /\ RowsOf(c).loan = loans[c.loan]
         /\ RowsOf(c).goal = goals[c.goal]
         /\ Served(c, RowsOf(c), Decision(c, RowsOf(c)).writes,
                   RowsAfter(c.op, RowsOf(c), Decision(c, RowsOf(c)).writes))
<1>1. /\ RowsOf(c).account = accounts[c.acc] /\ RowsOf(c).loan = loans[c.loan]
      /\ RowsOf(c).goal = goals[c.goal]
  BY DEF RowsOf
<1>2. GoodRows(RowsOf(c))
  BY <1>1 DEF RowsSound, Called, GoodRows
<1>3. /\ c.op = "apply" => RowsOf(c).loan.owner = 0
      /\ c.op = "createGoal" => RowsOf(c).goal.owner = 0
  BY <1>1 DEF Called, FreshIds
<1>4. QED
  BY <1>1, <1>2, <1>3, CallServed, Zenon DEF Called

\* One call of a service: rows, money and marks.
Written(c, after, w) ==
    /\ accounts' = [accounts EXCEPT ![c.acc] = after.account]
    /\ loans' = [loans EXCEPT ![c.loan] = after.loan]
    /\ goals' = [goals EXCEPT ![c.goal] = after.goal]
    /\ statements' = [statements EXCEPT ![c.acc] = @ \o w.entries]

LEMMA WrittenIsSound ==
  ASSUME RowsSound, NEW c, Called(c), NEW w, NEW after, Served(c, RowsOf(c), w, after),
         Written(c, after, w)
  PROVE  RowsSound' /\ Grown
<1>1. /\ c.acc \in DOMAIN accounts /\ c.loan \in DOMAIN loans /\ c.goal \in DOMAIN goals
      /\ GoodRows(after) /\ AtMostOne(w.entries)
      /\ LoanLeft(c, loans[c.loan], after.loan) /\ GoalLeft(c, goals[c.goal], after.goal)
      /\ accounts[c.acc].deleted => after.account.deleted
  BY CalledRows DEF Called, RowsSound, Served
<1>2. /\ DOMAIN accounts' = DOMAIN accounts /\ accounts'[c.acc] = after.account
      /\ \A a \in DOMAIN accounts \ {c.acc} : accounts'[a] = accounts[a]
  BY <1>1 DEF Written, RowsSound
<1>3. /\ DOMAIN loans' = DOMAIN loans /\ loans'[c.loan] = after.loan
      /\ \A l \in DOMAIN loans \ {c.loan} : loans'[l] = loans[l]
      /\ loans' \in [DOMAIN OpeningLoans -> LoanRow]
  BY <1>1 DEF Written, RowsSound, LoanLeft
<1>4. /\ DOMAIN goals' = DOMAIN goals /\ goals'[c.goal] = after.goal
      /\ \A g \in DOMAIN goals \ {c.goal} : goals'[g] = goals[g]
      /\ goals' \in [DOMAIN OpeningGoals -> GoalRow]
  BY <1>1 DEF Written, RowsSound, GoalLeft
<1>5. statements' \in [DOMAIN accounts -> Seq(Transaction)]
  <2>1. statements[c.acc] \in Seq(Transaction)
    BY <1>1 DEF RowsSound
  <2>2. statements[c.acc] \o w.entries \in Seq(Transaction)
    BY <1>1, <2>1, StatementGrows
  <2>3. QED
    BY <1>1, <2>2 DEF Written, RowsSound
<1>6. accounts' \in [DOMAIN accounts -> AccountRow]
  BY <1>1 DEF Written, RowsSound, GoodRows
<1>7. RowsSound'
  <2>1. \A a \in DOMAIN accounts' : accounts'[a].balance >= 0
    BY <1>1, <1>2 DEF RowsSound, GoodRows
  <2>2. \A l \in DOMAIN loans' : SoundLoan(loans'[l])
    BY <1>1, <1>3 DEF RowsSound, LoanLeft
  <2>3. \A g \in DOMAIN goals' : SoundGoal(goals'[g])
    BY <1>1, <1>4 DEF RowsSound, GoalLeft
  <2>4. QED
    BY <1>2, <1>3, <1>4, <1>5, <1>6, <2>1, <2>2, <2>3 DEF RowsSound
<1>8. Grown
  BY <1>1, <1>2, <1>3, <1>4 DEF Grown, LoanLeft, GoalLeft
<1>9. QED
  BY <1>7, <1>8

\* The books before and after: what the tables gain is what the statements tell.
LEMMA BooksBalance ==
  ASSUME RowsSound, RowsSound', Grown, MoneyIsKept, stale \subseteq stale',
         stale' = {} /\ (\A a \in DOMAIN accounts' : ~accounts'[a].deleted) =>
           Balances(accounts') + Savings(goals') - CreditsIn(statements')
             = Balances(accounts) + Savings(goals) - CreditsIn(statements),
         \A x \in {Balances(accounts'), Savings(goals'), CreditsIn(statements'),
                   Balances(accounts), Savings(goals), CreditsIn(statements)} : x \in Int,
         Money(OpeningAccounts, OpeningGoals) \in Int
  PROVE  MoneyIsKept'
<1> DEFINE M == Money(OpeningAccounts, OpeningGoals)
<1>1. SUFFICES ASSUME stale' = {}, \A a \in DOMAIN accounts' : ~accounts'[a].deleted
               PROVE  Money(accounts', goals') = M + Credits'
  BY DEF MoneyIsKept
<1>2. Money(accounts, goals) = M + Credits
  <2>1. stale = {} /\ \A a \in DOMAIN accounts : ~accounts[a].deleted
    BY <1>1 DEF Grown
  <2>2. QED
    BY <2>1 DEF MoneyIsKept
<1>3. Balances(accounts) + Savings(goals) = M + CreditsIn(statements)
  BY <1>2, SumsAreMoney
<1> HIDE DEF M
<1>4. M \in Int
  BY DEF M
<1>5. Balances(accounts') + Savings(goals') = M + CreditsIn(statements')
  <2> DEFINE b == Balances(accounts)
             b2 == Balances(accounts')
             v == Savings(goals)
             v2 == Savings(goals')
             d == CreditsIn(statements)
             d2 == CreditsIn(statements')
  <2>1. /\ b \in Int /\ b2 \in Int /\ v \in Int /\ v2 \in Int /\ d \in Int /\ d2 \in Int
        /\ b2 + v2 - d2 = b + v - d /\ b + v = M + d
    BY <1>1, <1>3
  <2> HIDE DEF b, b2, v, v2, d, d2
  <2>2. b2 + v2 = M + d2
    BY <1>4, <2>1
  <2>3. QED
    BY <2>2 DEF b2, v2, d2
<1>6. QED
  BY <1>5, SumsAreMoney

LEMMA FiniteTables ==
  ASSUME RowsSound
  PROVE  IsFiniteSet(DOMAIN accounts) /\ IsFiniteSet(DOMAIN goals)
<1>1. IsFiniteSet(Accounts) /\ IsFiniteSet(DOMAIN OpeningGoals)
  BY CommandLineAssumption
<1>2. QED
  BY <1>1, FS_Subset DEF RowsSound

LEMMA OpeningMoney == Money(OpeningAccounts, OpeningGoals) \in Int
<1>1. IsFiniteSet(DOMAIN OpeningAccounts)
  <2>1. DOMAIN OpeningAccounts \subseteq Accounts /\ IsFiniteSet(Accounts)
    BY CommandLineAssumption DEF Accounts
  <2>2. QED
    BY <2>1, FS_Subset
<1>2. IsFiniteSet(DOMAIN OpeningGoals)
  BY CommandLineAssumption
<1>3. Balances(OpeningAccounts) \in Int
  <2> DEFINE f == [a \in DOMAIN OpeningAccounts |-> OpeningAccounts[a].balance]
  <2>1. (\A x \in DOMAIN OpeningAccounts : f[x] \in Int) /\ DOMAIN f = DOMAIN OpeningAccounts
    BY CommandLineAssumption DEF AccountRow
  <2> HIDE DEF f
  <2>2. SumOver(f, DOMAIN f) \in Int
    BY <1>1, <2>1, SumInt
  <2>3. QED
    BY <2>2 DEF f, Balances, SumOf
<1>4. Savings(OpeningGoals) \in Int
  <2> DEFINE f == [g \in DOMAIN OpeningGoals |-> Worth(OpeningGoals[g])]
  <2>1. (\A x \in DOMAIN OpeningGoals : f[x] \in Int) /\ DOMAIN f = DOMAIN OpeningGoals
    BY CommandLineAssumption DEF GoalRow, Worth
  <2> HIDE DEF f
  <2>2. SumOver(f, DOMAIN f) \in Int
    BY <1>2, <2>1, SumInt
  <2>3. QED
    BY <2>2 DEF f, Savings, SumOf
<1>5. QED
  BY <1>3, <1>4, SumsAreMoney

LEMMA WrittenIsBalanced ==
  ASSUME RowsSound, MoneyIsKept, NEW c, Called(c), NEW w, NEW after,
         Served(c, RowsOf(c), w, after), Written(c, after, w), stale' = stale
  PROVE  MoneyIsKept'
<1> DEFINE a == c.acc
           g == c.goal
<1>1. RowsSound' /\ Grown
  BY WrittenIsSound
<1>2. /\ a \in DOMAIN accounts /\ g \in DOMAIN goals /\ AtMostOne(w.entries)
      /\ GoodRows(after) /\ CreditOf(w.entries) \in Int
      /\ ~accounts[a].deleted => after.account.balance + Worth(after.goal)
           = accounts[a].balance + Worth(goals[g]) + CreditOf(w.entries)
  BY CalledRows DEF Called, RowsSound, Served
<1>3. /\ accounts \in [DOMAIN accounts -> AccountRow] /\ accounts' \in [DOMAIN accounts -> AccountRow]
      /\ accounts'[a] = after.account /\ \A x \in DOMAIN accounts \ {a} : accounts'[x] = accounts[x]
      /\ goals \in [DOMAIN goals -> GoalRow] /\ goals' \in [DOMAIN goals -> GoalRow]
      /\ goals'[g] = after.goal /\ \A x \in DOMAIN goals \ {g} : goals'[x] = goals[x]
  BY <1>1, <1>2 DEF Written, RowsSound
<1>4. /\ statements \in [DOMAIN accounts -> Seq(Transaction)]
      /\ statements' \in [DOMAIN accounts -> Seq(Transaction)]
      /\ statements'[a] = statements[a] \o w.entries
      /\ \A x \in DOMAIN accounts \ {a} : statements'[x] = statements[x]
  BY <1>1, <1>2, <1>3 DEF Written, RowsSound
<1>5. IsFiniteSet(DOMAIN accounts) /\ IsFiniteSet(DOMAIN goals)
  BY FiniteTables
<1>6. /\ Balances(accounts) \in Int /\ Balances(accounts') \in Int
      /\ Balances(accounts') = Balances(accounts) + after.account.balance - accounts[a].balance
  BY <1>2, <1>3, <1>5, BalanceShift
<1>7. /\ Savings(goals) \in Int /\ Savings(goals') \in Int
      /\ Savings(goals') = Savings(goals) + Worth(after.goal) - Worth(goals[g])
  BY <1>2, <1>3, <1>5, SavingsShift
<1>8. /\ CreditsIn(statements) \in Int /\ CreditsIn(statements') \in Int
      /\ CreditsIn(statements') = CreditsIn(statements) + CreditOf(w.entries)
  <2>1. OneStatement(DOMAIN accounts, statements, statements', a, w.entries)
    BY <1>2, <1>4, <1>5 DEF OneStatement
  <2>2. QED
    BY <2>1, CreditShift
<1>9. /\ after.account.balance \in Int /\ accounts[a].balance \in Int
      /\ Worth(after.goal) \in Int /\ Worth(goals[g]) \in Int
  BY <1>2, <1>3 DEF GoodRows, AccountRow, GoalRow, Worth
<1>10. ASSUME stale' = {}, \A x \in DOMAIN accounts' : ~accounts'[x].deleted
       PROVE  Balances(accounts') + Savings(goals') - CreditsIn(statements')
                = Balances(accounts) + Savings(goals) - CreditsIn(statements)
  <2>1. ~accounts[a].deleted
    BY <1>1, <1>2, <1>10 DEF Grown
  <2>2. QED
    BY <1>2, <1>6, <1>7, <1>8, <1>9, <2>1
<1>11. QED
  BY <1>1, <1>6, <1>7, <1>8, <1>10, BooksBalance, OpeningMoney

LEMMA ServeIsLawful ==
  ASSUME RowsSound, MoneyIsKept, NEW c, Called(c), NEW others,
         Serve(others, c, RowsOf(c), Decision(c, RowsOf(c)).writes), stale' = stale
  PROVE  /\ Lawful(others)
         /\ accounts'[c.acc].balance = accounts[c.acc].balance
              + CreditOf(Decision(c, RowsOf(c)).writes.entries) + FromGoal(c, RowsOf(c))
         /\ accounts'[c.acc].deleted => accounts[c.acc].deleted \/ c.op = "delete"
         /\ foreign \subseteq foreign'
<1> DEFINE w == Decision(c, RowsOf(c)).writes
           after == RowsAfter(c.op, RowsOf(c), w)
<1>1. Written(c, after, w)
  BY DEF Serve, Written
<1>2. foreign' = foreign \cup {u \in others : session[u].acc \in Touched(c)}
  BY DEF Serve
<1>3. Served(c, RowsOf(c), w, after)
  BY CalledRows
<1> HIDE DEF after, w
<1>4. RowsSound' /\ Grown /\ MoneyIsKept'
  BY <1>1, <1>3, WrittenIsSound, WrittenIsBalanced
<1>5. /\ c.acc \in DOMAIN accounts /\ accounts'[c.acc] = after.account
      /\ c.goal \in DOMAIN goals /\ goals'[c.goal] = after.goal
      /\ \A a \in DOMAIN accounts \ {c.acc} : accounts'[a] = accounts[a]
      /\ \A g \in DOMAIN goals \ {c.goal} : goals'[g] = goals[g]
  BY <1>1 DEF Called, RowsSound, Written
<1>6. ASSUME NEW u \in others, u \notin foreign', session[u].acc # 0,
             NEW a, a = session[u].acc
      PROVE  /\ u \notin foreign /\ accounts'[a] = accounts[a]
             /\ \A g \in DOMAIN goals : goals[g].owner = a => goals'[g].current = goals[g].current
  <2>1. u \notin foreign /\ a \notin Touched(c)
    BY <1>2, <1>6
  <2>2. accounts'[a] = accounts[a]
    <3>1. a # c.acc
      BY <2>1 DEF Touched
    <3>2. QED
      BY <1>1, <3>1 DEF Written, RowsSound
  <2>3. goals[c.goal].owner = a => goals'[c.goal] = goals[c.goal]
    <3>1. CASE c.op \in GoalCalls \ {"createGoal"}
      BY <2>1, <3>1 DEF Touched
    <3>2. CASE c.op = "createGoal"
      BY <1>6, <3>2 DEF Called, FreshIds
    <3>3. CASE c.op \notin GoalCalls
      BY <1>3, <1>5, <3>3, CalledRows DEF Served, GoalLeft
    <3>4. QED
      BY <3>1, <3>2, <3>3
  <2>4. QED
    BY <1>5, <2>1, <2>2, <2>3
<1>7. Lawful(others)
  BY <1>4, <1>6 DEF Lawful, Untouched
<1>8. QED
  BY <1>2, <1>3, <1>5, <1>7, CalledRows DEF Served, w

LEMMA AppendOne ==
  ASSUME NEW S, NEW s \in Seq(S), NEW x \in S
  PROVE  Append(s, x) = s \o <<x>>
OBVIOUS

LEMMA NewBalance ==
  ASSUME NEW r \in AccountRow, NEW n \in Int
  PROVE  /\ [r EXCEPT !.balance = n] \in AccountRow /\ [r EXCEPT !.balance = n].balance = n
         /\ [r EXCEPT !.balance = n].deleted = r.deleted
BY DEF AccountRow

\* A granted transfer, in its two legs.
Transferred(t) ==
    LET c == doing[t]
        d == TransferDecision(accounts[c.acc], accounts[c.to], c.acc = c.to, c.value)
        credit == EntryFor(accounts[c.to], "TRANSFER_IN", c.value)
    IN
    /\ d.ok
    /\ accounts' = [accounts EXCEPT ![c.acc].balance = @ - c.value,
                                    ![c.to].balance = credit.balance]
    /\ statements' = [statements EXCEPT ![c.acc] = @ \o d.writes.entries,
                                        ![c.to] = Append(@, credit)]
    /\ foreign' = foreign \cup {u \in Terminals : u # t /\ session[u].acc \in {c.acc, c.to}}
    /\ UNCHANGED <<loans, goals>>

Legs(a, b, v) ==
    /\ a \in DOMAIN accounts /\ b \in DOMAIN accounts /\ a # b /\ v \in Int
    /\ v > 0 /\ v <= accounts[a].balance
    /\ accounts' = [x \in DOMAIN accounts |->
                       IF x = a THEN [accounts[a] EXCEPT !.balance = accounts[a].balance - v]
                       ELSE IF x = b THEN [accounts[b] EXCEPT !.balance = accounts[b].balance + v]
                       ELSE accounts[x]]
    /\ \E out, in \in Transaction : /\ Credit(out) = 0 /\ Credit(in) = 0
                                   /\ statements' = [statements EXCEPT ![a] = @ \o <<out>>,
                                                                       ![b] = @ \o <<in>>]

LEMMA TransferHasLegs ==
  ASSUME RowsSound, Seats, NEW t \in Terminals, screen[t] = "asking", doing[t].op = "transfer",
         Transferred(t)
  PROVE  Legs(doing[t].acc, doing[t].to, doing[t].value)
<1> DEFINE c == doing[t]
           a == c.acc
           b == c.to
           v == c.value
           d == TransferDecision(accounts[a], accounts[b], a = b, v)
           out == EntryFor(accounts[a], "TRANSFER_OUT", v)
           in == EntryFor(accounts[b], "TRANSFER_IN", v)
<1>1. a \in DOMAIN accounts /\ b \in DOMAIN accounts /\ v \in Int
  BY DEF Seats, Seated, Prompted, Inputs
<1>2. /\ accounts[a] \in AccountRow /\ accounts[b] \in AccountRow
      /\ accounts[a].balance \in Int /\ accounts[b].balance \in Int
  BY <1>1 DEF RowsSound, AccountRow
<1>3. /\ d.ok
      /\ accounts' = [accounts EXCEPT ![a].balance = @ - v, ![b].balance = in.balance]
      /\ statements' = [statements EXCEPT ![a] = @ \o d.writes.entries, ![b] = Append(@, in)]
  BY Zenon DEF Transferred
<1>4. /\ v > 0 /\ a # b /\ v <= accounts[a].balance /\ d.writes.entries = <<out>>
  <2> DEFINE same == (a = b)
  <2>1. same \in BOOLEAN /\ TransferDecision(accounts[a], accounts[b], same, v).ok
    BY <1>3
  <2> HIDE DEF same, a, b, v
  <2>2. /\ v > 0 /\ ~same /\ v <= accounts[a].balance
        /\ TransferDecision(accounts[a], accounts[b], same, v).writes.entries = <<out>>
    BY <1>1, <1>2, <2>1, TransferGranted
  <2>3. QED
    BY <2>2 DEF same
<1>5. /\ out \in Transaction /\ in \in Transaction /\ Credit(out) = 0 /\ Credit(in) = 0
      /\ in.balance = accounts[b].balance + v
  BY <1>1, <1>2, TransferLegs
<1>6. statements' = [statements EXCEPT ![a] = @ \o <<out>>, ![b] = @ \o <<in>>]
  <2>1. statements[b] \in Seq(Transaction)
    BY <1>1 DEF RowsSound
  <2>2. Append(statements[b], in) = statements[b] \o <<in>>
    <3> HIDE DEF in
    <3>1. in \in Transaction
      BY <1>5
    <3>2. QED
      BY <2>1, <3>1, AppendOne
  <2> HIDE DEF out, in, d, a, b
  <2>3. QED
    BY <1>1, <1>3, <1>4, <2>2 DEF RowsSound
<1>7. accounts' = [x \in DOMAIN accounts |->
                     IF x = a THEN [accounts[a] EXCEPT !.balance = accounts[a].balance - v]
                     ELSE IF x = b THEN [accounts[b] EXCEPT !.balance = accounts[b].balance + v]
                     ELSE accounts[x]]
  <2> DEFINE F == [x \in DOMAIN accounts |->
                     IF x = a THEN [accounts[a] EXCEPT !.balance = accounts[a].balance - v]
                     ELSE IF x = b THEN [accounts[b] EXCEPT !.balance = accounts[b].balance + v]
                     ELSE accounts[x]]
             G == [accounts EXCEPT ![a].balance = @ - v, ![b].balance = in.balance]
  <2> HIDE DEF in, a, b, v
  <2>1. DOMAIN F = DOMAIN accounts /\ DOMAIN G = DOMAIN accounts
    BY DEF RowsSound
  <2>2. \A x \in DOMAIN accounts : F[x] = G[x]
    BY <1>1, <1>4, <1>5 DEF RowsSound
  <2>3. F = [x \in DOMAIN F |-> F[x]] /\ G = [x \in DOMAIN G |-> G[x]]
    BY DEF RowsSound
  <2>4. accounts' = G
    BY <1>3
  <2> HIDE DEF F, G
  <2>5. accounts' = F
    BY <2>1, <2>2, <2>3, <2>4
  <2>6. QED
    BY <2>5 DEF F
<1> HIDE DEF out, in, a, b, v, d
<1>8. QED
  BY <1>1, <1>4, <1>5, <1>6, <1>7 DEF Legs, a, b, v

LEMMA LegsAreSound ==
  ASSUME RowsSound, NEW a, NEW b, NEW v, Legs(a, b, v), UNCHANGED <<loans, goals>>
  PROVE  /\ RowsSound' /\ Grown
         /\ Balances(accounts) \in Int /\ Balances(accounts') = Balances(accounts)
         /\ CreditsIn(statements) \in Int /\ CreditsIn(statements') = CreditsIn(statements)
<1> DEFINE D == DOMAIN accounts
           less == [accounts[a] EXCEPT !.balance = accounts[a].balance - v]
           more == [accounts[b] EXCEPT !.balance = accounts[b].balance + v]
           mid == [x \in D |-> IF x = a THEN less ELSE accounts[x]]
<1>1. PICK out \in Transaction, in \in Transaction :
        /\ Credit(out) = 0 /\ Credit(in) = 0
        /\ statements' = [statements EXCEPT ![a] = @ \o <<out>>, ![b] = @ \o <<in>>]
  BY DEF Legs
<1> DEFINE half == [statements EXCEPT ![a] = @ \o <<out>>]
<1>2. /\ a \in D /\ b \in D /\ a # b /\ v \in Int /\ v > 0 /\ v <= accounts[a].balance
      /\ accounts \in [D -> AccountRow] /\ \A x \in D : accounts[x].balance >= 0
      /\ statements \in [D -> Seq(Transaction)]
      /\ accounts' = [x \in D |-> IF x = a THEN less ELSE IF x = b THEN more ELSE accounts[x]]
  BY DEF Legs, RowsSound
<1>3. IsFiniteSet(D)
  BY FiniteTables
<1>4. /\ accounts[a].balance \in Int /\ accounts[b].balance \in Int
      /\ less \in AccountRow /\ less.balance = accounts[a].balance - v
      /\ less.deleted = accounts[a].deleted
      /\ more \in AccountRow /\ more.balance = accounts[b].balance + v
      /\ more.deleted = accounts[b].deleted
  <2>1. /\ accounts[a] \in AccountRow /\ accounts[b] \in AccountRow
        /\ accounts[a].balance \in Int /\ accounts[b].balance \in Int
    BY <1>2 DEF AccountRow
  <2>2. accounts[a].balance - v \in Int /\ accounts[b].balance + v \in Int
    BY <1>2, <2>1
  <2>3. QED
    BY <2>1, <2>2, NewBalance
<1> HIDE DEF less, more
<1>5. /\ mid \in [D -> AccountRow] /\ mid[a] = less /\ mid[b] = accounts[b]
      /\ \A x \in D \ {a} : mid[x] = accounts[x]
  BY <1>2, <1>4
<1>6. /\ accounts' \in [D -> AccountRow] /\ accounts'[a] = less /\ accounts'[b] = more
      /\ (\A x \in D \ {b} : accounts'[x] = mid[x])
      /\ (\A x \in D : accounts'[x].balance >= 0 /\ accounts'[x].deleted = accounts[x].deleted)
  BY <1>2, <1>4
<1>7. /\ half \in [D -> Seq(Transaction)] /\ half[a] = statements[a] \o <<out>>
      /\ half[b] = statements[b] /\ \A x \in D \ {a} : half[x] = statements[x]
      /\ AtMostOne(<<out>>) /\ AtMostOne(<<in>>)
  <2>1. AtMostOne(<<out>>) /\ AtMostOne(<<in>>)
    BY DEF AtMostOne
  <2>2. statements[a] \in Seq(Transaction)
    BY <1>2
  <2>3. statements[a] \o <<out>> \in Seq(Transaction)
    BY <2>1, <2>2, StatementGrows
  <2>4. QED
    BY <1>2, <2>1, <2>3
<1>8. /\ statements' \in [D -> Seq(Transaction)] /\ statements'[b] = half[b] \o <<in>>
      /\ \A x \in D \ {b} : statements'[x] = half[x]
  <2>1. half[b] \in Seq(Transaction)
    BY <1>2, <1>7
  <2>2. half[b] \o <<in>> \in Seq(Transaction)
    BY <1>7, <2>1, StatementGrows
  <2>3. QED
    BY <1>1, <1>2, <1>7, <2>2
<1> HIDE DEF mid, half
<1>9. /\ Balances(accounts) \in Int /\ Balances(accounts') = Balances(accounts)
  <2>1. /\ Balances(accounts) \in Int /\ Balances(mid) \in Int
        /\ Balances(mid) = Balances(accounts) + mid[a].balance - accounts[a].balance
    BY <1>2, <1>3, <1>5, BalanceShift
  <2>2. Balances(accounts') = Balances(mid) + accounts'[b].balance - mid[b].balance
    <3> HIDE DEF D
    <3>1. QED
      BY <1>2, <1>3, <1>5, <1>6, BalanceShift
  <2>3. QED
    BY <1>2, <1>4, <1>5, <1>6, <2>1, <2>2
<1>10. /\ CreditsIn(statements) \in Int /\ CreditsIn(statements') = CreditsIn(statements)
  <2>1. CreditOf(<<out>>) = 0 /\ CreditOf(<<in>>) = 0
    BY <1>1 DEF CreditOf
  <2>2. OneStatement(D, statements, half, a, <<out>>)
    BY <1>2, <1>3, <1>7 DEF OneStatement
  <2>3. OneStatement(D, half, statements', b, <<in>>)
    BY <1>2, <1>3, <1>7, <1>8 DEF OneStatement
  <2>4. /\ CreditsIn(statements) \in Int /\ CreditsIn(half) = CreditsIn(statements) + CreditOf(<<out>>)
    BY <2>2, CreditShift
  <2>5. CreditsIn(statements') = CreditsIn(half) + CreditOf(<<in>>)
    BY <2>3, CreditShift
  <2>6. QED
    BY <2>1, <2>4, <2>5
<1>11. DOMAIN accounts' = D
  BY <1>6
<1>12. RowsSound' /\ Grown
  BY <1>6, <1>8, <1>11 DEF RowsSound, Grown
<1>13. QED
  BY <1>2, <1>9, <1>10, <1>12

LEMMA TransferIsLawful ==
  ASSUME RowsSound, MoneyIsKept, Seats, NEW t \in Terminals, screen[t] = "asking",
         doing[t].op = "transfer", Transferred(t), stale' = stale
  PROVE  /\ Lawful(Terminals \ {t}) /\ foreign \subseteq foreign'
         /\ doing[t].acc \in DOMAIN accounts
         /\ accounts'[doing[t].acc].deleted = accounts[doing[t].acc].deleted
<1> DEFINE a == doing[t].acc
           b == doing[t].to
           v == doing[t].value
<1>1. Legs(a, b, v)
  BY TransferHasLegs
<1>2. /\ loans' = loans /\ goals' = goals
      /\ foreign' = foreign \cup {u \in Terminals : u # t /\ session[u].acc \in {a, b}}
  BY DEF Transferred
<1> HIDE DEF a, b, v
<1>3. /\ RowsSound' /\ Grown
      /\ Balances(accounts) \in Int /\ Balances(accounts') = Balances(accounts)
      /\ CreditsIn(statements) \in Int /\ CreditsIn(statements') = CreditsIn(statements)
  BY <1>1, <1>2, LegsAreSound
<1>4. MoneyIsKept'
  <2>1. Credits' = Credits /\ Money(accounts', goals') = Money(accounts, goals)
    BY <1>2, <1>3, SumsAreMoney
  <2>2. (\A x \in DOMAIN accounts' : ~accounts'[x].deleted) =>
           \A x \in DOMAIN accounts : ~accounts[x].deleted
    BY <1>3 DEF Grown
  <2>3. QED
    BY <2>1, <2>2 DEF MoneyIsKept
<1>5. ASSUME NEW u \in Terminals \ {t} PROVE Untouched(u)
  <2>1. SUFFICES ASSUME u \notin foreign', session[u].acc # 0, NEW x, x = session[u].acc
                 PROVE  /\ u \notin foreign /\ accounts'[x].balance = accounts[x].balance
                        /\ accounts'[x].deleted = accounts[x].deleted
    BY <1>2 DEF Untouched
  <2>2. u \notin foreign /\ x # a /\ x # b
    BY <1>2, <1>5, <2>1
  <2>3. x \in DOMAIN accounts
    BY <2>1 DEF Seats, Seated
  <2>4. accounts'[x] = accounts[x]
    BY <1>1, <2>2, <2>3 DEF Legs
  <2>5. QED
    BY <2>2, <2>4
<1>6. a \in DOMAIN accounts /\ accounts'[a].deleted = accounts[a].deleted
  <2>1. a \in DOMAIN accounts /\ accounts[a] \in AccountRow /\ v \in Int
    BY <1>1 DEF Legs, RowsSound
  <2>2. accounts[a].balance - v \in Int
    BY <2>1 DEF AccountRow
  <2>3. [accounts[a] EXCEPT !.balance = accounts[a].balance - v].deleted = accounts[a].deleted
    BY <2>1, <2>2, NewBalance
  <2>4. QED
    BY <1>1, <2>1, <2>3 DEF Legs
<1>7. QED
  BY <1>2, <1>3, <1>4, <1>5, <1>6 DEF Lawful, a

\* A goal that is written as it was shown.
Edited(t) ==
    LET c == doing[t] IN
    /\ goals' = [goals EXCEPT ![c.goal] = IF @.exists THEN EditedGoal(t, c.value) ELSE @]
    /\ stale' = IF goals[c.goal].current # shown[t].goal.current THEN stale \cup {c.acc} ELSE stale
    /\ foreign' = foreign \cup {u \in Terminals : u # t /\ session[u].acc = c.acc}
    /\ UNCHANGED <<accounts, statements, loans>>

LEMMA EditIsLawful ==
  ASSUME RowsSound, MoneyIsKept, Seats, NEW t \in Terminals, screen[t] = "asking",
         doing[t].op = "editGoal", Edited(t)
  PROVE  Lawful(Terminals \ {t}) /\ foreign \subseteq foreign'
<1> DEFINE c == doing[t]
           g == c.goal
           row == EditedGoal(t, c.value)
           new == IF goals[g].exists THEN row ELSE goals[g]
           seen == shown[t].goal
<1>1. /\ c.acc \in DOMAIN accounts /\ g \in DOMAIN goals /\ c.value \in Int /\ c.acc # 0
      /\ seen \in GoalRow /\ seen.exists /\ seen.owner = c.acc /\ seen.current >= 0
      /\ goals[g].owner = c.acc /\ goals[g] \in GoalRow /\ SoundGoal(goals[g])
  <2>1. Prompted(t) /\ c \in Inputs
    BY DEF Seats, Seated
  <2>2. g \in DOMAIN goals /\ c.value \in Int /\ c.acc # 0
    BY <2>1, CommandLineAssumption DEF Inputs, RowsSound
  <2>3. QED
    BY <2>1, <2>2 DEF Prompted, GoalOps, RowsSound
<1>2. /\ goals' = [goals EXCEPT ![g] = new]
      /\ stale' = IF goals[g].current # seen.current THEN stale \cup {c.acc} ELSE stale
      /\ foreign' = foreign \cup {u \in Terminals : u # t /\ session[u].acc = c.acc}
      /\ accounts' = accounts /\ statements' = statements /\ loans' = loans
  BY Zenon DEF Edited
<1>3. /\ row \in GoalRow /\ row.exists = TRUE /\ row.owner = c.acc /\ row.current = seen.current
  <2> HIDE DEF seen, c
  <2>1. row = [seen EXCEPT !.target = c.value, !.completed = seen.current >= c.value]
    BY Zenon DEF EditedGoal, seen
  <2> DEFINE b == seen.current >= c.value
             n == c.value
  <2>2. b \in BOOLEAN /\ n \in Int /\ row = [seen EXCEPT !.target = n, !.completed = b]
    BY <1>1, <2>1
  <2> HIDE DEF b, n
  <2>3. QED
    BY <1>1, <2>2 DEF GoalRow
<1>4. /\ new \in GoalRow /\ SoundGoal(new) /\ new.owner = c.acc
      /\ goals[g].current = seen.current => Worth(new) = Worth(goals[g])
  <2> HIDE DEF row
  <2>1. CASE goals[g].exists
    BY <1>1, <1>3, <2>1 DEF SoundGoal, Worth
  <2>2. CASE ~goals[g].exists
    BY <1>1, <2>2
  <2>3. QED
    BY <2>1, <2>2
<1> HIDE DEF new, row, seen, g
<1>5. /\ goals' \in [DOMAIN OpeningGoals -> GoalRow] /\ goals'[g] = new
      /\ \A x \in DOMAIN goals \ {g} : goals'[x] = goals[x]
  BY <1>1, <1>2, <1>4 DEF RowsSound
<1>6. RowsSound' /\ Grown
  <2>1. \A x \in DOMAIN goals' : SoundGoal(goals'[x])
    BY <1>4, <1>5 DEF RowsSound
  <2>2. RowsSound'
    BY <1>2, <1>5, <2>1 DEF RowsSound
  <2>3. Grown
    BY <1>1, <1>2, <1>4, <1>5 DEF Grown
  <2>4. QED
    BY <2>2, <2>3
<1>7. MoneyIsKept'
  <2>1. SUFFICES ASSUME stale' = {}, \A a \in DOMAIN accounts' : ~accounts'[a].deleted
                 PROVE  Money(accounts', goals')
                          = Money(OpeningAccounts, OpeningGoals) + Credits'
    BY DEF MoneyIsKept
  <2>2. stale = {} /\ goals[g].current = seen.current
    BY <1>2, <2>1
  <2>3. Money(accounts, goals) = Money(OpeningAccounts, OpeningGoals) + Credits
    BY <1>2, <2>1, <2>2 DEF MoneyIsKept
  <2>4. goals \in [DOMAIN goals -> GoalRow] /\ goals' \in [DOMAIN goals -> GoalRow]
    BY <1>5 DEF RowsSound
  <2>5. IsFiniteSet(DOMAIN goals)
    BY FiniteTables
  <2>6. /\ Savings(goals) \in Int
        /\ Savings(goals') = Savings(goals) + Worth(new) - Worth(goals[g])
    BY <1>1, <1>5, <2>4, <2>5, SavingsShift DEF g
  <2>7. Worth(new) = Worth(goals[g]) /\ Worth(new) \in Int
    BY <1>4, <2>2 DEF Worth, GoalRow
  <2>8. Savings(goals') = Savings(goals)
    BY <2>6, <2>7
  <2>9. Money(accounts', goals') = Money(accounts, goals)
    BY <1>2, <2>8, SumsAreMoney
  <2>10. Credits' = Credits
    BY <1>2, SumsAreMoney
  <2>11. QED
    BY <2>3, <2>9, <2>10
<1>8. ASSUME NEW u \in Terminals \ {t} PROVE Untouched(u)
  BY <1>1, <1>2, <1>5, <1>8 DEF Untouched, g
<1>9. QED
  BY <1>2, <1>6, <1>7, <1>8 DEF Lawful

\* A new account brings nothing with it.
Registered(a) ==
    /\ a \in NewAccounts \ DOMAIN accounts
    /\ accounts' = [x \in DOMAIN accounts \cup {a} |->
           IF x = a THEN [balance |-> 0, active |-> TRUE, frozen |-> FALSE,
                          deleted |-> FALSE, profile |-> 0, password |-> 0]
           ELSE accounts[x]]
    /\ statements' = [x \in DOMAIN accounts' |-> IF x = a THEN <<>> ELSE statements[x]]
    /\ UNCHANGED <<loans, goals, foreign, stale>>

\* A sum of zeros is zero.
LEMMA SumZero ==
  ASSUME NEW f, NEW S, IsFiniteSet(S), \A x \in S : f[x] = 0
  PROVE  SumOver(f, S) = 0
<1> DEFINE B == {s \in SUBSET S : SumOver(f, s) # 0}
<1>1. SUFFICES ASSUME B # {} PROVE FALSE
  OBVIOUS
<1>2. \A s \in SUBSET S : IsFiniteSet(s) /\ Cardinality(s) \in Nat
  BY FS_Subset, FS_CardinalityType
<1>3. PICK s \in B : \A r \in B : Cardinality(s) <= Cardinality(r)
  BY <1>1, <1>2, LeastSet
<1>4. SumOver(f, s) = IF s = {} THEN 0 ELSE f[Choice(s)] + SumOver(f, s \ {Choice(s)})
  BY <1>2, SumUnfold
<1>5. s # {}
  BY <1>4
<1>6. Choice(s) \in s
  BY <1>5 DEF Choice
<1>7. s \ {Choice(s)} \in SUBSET S /\ Cardinality(s \ {Choice(s)}) = Cardinality(s) - 1
  BY <1>2, <1>6, FS_RemoveElement
<1>8. s \ {Choice(s)} \notin B
  BY <1>2, <1>3, <1>7
<1>9. QED
  BY <1>4, <1>5, <1>6, <1>7, <1>8

LEMMA NothingBrought == Brought(<<>>) = 0
<1> DEFINE k == [i \in DOMAIN <<>> |-> Credit(<<>>[i])]
<1>1. DOMAIN <<>> = {} /\ DOMAIN k = DOMAIN <<>> /\ IsFiniteSet({})
  BY FS_EmptySet
<1> HIDE DEF k
<1>2. SumOver(k, DOMAIN k) = 0
  BY <1>1, SumUnfold
<1>3. QED
  BY <1>2, Zenon DEF Brought, SumOf, k

LEMMA SumNothingNew ==
  ASSUME NEW S, IsFiniteSet(S), NEW a, a \notin S, NEW f, NEW h,
         \A x \in S : f[x] \in Int /\ h[x] = f[x], h[a] = 0
  PROVE  SumOver(h, S \cup {a}) = SumOver(f, S)
<1>1. IsFiniteSet(S \cup {a}) /\ (S \cup {a}) \ {a} = S /\ a \in S \cup {a}
  BY FS_AddElement
<1>2. \A x \in S \cup {a} : h[x] \in Int
  OBVIOUS
<1>3. SumOver(h, S \cup {a}) = h[a] + SumOver(h, S)
  BY <1>1, <1>2, SumRemove
<1>4. SumOver(h, S) = SumOver(f, S)
  BY SumSame
<1>5. SumOver(f, S) \in Int
  BY SumInt
<1>6. QED
  BY <1>3, <1>4, <1>5

LEMMA RegistrationIsLawful ==
  ASSUME RowsSound, MoneyIsKept, Seats, NEW a, Registered(a)
  PROVE  Lawful(Terminals)
<1> DEFINE D == DOMAIN accounts
           row == [balance |-> 0, active |-> TRUE, frozen |-> FALSE,
                   deleted |-> FALSE, profile |-> 0, password |-> 0]
<1>1. /\ a \in NewAccounts /\ a \notin D /\ DOMAIN accounts' = D \cup {a}
      /\ accounts' = [x \in D \cup {a} |-> IF x = a THEN row ELSE accounts[x]]
      /\ statements' = [x \in D \cup {a} |-> IF x = a THEN <<>> ELSE statements[x]]
      /\ loans' = loans /\ goals' = goals /\ foreign' = foreign /\ stale' = stale
  BY DEF Registered
<1>2. row \in AccountRow /\ row.balance = 0 /\ row.deleted = FALSE
  BY DEF AccountRow
<1> HIDE DEF row
<1>3. accounts' \in [D \cup {a} -> AccountRow]
  BY <1>1, <1>2 DEF RowsSound
<1>4. statements' \in [D \cup {a} -> Seq(Transaction)]
  <2>1. <<>> \in Seq(Transaction)
    OBVIOUS
  <2>2. \A x \in D : statements[x] \in Seq(Transaction)
    BY DEF RowsSound
  <2> HIDE DEF D
  <2>3. QED
    BY <1>1, <2>1, <2>2
<1>5. \A x \in D : accounts'[x] = accounts[x] /\ statements'[x] = statements[x]
  BY <1>1
<1>6. /\ accounts'[a] = row /\ statements'[a] = <<>>
  BY <1>1
<1>7. RowsSound'
  <2>1. D \cup {a} \subseteq Accounts /\ DOMAIN OpeningAccounts \subseteq D \cup {a}
    BY <1>1 DEF RowsSound, Accounts
  <2>2. \A x \in D \cup {a} : accounts'[x].balance >= 0
    BY <1>2, <1>5, <1>6 DEF RowsSound
  <2>3. QED
    BY <1>1, <1>3, <1>4, <2>1, <2>2 DEF RowsSound
<1>8. Grown
  BY <1>1, <1>5 DEF Grown
<1>9. IsFiniteSet(D)
  BY FiniteTables
<1>10. Balances(accounts') = Balances(accounts)
  <2> DEFINE f == [x \in D |-> accounts[x].balance]
             h == [x \in DOMAIN accounts' |-> accounts'[x].balance]
  <2>1. /\ \A x \in D : f[x] \in Int /\ h[x] = f[x]
        /\ h[a] = 0 /\ DOMAIN f = D /\ DOMAIN h = D \cup {a}
    BY <1>1, <1>2, <1>5, <1>6 DEF RowsSound, AccountRow
  <2>2. Balances(accounts) = SumOver(f, D) /\ Balances(accounts') = SumOver(h, D \cup {a})
    BY <2>1, Zenon DEF Balances, SumOf
  <2> HIDE DEF f, h, D
  <2>3. QED
    BY <1>1, <1>9, <2>1, <2>2, SumNothingNew
<1>11. CreditsIn(statements') = CreditsIn(statements)
  <2> DEFINE f == [x \in D |-> Brought(statements[x])]
             h == [x \in DOMAIN statements' |-> Brought(statements'[x])]
  <2>1. AtMostOne(<<>>)
    BY DEF AtMostOne
  <2>2. \A x \in D : Brought(statements[x]) \in Int
    BY <2>1, EntryBrings DEF RowsSound
  <2>3. Brought(<<>>) = 0
    BY NothingBrought
  <2>4. DOMAIN statements' = D \cup {a} /\ DOMAIN statements = D
    BY <1>1 DEF RowsSound
  <2>5. /\ \A x \in D : f[x] \in Int /\ h[x] = f[x]
        /\ h[a] = 0 /\ DOMAIN f = D /\ DOMAIN h = D \cup {a}
    BY <1>5, <1>6, <2>2, <2>3, <2>4
  <2>6. CreditsIn(statements) = SumOver(f, D) /\ CreditsIn(statements') = SumOver(h, D \cup {a})
    BY <2>4, <2>5, Zenon DEF CreditsIn, SumOf
  <2> HIDE DEF f, h, D
  <2>7. QED
    BY <1>1, <1>9, <2>5, <2>6, SumNothingNew
<1>12. MoneyIsKept'
  <2>1. Credits' = Credits /\ Money(accounts', goals') = Money(accounts, goals)
    BY <1>1, <1>10, <1>11, SumsAreMoney
  <2>2. (\A x \in DOMAIN accounts' : ~accounts'[x].deleted) =>
           \A x \in DOMAIN accounts : ~accounts[x].deleted
    BY <1>8 DEF Grown
  <2>3. QED
    BY <1>1, <2>1, <2>2 DEF MoneyIsKept
<1>13. ASSUME NEW u \in Terminals PROVE Untouched(u)
  <2>1. session[u].acc # 0 => session[u].acc \in D
    BY DEF Seats, Seated
  <2>2. QED
    BY <1>1, <1>5, <2>1 DEF Untouched
<1>14. QED
  BY <1>7, <1>8, <1>12, <1>13 DEF Lawful

-------------------------------------------------------------------------------
(* The terminal that takes the step *)

Moved(t) ==
    /\ screen' \in [Terminals -> Screens] /\ session' \in [Terminals -> Session]
    /\ doing' \in [Terminals -> Inputs] /\ DOMAIN shown' = Terminals
    /\ \A u \in Terminals \ {t} : SameSeat(u)
    /\ Seated(t)' /\ Copied(t)'

LEMMA StepIsSound ==
  ASSUME RowsSound, Seats, Copies, NEW t \in Terminals, Lawful(Terminals \ {t}), Moved(t)
  PROVE  RowsSound' /\ Seats' /\ Copies' /\ MoneyIsKept'
<1>1. RowsSound' /\ Grown /\ MoneyIsKept' /\ \A u \in Terminals \ {t} : Untouched(u)
  BY DEF Lawful
<1>2. ASSUME NEW u \in Terminals PROVE Seated(u)' /\ Copied(u)'
  <2>1. CASE u = t
    BY <2>1 DEF Moved
  <2>2. CASE u # t
    <3>1. SameSeat(u) /\ Untouched(u) /\ Copied(u)
      BY <1>1, <2>2 DEF Moved, Copies
    <3>2. QED
      BY <1>1, <3>1, OtherTerminal
  <2>3. QED
    BY <2>1, <2>2
<1>3. QED
  BY <1>1, <1>2 DEF Seats, Copies, Moved

\* On a screen without a prompt: with which session.
Sits(t, next, s) ==
    /\ next \in Screens \ {"asking", "bootstrap"} /\ s \in Session
    /\ screen' = [screen EXCEPT ![t] = next] /\ session' = [session EXCEPT ![t] = s]
    /\ doing' = doing /\ shown' = shown
    /\ (s.acc = 0) = (next \in Outside)
    /\ s.acc # 0 => s.acc \in DOMAIN accounts'
    /\ t \notin foreign' /\ s.acc # 0 =>
           ~accounts'[s.acc].deleted /\ s.balance = accounts'[s.acc].balance

LEMMA SitsIsMoved ==
  ASSUME Seats, NEW t \in Terminals, NEW next, NEW s, Sits(t, next, s)
  PROVE  Moved(t)
<1>1. /\ next \in Screens /\ next # "asking" /\ next # "bootstrap" /\ s \in Session
      /\ screen' = [screen EXCEPT ![t] = next] /\ session' = [session EXCEPT ![t] = s]
      /\ doing' = doing /\ shown' = shown
      /\ (s.acc = 0) = (next \in Outside)
      /\ s.acc # 0 => s.acc \in DOMAIN accounts'
      /\ t \notin foreign' /\ s.acc # 0 =>
             ~accounts'[s.acc].deleted /\ s.balance = accounts'[s.acc].balance
  BY DEF Sits
<1>2. /\ screen' \in [Terminals -> Screens] /\ session' \in [Terminals -> Session]
      /\ screen'[t] = next /\ session'[t] = s
      /\ \A u \in Terminals \ {t} : screen'[u] = screen[u] /\ session'[u] = session[u]
  BY <1>1 DEF Seats
<1>3. \A u \in Terminals \ {t} : SameSeat(u)
  BY <1>1, <1>2 DEF SameSeat
<1>4. Seated(t)'
  <2>1. (s.acc = 0) = (next \in Outside \/ (next = "asking" /\ doing[t].op \in AdminOps))
    BY <1>1
  <2>2. QED
    BY <1>1, <1>2, <2>1, Zenon DEF Seated
<1>5. Copied(t)'
  BY <1>1, <1>2 DEF Copied
<1>6. QED
  BY <1>1, <1>2, <1>3, <1>4, <1>5 DEF Moved, Seats

\* With the session it had: its account's balance is as it was.
SameBalance(t) ==
    t \notin foreign' /\ session[t].acc # 0 =>
        /\ t \notin foreign
        /\ accounts'[session[t].acc].balance = accounts[session[t].acc].balance
        /\ accounts'[session[t].acc].deleted = accounts[session[t].acc].deleted

LEMMA StaysIsMoved ==
  ASSUME Seats, Copies, Grown, NEW t \in Terminals, NEW next \in Screens \ {"asking", "bootstrap"},
         screen' = [screen EXCEPT ![t] = next], UNCHANGED <<doing, shown, session>>,
         (session[t].acc = 0) = (next \in Outside), SameBalance(t)
  PROVE  Moved(t)
<1> DEFINE s == session[t]
<1>1. s \in Session /\ session' = [session EXCEPT ![t] = s]
  BY DEF Seats
<1>2. s.acc # 0 => s.acc \in DOMAIN accounts'
  BY DEF Seats, Seated, Grown
<1>3. t \notin foreign' /\ s.acc # 0 =>
        ~accounts'[s.acc].deleted /\ s.balance = accounts'[s.acc].balance
  BY DEF SameBalance, Copies, Copied
<1>4. Sits(t, next, s)
  BY <1>1, <1>2, <1>3 DEF Sits
<1>5. QED
  BY <1>4, SitsIsMoved

\* Without a session.
LEMMA LeavesIsMoved ==
  ASSUME Seats, NEW t \in Terminals, NEW next \in {"main", "crashed"},
         screen' = [screen EXCEPT ![t] = next], UNCHANGED <<doing, shown>>,
         session' = [session EXCEPT ![t] = NoSession]
  PROVE  Moved(t)
<1>1. NoSession \in Session /\ NoSession.acc = 0
  BY DEF NoSession, Session
<1>2. Sits(t, next, NoSession)
  BY <1>1 DEF Sits, Screens, Outside
<1>3. QED
  BY <1>2, SitsIsMoved

-------------------------------------------------------------------------------
(* The steps of a terminal *)

State == RowsSound /\ Seats /\ Copies /\ MoneyIsKept
Stepped(t) == Lawful(Terminals \ {t}) /\ Moved(t)

LEMMA LawfulForOne ==
  ASSUME Lawful(Terminals), NEW t \in Terminals
  PROVE  Lawful(Terminals \ {t}) /\ SameBalance(t) /\ Grown
BY DEF Lawful, Untouched, SameBalance

\* A screen tells whether the terminal has a session.
LEMMA SeatTells ==
  ASSUME Seats, NEW t \in Terminals
  PROVE  /\ screen[t] \in Screens
         /\ screen[t] # "asking" => (session[t].acc = 0) = (screen[t] \in Outside)
         /\ screen[t] = "asking" => (session[t].acc = 0) = (doing[t].op \in AdminOps)
<1>1. /\ screen[t] \in Screens
      /\ (session[t].acc = 0) =
           (screen[t] \in Outside \/ (screen[t] = "asking" /\ doing[t].op \in AdminOps))
  BY DEF Seats, Seated
<1>2. screen[t] = "asking" => screen[t] \notin Outside
  BY DEF Outside
<1>3. QED
  BY <1>1, <1>2

\* Nothing is written, and the session stays what it is.
LEMMA LookingStep ==
  ASSUME State, NEW t \in Terminals, NEW next \in Screens \ {"asking", "bootstrap"},
         screen' = [screen EXCEPT ![t] = next], UNCHANGED <<doing, shown, session>>,
         (session[t].acc = 0) = (next \in Outside), NoService, stale' = stale
  PROVE  Stepped(t)
<1>1. NoCall /\ foreign' = foreign
  BY DEF NoService, NoCall
<1>2. Lawful(Terminals)
  BY <1>1, NoCallIsLawful DEF State
<1>3. Lawful(Terminals \ {t}) /\ SameBalance(t) /\ Grown
  BY <1>2, LawfulForOne
<1>4. Moved(t)
  BY <1>3, StaysIsMoved DEF State
<1>5. QED
  BY <1>3, <1>4 DEF Stepped

\* Nothing is written, and the session ends.
LEMMA LeavingStep ==
  ASSUME State, NEW t \in Terminals, NEW next \in {"main", "crashed"},
         screen' = [screen EXCEPT ![t] = next], UNCHANGED <<doing, shown>>,
         Leave(t), NoCall, stale' = stale
  PROVE  Stepped(t)
<1>1. session' = [session EXCEPT ![t] = NoSession] /\ foreign' = foreign \ {t}
  BY DEF Leave
<1>2. Lawful(Terminals \ {t})
  BY <1>1, NoCallIsLawful DEF State
<1>3. Moved(t)
  BY <1>1, LeavesIsMoved DEF State
<1>4. QED
  BY <1>2, <1>3 DEF Stepped

LEMMA RegisterStep ==
  ASSUME State, NEW t \in Terminals, NEW c \in Inputs, Register(t, c)
  PROVE  Stepped(t)
<1>1. /\ screen[t] = "main" /\ screen' = [screen EXCEPT ![t] = "main"]
      /\ UNCHANGED <<doing, shown, session>> /\ UNCHANGED <<loans, goals, foreign, stale>>
      /\ \/ accounts' = accounts /\ statements' = statements
         \/ Registered(c.acc)
  BY DEF Register, Remain, Show, NoPrompt, Registered
<1>2. "main" \in Screens \ {"asking", "bootstrap"} /\ (session[t].acc = 0) = ("main" \in Outside)
  BY <1>1, SeatTells DEF State, Screens
<1>3. CASE accounts' = accounts /\ statements' = statements
  <2>1. NoService
    BY <1>1, <1>3 DEF NoService
  <2>2. QED
    BY <1>1, <1>2, <2>1, LookingStep
<1>4. CASE Registered(c.acc)
  <2>1. Lawful(Terminals)
    BY <1>4, RegistrationIsLawful DEF State
  <2>2. Lawful(Terminals \ {t}) /\ SameBalance(t) /\ Grown
    BY <2>1, LawfulForOne
  <2>3. Moved(t)
    BY <1>1, <1>2, <2>2, StaysIsMoved DEF State
  <2>4. QED
    BY <2>2, <2>3 DEF Stepped
<1>5. QED
  BY <1>1, <1>3, <1>4

LEMMA LoginStep ==
  ASSUME State, NEW t \in Terminals, NEW c \in Inputs, Login(t, c)
  PROVE  Stepped(t)
<1> DEFINE answer == LoginAnswer(accounts[c.acc], c.value)
           s == SessionOf(c.acc)
<1>1. /\ screen[t] = "main" /\ c.acc \in DOMAIN accounts
      /\ UNCHANGED <<doing, shown, stale>> /\ NoService
      /\ \/ /\ answer = "done" /\ screen' = [screen EXCEPT ![t] = "loop"]
            /\ session' = [session EXCEPT ![t] = s]
         \/ answer # "done" /\ screen' = [screen EXCEPT ![t] = "main"] /\ session' = session
  BY DEF Login, Remain, Show, NoPrompt
<1>2. CASE answer # "done"
  <2>1. "main" \in Screens \ {"asking", "bootstrap"} /\ (session[t].acc = 0) = ("main" \in Outside)
    BY <1>1, SeatTells DEF State, Screens
  <2>2. QED
    BY <1>1, <1>2, <2>1, LookingStep
<1>3. CASE answer = "done"
  <2>1. NoCall /\ foreign' = foreign
    BY <1>1 DEF NoService, NoCall
  <2>2. Lawful(Terminals \ {t})
    BY <1>1, <2>1, NoCallIsLawful DEF State
  <2>3. ~accounts[c.acc].deleted /\ accounts[c.acc] \in AccountRow /\ c.acc \in Nat /\ c.acc # 0
    <3>1. ~accounts[c.acc].deleted
      BY <1>3 DEF LoginAnswer
    <3>2. QED
      BY <1>1, <3>1, CommandLineAssumption DEF State, RowsSound
  <2>4. s \in Session /\ s.acc = c.acc /\ s.balance = accounts[c.acc].balance
    BY <2>3 DEF SessionOf, Session, AccountRow
  <2>5. "loop" \in Screens \ {"asking", "bootstrap"} /\ "loop" \notin Outside
    BY DEF Screens, Outside
  <2> HIDE DEF s
  <2>6. Sits(t, "loop", s)
    <3>1. accounts' = accounts /\ c.acc # 0 /\ (s.acc = 0) = ("loop" \in Outside)
      BY <2>1, <2>3, <2>4, <2>5 DEF NoCall
    <3>2. QED
      BY <1>1, <1>3, <2>3, <2>4, <2>5, <3>1 DEF Sits
  <2>7. QED
    BY <2>2, <2>6, SitsIsMoved DEF State, Stepped
<1>4. QED
  BY <1>2, <1>3

LEMMA AdminLoginStep ==
  ASSUME State, NEW t \in Terminals, NEW c \in Inputs, AdminLogin(t, c)
  PROVE  Stepped(t)
<1>1. /\ screen[t] = "main" /\ UNCHANGED <<doing, shown, session, stale>> /\ NoService
      /\ \E next \in {"main", "admin"} : screen' = [screen EXCEPT ![t] = next]
  BY DEF AdminLogin, Remain, Show, NoPrompt
<1>2. PICK next \in {"main", "admin"} : screen' = [screen EXCEPT ![t] = next]
  BY <1>1
<1>3. /\ next \in Screens \ {"asking", "bootstrap"}
      /\ (session[t].acc = 0) = (next \in Outside)
  <2>1. screen[t] \in Outside /\ next \in Outside /\ next \in Screens \ {"asking", "bootstrap"}
    BY <1>1 DEF Screens, Outside
  <2>2. QED
    BY <1>1, <2>1, SeatTells DEF State
<1>4. QED
  BY <1>1, <1>2, <1>3, LookingStep

LEMMA StartBootstrapStep ==
  ASSUME State, NEW t \in Terminals, NEW c \in Inputs, c.op = "bootstrap" => c.value \in AdminPasswords,
         StartBootstrap(t, c)
  PROVE  Stepped(t)
<1>1. /\ screen[t] = "main" /\ c.value \in AdminPasswords
      /\ UNCHANGED <<shown, session, stale>> /\ NoService
      /\ \/ screen' = [screen EXCEPT ![t] = "bootstrap"] /\ doing' = [doing EXCEPT ![t] = c]
         \/ screen' = [screen EXCEPT ![t] = "main"] /\ doing' = doing
  BY DEF StartBootstrap, Remain, Show
<1>2. /\ "main" \in Screens \ {"asking", "bootstrap"} /\ "bootstrap" \in Screens
      /\ "main" \in Outside /\ "bootstrap" \in Outside
  BY DEF Screens, Outside
<1>3. session[t].acc = 0
  BY <1>1, <1>2, SeatTells DEF State
<1>4. CASE screen' = [screen EXCEPT ![t] = "main"] /\ doing' = doing
  BY <1>1, <1>2, <1>3, <1>4, LookingStep
<1>5. CASE screen' = [screen EXCEPT ![t] = "bootstrap"] /\ doing' = [doing EXCEPT ![t] = c]
  <2>1. NoCall /\ foreign' = foreign
    BY <1>1 DEF NoService, NoCall
  <2>2. Lawful(Terminals \ {t})
    BY <1>1, <2>1, NoCallIsLawful DEF State
  <2>3. /\ screen' \in [Terminals -> Screens] /\ doing' \in [Terminals -> Inputs]
        /\ screen'[t] = "bootstrap" /\ doing'[t] = c /\ session' = session /\ shown' = shown
        /\ \A u \in Terminals \ {t} : screen'[u] = screen[u] /\ doing'[u] = doing[u]
    BY <1>1, <1>2, <1>5 DEF State, Seats
  <2>4. Seated(t)'
    BY <1>1, <1>2, <1>3, <2>3 DEF Seated
  <2>5. Copied(t)'
    BY <1>3, <2>3 DEF Copied
  <2>6. Moved(t)
    BY <2>3, <2>4, <2>5 DEF Moved, SameSeat, State, Seats
  <2>7. QED
    BY <2>2, <2>6 DEF Stepped
<1>6. QED
  BY <1>1, <1>4, <1>5

LEMMA FinishBootstrapStep ==
  ASSUME State, NEW t \in Terminals, FinishBootstrap(t)
  PROVE  Stepped(t)
<1>1. /\ screen[t] = "bootstrap" /\ UNCHANGED <<doing, shown, session, stale>> /\ NoService
      /\ \E next \in {"main", "crashed"} : screen' = [screen EXCEPT ![t] = next]
  BY DEF FinishBootstrap, Show, NoPrompt
<1>2. PICK next \in {"main", "crashed"} : screen' = [screen EXCEPT ![t] = next]
  BY <1>1
<1>3. /\ next \in Screens \ {"asking", "bootstrap"}
      /\ (session[t].acc = 0) = (next \in Outside)
  <2>1. screen[t] \in Outside /\ next \in Outside /\ next \in Screens \ {"asking", "bootstrap"}
    BY <1>1 DEF Screens, Outside
  <2>2. QED
    BY <1>1, <2>1, SeatTells DEF State
<1>4. QED
  BY <1>1, <1>2, <1>3, LookingStep

\* The refresh makes the copy true, where there is a row to read.
LEMMA DashboardStep ==
  ASSUME State, NEW t \in Terminals, Dashboard(t)
  PROVE  Stepped(t)
<1> DEFINE s == Refreshed(session[t])
           a == session[t].acc
<1>1. /\ screen[t] = "loop" /\ UNCHANGED <<doing, shown, stale>> /\ NoCall
      /\ \/ screen' = [screen EXCEPT ![t] = "main"] /\ Leave(t)
         \/ /\ screen' = [screen EXCEPT ![t] = "dashboard"]
            /\ session' = [session EXCEPT ![t] = s]
            /\ foreign' = IF accounts[s.acc].deleted THEN foreign ELSE foreign \ {t}
  BY DEF Dashboard, Show, NoPrompt, NoCall, tables
<1>2. CASE screen' = [screen EXCEPT ![t] = "main"] /\ Leave(t)
  BY <1>1, <1>2, LeavingStep
<1>3. CASE /\ screen' = [screen EXCEPT ![t] = "dashboard"]
           /\ session' = [session EXCEPT ![t] = s]
           /\ foreign' = IF accounts[s.acc].deleted THEN foreign ELSE foreign \ {t}
  <2>1. a # 0 /\ a \in DOMAIN accounts /\ accounts[a] \in AccountRow /\ session[t] \in Session
    <3>1. a # 0
      BY <1>1, SeatTells DEF State, Outside
    <3>2. QED
      BY <3>1 DEF State, Seats, Seated, RowsSound
  <2>2. /\ s \in Session /\ s.acc = a
        /\ ~accounts[a].deleted => s.balance = accounts[a].balance
    <3>1. CASE accounts[a].deleted
      BY <2>1, <3>1 DEF Refreshed
    <3>2. CASE ~accounts[a].deleted
      BY <2>1, <3>2 DEF Refreshed, Session, AccountRow
    <3>3. QED
      BY <3>1, <3>2
  <2>3. accounts' = accounts
    BY <1>1 DEF NoCall
  <2> HIDE DEF s
  <2>4. Lawful(Terminals \ {t})
    BY <1>1, <1>3, NoCallIsLawful DEF State
  <2>5. t \notin foreign' => ~accounts[a].deleted
    <3>1. SUFFICES ASSUME accounts[a].deleted, t \notin foreign' PROVE FALSE
      OBVIOUS
    <3>2. t \notin foreign
      BY <1>3, <2>2, <3>1
    <3>3. QED
      BY <2>1, <3>1, <3>2 DEF State, Copies, Copied
  <2>6. /\ "dashboard" \in Screens \ {"asking", "bootstrap"}
        /\ (s.acc = 0) = ("dashboard" \in Outside)
    BY <2>1, <2>2 DEF Screens, Outside
  <2>7. Sits(t, "dashboard", s)
    BY <1>1, <1>3, <2>1, <2>2, <2>3, <2>5, <2>6 DEF Sits
  <2>8. QED
    BY <2>4, <2>7, SitsIsMoved DEF State, Stepped
<1>4. QED
  BY <1>1, <1>2, <1>3

LEMMA ChooseStep ==
  ASSUME State, NEW t \in Terminals, Choose(t)
  PROVE  Stepped(t)
<1>1. /\ screen[t] = "dashboard" /\ UNCHANGED <<doing, shown, stale>> /\ NoCall
      /\ \/ \E next \in {"services", "transactions", "settings"} :
              screen' = [screen EXCEPT ![t] = next] /\ UNCHANGED <<session, foreign>>
         \/ screen' = [screen EXCEPT ![t] = "main"] /\ Leave(t)
  BY DEF Choose, Show, NoPrompt, NoCall, tables
<1>2. CASE screen' = [screen EXCEPT ![t] = "main"] /\ Leave(t)
  BY <1>1, <1>2, LeavingStep
<1>3. ASSUME NEW next \in {"services", "transactions", "settings"},
             screen' = [screen EXCEPT ![t] = next], UNCHANGED <<session, foreign>>
      PROVE  Stepped(t)
  <2>1. screen[t] \notin Outside /\ next \notin Outside /\ next \in Screens \ {"asking", "bootstrap"}
    BY <1>1 DEF Screens, Outside
  <2>2. (session[t].acc = 0) = (next \in Outside)
    BY <1>1, <2>1, SeatTells DEF State
  <2>3. NoService
    BY <1>1, <1>3 DEF NoService, NoCall
  <2>4. QED
    BY <1>1, <1>3, <2>1, <2>2, <2>3, LookingStep
<1>4. QED
  BY <1>1, <1>2, <1>3

LEMMA NavigateStep ==
  ASSUME State, NEW t \in Terminals, Navigate(t)
  PROVE  Stepped(t)
<1>1. UNCHANGED <<doing, shown, session, stale>> /\ NoService
  BY DEF Navigate, NoPrompt
<1>2. CASE screen[t] \in {"services", "goals", "transactions", "settings"}
  <2>1. \E next \in {"services", "goals", "loop"} : screen' = [screen EXCEPT ![t] = next]
    BY <1>2 DEF Navigate, Show
  <2>2. PICK next \in {"services", "goals", "loop"} : screen' = [screen EXCEPT ![t] = next]
    BY <2>1
  <2>3. screen[t] \notin Outside /\ next \notin Outside /\ next \in Screens \ {"asking", "bootstrap"}
    BY <1>2 DEF Screens, Outside
  <2>4. (session[t].acc = 0) = (next \in Outside)
    BY <1>2, <2>3, SeatTells DEF State
  <2>5. QED
    BY <1>1, <2>2, <2>3, <2>4, LookingStep
<1>3. CASE screen[t] = "admin"
  <2>1. screen' = [screen EXCEPT ![t] = "main"]
    BY <1>3 DEF Navigate, Show
  <2>2. "main" \in Screens \ {"asking", "bootstrap"} /\ (session[t].acc = 0) = ("main" \in Outside)
    BY <1>3, SeatTells DEF State, Screens, Outside
  <2>3. QED
    BY <1>1, <2>1, <2>2, LookingStep
<1>4. QED
  BY <1>2, <1>3 DEF Navigate

LEMMA SettleStep ==
  ASSUME State, NEW t \in Terminals, NEW c \in Inputs, Settle(t, c)
  PROVE  Stepped(t)
<1> DEFINE next == CASE c.op = "profile" -> ProfileOutcome(c.value)
                     [] c.op = "password" -> PasswordOutcome(session[t], c.value)
                     [] c.op = "close" -> CloseOutcome
                     [] OTHER -> ExportOutcome
<1>1. /\ screen[t] \in {"services", "settings"} /\ UNCHANGED <<doing, shown, stale>> /\ NoCall
      /\ screen' = [screen EXCEPT ![t] = next]
      /\ IF next = "settings" THEN UNCHANGED <<session, foreign>> ELSE Leave(t)
  BY DEF Settle, Show, NoPrompt, NoCall, tables
<1>2. next \in {"crashed", "settings", "main"}
  BY DEF ProfileOutcome, PasswordOutcome, CloseOutcome, ExportOutcome
<1> HIDE DEF next
<1>3. CASE next = "settings"
  <2>1. /\ screen[t] # "asking" /\ screen[t] \notin Outside /\ next \notin Outside
        /\ next \in Screens \ {"asking", "bootstrap"}
    BY <1>1, <1>3 DEF Screens, Outside
  <2>2. (session[t].acc = 0) = (next \in Outside)
    BY <2>1, SeatTells DEF State
  <2>3. NoService /\ session' = session
    BY <1>1, <1>3 DEF NoService, NoCall
  <2>4. QED
    BY <1>1, <2>1, <2>2, <2>3, LookingStep
<1>4. CASE next # "settings"
  <2>1. next \in {"main", "crashed"} /\ Leave(t)
    BY <1>1, <1>2, <1>4
  <2>2. QED
    BY <1>1, <2>1, LeavingStep
<1>5. QED
  BY <1>3, <1>4

\* The menu an operation was asked from has a session when the operation needs one.
LEMMA MenuOfAsked ==
  ASSUME Seats, NEW t \in Terminals, screen[t] = "asking"
  PROVE  /\ Prompted(t) /\ doing[t] \in Inputs
         /\ ScreenOf(doing[t].op) \in Screens \ {"asking", "bootstrap"}
         /\ (session[t].acc = 0) = (ScreenOf(doing[t].op) \in Outside)
<1>1. Prompted(t) /\ doing[t] \in Inputs
  BY DEF Seats, Seated
<1>2. (session[t].acc = 0) = (doing[t].op \in AdminOps)
  BY SeatTells
<1>3. CASE doing[t].op \in AdminOps
  <2>1. ScreenOf(doing[t].op) = "admin"
    BY <1>3 DEF ScreenOf, AdminOps
  <2>2. QED
    BY <1>1, <1>2, <1>3, <2>1 DEF Screens, Outside
<1>4. CASE doing[t].op \notin AdminOps
  <2>1. ScreenOf(doing[t].op) \in {"transactions", "goals"}
    BY <1>4 DEF ScreenOf
  <2>2. ScreenOf(doing[t].op) \notin Outside /\ session[t].acc # 0
    BY <1>2, <1>4, <2>1 DEF Outside
  <2>3. QED
    BY <1>1, <2>1, <2>2 DEF Screens
<1>5. QED
  BY <1>3, <1>4

LEMMA CancelStep ==
  ASSUME State, NEW t \in Terminals, Cancel(t)
  PROVE  Stepped(t)
<1> DEFINE next == ScreenOf(doing[t].op)
<1>1. /\ screen[t] = "asking" /\ screen' = [screen EXCEPT ![t] = next]
      /\ UNCHANGED <<doing, shown, session, stale>> /\ NoService
  BY DEF Cancel, Show, NoPrompt
<1>2. next \in Screens \ {"asking", "bootstrap"} /\ (session[t].acc = 0) = (next \in Outside)
  BY <1>1, MenuOfAsked DEF State
<1> HIDE DEF next
<1>3. QED
  BY <1>1, <1>2, LookingStep

LEMMA ChangeAdminPasswordStep ==
  ASSUME State, NEW t \in Terminals, NEW c \in Inputs, ChangeAdminPassword(t, c)
  PROVE  Stepped(t)
<1>1. /\ screen[t] = "admin" /\ screen' = [screen EXCEPT ![t] = "admin"]
      /\ UNCHANGED <<doing, shown, session, stale>> /\ NoService
  BY DEF ChangeAdminPassword, Remain, Show, NoPrompt
<1>2. "admin" \in Screens \ {"asking", "bootstrap"} /\ (session[t].acc = 0) = ("admin" \in Outside)
  BY <1>1, SeatTells DEF State, Screens, Outside
<1>3. QED
  BY <1>1, <1>2, LookingStep

\* Begin shows rows that the prompts will go on with.
LEMMA BeginStep ==
  ASSUME State, NEW t \in Terminals, NEW c \in Inputs, Begin(t, c)
  PROVE  Stepped(t)
<1>1. /\ c.op \in AskedOps /\ screen[t] = ScreenOf(c.op)
      /\ c.op \notin AdminOps => c.acc = session[t].acc
      /\ c.op \in {"approve", "reject"} => c.acc = loans[c.loan].owner
      /\ c.acc \in DOMAIN accounts /\ (c.op = "transfer" => c.to \in DOMAIN accounts)
      /\ UNCHANGED <<session, stale>> /\ NoService
      /\ \/ /\ Obstacle(t, c) = "none" /\ screen' = [screen EXCEPT ![t] = "asking"]
            /\ doing' = [doing EXCEPT ![t] = c] /\ shown' = [shown EXCEPT ![t] = RowsOf(c)]
         \/ screen' = [screen EXCEPT ![t] = screen[t]] /\ UNCHANGED <<doing, shown>>
  BY DEF Begin, Remain, Show, NoPrompt, AskedOps
<1>2. /\ screen[t] \in Screens \ {"asking", "bootstrap"}
      /\ (session[t].acc = 0) = (c.op \in AdminOps)
      /\ (session[t].acc = 0) = (screen[t] \in Outside)
  <2>1. CASE c.op \in AdminOps
    <3>1. screen[t] = "admin"
      BY <1>1, <2>1 DEF ScreenOf, AdminOps
    <3>2. QED
      BY <2>1, <3>1, SeatTells DEF State, Screens, Outside
  <2>2. CASE c.op \notin AdminOps
    <3>1. screen[t] \in {"transactions", "goals"}
      BY <1>1, <2>2 DEF ScreenOf
    <3>2. QED
      BY <2>2, <3>1, SeatTells DEF State, Screens, Outside
  <2>3. QED
    BY <2>1, <2>2
<1>3. CASE screen' = [screen EXCEPT ![t] = screen[t]] /\ UNCHANGED <<doing, shown>>
  <2> DEFINE next == screen[t]
  <2>1. screen' = [screen EXCEPT ![t] = next] /\ UNCHANGED <<doing, shown>>
    BY <1>3
  <2>2. next \in Screens \ {"asking", "bootstrap"} /\ (session[t].acc = 0) = (next \in Outside)
    BY <1>2
  <2> HIDE DEF next
  <2>3. QED
    BY <1>1, <2>1, <2>2, LookingStep
<1>4. CASE /\ Obstacle(t, c) = "none" /\ screen' = [screen EXCEPT ![t] = "asking"]
           /\ doing' = [doing EXCEPT ![t] = c] /\ shown' = [shown EXCEPT ![t] = RowsOf(c)]
  <2>1. NoCall /\ foreign' = foreign
    BY <1>1 DEF NoService, NoCall
  <2>2. Lawful(Terminals \ {t})
    BY <1>1, <2>1, NoCallIsLawful DEF State
  <2>3. /\ screen' \in [Terminals -> Screens] /\ doing' \in [Terminals -> Inputs]
        /\ DOMAIN shown' = Terminals /\ screen'[t] = "asking" /\ doing'[t] = c
        /\ shown'[t] = RowsOf(c) /\ session' = session
        /\ accounts' = accounts /\ goals' = goals /\ loans' = loans
        /\ \A u \in Terminals \ {t} : /\ screen'[u] = screen[u] /\ doing'[u] = doing[u]
                                     /\ shown'[u] = shown[u]
    BY <1>1, <1>4, <2>1 DEF State, Seats, Screens, NoCall
  <2>4. /\ RowsOf(c).account = accounts[c.acc] /\ RowsOf(c).loan = loans[c.loan]
        /\ RowsOf(c).goal = goals[c.goal]
    BY DEF RowsOf
  <2>5. /\ c.loan \in DOMAIN loans /\ c.goal \in DOMAIN goals /\ accounts[c.acc] \in AccountRow
        /\ loans[c.loan] \in LoanRow /\ goals[c.goal] \in GoalRow /\ goals[c.goal].current >= 0
    BY <1>1 DEF State, RowsSound, Inputs, SoundGoal
  <2>6. c.op \in GoalOps => goals[c.goal].exists /\ goals[c.goal].owner = c.acc
    <3>1. CASE c.op = "contribute"
      BY <1>4, <3>1 DEF Obstacle, ActiveGoals, Goals
    <3>2. CASE c.op \in {"editGoal", "deleteGoal"}
      BY <1>4, <3>2 DEF Obstacle, Goals
    <3>3. QED
      BY <3>1, <3>2 DEF GoalOps
  <2>7. Prompted(t)'
    BY <1>1, <2>3, <2>4, <2>5, <2>6 DEF Prompted
  <2>8. Seated(t)'
    <3>1. session[t].acc # 0 => session[t].acc \in DOMAIN accounts
      BY DEF State, Seats, Seated
    <3>2. "asking" \notin Outside
      BY DEF Outside
    <3>3. (session[t].acc = 0) =
             ("asking" \in Outside \/ ("asking" = "asking" /\ c.op \in AdminOps))
      BY <1>2, <3>2
    <3>4. QED
      BY <2>3, <2>7, <3>1, <3>3 DEF Seated
  <2>9. Copied(t)'
    <3>1. Copied(t)
      BY DEF State, Copies
    <3>2. QED
      BY <2>1, <2>3, <2>4, <3>1 DEF Copied
  <2>10. Moved(t)
    BY <2>3, <2>8, <2>9 DEF Moved, SameSeat, State, Seats
  <2>11. QED
    BY <2>2, <2>10 DEF Stepped
<1>5. QED
  BY <1>1, <1>3, <1>4

\* An operation without prompts: the object takes what the service answers.
LEMMA OperateStep ==
  ASSUME State, NEW t \in Terminals, NEW c \in Inputs, Operate(t, c)
  PROVE  Stepped(t)
<1> DEFINE d == Decision(c, RowsOf(c))
           next == screen[t]
           v == IF c.op = "createGoal" THEN session[t].balance ELSE accounts'[c.acc].balance
           s == [session[t] EXCEPT !.balance = v]
<1>1. /\ c.op \in {"deposit", "withdraw", "interest", "createGoal"}
      /\ screen[t] \in {"transactions", "services", "goals"} /\ c.acc = session[t].acc
      /\ FreshIds(c) /\ UNCHANGED <<doing, shown, stale>>
      /\ screen' = [screen EXCEPT ![t] = next]
      /\ \/ /\ d.ok /\ Serve(Terminals \ {t}, c, RowsOf(c), d.writes)
            /\ session' = [session EXCEPT ![t].balance =
                               IF c.op = "createGoal" THEN @ ELSE accounts'[c.acc].balance]
         \/ NoService /\ session' = session
  BY DEF Operate, MenuOf, Remain, Show, NoPrompt
<1>2. /\ next \in Screens \ {"asking", "bootstrap"} /\ next \notin Outside
      /\ session[t].acc # 0 /\ (session[t].acc = 0) = (next \in Outside)
  BY <1>1, SeatTells DEF State, Screens, Outside
<1>3. CASE NoService /\ session' = session
  <2> HIDE DEF next
  <2>1. QED
    BY <1>1, <1>2, <1>3, LookingStep
<1>4. CASE /\ d.ok /\ Serve(Terminals \ {t}, c, RowsOf(c), d.writes)
           /\ session' = [session EXCEPT ![t].balance =
                              IF c.op = "createGoal" THEN @ ELSE accounts'[c.acc].balance]
  <2>1. /\ c.acc \in DOMAIN accounts /\ session[t] \in Session /\ session[t].balance \in Int
    BY <1>1, <1>2 DEF State, Seats, Seated, Session
  <2>2. GoodCall(c)
    <3>1. c.acc \in Nat /\ c.acc # 0 /\ c.value \in Int /\ c.terms \in Terms
      BY CommandLineAssumption DEF Inputs
    <3>2. QED
      BY <1>1, <3>1 DEF GoodCall, Ops
  <2>3. Called(c)
    BY <1>1, <1>4, <2>1, <2>2 DEF Called, Inputs
  <2>4. /\ Lawful(Terminals \ {t}) /\ foreign \subseteq foreign'
        /\ accounts'[c.acc].balance
             = accounts[c.acc].balance + CreditOf(d.writes.entries) + FromGoal(c, RowsOf(c))
        /\ accounts'[c.acc].deleted => accounts[c.acc].deleted
    BY <1>1, <1>4, <2>3, ServeIsLawful DEF State
  <2>5. c.op = "createGoal" => accounts'[c.acc].balance = accounts[c.acc].balance
    <3>1. SUFFICES ASSUME c.op = "createGoal"
                   PROVE  accounts'[c.acc].balance = accounts[c.acc].balance
      OBVIOUS
    <3>2. GoodRows(RowsOf(c))
      BY <2>3, CalledRows DEF State
    <3>3. PlanIs(c, RowsOf(c), d.writes)
      BY <1>4, <2>2, <3>2, AcceptedPlan
    <3>4. d.writes.entries = <<>> /\ FromGoal(c, RowsOf(c)) = 0
      BY <3>1, <3>3 DEF PlanIs, Assigns, FromGoal
    <3>5. CreditOf(d.writes.entries) = 0 /\ accounts[c.acc].balance \in Int
      BY <2>1, <3>4 DEF CreditOf, State, RowsSound, AccountRow
    <3>6. QED
      BY <2>4, <3>4, <3>5
  <2>6. /\ RowsSound' /\ Grown
    BY <2>4 DEF Lawful
  <2>7. c.acc \in DOMAIN accounts' /\ accounts'[c.acc].balance \in Int
    BY <2>1, <2>6 DEF Grown, RowsSound, AccountRow
  <2>8. /\ v \in Int /\ session' = [session EXCEPT ![t] = s]
    BY <1>4, <2>1, <2>7 DEF State, Seats
  <2>9. s \in Session /\ s.acc = c.acc /\ s.balance = v
    BY <1>1, <2>1, <2>8 DEF Session
  <2>10. t \notin foreign' => ~accounts'[c.acc].deleted /\ v = accounts'[c.acc].balance
    <3>1. SUFFICES ASSUME t \notin foreign'
                   PROVE  ~accounts'[c.acc].deleted /\ v = accounts'[c.acc].balance
      OBVIOUS
    <3>2. ~accounts[c.acc].deleted /\ session[t].balance = accounts[c.acc].balance
      BY <1>1, <1>2, <2>4, <3>1 DEF State, Copies, Copied
    <3>3. QED
      BY <2>4, <2>5, <3>2
  <2> HIDE DEF s, v, next
  <2>11. Sits(t, next, s)
    BY <1>1, <1>2, <2>7, <2>8, <2>9, <2>10 DEF Sits
  <2>12. QED
    BY <2>4, <2>11, SitsIsMoved DEF State, Stepped
<1>5. QED
  BY <1>1, <1>3, <1>4

LEMMA FinishTransferStep ==
  ASSUME State, NEW t \in Terminals, screen[t] = "asking", FinishTransfer(t), NoPrompt
  PROVE  Stepped(t)
<1> DEFINE c == doing[t]
           v == accounts'[c.acc].balance
           s == [session[t] EXCEPT !.balance = v]
<1>1. /\ c.op = "transfer" /\ screen' = [screen EXCEPT ![t] = "transactions"]
      /\ UNCHANGED <<doing, shown, stale>>
      /\ \/ Transferred(t) /\ session' = [session EXCEPT ![t].balance = v]
         \/ NoService /\ session' = session
  BY Zenon DEF FinishTransfer, Transferred, Show, NoPrompt
<1>2. /\ Prompted(t) /\ "transactions" \in Screens \ {"asking", "bootstrap"}
      /\ "transactions" \notin Outside
      /\ session[t].acc # 0 /\ c.acc = session[t].acc
  <2>1. Prompted(t) /\ c.op \notin AdminOps
    BY <1>1 DEF State, Seats, Seated, AdminOps
  <2>2. session[t].acc # 0 /\ c.acc = session[t].acc
    BY <2>1, SeatTells DEF State, Prompted
  <2>3. QED
    BY <2>1, <2>2 DEF Screens, Outside
<1>3. CASE NoService /\ session' = session
  <2>1. (session[t].acc = 0) = ("transactions" \in Outside)
    BY <1>2
  <2>2. QED
    BY <1>1, <1>2, <1>3, <2>1, LookingStep
<1>4. CASE Transferred(t) /\ session' = [session EXCEPT ![t].balance = v]
  <2>1. /\ Lawful(Terminals \ {t}) /\ foreign \subseteq foreign' /\ c.acc \in DOMAIN accounts
        /\ accounts'[c.acc].deleted = accounts[c.acc].deleted
    BY <1>1, <1>4, TransferIsLawful DEF State
  <2>2. RowsSound' /\ Grown
    BY <2>1 DEF Lawful
  <2>3. c.acc \in DOMAIN accounts' /\ v \in Int
    BY <2>1, <2>2 DEF Grown, RowsSound, AccountRow
  <2>4. s \in Session /\ s.acc = c.acc /\ s.balance = v /\ session' = [session EXCEPT ![t] = s]
    BY <1>2, <1>4, <2>3 DEF State, Seats, Session
  <2>5. t \notin foreign' => ~accounts'[c.acc].deleted
    BY <1>2, <2>1 DEF State, Copies, Copied
  <2> HIDE DEF s
  <2>6. Sits(t, "transactions", s)
    BY <1>1, <1>2, <2>3, <2>4, <2>5 DEF Sits
  <2>7. QED
    BY <2>1, <2>6, SitsIsMoved DEF State, Stepped
<1>5. QED
  BY <1>1, <1>3, <1>4

LEMMA FinishEditStep ==
  ASSUME State, NEW t \in Terminals, screen[t] = "asking", FinishEdit(t), NoPrompt
  PROVE  Stepped(t)
<1>1. /\ doing[t].op = "editGoal" /\ Edited(t) /\ screen' = [screen EXCEPT ![t] = "goals"]
      /\ UNCHANGED <<doing, shown, session>> /\ accounts' = accounts
  BY Zenon DEF FinishEdit, Edited, Show, NoPrompt
<1>2. Lawful(Terminals \ {t}) /\ foreign \subseteq foreign'
  BY <1>1, EditIsLawful DEF State
<1>3. SameBalance(t) /\ Grown
  BY <1>1, <1>2 DEF SameBalance, Lawful
<1>4. "goals" \in Screens \ {"asking", "bootstrap"} /\ (session[t].acc = 0) = ("goals" \in Outside)
  <2>1. doing[t].op \notin AdminOps /\ "goals" \notin Outside
    BY <1>1 DEF AdminOps, Outside
  <2>2. QED
    BY <2>1, SeatTells DEF State, Screens
<1>5. Moved(t)
  BY <1>1, <1>3, <1>4, StaysIsMoved DEF State
<1>6. QED
  BY <1>2, <1>5 DEF Stepped

\* What the prompts confirm, as a call: the freeze prompt has named one of two.
AskedCall(t) ==
    IF doing[t].op = "freeze"
    THEN Asked(doing[t], shown[t].account, accounts[doing[t].acc]) ELSE doing[t]

LEMMA AskedIsGood ==
  ASSUME State, NEW t \in Terminals, screen[t] = "asking", doing[t].op \notin {"transfer", "editGoal"}
  PROVE  /\ GoodCall(AskedCall(t)) /\ FreshIds(AskedCall(t))
         /\ AskedCall(t).acc = doing[t].acc /\ AskedCall(t).acc \in DOMAIN accounts
         /\ AskedCall(t).loan = doing[t].loan /\ AskedCall(t).loan \in DOMAIN OpeningLoans
         /\ AskedCall(t).goal = doing[t].goal /\ AskedCall(t).goal \in DOMAIN OpeningGoals
         /\ AskedCall(t).value = doing[t].value
         /\ AskedCall(t).op = IF doing[t].op = "freeze" /\ shown[t].account.frozen THEN "unfreeze"
                              ELSE doing[t].op
         /\ doing[t].op \in {"contribute", "deleteGoal"} \cup AdminOps
<1> DEFINE c == doing[t]
           call == AskedCall(t)
<1>1. /\ c \in Inputs /\ c.acc \in DOMAIN accounts
      /\ c.op \in {"contribute", "deleteGoal"} \cup AdminOps
  BY DEF State, Seats, Seated, Prompted, AskedOps
<1>2. /\ c.acc \in Nat /\ c.acc # 0 /\ c.value \in Int /\ c.terms \in Terms
      /\ c.loan \in DOMAIN OpeningLoans /\ c.goal \in DOMAIN OpeningGoals
  BY <1>1, CommandLineAssumption DEF Inputs
<1>3. /\ call.acc = c.acc /\ call.loan = c.loan /\ call.goal = c.goal /\ call.value = c.value
      /\ call.terms = c.terms
      /\ call.op = IF c.op = "freeze" /\ shown[t].account.frozen THEN "unfreeze" ELSE c.op
  <2>1. CASE c.op = "freeze" /\ shown[t].account.frozen
    <3>1. call = [c EXCEPT !.op = "unfreeze"]
      BY <2>1 DEF AskedCall, Asked
    <3>2. QED
      BY <1>1, <2>1, <3>1 DEF Inputs
  <2>2. CASE ~(c.op = "freeze" /\ shown[t].account.frozen)
    BY <2>2 DEF AskedCall, Asked
  <2>3. QED
    BY <2>1, <2>2
<1> HIDE DEF call
<1>4. call.op \in {"contribute", "deleteGoal", "unfreeze"} \cup AdminOps
  BY <1>1, <1>3
<1>5. GoodCall(call) /\ FreshIds(call)
  BY <1>2, <1>3, <1>4 DEF GoodCall, FreshIds, AdminOps, Ops
<1>6. QED
  BY <1>1, <1>2, <1>3, <1>5 DEF call

LEMMA FinishServiceStep ==
  ASSUME State, NEW t \in Terminals, screen[t] = "asking", FinishService(t), NoPrompt
  PROVE  Stepped(t)
<1> DEFINE c == doing[t]
           call == AskedCall(t)
           d == Decision(call, RowsOf(call))
           next == ScreenOf(c.op)
           v == ObjectBalance(t, session[t].balance)
           s == [session[t] EXCEPT !.balance = v]
<1>1. /\ c.op \notin {"transfer", "editGoal"} /\ screen' = [screen EXCEPT ![t] = next]
      /\ UNCHANGED <<doing, shown, stale>>
      /\ \/ /\ d.ok /\ Serve(Terminals \ {t}, call, RowsOf(call), d.writes)
            /\ session' = [session EXCEPT ![t].balance = ObjectBalance(t, @)]
         \/ NoService /\ session' = session
  BY Zenon DEF FinishService, AskedCall, Show, NoPrompt
<1>2. /\ Prompted(t) /\ c \in Inputs /\ next \in Screens \ {"asking", "bootstrap"}
      /\ (session[t].acc = 0) = (next \in Outside)
      /\ (session[t].acc = 0) = (c.op \in AdminOps)
  BY MenuOfAsked, SeatTells DEF State
<1>3. /\ GoodCall(call) /\ FreshIds(call) /\ call.acc = c.acc /\ c.acc \in DOMAIN accounts
      /\ call.loan \in DOMAIN OpeningLoans /\ call.goal \in DOMAIN OpeningGoals
      /\ call.goal = c.goal /\ call.value = c.value
      /\ c.op \in {"contribute", "deleteGoal"} \cup AdminOps
      /\ c.op \in {"contribute", "deleteGoal"} => call.op = c.op
  BY <1>1, AskedIsGood
<1> HIDE DEF call
<1>4. CASE NoService /\ session' = session
  <2> HIDE DEF next
  <2>1. QED
    BY <1>1, <1>2, <1>4, LookingStep
<1>5. CASE /\ d.ok /\ Serve(Terminals \ {t}, call, RowsOf(call), d.writes)
           /\ session' = [session EXCEPT ![t].balance = ObjectBalance(t, @)]
  <2>1. Called(call)
    BY <1>3, <1>5 DEF Called
  <2>2. /\ Lawful(Terminals \ {t}) /\ foreign \subseteq foreign'
        /\ accounts'[c.acc].balance
             = accounts[c.acc].balance + CreditOf(d.writes.entries) + FromGoal(call, RowsOf(call))
        /\ accounts'[c.acc].deleted => accounts[c.acc].deleted \/ call.op = "delete"
    BY <1>1, <1>3, <1>5, <2>1, ServeIsLawful DEF State
  <2>3. /\ session[t] \in Session /\ session[t].balance \in Int /\ c.value \in Int
        /\ shown[t].goal.current \in Int
        /\ session' = [session EXCEPT ![t] = s]
    <3>1. session[t] \in Session
      BY DEF State, Seats
    <3>2. session' = [session EXCEPT ![t] = s]
      BY <1>5
    <3>3. QED
      BY <1>2, <3>1, <3>2 DEF Session, Prompted, GoalRow, Inputs
  <2>4. v \in Int
    BY <2>3 DEF ObjectBalance
  <2>5. s \in Session /\ s.acc = session[t].acc /\ s.balance = v
    <3> HIDE DEF v
    <3>1. QED
      BY <2>3, <2>4 DEF Session
  <2>6. s.acc # 0 => s.acc \in DOMAIN accounts'
    BY <2>2, <2>5 DEF State, Seats, Seated, Lawful, Grown
  <2>7. ASSUME t \notin foreign', session[t].acc # 0
        PROVE  ~accounts'[c.acc].deleted /\ v = accounts'[c.acc].balance /\ c.acc = session[t].acc
    <3>1. /\ c.op \in {"contribute", "deleteGoal"} /\ call.op = c.op /\ c.acc = session[t].acc
      BY <1>2, <1>3, <2>7 DEF Prompted
    <3>2. /\ ~accounts[c.acc].deleted /\ session[t].balance = accounts[c.acc].balance
          /\ c.op = "deleteGoal" => shown[t].goal.current = goals[c.goal].current
      BY <2>2, <2>7, <3>1 DEF State, Copies, Copied
    <3>3. GoodRows(RowsOf(call)) /\ RowsOf(call).account = accounts[c.acc]
          /\ RowsOf(call).goal = goals[c.goal]
      BY <1>3, <2>1, CalledRows DEF State
    <3>4. PlanIs(call, RowsOf(call), d.writes)
      BY <1>3, <1>5, <3>3, AcceptedPlan
    <3>5. accounts[c.acc].balance \in Int /\ goals[c.goal].current \in Int
      BY <1>3 DEF State, RowsSound, AccountRow, GoalRow
    <3>6. CASE c.op = "contribute"
      <4>1. FromGoal(call, RowsOf(call)) = -c.value
        BY <1>3, <3>1, <3>6 DEF FromGoal
      <4>2. CreditOf(d.writes.entries) = 0
        <5>1. \E e : d.writes.entries = <<e>> /\ e.type = "TRANSFER_OUT"
          <6>1. MovesBalance(d.writes, RowsOf(call).account, "TRANSFER_OUT", call.value)
            BY <3>1, <3>4, <3>6 DEF PlanIs
          <6>2. QED
            BY <6>1 DEF MovesBalance
        <5>2. QED
          BY <5>1 DEF CreditOf, Credit
      <4>3. v = session[t].balance - c.value
        BY <3>6 DEF ObjectBalance
      <4>4. QED
        BY <2>2, <2>3, <3>1, <3>2, <3>5, <3>6, <4>1, <4>2, <4>3
    <3>7. CASE c.op = "deleteGoal"
      <4>1. FromGoal(call, RowsOf(call)) = goals[c.goal].current
        BY <3>1, <3>2, <3>3, <3>7 DEF FromGoal
      <4>2. CreditOf(d.writes.entries) = 0
        BY <3>1, <3>4, <3>7 DEF PlanIs, Assigns, CreditOf
      <4>3. v = session[t].balance + goals[c.goal].current
        BY <3>2, <3>7 DEF ObjectBalance
      <4>4. QED
        BY <2>2, <2>3, <3>1, <3>2, <3>5, <3>7, <4>1, <4>2, <4>3
    <3>8. QED
      BY <3>1, <3>6, <3>7
  <2> HIDE DEF s, v, next, d
  <2>8. Sits(t, next, s)
    BY <1>1, <1>2, <2>3, <2>5, <2>6, <2>7 DEF Sits
  <2>9. QED
    BY <2>2, <2>8, SitsIsMoved DEF State, Stepped
<1>6. QED
  BY <1>1, <1>4, <1>5

LEMMA ConfirmStep ==
  ASSUME State, NEW t \in Terminals, Confirm(t)
  PROVE  Stepped(t)
<1>1. screen[t] = "asking" /\ NoPrompt
      /\ (FinishTransfer(t) \/ FinishEdit(t) \/ FinishService(t))
  BY DEF Confirm
<1>2. QED
  BY <1>1, FinishTransferStep, FinishEditStep, FinishServiceStep

\* A call of another process, and a step that writes nothing.
LEMMA AwayStep ==
  ASSUME State, Lawful(Terminals), UNCHANGED <<screen, doing, shown, session>>
  PROVE  State'
<1>1. RowsSound' /\ Grown /\ MoneyIsKept' /\ \A u \in Terminals : Untouched(u)
  BY DEF Lawful
<1>2. ASSUME NEW u \in Terminals PROVE Seated(u)' /\ Copied(u)'
  <2>1. SameSeat(u) /\ Copied(u)
    BY DEF SameSeat, State, Copies
  <2>2. QED
    BY <1>1, <2>1, OtherTerminal DEF State
<1>3. QED
  BY <1>1, <1>2 DEF State, Seats, Copies

LEMMA ApiStep ==
  ASSUME State, NEW c \in ApiCalls, Api(c)
  PROVE  State'
<1> DEFINE d == Decision(c, RowsOf(c))
<1>1. /\ c.acc \in DOMAIN accounts /\ FreshIds(c) /\ d.ok
      /\ Serve(Terminals, c, RowsOf(c), d.writes)
      /\ UNCHANGED <<screen, doing, shown, session, stale>>
  BY DEF Api, terminal
<1>2. /\ c \in Inputs /\ c.op \in Ops /\ c.acc \in Nat /\ c.acc # 0
      /\ c.op \in {"profile", "password", "updateGoal"} => c.value >= 0
  <2>1. /\ c \in Inputs /\ c.op \in Ops
        /\ c.op \in {"profile", "password", "updateGoal"} => c.value >= 0
    BY CallsAssumption
  <2>2. c.acc \in Accounts
    BY <2>1 DEF Inputs
  <2>3. c.acc \in Nat /\ c.acc # 0
    BY <2>2, CommandLineAssumption
  <2>4. QED
    BY <2>1, <2>3
<1>3. Called(c)
  BY <1>1, <1>2 DEF Called, GoodCall, Inputs
<1>4. Lawful(Terminals)
  BY <1>1, <1>3, ServeIsLawful DEF State
<1>5. QED
  BY <1>1, <1>4, AwayStep

LEMMA SteppedIsSound ==
  ASSUME State, NEW t \in Terminals, Stepped(t)
  PROVE  State'
BY StepIsSound DEF State, Stepped

LEMMA InputsAreInputs ==
  ASSUME Panel, NEW c \in menu.inputs
  PROVE  c \in Inputs /\ (c.op = "bootstrap" => c.value \in AdminPasswords)
BY MenusAssumption DEF Panel

LEMMA StateStep ==
  ASSUME State, Panel, [Next]_vars
  PROVE  State'
<1>1. ASSUME NEW t \in Terminals, NEW c \in menu.inputs, Operation(t, c)
      PROVE  State'
  <2>1. c \in Inputs /\ (c.op = "bootstrap" => c.value \in AdminPasswords)
    BY InputsAreInputs
  <2>2. Stepped(t)
    BY <1>1, <2>1, RegisterStep, LoginStep, AdminLoginStep, StartBootstrapStep, OperateStep,
       SettleStep, BeginStep, ChangeAdminPasswordStep DEF Operation
  <2>3. QED
    BY <2>2, SteppedIsSound
<1>2. ASSUME NEW t \in Terminals,
             Dashboard(t) \/ Choose(t) \/ Navigate(t) \/ Confirm(t) \/ Cancel(t) \/ FinishBootstrap(t)
      PROVE  State'
  <2>1. Stepped(t)
    BY <1>2, DashboardStep, ChooseStep, NavigateStep, ConfirmStep, CancelStep, FinishBootstrapStep
  <2>2. QED
    BY <2>1, SteppedIsSound
<1>3. ASSUME NEW c \in ApiCalls, Api(c) PROVE State'
  BY <1>3, ApiStep
<1>4. CASE Tick \/ Closing \/ UNCHANGED vars
  <2>1. NoCall /\ UNCHANGED <<screen, doing, shown, session, foreign, stale>>
    BY <1>4 DEF Tick, Closing, NoCall, vars, tables, terminal, history
  <2>2. Lawful(Terminals)
    BY <2>1, NoCallIsLawful DEF State
  <2>3. QED
    BY <2>1, <2>2, AwayStep
<1>5. QED
  BY <1>1, <1>2, <1>3, <1>4 DEF Next

-------------------------------------------------------------------------------
(* The first administrator *)

\* No step but create-admin's starts to ask for one.
Quiet ==
    /\ admins' = admins /\ menu' = menu /\ together' = together
    /\ \A u \in Terminals : screen'[u] = "bootstrap" => screen[u] = "bootstrap"

LEMMA QuietStep ==
  ASSUME Panel, FirstAdmin, Quiet
  PROVE  Panel' /\ FirstAdmin'
BY DEF Panel, FirstAdmin, Quiet

\* A terminal comes to a screen that is not create-admin's.
LEMMA ShownElsewhere ==
  ASSUME Seats, NEW t \in Terminals, NEW next, next # "bootstrap",
         screen' = [screen EXCEPT ![t] = next]
  PROVE  \A u \in Terminals : screen'[u] = "bootstrap" => screen[u] = "bootstrap"
BY DEF Seats

LEMMA OperationIsQuiet ==
  ASSUME Seats, NEW t \in Terminals, NEW c,
         \/ Register(t, c) \/ Login(t, c) \/ AdminLogin(t, c) \/ Operate(t, c)
         \/ Settle(t, c) \/ Begin(t, c)
  PROVE  Quiet
<1>1. admins' = admins /\ menu' = menu /\ together' = together
  BY DEF Register, Login, AdminLogin, Operate, Settle, Begin, Type, tables
<1>2. \E next : next # "bootstrap" /\ screen' = [screen EXCEPT ![t] = next]
  <2>1. CASE Register(t, c)
    BY <2>1 DEF Register, Remain, Show
  <2>2. CASE Login(t, c)
    BY <2>2 DEF Login, Remain, Show
  <2>3. CASE AdminLogin(t, c)
    BY <2>3 DEF AdminLogin, Remain, Show
  <2>4. CASE Operate(t, c)
    BY <2>4 DEF Operate, MenuOf, Remain, Show
  <2>5. CASE Settle(t, c)
    BY <2>5 DEF Settle, Show, ProfileOutcome, PasswordOutcome, CloseOutcome, ExportOutcome
  <2>6. CASE Begin(t, c)
    <3>1. screen[t] # "bootstrap"
      BY <2>6 DEF Begin, ScreenOf
    <3>2. QED
      BY <2>6, <3>1 DEF Begin, Remain, Show
  <2>7. QED
    BY <2>1, <2>2, <2>3, <2>4, <2>5, <2>6
<1>3. QED
  BY <1>1, <1>2, ShownElsewhere DEF Quiet

LEMMA ScreenIsQuiet ==
  ASSUME Seats, NEW t \in Terminals,
         Dashboard(t) \/ Choose(t) \/ Navigate(t) \/ Confirm(t) \/ Cancel(t)
  PROVE  Quiet
<1>1. admins' = admins /\ menu' = menu /\ together' = together
  BY DEF Dashboard, Choose, Navigate, Confirm, Cancel, Type, tables, bounds
<1>2. \E next : next # "bootstrap" /\ screen' = [screen EXCEPT ![t] = next]
  <2>1. CASE Dashboard(t)
    BY <2>1 DEF Dashboard, Show
  <2>2. CASE Choose(t)
    BY <2>2 DEF Choose, Show
  <2>3. CASE Navigate(t)
    BY <2>3 DEF Navigate, Show
  <2>4. CASE Confirm(t)
    BY <2>4, Zenon DEF Confirm, FinishTransfer, FinishEdit, FinishService, Show, ScreenOf
  <2>5. CASE Cancel(t)
    BY <2>5 DEF Cancel, Show, ScreenOf
  <2>6. QED
    BY <2>1, <2>2, <2>3, <2>4, <2>5
<1>3. QED
  BY <1>1, <1>2, ShownElsewhere DEF Quiet
\* The command looks first, and together tells whether somebody was asking already.
LEMMA StartKeepsFirst ==
  ASSUME Seats, Panel, FirstAdmin, NEW t \in Terminals, NEW c, StartBootstrap(t, c)
  PROVE  Panel' /\ FirstAdmin'
<1>1. admins' = admins /\ menu' = menu /\ screen \in [Terminals -> Screens]
  BY DEF StartBootstrap, Type, Seats
<1>2. Panel'
  BY <1>1 DEF Panel
<1>3. CASE NoAdminYet
  <2>1. /\ screen' = [screen EXCEPT ![t] = "bootstrap"]
        /\ (together') = (together \/ \E u \in Terminals : screen[u] = "bootstrap")
    BY <1>3 DEF StartBootstrap, Show
  <2>2. SUFFICES ASSUME menu.admins = <<>>, ~together'
                 PROVE  /\ \A u, v \in Terminals :
                             screen'[u] = "bootstrap" /\ screen'[v] = "bootstrap" => u = v
                        /\ (\E u \in Terminals : screen'[u] = "bootstrap") => DOMAIN admins' = {}
                        /\ Cardinality(DOMAIN admins') <= 1
    BY <1>1, <1>2 DEF FirstAdmin
  <2>3. ~together /\ \A u \in Terminals : screen[u] # "bootstrap"
    BY <2>1, <2>2
  <2>4. \A u \in Terminals : screen'[u] = "bootstrap" => u = t
    BY <1>1, <2>1, <2>3
  <2>5. DOMAIN admins = {} /\ Cardinality(DOMAIN admins) <= 1
    BY <1>3, <2>2, <2>3 DEF FirstAdmin, NoAdminYet
  <2>6. QED
    BY <1>1, <2>4, <2>5
<1>4. CASE ~NoAdminYet
  <2>1. Quiet
    BY <1>1, <1>4 DEF StartBootstrap, Remain, Show, Quiet
  <2>2. QED
    BY <2>1, QuietStep
<1>5. QED
  BY <1>2, <1>3, <1>4

\* Who asks alone finds no administrator, creates one, and nobody asks any more.
LEMMA FinishKeepsFirst ==
  ASSUME Seats, Panel, FirstAdmin, NEW t \in Terminals, FinishBootstrap(t)
  PROVE  Panel' /\ FirstAdmin'
<1> DEFINE c == doing[t]
<1>1. /\ screen \in [Terminals -> Screens] /\ screen[t] = "bootstrap"
      /\ menu' = menu /\ together' = together
      /\ c \in Inputs /\ c.user \in UserNames /\ c.value \in AdminPasswords
  BY DEF FinishBootstrap, Type, Seats, Seated, Inputs
<1>2. \E next : next # "bootstrap" /\ screen' = [screen EXCEPT ![t] = next]
  BY DEF FinishBootstrap, Show
<1>3. /\ \A u \in Terminals : screen'[u] = "bootstrap" => screen[u] = "bootstrap"
      /\ screen'[t] # "bootstrap"
  BY <1>1, <1>2
<1>4. CASE c.user \in DOMAIN admins
  <2>1. Quiet
    BY <1>1, <1>3, <1>4 DEF FinishBootstrap, Quiet
  <2>2. QED
    BY <2>1, QuietStep
<1>5. CASE c.user \notin DOMAIN admins
  <2>1. admins' = [u \in DOMAIN admins \cup {c.user} |-> IF u = c.user THEN c.value ELSE admins[u]]
    BY <1>5 DEF FinishBootstrap
  <2>2. Panel'
    BY <1>1, <2>1 DEF Panel
  <2>3. SUFFICES ASSUME menu.admins = <<>>, ~together
                 PROVE  /\ \A u \in Terminals : screen'[u] # "bootstrap"
                        /\ Cardinality(DOMAIN admins') <= 1
    BY <1>1, <2>2 DEF FirstAdmin
  <2>4. /\ \A u \in Terminals : screen[u] = "bootstrap" => u = t
        /\ DOMAIN admins = {}
    BY <1>1, <2>3 DEF FirstAdmin
  <2>5. DOMAIN admins' = {c.user}
    BY <2>1, <2>4
  <2>6. Cardinality(DOMAIN admins') = 1
    BY <2>5, FS_Singleton
  <2>7. QED
    BY <1>3, <2>4, <2>6
<1>6. QED
  BY <1>4, <1>5

LEMMA PasswordKeepsFirst ==
  ASSUME Seats, Panel, FirstAdmin, NEW t \in Terminals, NEW c, ChangeAdminPassword(t, c)
  PROVE  Panel' /\ FirstAdmin'
<1> DEFINE name == IF Simon \in DOMAIN admins THEN Simon ELSE AdminName
<1>1. /\ screen \in [Terminals -> Screens] /\ screen[t] = "admin"
      /\ menu' = menu /\ together' = together
  BY DEF ChangeAdminPassword, Type, Seats
<1>2. \A u \in Terminals : screen'[u] = screen[u]
  BY <1>1 DEF ChangeAdminPassword, Remain, Show
<1>3. CASE name \in DOMAIN admins /\ admins[name] = c.value
  <2>1. admins' = [u \in DOMAIN admins |-> IF u = Simon THEN 1 - c.value ELSE admins[u]]
    BY <1>3 DEF ChangeAdminPassword
  <2>2. c.value \in AdminPasswords
    BY <1>3 DEF Panel
  <2>3. 1 - c.value \in AdminPasswords
    BY <2>2 DEF AdminPasswords
  <2>4. DOMAIN admins' = DOMAIN admins /\ admins' \in [DOMAIN admins -> AdminPasswords]
    BY <2>1, <2>3 DEF Panel
  <2>5. QED
    BY <1>1, <1>2, <2>4 DEF Panel, FirstAdmin
<1>4. CASE ~(name \in DOMAIN admins /\ admins[name] = c.value)
  <2>1. Quiet
    BY <1>1, <1>2, <1>4 DEF ChangeAdminPassword, Quiet
  <2>2. QED
    BY <2>1, QuietStep
<1>5. QED
  BY <1>3, <1>4

LEMMA AdminStep ==
  ASSUME Seats, Panel, FirstAdmin, [Next]_vars
  PROVE  Panel' /\ FirstAdmin'
<1>1. ASSUME NEW t \in Terminals, NEW c \in menu.inputs, Operation(t, c)
      PROVE  Panel' /\ FirstAdmin'
  BY <1>1, OperationIsQuiet, QuietStep, StartKeepsFirst, PasswordKeepsFirst DEF Operation
<1>2. ASSUME NEW t \in Terminals,
             Dashboard(t) \/ Choose(t) \/ Navigate(t) \/ Confirm(t) \/ Cancel(t) \/ FinishBootstrap(t)
      PROVE  Panel' /\ FirstAdmin'
  BY <1>2, ScreenIsQuiet, QuietStep, FinishKeepsFirst
<1>3. CASE (\E c \in ApiCalls : Api(c)) \/ Tick \/ Closing \/ UNCHANGED vars
  <2>1. Quiet
    BY <1>3 DEF Api, Tick, Closing, Quiet, vars, tables, terminal, bounds, history
  <2>2. QED
    BY <2>1, QuietStep
<1>4. QED
  BY <1>1, <1>2, <1>3 DEF Next

LEMMA SoundStep == Sound /\ [Next]_vars => Sound'
<1> SUFFICES ASSUME Sound, [Next]_vars PROVE Sound'
  OBVIOUS
<1>1. State /\ Panel /\ FirstAdmin /\ Seats
  BY DEF Sound, State
<1>2. State'
  BY <1>1, StateStep
<1>3. Panel' /\ FirstAdmin'
  BY <1>1, AdminStep
<1>4. QED
  BY <1>2, <1>3 DEF Sound, State
-------------------------------------------------------------------------------
(* The invariant at the start *)

LEMMA BooksAtStart ==
  ASSUME Init
  PROVE  MoneyIsKept
<1> DEFINE D == DOMAIN OpeningAccounts
           f == [a \in DOMAIN statements |-> Brought(statements[a])]
<1>1. accounts = OpeningAccounts /\ goals = OpeningGoals /\ statements = [a \in D |-> <<>>]
  BY DEF Init
<1>2. IsFiniteSet(D)
  <2>1. D \subseteq Accounts /\ IsFiniteSet(Accounts)
    BY CommandLineAssumption DEF Accounts
  <2>2. QED
    BY <2>1, FS_Subset
<1>3. DOMAIN f = D /\ \A a \in D : f[a] = 0
  BY <1>1, NothingBrought
<1> HIDE DEF f, D
<1>4. SumOver(f, D) = 0
  BY <1>2, <1>3, SumZero
<1>5. Credits = 0
  <2>1. Credits = CreditsIn(statements)
    BY SumsAreMoney
  <2>2. CreditsIn(statements) = SumOver(f, DOMAIN f)
    BY Zenon DEF CreditsIn, SumOf, f
  <2>3. QED
    BY <1>3, <1>4, <2>1, <2>2
<1>6. QED
  BY <1>1, <1>5, OpeningMoney DEF MoneyIsKept

LEMMA SomeCall == SomeInput \in Inputs
<1>1. SomeInput \in ApiCalls
  BY CallsAssumption DEF SomeInput
<1>2. QED
  BY <1>1, CallsAssumption

LEMMA RowsAtStart ==
  ASSUME Init
  PROVE  RowsSound
<1>1. /\ accounts = OpeningAccounts /\ loans = OpeningLoans /\ goals = OpeningGoals
      /\ statements = [a \in DOMAIN OpeningAccounts |-> <<>>]
  BY DEF Init
<1>2. /\ accounts \in [DOMAIN accounts -> AccountRow] /\ DOMAIN accounts \subseteq Accounts
      /\ \A a \in DOMAIN accounts : accounts[a].balance >= 0
  BY <1>1, CommandLineAssumption DEF Accounts
<1>3. /\ loans \in [DOMAIN OpeningLoans -> LoanRow] /\ goals \in [DOMAIN OpeningGoals -> GoalRow]
      /\ \A l \in DOMAIN loans : SoundLoan(loans[l])
      /\ \A g \in DOMAIN goals : SoundGoal(goals[g])
  BY <1>1, CommandLineAssumption
<1>4. <<>> \in Seq(Transaction)
  OBVIOUS
<1>5. QED
  BY <1>1, <1>2, <1>3, <1>4 DEF RowsSound

LEMMA SeatsAtStart ==
  ASSUME Init
  PROVE  Seats /\ Copies
<1>1. /\ screen = [t \in Terminals |-> "main"] /\ doing = [t \in Terminals |-> SomeInput]
      /\ shown = [t \in Terminals |-> NoRows] /\ session = [t \in Terminals |-> NoSession]
  BY DEF Init
<1>2. NoSession \in Session /\ NoSession.acc = 0
  BY DEF NoSession, Session
<1>3. \A t \in Terminals : screen[t] = "main" /\ session[t].acc = 0
  BY <1>1, <1>2
<1>4. \A t \in Terminals : Seated(t) /\ Copied(t)
  BY <1>3 DEF Seated, Copied, Outside
<1>5. QED
  BY <1>1, <1>2, <1>4, SomeCall DEF Seats, Copies, Screens

LEMMA AdminsAtStart ==
  ASSUME Init
  PROVE  Panel /\ FirstAdmin
<1>1. /\ menu \in Menus /\ admins = menu.admins
      /\ \A t \in Terminals : screen[t] = "main"
  BY DEF Init
<1>2. Panel
  BY <1>1, MenusAssumption DEF Panel
<1>3. admins = <<>> => DOMAIN admins = {} /\ Cardinality(DOMAIN admins) = 0
  <2>1. DOMAIN <<>> = {}
    OBVIOUS
  <2>2. QED
    BY <2>1, FS_EmptySet
<1>4. FirstAdmin
  BY <1>1, <1>3 DEF FirstAdmin
<1>5. QED
  BY <1>2, <1>4

LEMMA SoundAtStart == Init => Sound
BY RowsAtStart, SeatsAtStart, BooksAtStart, AdminsAtStart DEF Sound

LEMMA SoundTypes == Sound => TypeOK
<1> SUFFICES ASSUME Sound PROVE TypeOK
  OBVIOUS
<1>1. /\ DOMAIN accounts \subseteq Accounts /\ \A a \in DOMAIN accounts : accounts[a] \in AccountRow
      /\ loans \in [DOMAIN OpeningLoans -> LoanRow] /\ goals \in [DOMAIN OpeningGoals -> GoalRow]
      /\ DOMAIN statements = DOMAIN accounts
      /\ \A a \in DOMAIN accounts : statements[a] \in Seq(Transaction)
  BY DEF Sound, RowsSound
<1>2. \A a \in DOMAIN statements : \A i \in DOMAIN statements[a] : statements[a][i] \in Transaction
  <2>1. \A s \in Seq(Transaction) : \A i \in DOMAIN s : s[i] \in Transaction
    OBVIOUS
  <2>2. QED
    BY <1>1, <2>1
<1>3. \A t \in Terminals : (session[t].acc = 0) =
        (\/ screen[t] \in {"main", "admin", "bootstrap", "crashed"}
         \/ screen[t] = "asking" /\ doing[t].op \in AdminOps)
  BY Zenon DEF Sound, Seats, Seated, Outside
<1>4. QED
  BY <1>1, <1>2, <1>3 DEF Sound, Seats, Panel, TypeOK

LEMMA SoundInvariants ==
  Sound => TypeOK /\ SessionBalanceIsTrue /\ MoneyIsKept /\ OneFirstAdmin
<1>1. Copies => SessionBalanceIsTrue
  BY DEF Copies, Copied, SessionBalanceIsTrue
<1>2. FirstAdmin => OneFirstAdmin
  BY DEF FirstAdmin, OneFirstAdmin
<1>3. QED
  BY <1>1, <1>2, SoundTypes DEF Sound

-------------------------------------------------------------------------------
(* The invariants *)

\* In every behaviour the tables, the prompts and the sessions' copies are sound.
LEMMA SoundAlways == Spec => []Sound
<1>1. QED
  BY SoundAtStart, SoundStep, PTL DEF Spec

\* The types, and a terminal has a session exactly on the screens of one.
THEOREM Typed == Spec => []TypeOK
BY SoundAlways, SoundInvariants, PTL

\* The balance that Bank's account object shows is the row's, unless others wrote it.
THEOREM SessionsTellTheTruth == Spec => []SessionBalanceIsTrue
BY SoundAlways, SoundInvariants, PTL

\* Terminals and the API together keep the bank's money.
THEOREM MoneyKept == Spec => []MoneyIsKept
BY SoundAlways, SoundInvariants, PTL

\* create-admin makes the first administrator only, unless two of it overlap.
THEOREM FirstAdminAlone == Spec => []OneFirstAdmin
BY SoundAlways, SoundInvariants, PTL
-------------------------------------------------------------------------------
(* What an administrator confirms *)

\* A step of a terminal shows a screen and a message, on that terminal.
LEMMA OperationShows ==
  ASSUME NEW t \in Terminals, NEW c, Operation(t, c)
  PROVE  \E next, message : Show(t, next, message)
<1>1. CASE Register(t, c)
  BY <1>1 DEF Register, Remain
<1>2. CASE Login(t, c)
  BY <1>2 DEF Login, Remain
<1>3. CASE AdminLogin(t, c)
  BY <1>3 DEF AdminLogin, Remain
<1>4. CASE StartBootstrap(t, c)
  BY <1>4 DEF StartBootstrap, Remain
<1>5. CASE Operate(t, c)
  BY <1>5 DEF Operate, Remain
<1>6. CASE Settle(t, c)
  BY <1>6 DEF Settle, Remain
<1>7. CASE Begin(t, c)
  BY <1>7 DEF Begin, Remain
<1>8. CASE ChangeAdminPassword(t, c)
  BY <1>8 DEF ChangeAdminPassword, Remain
<1>9. QED
  BY <1>1, <1>2, <1>3, <1>4, <1>5, <1>6, <1>7, <1>8 DEF Operation

LEMMA ScreenShows ==
  ASSUME NEW t \in Terminals,
         Dashboard(t) \/ Choose(t) \/ Navigate(t) \/ Confirm(t) \/ Cancel(t) \/ FinishBootstrap(t)
  PROVE  \E next, message : Show(t, next, message)
<1>1. CASE Dashboard(t)
  BY <1>1 DEF Dashboard
<1>2. CASE Choose(t)
  BY <1>2 DEF Choose
<1>3. CASE Navigate(t)
  BY <1>3 DEF Navigate
<1>4. CASE Confirm(t)
  BY <1>4, Zenon DEF Confirm, FinishTransfer, FinishEdit, FinishService
<1>5. CASE Cancel(t)
  BY <1>5 DEF Cancel
<1>6. CASE FinishBootstrap(t)
  BY <1>6 DEF FinishBootstrap
<1>7. QED
  BY <1>1, <1>2, <1>3, <1>4, <1>5, <1>6

\* What a step shows: nothing, or a screen and a message of one terminal.
LEMMA StepShows ==
  ASSUME [Next]_vars
  PROVE  \/ screen' = screen /\ says' = says
         \/ \E t \in Terminals :
              /\ \E next, message : Show(t, next, message)
              /\ \/ \E c : Operation(t, c)
                 \/ Dashboard(t) \/ Choose(t) \/ Navigate(t) \/ Confirm(t) \/ Cancel(t)
                 \/ FinishBootstrap(t)
<1>1. ASSUME NEW t \in Terminals, NEW c \in menu.inputs, Operation(t, c)
      PROVE  (\E next, message : Show(t, next, message)) /\ \E i : Operation(t, i)
  BY <1>1, OperationShows
<1>2. CASE (\E c \in ApiCalls : Api(c)) \/ Tick \/ Closing \/ UNCHANGED vars
  BY <1>2 DEF Api, Tick, Closing, vars, terminal
<1>3. QED
  BY <1>1, <1>2, ScreenShows DEF Next

Speaks == DOMAIN says = Terminals

LEMMA SpeaksOn == Speaks /\ [Next]_vars => Speaks'
<1> SUFFICES ASSUME Speaks, [Next]_vars PROVE Speaks'
  OBVIOUS
<1>1. says' = says \/ \E t, message : says' = [says EXCEPT ![t] = message]
  BY StepShows DEF Show
<1>2. QED
  BY <1>1 DEF Speaks

\* No input takes a terminal from its prompts.
LEMMA PromptsWait ==
  ASSUME NEW t, NEW c, Operation(t, c)
  PROVE  screen[t] # "asking"
<1>1. CASE Operate(t, c)
  BY <1>1 DEF Operate, MenuOf
<1>2. CASE Begin(t, c)
  BY <1>2 DEF Begin, ScreenOf
<1>3. CASE Settle(t, c)
  BY <1>3 DEF Settle
<1>4. QED
  BY <1>1, <1>2, <1>3
     DEF Operation, Register, Login, AdminLogin, StartBootstrap, ChangeAdminPassword

\* Only the answer to the last prompt takes it to another screen.
LEMMA OnlyAnswersMove ==
  ASSUME Seats, [Next]_vars, NEW t \in Terminals, screen[t] = "asking", screen'[t] # "asking"
  PROVE  Confirm(t) \/ Cancel(t)
<1>1. PICK u \in Terminals :
        /\ \E next, message : Show(u, next, message)
        /\ \/ \E c : Operation(u, c)
           \/ Dashboard(u) \/ Choose(u) \/ Navigate(u) \/ Confirm(u) \/ Cancel(u)
           \/ FinishBootstrap(u)
  BY StepShows
<1>2. u = t
  BY <1>1 DEF Show, Seats
<1>3. ~(\E c : Operation(t, c))
  BY PromptsWait
<1>4. ~Dashboard(t) /\ ~Choose(t) /\ ~FinishBootstrap(t) /\ ~Navigate(t)
  BY DEF Dashboard, Choose, FinishBootstrap, Navigate
<1>5. QED
  BY <1>1, <1>2, <1>3, <1>4

\* The service's refusals say why, and what it accepts it has checked.
LEMMA AdminDecision ==
  ASSUME NEW c, NEW rows, c.op \in {"freeze", "unfreeze", "delete", "approve", "reject"}
  PROVE  LET d == Decision(c, rows) IN
         /\ d.say = "done" => d.ok
         /\ d.ok => /\ c.op = "freeze" => ~rows.account.frozen
                    /\ c.op = "unfreeze" => rows.account.frozen
<1>1. CASE c.op = "freeze"
  BY <1>1 DEF Decision, FreezeAccount, SetColumns, Refused, Done
<1>2. CASE c.op = "unfreeze"
  BY <1>2 DEF Decision, UnfreezeAccount, SetColumns, Refused, Done
<1>3. CASE c.op = "delete"
  BY <1>3 DEF Decision, DeleteAccount, SetColumns, Refused, Done
<1>4. CASE c.op = "approve"
  BY <1>4 DEF Decision, ApproveLoan, Refused, Done
<1>5. CASE c.op = "reject"
  BY <1>5 DEF Decision, RejectLoan, Refused, Done
<1>6. QED
  BY <1>1, <1>2, <1>3, <1>4, <1>5

\* What the rows are after what the administrator's calls plan.
LEMMA AdminRows ==
  ASSUME NEW c, NEW rows, GoodRows(rows), NEW w, PlanIs(c, rows, w)
  PROVE  /\ c.op = "freeze" => RowsAfter(c.op, rows, w).account.frozen = TRUE
         /\ c.op = "unfreeze" => RowsAfter(c.op, rows, w).account.frozen = FALSE
         /\ c.op = "delete" => RowsAfter(c.op, rows, w).account.deleted = TRUE
         /\ c.op = "reject" => RowsAfter(c.op, rows, w).loan.status = "REJECTED"
<1> DEFINE after == RowsAfter(c.op, rows, w)
<1>1. /\ after.account = UpdateRow(w.account, rows.account, rows.account)
      /\ after.loan = UpdateRow(w.loan, rows.loan, rows.loan)
  BY DEF RowsAfter
<1>2. rows.account \in AccountRow /\ rows.loan \in LoanRow
  BY DEF GoodRows
<1> HIDE DEF after
<1>3. /\ after.account.frozen = Assigned(w.account, rows.account, rows.account, "frozen")
      /\ after.account.deleted = Assigned(w.account, rows.account, rows.account, "deleted")
  BY <1>1, <1>2, UpdatedAccount
<1>4. after.loan.status = Assigned(w.loan, rows.loan, rows.loan, "status")
  BY <1>1, <1>2, UpdatedLoan
<1>5. CASE c.op = "freeze"
  <2>1. w.account = [frozen |-> TRUE, active |-> FALSE]
    BY <1>5 DEF PlanIs, Assigns
  <2>2. "frozen" \in DOMAIN w.account /\ w.account["frozen"] = TRUE
    BY <2>1
  <2>3. after.account.frozen = TRUE
    BY <1>3, <2>2, Zenon DEF Assigned
  <2>4. QED
    BY <1>5, <2>3, Zenon DEF after
<1>6. CASE c.op = "unfreeze"
  <2>1. w.account = [frozen |-> FALSE]
    BY <1>6 DEF PlanIs, Assigns
  <2>2. "frozen" \in DOMAIN w.account /\ w.account["frozen"] = FALSE
    BY <2>1
  <2>3. after.account.frozen = FALSE
    BY <1>3, <2>2, Zenon DEF Assigned
  <2>4. QED
    BY <1>6, <2>3, Zenon DEF after
<1>7. CASE c.op = "delete"
  <2>1. w.account = [deleted |-> TRUE, active |-> FALSE]
    BY <1>7 DEF PlanIs, Assigns
  <2>2. "deleted" \in DOMAIN w.account /\ w.account["deleted"] = TRUE
    BY <2>1
  <2>3. after.account.deleted = TRUE
    BY <1>3, <2>2, Zenon DEF Assigned
  <2>4. QED
    BY <1>7, <2>3, Zenon DEF after
<1>8. CASE c.op = "reject"
  <2> DEFINE r == [rows.loan EXCEPT !.status = "REJECTED"]
  <2>1. w.loan = LoanColumns(r)
    BY <1>8 DEF PlanIs
  <2>2. r \in LoanRow /\ r.status = "REJECTED"
    BY <1>2 DEF LoanRow, LoanStatus
  <2> HIDE DEF r
  <2>3. "status" \in DOMAIN w.loan /\ w.loan["status"] = "REJECTED"
    BY <2>1, <2>2, LoanColumnsOf
  <2>4. QED
    BY <1>4, <1>8, <2>3 DEF Assigned, after
<1>9. QED
  BY <1>5, <1>6, <1>7, <1>8 DEF after

\* A confirmed call that says it is done is one the service has accepted.
LEMMA ConfirmedIsServed ==
  ASSUME Sound, Speaks, [Next]_vars, NEW t \in Terminals, screen[t] = "asking",
         doing[t].op \in AdminOps, screen'[t] = "admin", says'[t] = "done"
  PROVE  LET call == AskedCall(t) IN
         /\ Called(call)
         /\ Serve(Terminals \ {t}, call, RowsOf(call), Decision(call, RowsOf(call)).writes)
         /\ stale' = stale
<1> DEFINE call == AskedCall(t)
           d == Decision(call, RowsOf(call))
<1>1. Confirm(t)
  <2>1. Confirm(t) \/ Cancel(t)
    BY OnlyAnswersMove DEF Sound
  <2>2. ~Cancel(t)
    BY DEF Cancel, Show, Speaks
  <2>3. QED
    BY <2>1, <2>2
<1>2. FinishService(t)
  BY <1>1 DEF Confirm, FinishTransfer, FinishEdit, AdminOps
<1>3. /\ stale' = stale
      /\ \/ d.ok /\ Serve(Terminals \ {t}, call, RowsOf(call), d.writes)
         \/ ~d.ok /\ says' = [says EXCEPT ![t] = d.say]
  BY <1>2, Zenon DEF FinishService, AskedCall, Show
<1>4. /\ GoodCall(call) /\ FreshIds(call) /\ call.acc \in DOMAIN accounts
      /\ call.loan \in DOMAIN OpeningLoans /\ call.goal \in DOMAIN OpeningGoals
      /\ call.op = IF doing[t].op = "freeze" /\ shown[t].account.frozen THEN "unfreeze"
                   ELSE doing[t].op
  <2>1. State /\ doing[t].op \notin {"transfer", "editGoal"}
    BY DEF Sound, State, AdminOps
  <2>2. QED
    BY <2>1, AskedIsGood
<1> HIDE DEF call
<1>5. call.op \in {"freeze", "unfreeze", "delete", "approve", "reject"}
  BY <1>4 DEF AdminOps
<1>6. d.ok
  <2>1. d.say = "done" => d.ok
    BY <1>5, AdminDecision
  <2> HIDE DEF d
  <2>2. QED
    BY <1>3, <2>1 DEF Speaks
<1>7. Called(call)
  BY <1>4, <1>6 DEF Called
<1>8. QED
  BY <1>3, <1>6, <1>7 DEF call

LEMMA ConfirmedStep ==
  ASSUME Sound, Speaks, [Next]_vars, NEW t \in Terminals, screen[t] = "asking",
         doing[t].op \in AdminOps, screen'[t] = "admin", says'[t] = "done"
  PROVE  Happened(doing[t], shown[t])
<1> DEFINE c == doing[t]
           call == AskedCall(t)
           rows == RowsOf(call)
           w == Decision(call, rows).writes
           after == RowsAfter(call.op, rows, w)
<1>1. Called(call) /\ Serve(Terminals \ {t}, call, rows, w) /\ stale' = stale
  BY ConfirmedIsServed
<1>2. /\ call.acc = c.acc /\ call.loan = c.loan /\ c.acc \in DOMAIN accounts
      /\ c.loan \in DOMAIN loans
      /\ call.op = IF c.op = "freeze" /\ shown[t].account.frozen THEN "unfreeze" ELSE c.op
  <2>1. State /\ c.op \notin {"transfer", "editGoal"} /\ DOMAIN loans = DOMAIN OpeningLoans
    BY DEF Sound, State, AdminOps, RowsSound
  <2>2. QED
    BY <2>1, AskedIsGood
<1> HIDE DEF call
<1>3. GoodRows(rows) /\ rows.account = accounts[c.acc] /\ rows.loan = loans[c.loan]
  BY <1>1, <1>2, CalledRows DEF Sound
<1>4. PlanIs(call, rows, w)
  BY <1>1, <1>3, AcceptedPlan DEF Called
<1>5. /\ accounts' = [accounts EXCEPT ![call.acc] = after.account]
      /\ loans' = [loans EXCEPT ![call.loan] = after.loan]
  BY <1>1 DEF Serve
<1>6. /\ call.op = "freeze" => after.account.frozen = TRUE
      /\ call.op = "unfreeze" => after.account.frozen = FALSE
      /\ call.op = "delete" => after.account.deleted = TRUE
      /\ call.op = "reject" => after.loan.status = "REJECTED"
  <2> DEFINE x == RowsAfter(call.op, rows, w)
  <2>1. /\ call.op = "freeze" => x.account.frozen = TRUE
        /\ call.op = "unfreeze" => x.account.frozen = FALSE
        /\ call.op = "delete" => x.account.deleted = TRUE
        /\ call.op = "reject" => x.loan.status = "REJECTED"
    <3> HIDE DEF rows, w
    <3>1. QED
      BY <1>3, <1>4, AdminRows
  <2>2. QED
    BY <2>1, Zenon
<1>7. accounts'[c.acc].balance
        = accounts[c.acc].balance + CreditOf(w.entries) + FromGoal(call, rows)
  BY <1>1, <1>2, ServeIsLawful DEF Sound
<1>8. /\ Prompted(t) /\ shown[t].account.frozen \in BOOLEAN
      /\ c.op = "approve" => rows.loan.principal = shown[t].loan.principal
  BY <1>3 DEF Sound, Seats, Seated, Prompted, AccountRow
<1>9. /\ call.op = "freeze" => ~rows.account.frozen
      /\ call.op = "unfreeze" => rows.account.frozen
  BY <1>1, AdminDecision DEF Called
<1> HIDE DEF after, w, rows
<1>10. accounts'[c.acc] = after.account /\ loans'[c.loan] = after.loan
  BY <1>2, <1>5
<1>11. CASE c.op = "freeze"
  <2>1. rows.account.frozen \in BOOLEAN
    BY <1>3 DEF GoodRows, AccountRow
  <2>2. CASE shown[t].account.frozen
    <3>1. call.op = "unfreeze" /\ rows.account.frozen = TRUE /\ after.account.frozen = FALSE
      BY <1>2, <1>6, <1>9, <1>11, <2>1, <2>2
    <3>2. shown[t].account.frozen = TRUE
      BY <1>8, <2>2
    <3>3. QED
      BY <1>3, <1>10, <1>11, <3>1, <3>2 DEF Happened
  <2>3. CASE ~shown[t].account.frozen
    <3>1. call.op = "freeze" /\ rows.account.frozen = FALSE /\ after.account.frozen = TRUE
      BY <1>2, <1>6, <1>9, <1>11, <2>1, <2>3
    <3>2. shown[t].account.frozen = FALSE
      BY <1>8, <2>3
    <3>3. QED
      BY <1>3, <1>10, <1>11, <3>1, <3>2 DEF Happened
  <2>4. QED
    BY <2>2, <2>3
<1>12. CASE c.op = "delete"
  BY <1>2, <1>6, <1>10, <1>12 DEF Happened
<1>13. CASE c.op = "approve"
  <2>1. call.op = "approve"
    BY <1>2, <1>13
  <2>2. /\ MovesBalance(w, rows.account, "LOAN_DISBURSEMENT", rows.loan.principal)
        /\ rows.loan.status = "PENDING"
    BY <1>4, <2>1 DEF PlanIs
  <2>3. CreditOf(w.entries) = rows.loan.principal
    BY <2>2 DEF MovesBalance, CreditOf, Credit
  <2>4. FromGoal(call, rows) = 0
    BY <2>1 DEF FromGoal
  <2>5. accounts[c.acc].balance \in Int /\ rows.loan.principal \in Int
    BY <1>3 DEF GoodRows, AccountRow, LoanRow
  <2>6. accounts'[c.acc].balance = accounts[c.acc].balance + shown[t].loan.principal
    BY <1>7, <1>8, <1>13, <2>3, <2>4, <2>5
  <2>7. QED
    BY <1>3, <1>13, <2>2, <2>6 DEF Happened
<1>14. CASE c.op = "reject"
  <2>1. call.op = "reject"
    BY <1>2, <1>14
  <2>2. rows.loan.status = "PENDING"
    BY <1>4, <2>1 DEF PlanIs
  <2>3. QED
    BY <1>3, <1>6, <1>10, <1>14, <2>1, <2>2 DEF Happened
<1>15. QED
  BY <1>11, <1>12, <1>13, <1>14 DEF AdminOps

\* What the admin panel's prompts have named happens when the answer is yes, whatever was
\* written meanwhile: no freeze unfreezes, no loan is approved twice.
THEOREM ConfirmationsHold == Spec => ConfirmedIsDone
<1>1. Init => Speaks
  BY DEF Init, Speaks
<1>2. Sound /\ Speaks /\ [Next]_vars =>
        [\A t \in Terminals : /\ screen[t] = "asking" /\ doing[t].op \in AdminOps
                              /\ screen'[t] = "admin" /\ says'[t] = "done"
          => Happened(doing[t], shown[t])]_vars
  BY ConfirmedStep
<1>3. QED
  BY <1>1, <1>2, SoundAtStart, SoundStep, SpeaksOn, PTL DEF Spec, ConfirmedIsDone
===============================================================================
