----------------------------- MODULE Branch_proofs -----------------------------
(***************************************************************************)
(* Branch keeps its books.  Sound is inductive whatever calls overlap: the *)
(* tables keep their types, no balance is negative and no loan's columns   *)
(* are torn apart.  On accounts on which no calls overlapped, Calm says    *)
(* that what a thread has read still holds; there a commit leaves the rows *)
(* of Services' RowsAfter, and the books and the statements agree.         *)
(***************************************************************************)
EXTENDS Branch, Services_proofs

-------------------------------------------------------------------------------
(* The inductive invariant of every behaviour *)

HasRead(t) == pc[t] \in {"readAgain", "flush", "commit", "audit"}
HasQueried(t) == pc[t] \in {"commit", "audit"}
HasDecided(t) == pc[t] \in {"flush", "commit", "audit"}
Unwritten(t) == pc[t] \in {"lock", "read", "readAgain", "flush", "commit"}

\* The rows of the tables are sound, and so is every row a thread holds.
SoundTables ==
    /\ \A a \in Accounts : accounts[a].balance >= 0
    /\ \A l \in Loans : SoundLoan(loans[l])
    /\ \A g \in Goals : SoundGoal(goals[g]) /\ goals[g].owner \in Accounts \cup {0}
SoundRows == \A t \in Threads : GoodRows(seen[t]) /\ GoodRows(base[t])

\* Every call is a client's, and a thread that writes has decided to.
Asked == \A t \in Threads : call[t] \in Calls
Planned == \A t \in Threads : HasDecided(t) => Plan(t).ok

\* The owner of a loan or goal and the principal of a loan never change: a row that was
\* read with an owner still has it.
LoanStands(r, l) == r.owner # 0 => loans[l].owner = r.owner /\ loans[l].principal = r.principal
GoalStands(r, g) == r.owner # 0 => goals[g].owner = r.owner
RowsStand(t, rows) == LoanStands(rows.loan, call[t].loan) /\ GoalStands(rows.goal, call[t].goal)
Snapshots ==
    \A t \in Threads : /\ HasRead(t) => RowsStand(t, seen[t])
                       /\ HasQueried(t) => /\ RowsStand(t, base[t])
                                           /\ SameLoan(seen[t].loan, base[t].loan)

\* The id a call is about to create is free, and no other call creates it.
Creates(t) == Unwritten(t) /\ call[t].op = "apply"
Founds(t) == Unwritten(t) /\ call[t].op = "createGoal"
NewIds ==
    /\ \A t \in Threads : /\ Creates(t) => loans[call[t].loan].owner = 0
                          /\ Founds(t) => goals[call[t].goal].owner = 0
    /\ \A t, u \in Threads :
         t # u => /\ Creates(t) /\ Creates(u) => call[t].loan # call[u].loan
                  /\ Founds(t) /\ Founds(u) => call[t].goal # call[u].goal

Sound ==
    TypeOK /\ SoundTables /\ SoundRows /\ Asked /\ Planned /\ Snapshots /\ NewIds
-------------------------------------------------------------------------------
(* The inductive invariant about the accounts on which no calls overlapped *)

\* The stages a call goes through.
Staged ==
    \A t \in Threads : /\ pc[t] = "lock" => call[t].op \in Locking
                       /\ pc[t] = "readAgain" => ReadsTwice(call[t])
                       /\ pc[t] = "audit" => call[t].op \in Audited

\* A thread holds the lock of the account of its deposit or withdrawal, alone.
Locks ==
    /\ \A t \in Threads :
         locked[t] = IF pc[t] \in {"read", "flush", "commit"} /\ call[t].op \in Locking
                     THEN {call[t].acc} ELSE {}
    /\ \A t, u \in Threads : t # u => locked[t] \cap locked[u] = {}

\* Two calls at once on such an account both take its lock.
Alone ==
    \A t, u \in Threads :
        t # u /\ Busy(t) /\ Busy(u) /\ call[t].acc = call[u].acc /\ call[t].acc \notin raced
            => call[t].op \in Locking /\ call[u].op \in Locking

\* A decision on a loan is a decision of its owner's account, a goal is used from its
\* owner's account or everyone concerned is in raced.
Owned ==
    \A t \in Threads : Busy(t) =>
        /\ call[t].op \in {"approve", "reject"} => LoanOwners(call[t].loan) \subseteq {call[t].acc}
        /\ call[t].op \in GoalCalls =>
             \/ GoalOwners(call[t].goal) \subseteq {call[t].acc}
             \/ GoalOwners(call[t].goal) \cup {call[t].acc} \subseteq raced

\* What a thread has read of such an account, its loan or its goal is what is stored.
RowsHold(t, rows) ==
    /\ rows.account = accounts[call[t].acc]
    /\ call[t].op \in LoanCalls /\ loans[call[t].loan].owner = call[t].acc
         => rows.loan = loans[call[t].loan]
    /\ call[t].op \in GoalCalls => rows.goal = goals[call[t].goal]
Current ==
    \A t \in Threads : call[t].acc \notin raced =>
        /\ pc[t] \in {"readAgain", "flush", "commit"} => RowsHold(t, seen[t])
        /\ pc[t] = "commit" => RowsHold(t, base[t])

\* The loans of such accounts are settled.
LoansSettled == \A l \in Loans : loans[l].owner \notin raced => SettledLoan(loans[l])

Calm == Staged /\ Locks /\ Alone /\ Owned /\ Current
Told == MoneyIsKept /\ LoansSettled /\ LoansMatchStatements /\ GoalsAreMarked

Events == Ops \X Accounts \X Loans \X Goals
Tallied ==
    /\ DOMAIN done \subseteq Events /\ DOMAIN audit \subseteq Events
    /\ crashes \in Nat
    /\ \A e \in Events : e[1] \in Audited =>
        /\ Count(audit, e) + Auditing(e) <= Count(done, e)
        /\ crashes = 0 => Count(audit, e) + Auditing(e) = Count(done, e)

-------------------------------------------------------------------------------
(* Sound is inductive *)

LEMMA CallsAreGood ==
  ASSUME NEW c \in Calls
  PROVE  c \in Call /\ GoodCall(c)
<1>1. c \in Call /\ (c.op \in {"profile", "password", "updateGoal"} => c.value >= 0)
  BY BranchAssumption
<1>2. /\ c.op \in Ops /\ c.acc \in Accounts /\ c.value \in Int /\ c.terms \in Terms
      /\ c.loan \in Loans /\ c.goal \in Goals
  BY <1>1 DEF Call
<1>3. c.acc \in Nat /\ c.acc # 0
  BY <1>2, BranchAssumption
<1>4. QED
  BY <1>1, <1>2, <1>3 DEF GoodCall

LEMMA CallColumns ==
  ASSUME NEW c \in Call
  PROVE  /\ c.op \in Ops /\ c.acc \in Accounts /\ c.loan \in Loans /\ c.goal \in Goals
         /\ c.acc \in Nat /\ c.acc # 0
<1>1. /\ c.op \in Ops /\ c.acc \in Accounts /\ c.loan \in Loans /\ c.goal \in Goals
  BY DEF Call
<1>2. QED
  BY <1>1, BranchAssumption

\* The rows a call reads are sound, and they stand.
LEMMA RowsRead ==
  ASSUME Sound, NEW t \in Threads
  PROVE  /\ RowsOf(call[t]) \in Rows /\ GoodRows(RowsOf(call[t]))
         /\ RowsStand(t, RowsOf(call[t]))
<1>1. /\ call[t].acc \in Accounts /\ call[t].loan \in Loans /\ call[t].goal \in Goals
  BY CallColumns DEF Sound, TypeOK
<1>2. /\ accounts[call[t].acc] \in AccountRow /\ loans[call[t].loan] \in LoanRow
      /\ goals[call[t].goal] \in GoalRow
  BY <1>1 DEF Sound, TypeOK
<1> DEFINE rows == RowsOf(call[t])
<1>3. /\ rows = [account |-> rows.account, loan |-> rows.loan, goal |-> rows.goal]
      /\ rows.account = accounts[call[t].acc] /\ rows.loan = loans[call[t].loan]
      /\ rows.goal = goals[call[t].goal]
  BY DEF RowsOf
<1> HIDE DEF rows
<1>4. rows \in Rows
  BY <1>2, <1>3 DEF Rows
<1>5. GoodRows(rows)
  BY <1>1, <1>2, <1>3 DEF Sound, SoundTables, GoodRows
<1>6. RowsStand(t, rows)
  BY <1>3 DEF RowsStand, LoanStands, GoalStands
<1>7. QED
  BY <1>4, <1>5, <1>6 DEF rows

\* The rows of an idle thread.
LEMMA NoRowsGood == NoRows \in Rows /\ GoodRows(NoRows)
<1>1. /\ NoCall.acc \in Accounts /\ NoCall.loan \in Loans /\ NoCall.goal \in Goals
  BY BranchAssumption, CallsAreGood, CallColumns DEF NoCall
<1> DEFINE n == NoRows
<1>2. /\ n = [account |-> n.account, loan |-> n.loan, goal |-> n.goal]
      /\ n.account = OpeningAccounts[NoCall.acc] /\ n.loan = OpeningLoans[NoCall.loan]
      /\ n.goal = OpeningGoals[NoCall.goal]
  BY DEF NoRows
<1> HIDE DEF n
<1>3. n.account \in AccountRow /\ n.loan \in LoanRow /\ n.goal \in GoalRow
  BY <1>1, <1>2, BranchAssumption
<1>4. n \in Rows /\ GoodRows(n)
  BY <1>1, <1>2, <1>3, BranchAssumption DEF Rows, GoodRows
<1>5. QED
  BY <1>4 DEF n

LEMMA InitSound == Init => Sound
<1> SUFFICES ASSUME Init PROVE Sound
  OBVIOUS
<1>1. NoCall \in Calls /\ NoCall \in Call
  BY BranchAssumption, CallsAreGood DEF NoCall
<1>3. /\ OpeningAccounts \in [Accounts -> AccountRow] /\ OpeningLoans \in [Loans -> LoanRow]
      /\ OpeningGoals \in [Goals -> GoalRow]
      /\ \A a \in Accounts : OpeningAccounts[a].balance >= 0
      /\ \A l \in Loans : SoundLoan(OpeningLoans[l])
      /\ \A g \in Goals : OpeningGoals[g].owner \in Accounts \cup {0} /\ SoundGoal(OpeningGoals[g])
  BY BranchAssumption
<1> DEFINE n == NoRows
<1>4. n \in Rows /\ GoodRows(n)
  BY NoRowsGood
<1> HIDE DEF n
<1>5. /\ pc = [t \in Threads |-> "idle"] /\ call = [t \in Threads |-> NoCall]
      /\ seen = [t \in Threads |-> n] /\ base = [t \in Threads |-> n]
  BY DEF Init, n
<1>6. TypeOK
  BY <1>1, <1>3, <1>4, <1>5 DEF Init, TypeOK, Stages
<1>7. SoundTables /\ SoundRows
  BY <1>3, <1>4, <1>5 DEF Init, SoundTables, SoundRows
<1>8. Asked /\ Planned /\ Snapshots /\ NewIds
  BY <1>1, <1>5 DEF Asked, Planned, Snapshots, NewIds, HasDecided, HasRead, HasQueried,
     Creates, Founds, Unwritten
<1>9. QED
  BY <1>6, <1>7, <1>8 DEF Sound

\* What Sound says of a thread at a stage with the rows it holds.
ThreadSound(u, stage, s, b) ==
    /\ GoodRows(s) /\ GoodRows(b)
    /\ stage \in {"readAgain", "flush", "commit", "audit"} => RowsStand(u, s)
    /\ stage \in {"commit", "audit"} => RowsStand(u, b) /\ SameLoan(s.loan, b.loan)
    /\ stage \in {"flush", "commit", "audit"} => Decision(call[u], s).ok
WritesLater(stage) == stage \in {"lock", "read", "readAgain", "flush", "commit"}

LEMMA ThreadsSound ==
  ASSUME Sound, NEW u \in Threads
  PROVE  ThreadSound(u, pc[u], seen[u], base[u])
BY DEF Sound, SoundRows, Planned, Plan, Snapshots, HasRead, HasQueried, HasDecided, ThreadSound

\* A step that leaves the tables and the calls alone.
LEMMA SoundKept ==
  ASSUME Sound, TypeOK', UNCHANGED <<tables, call>>,
         \A u \in Threads : /\ ThreadSound(u, pc'[u], seen'[u], base'[u])
                            /\ WritesLater(pc'[u]) => WritesLater(pc[u])
  PROVE  Sound'
<1>1. SoundTables' /\ Asked'
  BY DEF Sound, SoundTables, Asked, tables
<1>2. SoundRows' /\ Planned' /\ Snapshots'
  <2>1. SoundRows' /\ Planned'
    BY DEF SoundRows, Planned, Plan, HasDecided, ThreadSound
  <2>2. ASSUME NEW u \in Threads
        PROVE  /\ HasRead(u)' => RowsStand(u, seen[u])'
               /\ HasQueried(u)' => RowsStand(u, base[u])' /\ SameLoan(seen[u].loan, base[u].loan)'
    <3>1. ThreadSound(u, pc'[u], seen'[u], base'[u])
      OBVIOUS
    <3>2. /\ pc'[u] \in {"readAgain", "flush", "commit", "audit"} => RowsStand(u, seen'[u])
          /\ pc'[u] \in {"commit", "audit"} =>
               RowsStand(u, base'[u]) /\ SameLoan(seen'[u].loan, base'[u].loan)
      BY <3>1 DEF ThreadSound
    <3>3. /\ RowsStand(u, seen[u])' <=> RowsStand(u, seen'[u])
          /\ RowsStand(u, base[u])' <=> RowsStand(u, base'[u])
      BY DEF RowsStand, LoanStands, GoalStands, tables
    <3>4. QED
      BY <3>2, <3>3 DEF HasRead, HasQueried, SameLoan
  <2>3. QED
    BY <2>1, <2>2 DEF Snapshots
<1>3. NewIds'
  BY DEF Sound, NewIds, Creates, Founds, Unwritten, WritesLater, tables
<1>4. QED
  BY <1>1, <1>2, <1>3 DEF Sound

LEMMA FinishTypes ==
  ASSUME TypeOK, NEW t \in Threads, NEW say, Finish(t, say)
  PROVE  /\ pc' \in [Threads -> Stages] /\ locked' \in [Threads -> SUBSET Accounts]
         /\ seen' \in [Threads -> Rows] /\ base' \in [Threads -> Rows]
BY NoRowsGood DEF Finish, Goto, TypeOK, Stages

\* A call that ends without a commit.
LEMMA FinishSound ==
  ASSUME Sound, NEW t \in Threads, NEW say, Finish(t, say), TypeOK', UNCHANGED <<tables, call>>
  PROVE  Sound'
<1>1. ASSUME NEW u \in Threads
      PROVE  /\ ThreadSound(u, pc'[u], seen'[u], base'[u])
             /\ WritesLater(pc'[u]) => WritesLater(pc[u])
  <2>1. CASE u = t
    <3>1. pc'[u] = "idle" /\ seen'[u] = NoRows /\ base'[u] = NoRows
      BY <2>1 DEF Sound, TypeOK, Finish, Goto
    <3>2. QED
      BY <3>1, NoRowsGood DEF ThreadSound, WritesLater
  <2>2. CASE u # t
    <3>1. pc'[u] = pc[u] /\ seen'[u] = seen[u] /\ base'[u] = base[u]
      BY <2>2 DEF Sound, TypeOK, Finish, Goto
    <3>2. QED
      BY <3>1, ThreadsSound
  <2>3. QED
    BY <2>1, <2>2
<1>2. QED
  BY <1>1, SoundKept

LEMMA LearnSound ==
  ASSUME Sound, NEW t \in Threads, NEW rows, rows \in Rows, GoodRows(rows), RowsStand(t, rows),
         Learn(t, rows), NEW stage \in {"readAgain", "flush"}, Proceed(t, stage),
         stage = "flush" => Decision(call[t], rows).ok,
         pc[t] \in {"read", "readAgain"}, TypeOK', UNCHANGED <<tables, call>>
  PROVE  Sound'
<1>1. ASSUME NEW u \in Threads
      PROVE  /\ ThreadSound(u, pc'[u], seen'[u], base'[u])
             /\ WritesLater(pc'[u]) => WritesLater(pc[u])
  <2>0. ThreadSound(u, pc[u], seen[u], base[u])
    BY ThreadsSound
  <2>1. CASE u = t
    <3>1. pc'[u] = stage /\ seen'[u] = rows /\ base'[u] = base[u]
      BY <2>1 DEF Sound, TypeOK, Learn, Proceed, Goto
    <3>2. QED
      BY <2>0, <2>1, <3>1 DEF ThreadSound, WritesLater
  <2>2. CASE u # t
    <3>1. pc'[u] = pc[u] /\ seen'[u] = seen[u] /\ base'[u] = base[u]
      BY <2>2 DEF Sound, TypeOK, Learn, Proceed, Goto
    <3>2. QED
      BY <2>0, <3>1
  <2>3. QED
    BY <2>1, <2>2
<1>2. QED
  BY <1>1, SoundKept

LEMMA LearnTypes ==
  ASSUME TypeOK, NEW t \in Threads, NEW rows \in Rows, Learn(t, rows),
         NEW stage \in {"readAgain", "flush"}, Proceed(t, stage)
  PROVE  /\ pc' \in [Threads -> Stages] /\ locked' \in [Threads -> SUBSET Accounts]
         /\ seen' \in [Threads -> Rows] /\ base' \in [Threads -> Rows]
BY DEF Learn, Proceed, Goto, TypeOK, Stages

LEMMA DecideSound ==
  ASSUME Sound, NEW t \in Threads, NEW rows \in Rows, GoodRows(rows), RowsStand(t, rows),
         Decide(t, rows), pc[t] \in {"read", "readAgain"},
         UNCHANGED <<tables, audit, call, poisoned, boundVars, history>>
  PROVE  Sound'
<1>1. CASE Decision(call[t], rows).ok /\ Learn(t, rows) /\ Proceed(t, "flush")
  <2>1. TypeOK'
    BY <1>1, LearnTypes DEF Sound, TypeOK, tables, history
  <2>2. QED
    BY <1>1, <2>1, LearnSound
<1>2. CASE Finish(t, Decision(call[t], rows).say)
  <2>1. TypeOK'
    BY <1>2, FinishTypes DEF Sound, TypeOK, tables, history
  <2>2. QED
    BY <1>2, <2>1, FinishSound
<1>3. QED
  BY <1>1, <1>2 DEF Decide

LEMMA ReadSound == ASSUME Sound, NEW t \in Threads, Read(t) PROVE Sound'
<1> DEFINE rows == RowsOf(call[t])
<1>1. rows \in Rows /\ GoodRows(rows) /\ RowsStand(t, rows)
  BY RowsRead
<1> HIDE DEF rows
<1>2. pc[t] = "read" /\ UNCHANGED <<tables, audit, call, poisoned, boundVars, history>>
  BY DEF Read
<1>3. CASE Finish(t, "error")
  <2>1. TypeOK'
    BY <1>2, <1>3, FinishTypes DEF Sound, TypeOK, tables, history
  <2>2. QED
    BY <1>2, <1>3, <2>1, FinishSound
<1>4. CASE Learn(t, rows) /\ Proceed(t, "readAgain")
  <2>1. TypeOK'
    BY <1>1, <1>2, <1>4, LearnTypes DEF Sound, TypeOK, tables, history
  <2>2. QED
    BY <1>1, <1>2, <1>4, <2>1, LearnSound
<1>5. CASE Decide(t, rows)
  BY <1>1, <1>2, <1>5, DecideSound
<1>6. QED
  BY <1>3, <1>4, <1>5 DEF Read, rows

LEMMA ReadAgainSound == ASSUME Sound, NEW t \in Threads, ReadAgain(t) PROVE Sound'
<1> DEFINE now == RowsOf(call[t])
           rows == IF call[t].op = "contribute" THEN [seen[t] EXCEPT !.goal = now.goal]
                   ELSE [seen[t] EXCEPT !.account = now.account]
<1>1. now \in Rows /\ GoodRows(now) /\ RowsStand(t, now)
  BY RowsRead
<1>2. /\ pc[t] = "readAgain" /\ UNCHANGED <<tables, audit, call, poisoned, boundVars, history>>
      /\ Decide(t, rows)
  BY DEF ReadAgain
<1>3. seen[t] \in Rows /\ GoodRows(seen[t]) /\ RowsStand(t, seen[t])
  BY <1>2, ThreadsSound DEF Sound, TypeOK, ThreadSound
<1> HIDE DEF now
<1>4. /\ rows.account \in {now.account, seen[t].account} /\ rows.loan = seen[t].loan
      /\ rows.goal \in {now.goal, seen[t].goal} /\ rows \in Rows
  BY <1>1, <1>3 DEF Rows
<1> HIDE DEF rows
<1>5. GoodRows(rows) /\ RowsStand(t, rows)
  BY <1>1, <1>3, <1>4 DEF GoodRows, RowsStand
<1>6. QED
  BY <1>2, <1>4, <1>5, DecideSound

LEMMA FlushSound == ASSUME Sound, NEW t \in Threads, Flush(t) PROVE Sound'
<1> DEFINE rows == RowsOf(call[t])
<1>1. rows \in Rows /\ GoodRows(rows) /\ RowsStand(t, rows)
  BY RowsRead
<1>2. rows.loan = loans[call[t].loan]
  BY DEF RowsOf
<1>3. /\ pc[t] = "flush" /\ base' = [base EXCEPT ![t] = rows]
      /\ pc' = [pc EXCEPT ![t] = "commit"]
      /\ UNCHANGED <<tables, audit, call, seen, locked, poisoned, reply, boundVars, history>>
  BY DEF Flush, Goto
<1> HIDE DEF rows
<1>4. TypeOK'
  BY <1>1, <1>3 DEF Sound, TypeOK, Stages, tables, history
<1>5. ASSUME NEW u \in Threads
      PROVE  /\ ThreadSound(u, pc'[u], seen'[u], base'[u])
             /\ WritesLater(pc'[u]) => WritesLater(pc[u])
  <2>0. ThreadSound(u, pc[u], seen[u], base[u])
    BY ThreadsSound
  <2>1. CASE u = t
    <3>1. pc'[u] = "commit" /\ seen'[u] = seen[u] /\ base'[u] = rows
      BY <1>3, <2>1 DEF Sound, TypeOK
    <3>2. SameLoan(seen[u].loan, rows.loan)
      BY <1>2, <1>3, <2>0, <2>1 DEF ThreadSound, RowsStand, LoanStands, SameLoan
    <3>3. QED
      BY <1>1, <1>3, <2>0, <2>1, <3>1, <3>2 DEF ThreadSound, WritesLater
  <2>2. CASE u # t
    <3>1. pc'[u] = pc[u] /\ seen'[u] = seen[u] /\ base'[u] = base[u]
      BY <1>3, <2>2 DEF Sound, TypeOK
    <3>2. QED
      BY <2>0, <3>1
  <2>3. QED
    BY <2>1, <2>2
<1>6. QED
  BY <1>3, <1>4, <1>5, SoundKept

LEMMA LockSound == ASSUME Sound, NEW t \in Threads, Lock(t) PROVE Sound'
<1>1. /\ pc[t] = "lock" /\ pc' = [pc EXCEPT ![t] = "read"]
      /\ locked' = [locked EXCEPT ![t] = {call[t].acc}]
      /\ UNCHANGED <<tables, audit, call, seen, base, poisoned, history>>
  BY DEF Lock, Goto
<1>2. TypeOK'
  <2>1. call[t].acc \in Accounts
    BY CallColumns DEF Sound, TypeOK
  <2>2. QED
    BY <1>1, <2>1 DEF Sound, TypeOK, Stages, tables, history
<1>3. ASSUME NEW u \in Threads
      PROVE  /\ ThreadSound(u, pc'[u], seen'[u], base'[u])
             /\ WritesLater(pc'[u]) => WritesLater(pc[u])
  <2>0. ThreadSound(u, pc[u], seen[u], base[u])
    BY ThreadsSound
  <2>1. pc'[u] = IF u = t THEN "read" ELSE pc[u]
    BY <1>1 DEF Sound, TypeOK
  <2>2. QED
    BY <1>1, <2>0, <2>1 DEF ThreadSound, WritesLater
<1>4. QED
  BY <1>1, <1>2, <1>3, SoundKept

LEMMA CommitFailsSound == ASSUME Sound, NEW t \in Threads, CommitFails(t) PROVE Sound'
<1>1. /\ Finish(t, "error") /\ UNCHANGED <<tables, audit, call, boundVars, history>>
      /\ poisoned' = [poisoned EXCEPT ![t] = TRUE]
  BY DEF CommitFails
<1>2. TypeOK'
  BY <1>1, FinishTypes DEF Sound, TypeOK, tables, history
<1>3. QED
  BY <1>1, <1>2, FinishSound

\* Tallying keeps a bag.
LEMMA TallyCounts ==
  ASSUME NEW bag, bag \in [DOMAIN bag -> Nat], NEW e
  PROVE  /\ Tally(bag, e) \in [DOMAIN Tally(bag, e) -> Nat]
         /\ DOMAIN Tally(bag, e) = DOMAIN bag \cup {e}
         /\ \A x : Count(Tally(bag, e), x) = Count(bag, x) + (IF x = e THEN 1 ELSE 0)
         /\ \A x : Count(bag, x) \in Nat
<1>1. CASE e \in DOMAIN bag
  BY <1>1 DEF Tally, Count
<1>2. CASE e \notin DOMAIN bag
  BY <1>2 DEF Tally, Count
<1>3. QED
  BY <1>1, <1>2

LEMMA AuditSound == ASSUME Sound, NEW t \in Threads, Audit(t) PROVE Sound'
<1>1. /\ Finish(t, "done") /\ UNCHANGED <<tables, call, poisoned, boundVars, history>>
      /\ audit' = Tally(audit, EventOf(t))
  BY DEF Audit
<1>2. audit' \in [DOMAIN audit' -> Nat]
  BY <1>1, TallyCounts DEF Sound, TypeOK
<1>3. TypeOK'
  BY <1>1, <1>2, FinishTypes DEF Sound, TypeOK, tables, history
<1>4. QED
  BY <1>1, <1>3, FinishSound

LEMMA CrashSound == ASSUME Sound, Crash PROVE Sound'
<1>1. /\ pc' = [t \in Threads |-> "idle"] /\ locked' = [t \in Threads |-> {}]
      /\ poisoned' = [t \in Threads |-> FALSE]
      /\ seen' = [t \in Threads |-> NoRows] /\ base' = [t \in Threads |-> NoRows]
      /\ UNCHANGED <<tables, audit, call, history>>
  BY DEF Crash
<1>2. TypeOK'
  BY <1>1, NoRowsGood DEF Sound, TypeOK, Stages, tables, history
<1>3. ASSUME NEW u \in Threads
      PROVE  /\ ThreadSound(u, pc'[u], seen'[u], base'[u])
             /\ WritesLater(pc'[u]) => WritesLater(pc[u])
  BY <1>1, NoRowsGood DEF ThreadSound, WritesLater
<1>4. QED
  BY <1>1, <1>2, <1>3, SoundKept

LEMMA StutterSound == ASSUME Sound, UNCHANGED vars PROVE Sound'
<1>1. TypeOK'
  BY DEF Sound, TypeOK, vars, tables, threadVars, history
<1>2. UNCHANGED <<tables, call, pc, seen, base>>
  BY DEF vars, threadVars
<1>3. QED
  BY <1>1, <1>2, SoundKept, ThreadsSound

LEMMA SubmitSound ==
  ASSUME Sound, NEW t \in Threads, NEW c \in Calls, Submit(t, c)
  PROVE  Sound'
<1>1. /\ pc[t] = "idle" /\ FreshId(c) /\ call' = [call EXCEPT ![t] = c]
      /\ pc' = [pc EXCEPT ![t] = IF TakesLock(c) THEN "lock" ELSE "read"]
      /\ done' = done /\ UNCHANGED <<tables, audit, seen, base, locked, poisoned>>
      /\ raced' = raced \cup Mixed(c)
            \cup IF \E u \in Threads : Busy(u) /\ Overlap(call[u], c) THEN {c.acc} ELSE {}
  BY DEF Submit, Goto
<1>2. /\ c \in Call /\ c.acc \in Accounts /\ c.loan \in Loans /\ c.goal \in Goals
  BY CallsAreGood, CallColumns
<1>3. \A u \in Threads : /\ pc'[u] = IF u = t THEN IF TakesLock(c) THEN "lock" ELSE "read"
                                     ELSE pc[u]
                         /\ call'[u] = IF u = t THEN c ELSE call[u]
  BY <1>1 DEF Sound, TypeOK
<1>4. TypeOK'
  <2>1. Mixed(c) \subseteq Accounts
    <3>1. \A u \in Threads : call[u].acc \in Accounts
      BY CallColumns DEF Sound, TypeOK
    <3>2. \A g \in Goals : goals[g].owner \in Accounts \cup {0}
      BY DEF Sound, SoundTables
    <3>3. QED
      BY <1>2, <3>1, <3>2 DEF Mixed, GoalOwners
  <2>2. raced' \subseteq Accounts
    BY <1>1, <1>2, <2>1 DEF Sound, TypeOK
  <2>3. QED
    BY <1>1, <1>2, <2>2 DEF Sound, TypeOK, Stages, tables
<1>5. SoundTables' /\ SoundRows' /\ Asked'
  BY <1>1, <1>3 DEF Sound, SoundTables, SoundRows, Asked, tables
<1>6. Planned' /\ Snapshots'
  BY <1>1, <1>3 DEF Sound, Planned, Plan, Snapshots, HasDecided, HasRead, HasQueried, RowsStand,
     LoanStands, GoalStands, tables
<1>7. NewIds'
  <2>1. c.op = "apply" => /\ loans[c.loan].owner = 0
                          /\ \A u \in Threads : ~(Creates(u) /\ call[u].loan = c.loan)
    BY <1>1 DEF FreshId, OnLoan, Busy, Creates, Unwritten, LoanCalls
  <2>2. c.op = "createGoal" => /\ goals[c.goal].owner = 0
                               /\ \A u \in Threads : ~(Founds(u) /\ call[u].goal = c.goal)
    BY <1>1 DEF FreshId, OnGoal, Busy, Founds, Unwritten, GoalCalls
  <2>3. \A u \in Threads : /\ Creates(u)' => IF u = t THEN c.op = "apply" ELSE Creates(u)
                           /\ Founds(u)' => IF u = t THEN c.op = "createGoal" ELSE Founds(u)
    BY <1>3 DEF Creates, Founds, Unwritten
  <2>4. NewIds
    BY DEF Sound
  <2>5. \A u \in Threads : /\ Creates(u)' => loans'[call'[u].loan].owner = 0
                           /\ Founds(u)' => goals'[call'[u].goal].owner = 0
    BY <1>1, <1>3, <2>1, <2>2, <2>3, <2>4 DEF NewIds, tables
  <2>6. ASSUME NEW u \in Threads, NEW v \in Threads, u # v
        PROVE  /\ Creates(u)' /\ Creates(v)' => call'[u].loan # call'[v].loan
               /\ Founds(u)' /\ Founds(v)' => call'[u].goal # call'[v].goal
    BY <1>3, <2>1, <2>2, <2>3, <2>4, <2>6 DEF NewIds
  <2>7. QED
    BY <2>5, <2>6 DEF NewIds
<1>8. QED
  BY <1>4, <1>5, <1>6, <1>7 DEF Sound

\* What a commit finds, plans and leaves in the rows of its call.
LEMMA CommitLeaves ==
  ASSUME Sound, NEW t \in Threads, Commit(t)
  PROVE  LET c == call[t]
             w == Writes(t)
             rows == seen[t]
             b == base[t]
         IN  /\ c \in Call /\ GoodCall(c) /\ GoodRows(rows) /\ GoodRows(b) /\ PlanIs(c, rows, w)
             /\ accounts' = [accounts EXCEPT ![c.acc] =
                    IF b.account.deleted THEN accounts[c.acc]
                    ELSE UpdateRow(w.account, b.account, accounts[c.acc])]
             /\ loans' = [loans EXCEPT ![c.loan] = UpdateRow(w.loan, b.loan, loans[c.loan])]
             /\ goals' = [goals EXCEPT ![c.goal] = GoalAfter(c, w, b.goal, goals[c.goal])]
             /\ statements' = [statements EXCEPT ![c.acc] = statements[c.acc] \o w.entries]
             /\ LoanLeft(c, loans[c.loan], loans'[c.loan])
             /\ GoalLeft(c, goals[c.goal], goals'[c.goal])
<1> DEFINE c == call[t]
           w == Writes(t)
           rows == seen[t]
           b == base[t]
<1>1. pc[t] = "commit" /\ c \in Calls
  BY DEF Commit, Sound, Asked
<1>2. c \in Call /\ GoodCall(c) /\ c.acc \in Accounts /\ c.loan \in Loans /\ c.goal \in Goals
  BY <1>1, CallsAreGood, CallColumns
<1>3. /\ GoodRows(rows) /\ GoodRows(b) /\ RowsStand(t, rows) /\ RowsStand(t, b)
      /\ SameLoan(rows.loan, b.loan) /\ Decision(c, rows).ok
  BY <1>1, ThreadsSound DEF ThreadSound
<1>4. PlanIs(c, rows, w)
  BY <1>2, <1>3, AcceptedPlan DEF Writes, Plan
<1>5. /\ accounts' = [accounts EXCEPT ![c.acc] =
             IF b.account.deleted THEN accounts[c.acc]
             ELSE UpdateRow(w.account, b.account, accounts[c.acc])]
      /\ loans' = [loans EXCEPT ![c.loan] = UpdateRow(w.loan, b.loan, loans[c.loan])]
      /\ statements' = [statements EXCEPT ![c.acc] = statements[c.acc] \o w.entries]
  BY DEF Commit, CommitAccount, CommitLoan
<1>6. goals' = [goals EXCEPT ![c.goal] = GoalAfter(c, w, b.goal, goals[c.goal])]
  BY DEF Commit, CommitGoal, GoalAfter
<1>7. /\ loans \in [Loans -> LoanRow] /\ goals \in [Goals -> GoalRow]
      /\ SoundLoan(loans[c.loan]) /\ SoundGoal(goals[c.goal])
  BY <1>2 DEF Sound, TypeOK, SoundTables
<1>8. /\ c.op = "apply" => loans[c.loan].owner = 0
      /\ c.op = "createGoal" => goals[c.goal].owner = 0
  BY <1>1 DEF Sound, NewIds, Creates, Founds, Unwritten
<1>9. /\ rows.loan.owner # 0 => /\ loans[c.loan].owner = rows.loan.owner
                                /\ loans[c.loan].principal = rows.loan.principal
      /\ b.loan.owner # 0 => /\ loans[c.loan].owner = b.loan.owner
                             /\ loans[c.loan].principal = b.loan.principal
      /\ b.goal.owner # 0 => goals[c.goal].owner = b.goal.owner
  BY <1>3 DEF RowsStand, LoanStands, GoalStands
<1>10. /\ b.loan \in LoanRow /\ SoundLoan(b.loan) /\ b.goal \in GoalRow /\ SoundGoal(b.goal)
       /\ loans[c.loan] \in LoanRow /\ goals[c.goal] \in GoalRow
  BY <1>2, <1>3, <1>7 DEF GoodRows
<1>11. loans'[c.loan] = UpdateRow(w.loan, b.loan, loans[c.loan])
  BY <1>2, <1>5, <1>7
<1>12. goals'[c.goal] = GoalAfter(c, w, b.goal, goals[c.goal])
  BY <1>2, <1>6, <1>7
<1> HIDE DEF c, w, rows, b
<1>13. LoanLeft(c, loans[c.loan], UpdateRow(w.loan, b.loan, loans[c.loan]))
  <2>1. LoanReady(c, rows, w, b.loan, loans[c.loan])
    BY <1>2, <1>3, <1>4, <1>7, <1>8, <1>9, <1>10, Zenon DEF LoanReady
  <2>2. QED
    BY <2>1, LoanCommitted, Zenon
<1>14. GoalLeft(c, goals[c.goal], GoalAfter(c, w, b.goal, goals[c.goal]))
  <2>1. GoalReady(c, rows, w, b.goal, goals[c.goal])
    BY <1>2, <1>3, <1>4, <1>7, <1>8, <1>9, <1>10, Zenon DEF GoalReady
  <2>2. QED
    BY <2>1, GoalCommitted, Zenon
<1>15. QED
  BY <1>2, <1>3, <1>4, <1>5, <1>6, <1>11, <1>12, <1>13, <1>14 DEF c, w, rows, b

LEMMA CommitSound == ASSUME Sound, NEW t \in Threads, Commit(t) PROVE Sound'
<1> DEFINE c == call[t]
           w == Writes(t)
           rows == seen[t]
           b == base[t]
           l == c.loan
           g == c.goal
<1>1. /\ c \in Call /\ GoodCall(c) /\ GoodRows(rows) /\ GoodRows(b) /\ PlanIs(c, rows, w)
      /\ accounts' = [accounts EXCEPT ![c.acc] =
             IF b.account.deleted THEN accounts[c.acc]
             ELSE UpdateRow(w.account, b.account, accounts[c.acc])]
      /\ loans' = [loans EXCEPT ![l] = UpdateRow(w.loan, b.loan, loans[l])]
      /\ goals' = [goals EXCEPT ![g] = GoalAfter(c, w, b.goal, goals[g])]
      /\ statements' = [statements EXCEPT ![c.acc] = statements[c.acc] \o w.entries]
      /\ LoanLeft(c, loans[l], loans'[l]) /\ GoalLeft(c, goals[g], goals'[g])
  BY CommitLeaves
<1>2. c.acc \in Accounts /\ l \in Loans /\ g \in Goals /\ c.acc \in Nat /\ c.acc # 0
  BY <1>1, CallColumns
<1>3. TypedPlan(w) /\ MoneyPlan(c, rows, w)
  BY <1>1, PlanTyped, PlanMoney
<1>4. /\ pc[t] = "commit" /\ UNCHANGED <<audit, call, poisoned, raced>>
      /\ versions' = IF w.bumps THEN [versions EXCEPT ![c.acc] = @ + 1] ELSE versions
      /\ done' = Tally(done, EventOf(t))
      /\ \/ Proceed(t, "audit") /\ UNCHANGED <<seen, base>>
         \/ Finish(t, "done")
  BY DEF Commit, boundVars
<1> HIDE DEF w, c, rows, b, l, g
<1>5. /\ \A a \in Accounts : /\ accounts'[a] \in AccountRow /\ accounts'[a].balance >= 0
      /\ accounts' \in [Accounts -> AccountRow]
  <2> DEFINE r == accounts[c.acc]
             new == UpdateRow(w.account, b.account, r)
  <2>1. r \in AccountRow /\ r.balance >= 0 /\ w.account \in AccountWrites
    BY <1>2, <1>3 DEF Sound, TypeOK, SoundTables, TypedPlan
  <2>2. new \in AccountRow /\ new.balance \in
          {r.balance} \cup (IF "balance" \in DOMAIN w.account THEN {w.account.balance} ELSE {})
    BY <2>1, AccountRowKept
  <2>3. "balance" \in DOMAIN w.account => w.account.balance >= 0
    BY <1>3 DEF MoneyPlan, Balance
  <2>4. new \in AccountRow /\ new.balance >= 0
    BY <2>1, <2>2, <2>3
  <2> HIDE DEF new
  <2>5. accounts' = [accounts EXCEPT ![c.acc] = IF b.account.deleted THEN r ELSE new]
    BY <1>1 DEF new
  <2>6. QED
    BY <1>2, <2>1, <2>4, <2>5 DEF Sound, TypeOK, SoundTables
<1>6. /\ loans' \in [Loans -> LoanRow]
      /\ \A k \in Loans : SoundLoan(loans'[k]) /\ (k # l => loans'[k] = loans[k])
  <2>1. loans' = [loans EXCEPT ![l] = loans'[l]]
    BY <1>1, <1>2 DEF Sound, TypeOK
  <2>2. loans'[l] \in LoanRow /\ SoundLoan(loans'[l])
    BY <1>1 DEF LoanLeft
  <2>3. \A k \in Loans : k # l => loans'[k] = loans[k]
    BY <1>1 DEF Sound, TypeOK
  <2>4. QED
    BY <1>2, <2>1, <2>2, <2>3 DEF Sound, TypeOK, SoundTables
<1>7. /\ goals' \in [Goals -> GoalRow]
      /\ \A k \in Goals : SoundGoal(goals'[k]) /\ (k # g => goals'[k] = goals[k])
      /\ \A k \in Goals : goals'[k].owner \in Accounts \cup {0}
  <2>1. goals' = [goals EXCEPT ![g] = goals'[g]]
    BY <1>1, <1>2 DEF Sound, TypeOK
  <2>2. /\ goals'[g] \in GoalRow /\ SoundGoal(goals'[g])
        /\ goals'[g].owner \in {c.acc, goals[g].owner}
    BY <1>1 DEF GoalLeft
  <2>3. \A k \in Goals : k # g => goals'[k] = goals[k]
    BY <1>1 DEF Sound, TypeOK
  <2>4. QED
    BY <1>2, <2>1, <2>2, <2>3 DEF Sound, TypeOK, SoundTables
<1>8. TypeOK'
  <2>1. statements' \in [Accounts -> Seq(Transaction)]
    <3>1. statements[c.acc] \o w.entries \in Seq(Transaction)
      BY <1>2, <1>3, StatementGrows DEF Sound, TypeOK, TypedPlan
    <3>2. QED
      BY <1>1, <3>1 DEF Sound, TypeOK
  <2>2. versions' \in [Accounts -> Nat]
    BY <1>2, <1>4 DEF Sound, TypeOK
  <2>3. done' \in [DOMAIN done' -> Nat]
    BY <1>4, TallyCounts DEF Sound, TypeOK
  <2>4. /\ pc' \in [Threads -> Stages] /\ locked' \in [Threads -> SUBSET Accounts]
        /\ seen' \in [Threads -> Rows] /\ base' \in [Threads -> Rows]
    <3>1. CASE Proceed(t, "audit") /\ UNCHANGED <<seen, base>>
      BY <3>1 DEF Sound, TypeOK, Proceed, Goto, Stages
    <3>2. CASE Finish(t, "done")
      BY <3>2, FinishTypes DEF Sound
    <3>3. QED
      BY <1>4, <3>1, <3>2
  <2>5. QED
    BY <1>4, <1>5, <1>6, <1>7, <2>1, <2>2, <2>3, <2>4 DEF Sound, TypeOK
<1>9. SoundTables' /\ Asked'
  BY <1>4, <1>5, <1>6, <1>7 DEF Sound, SoundTables, Asked
<1>10. ASSUME NEW u \in Threads
       PROVE  /\ pc'[u] = IF u = t THEN pc'[t] ELSE pc[u]
              /\ pc'[t] \in {"idle", "audit"}
              /\ \/ seen'[u] = seen[u] /\ base'[u] = base[u]
                 \/ u = t /\ pc'[u] = "idle"
              /\ GoodRows(seen'[u]) /\ GoodRows(base'[u])
  <2>1. GoodRows(seen[u]) /\ GoodRows(base[u])
    BY DEF Sound, SoundRows
  <2>2. CASE Proceed(t, "audit") /\ UNCHANGED <<seen, base>>
    <3>1. /\ pc'[t] = "audit" /\ pc'[u] = IF u = t THEN "audit" ELSE pc[u]
          /\ seen'[u] = seen[u] /\ base'[u] = base[u]
      BY <2>2 DEF Sound, TypeOK, Proceed, Goto
    <3>2. QED
      BY <2>1, <3>1
  <2>3. CASE Finish(t, "done")
    <3>1. /\ pc'[t] = "idle" /\ pc'[u] = IF u = t THEN "idle" ELSE pc[u]
          /\ seen'[u] = IF u = t THEN NoRows ELSE seen[u]
          /\ base'[u] = IF u = t THEN NoRows ELSE base[u]
      BY <2>3 DEF Sound, TypeOK, Finish, Goto
    <3>2. QED
      BY <2>1, <3>1, NoRowsGood
  <2>4. QED
    BY <1>4, <2>2, <2>3
<1>11. SoundRows'
  BY <1>10 DEF SoundRows
<1>12. Planned'
  BY <1>4, <1>10 DEF Sound, Planned, Plan, HasDecided
<1>13. /\ \A k \in Loans : loans[k].owner # 0 =>
              loans'[k].owner = loans[k].owner /\ loans'[k].principal = loans[k].principal
       /\ \A k \in Goals : goals[k].owner # 0 => goals'[k].owner = goals[k].owner
  BY <1>1, <1>6, <1>7 DEF LoanLeft, GoalLeft
<1>14. Snapshots'
  <2>1. ASSUME NEW u \in Threads, NEW s, RowsStand(u, s)
        PROVE  /\ s.loan.owner # 0 => /\ loans'[call[u].loan].owner = s.loan.owner
                                      /\ loans'[call[u].loan].principal = s.loan.principal
               /\ s.goal.owner # 0 => goals'[call[u].goal].owner = s.goal.owner
    <3>1. call[u].loan \in Loans /\ call[u].goal \in Goals
      BY CallColumns DEF Sound, TypeOK
    <3>2. QED
      BY <1>13, <2>1, <3>1 DEF RowsStand, LoanStands, GoalStands
  <2>2. ASSUME NEW u \in Threads
        PROVE  /\ HasRead(u)' => RowsStand(u, seen[u])'
               /\ HasQueried(u)' => RowsStand(u, base[u])' /\ SameLoan(seen[u].loan, base[u].loan)'
    <3>1. ThreadSound(u, pc[u], seen[u], base[u])
      BY ThreadsSound
    <3>2. HasRead(u)' => /\ pc[u] \in {"readAgain", "flush", "commit", "audit"}
                         /\ seen'[u] = seen[u] /\ base'[u] = base[u]
      BY <1>4, <1>10 DEF HasRead
    <3>3. HasQueried(u)' => HasRead(u)' /\ pc[u] \in {"commit", "audit"}
      BY <1>4, <1>10 DEF HasRead, HasQueried
    <3>4. HasRead(u)' => RowsStand(u, seen[u])'
      BY <1>4, <2>1, <3>1, <3>2 DEF ThreadSound, RowsStand, LoanStands, GoalStands
    <3>5. HasQueried(u)' => RowsStand(u, base[u])'
      BY <1>4, <2>1, <3>1, <3>2, <3>3 DEF ThreadSound, RowsStand, LoanStands, GoalStands
    <3>6. HasQueried(u)' => SameLoan(seen[u].loan, base[u].loan)'
      BY <3>1, <3>2, <3>3 DEF ThreadSound, SameLoan
    <3>7. QED
      BY <3>4, <3>5, <3>6
  <2>3. QED
    BY <2>2 DEF Snapshots
<1>15. NewIds'
  <2>1. \A u \in Threads : /\ Creates(u)' => Creates(u) /\ u # t
                           /\ Founds(u)' => Founds(u) /\ u # t
    BY <1>4, <1>10 DEF Creates, Founds, Unwritten
  <2>2. NewIds /\ (c.op = "apply" => Creates(t)) /\ (c.op = "createGoal" => Founds(t))
    BY <1>4 DEF Sound, Creates, Founds, Unwritten, c
  <2>3. ASSUME NEW u \in Threads
        PROVE  /\ Creates(u)' => loans'[call[u].loan].owner = 0
               /\ Founds(u)' => goals'[call[u].goal].owner = 0
    <3>1. call[u].loan \in Loans /\ call[u].goal \in Goals
      BY CallColumns DEF Sound, TypeOK
    <3>2. ASSUME Creates(u)' PROVE loans'[call[u].loan].owner = 0
      <4>1. Creates(u) /\ u # t /\ loans[call[u].loan].owner = 0
        BY <2>1, <2>2, <3>2 DEF NewIds
      <4>2. CASE call[u].loan = l
        <5>1. c.op # "apply"
          BY <2>2, <4>1, <4>2 DEF NewIds, l, c
        <5>2. QED
          BY <1>1, <4>1, <4>2, <5>1 DEF LoanLeft
      <4>3. QED
        BY <1>6, <3>1, <4>1, <4>2
    <3>3. ASSUME Founds(u)' PROVE goals'[call[u].goal].owner = 0
      <4>1. Founds(u) /\ u # t /\ goals[call[u].goal].owner = 0
        BY <2>1, <2>2, <3>3 DEF NewIds
      <4>2. CASE call[u].goal = g
        <5>1. c.op # "createGoal"
          BY <2>2, <4>1, <4>2 DEF NewIds, g, c
        <5>2. QED
          BY <1>1, <4>1, <4>2, <5>1 DEF GoalLeft
      <4>3. QED
        BY <1>7, <3>1, <4>1, <4>2
    <3>4. QED
      BY <3>2, <3>3
  <2>4. QED
    BY <1>4, <2>1, <2>2, <2>3 DEF NewIds
<1>16. QED
  BY <1>8, <1>9, <1>11, <1>12, <1>14, <1>15 DEF Sound

LEMMA NextSound == ASSUME Sound, [Next]_vars PROVE Sound'
<1>1. ASSUME NEW t \in Threads, Advance(t) PROVE Sound'
  BY <1>1, LockSound, ReadSound, ReadAgainSound, FlushSound, CommitSound, CommitFailsSound,
     AuditSound DEF Advance
<1>2. ASSUME Closing PROVE Sound'
  BY <1>2, StutterSound DEF Closing
<1>3. QED
  BY <1>1, <1>2, SubmitSound, CrashSound, StutterSound DEF Next

\* Whatever calls overlap, fail or die, Sound holds.
THEOREM AlwaysSound == Spec => []Sound
BY InitSound, NextSound, PTL DEF Spec

\* The tables, the threads' rows and the bags keep their types.
THEOREM TypesAreKept == Spec => []TypeOK
<1>1. Sound => TypeOK
  BY DEF Sound
<1>2. QED
  BY <1>1, AlwaysSound, PTL

\* No balance is ever negative: every balance a commit writes is one some call checked.
THEOREM BalancesArePositive == Spec => []BalancesStayPositive
<1>1. Sound => BalancesStayPositive
  BY DEF Sound, SoundTables, BalancesStayPositive
<1>2. QED
  BY <1>1, AlwaysSound, PTL

\* What a loan counts as paid and as remaining adds up to its principal, whatever payments,
\* approvals and rejections overlap.
THEOREM LoanBooksBalance == Spec => []LoanBooksAddUp
<1>1. Sound => LoanBooksAddUp
  BY DEF Sound, SoundTables, SoundLoan, LoanBooksAddUp
<1>2. QED
  BY <1>1, AlwaysSound, PTL

-------------------------------------------------------------------------------
(* Calm is inductive, given Sound *)

LEMMA InitCalm == Init => Calm
<1> SUFFICES ASSUME Init PROVE Calm
  OBVIOUS
<1>1. /\ \A t \in Threads : pc[t] = "idle" /\ locked[t] = {}
      /\ raced = {}
  BY DEF Init
<1>2. Staged /\ Locks /\ Alone /\ Owned /\ Current
  BY <1>1 DEF Staged, Locks, Alone, Owned, Current, Busy
<1>3. QED
  BY <1>2 DEF Calm

\* What Calm says of a thread at a stage with the rows and locks it holds.
CalmThread(u, stage, s, b, held) ==
    /\ stage = "lock" => call[u].op \in Locking
    /\ stage = "readAgain" => ReadsTwice(call[u])
    /\ stage = "audit" => call[u].op \in Audited
    /\ held = IF stage \in {"read", "flush", "commit"} /\ call[u].op \in Locking
              THEN {call[u].acc} ELSE {}
    /\ call[u].acc \notin raced =>
         /\ stage \in {"readAgain", "flush", "commit"} => RowsHold(u, s)
         /\ stage = "commit" => RowsHold(u, b)

LEMMA ThreadsCalm ==
  ASSUME Calm, NEW u \in Threads
  PROVE  CalmThread(u, pc[u], seen[u], base[u], locked[u])
BY DEF Calm, Staged, Locks, Current, CalmThread

\* A step that leaves the tables, the calls and raced alone.
LEMMA CalmKept ==
  ASSUME Calm, UNCHANGED <<tables, call, raced>>,
         \A u \in Threads : /\ CalmThread(u, pc'[u], seen'[u], base'[u], locked'[u])
                            /\ Busy(u)' => Busy(u),
         \A u, v \in Threads : u # v => locked'[u] \cap locked'[v] = {}
  PROVE  Calm'
<1>1. Staged' /\ Locks'
  BY DEF CalmThread, Staged, Locks
<1>2. Alone'
  BY DEF Calm, Alone
<1>3. Owned'
  <2>1. \A l : LoanOwners(l)' \subseteq LoanOwners(l)
    BY DEF LoanOwners, OnLoan, tables
  <2>2. \A g : GoalOwners(g)' \subseteq GoalOwners(g)
    BY DEF GoalOwners, OnGoal, tables
  <2>3. QED
    BY <2>1, <2>2 DEF Calm, Owned
<1>4. Current'
  <2>1. ASSUME NEW u \in Threads, call'[u].acc \notin raced'
        PROVE  /\ pc'[u] \in {"readAgain", "flush", "commit"} => RowsHold(u, seen[u])'
               /\ pc'[u] = "commit" => RowsHold(u, base[u])'
    <3>1. CalmThread(u, pc'[u], seen'[u], base'[u], locked'[u])
      OBVIOUS
    <3>2. /\ pc'[u] \in {"readAgain", "flush", "commit"} => RowsHold(u, seen'[u])
          /\ pc'[u] = "commit" => RowsHold(u, base'[u])
      BY <2>1, <3>1 DEF CalmThread
    <3>3. QED
      BY <3>2 DEF RowsHold, tables
  <2>2. QED
    BY <2>1 DEF Current
<1>5. QED
  BY <1>1, <1>2, <1>3, <1>4 DEF Calm

\* A call that ends without a commit.
LEMMA FinishCalm ==
  ASSUME Sound, Calm, NEW t \in Threads, NEW say, Finish(t, say), Busy(t),
         UNCHANGED <<tables, call, raced>>
  PROVE  Calm'
<1>1. \A u \in Threads : /\ u = t => pc'[u] = "idle" /\ locked'[u] = {}
                         /\ u # t => /\ pc'[u] = pc[u] /\ seen'[u] = seen[u]
                                     /\ base'[u] = base[u] /\ locked'[u] = locked[u]
  BY DEF Sound, TypeOK, Finish, Goto
<1>2. ASSUME NEW u \in Threads
      PROVE  /\ CalmThread(u, pc'[u], seen'[u], base'[u], locked'[u])
             /\ Busy(u)' => Busy(u)
  BY <1>1, ThreadsCalm DEF CalmThread, Busy
<1>3. \A u, v \in Threads : u # v => locked'[u] \cap locked'[v] = {}
  BY <1>1 DEF Calm, Locks
<1>4. QED
  BY <1>2, <1>3, CalmKept

LEMMA LearnCalm ==
  ASSUME Sound, Calm, NEW t \in Threads, NEW rows, RowsHold(t, rows) \/ call[t].acc \in raced,
         Learn(t, rows), NEW stage \in {"readAgain", "flush"}, Proceed(t, stage),
         stage = "readAgain" => ReadsTwice(call[t]),
         pc[t] \in {"read", "readAgain"}, UNCHANGED <<tables, call, raced>>
  PROVE  Calm'
<1>1. \A u \in Threads : /\ u = t => pc'[u] = stage /\ seen'[u] = rows
                         /\ u # t => pc'[u] = pc[u] /\ seen'[u] = seen[u]
                         /\ base'[u] = base[u] /\ locked'[u] = locked[u]
  BY DEF Sound, TypeOK, Learn, Proceed, Goto
<1>2. ReadsTwice(call[t]) => call[t].op \notin Locking
  BY DEF ReadsTwice, Locking
<1>3. CalmThread(t, stage, rows, base[t], locked[t])
  BY <1>2, ThreadsCalm DEF CalmThread
<1>4. ASSUME NEW u \in Threads
      PROVE  /\ CalmThread(u, pc'[u], seen'[u], base'[u], locked'[u])
             /\ Busy(u)' => Busy(u)
  BY <1>1, <1>3, ThreadsCalm DEF Busy
<1>5. \A u, v \in Threads : u # v => locked'[u] \cap locked'[v] = {}
  BY <1>1 DEF Calm, Locks
<1>6. QED
  BY <1>4, <1>5, CalmKept

LEMMA DecideCalm ==
  ASSUME Sound, Calm, NEW t \in Threads, NEW rows, RowsHold(t, rows) \/ call[t].acc \in raced,
         Decide(t, rows), pc[t] \in {"read", "readAgain"}, UNCHANGED <<tables, call, raced>>
  PROVE  Calm'
<1>1. CASE Learn(t, rows) /\ Proceed(t, "flush")
  BY <1>1, LearnCalm
<1>2. CASE Finish(t, Decision(call[t], rows).say)
  <2>1. Busy(t)
    BY DEF Busy
  <2>2. QED
    BY <1>2, <2>1, FinishCalm
<1>3. QED
  BY <1>1, <1>2 DEF Decide

LEMMA RowsNow ==
  ASSUME NEW t \in Threads
  PROVE  RowsHold(t, RowsOf(call[t]))
BY DEF RowsHold, RowsOf

LEMMA ReadCalm == ASSUME Sound, Calm, NEW t \in Threads, Read(t) PROVE Calm'
<1> DEFINE rows == RowsOf(call[t])
<1>1. RowsHold(t, rows)
  BY RowsNow
<1> HIDE DEF rows
<1>2. pc[t] = "read" /\ UNCHANGED <<tables, call, raced>> /\ Busy(t)
  BY DEF Read, history, Busy
<1>3. CASE Finish(t, "error")
  BY <1>2, <1>3, FinishCalm
<1>4. CASE ReadsTwice(call[t]) /\ Learn(t, rows) /\ Proceed(t, "readAgain")
  BY <1>1, <1>2, <1>4, LearnCalm
<1>5. CASE Decide(t, rows)
  BY <1>1, <1>2, <1>5, DecideCalm
<1>6. QED
  BY <1>3, <1>4, <1>5 DEF Read, rows

LEMMA ReadAgainCalm == ASSUME Sound, Calm, NEW t \in Threads, ReadAgain(t) PROVE Calm'
<1> DEFINE now == RowsOf(call[t])
           rows == IF call[t].op = "contribute" THEN [seen[t] EXCEPT !.goal = now.goal]
                   ELSE [seen[t] EXCEPT !.account = now.account]
<1>1. RowsHold(t, now)
  BY RowsNow
<1>2. /\ pc[t] = "readAgain" /\ UNCHANGED <<tables, call, raced>>
      /\ Decide(t, rows)
  BY DEF ReadAgain, history
<1>3. /\ seen[t] \in Rows
      /\ call[t].acc \notin raced => RowsHold(t, seen[t])
  BY <1>2, ThreadsCalm DEF Sound, TypeOK, CalmThread
<1> HIDE DEF now
<1>4. /\ rows.account \in {now.account, seen[t].account} /\ rows.loan = seen[t].loan
      /\ rows.goal \in {now.goal, seen[t].goal}
  BY <1>3 DEF Rows
<1> HIDE DEF rows
<1>5. call[t].acc \notin raced => RowsHold(t, rows)
  BY <1>1, <1>3, <1>4 DEF RowsHold
<1>6. QED
  BY <1>2, <1>5, DecideCalm

LEMMA FlushCalm == ASSUME Sound, Calm, NEW t \in Threads, Flush(t) PROVE Calm'
<1> DEFINE rows == RowsOf(call[t])
<1>1. RowsHold(t, rows)
  BY RowsNow
<1>2. /\ pc[t] = "flush" /\ base' = [base EXCEPT ![t] = rows]
      /\ pc' = [pc EXCEPT ![t] = "commit"]
      /\ UNCHANGED <<tables, call, seen, locked, raced>>
  BY DEF Flush, Goto, history
<1> HIDE DEF rows
<1>3. \A u \in Threads : /\ pc'[u] = IF u = t THEN "commit" ELSE pc[u]
                         /\ base'[u] = IF u = t THEN rows ELSE base[u]
  BY <1>2 DEF Sound, TypeOK
<1>4. ASSUME NEW u \in Threads
      PROVE  /\ CalmThread(u, pc'[u], seen'[u], base'[u], locked'[u])
             /\ Busy(u)' => Busy(u)
  BY <1>1, <1>2, <1>3, ThreadsCalm DEF CalmThread, Busy
<1>5. \A u, v \in Threads : u # v => locked'[u] \cap locked'[v] = {}
  BY <1>2 DEF Calm, Locks
<1>6. QED
  BY <1>2, <1>4, <1>5, CalmKept

LEMMA LockCalm == ASSUME Sound, Calm, NEW t \in Threads, Lock(t) PROVE Calm'
<1>1. /\ pc[t] = "lock" /\ pc' = [pc EXCEPT ![t] = "read"]
      /\ \A u \in Threads : call[t].acc \notin locked[u]
      /\ locked' = [locked EXCEPT ![t] = {call[t].acc}]
      /\ UNCHANGED <<tables, call, seen, base, raced>>
  BY DEF Lock, Goto, history
<1>2. \A u \in Threads : /\ pc'[u] = IF u = t THEN "read" ELSE pc[u]
                         /\ locked'[u] = IF u = t THEN {call[t].acc} ELSE locked[u]
  BY <1>1 DEF Sound, TypeOK
<1>3. ASSUME NEW u \in Threads
      PROVE  /\ CalmThread(u, pc'[u], seen'[u], base'[u], locked'[u])
             /\ Busy(u)' => Busy(u)
  BY <1>1, <1>2, ThreadsCalm DEF CalmThread, Busy
<1>4. \A u, v \in Threads : u # v => locked'[u] \cap locked'[v] = {}
  BY <1>1, <1>2 DEF Calm, Locks
<1>5. QED
  BY <1>1, <1>3, <1>4, CalmKept

LEMMA CrashCalm == ASSUME Sound, Calm, Crash PROVE Calm'
<1>1. /\ \A u \in Threads : pc'[u] = "idle" /\ locked'[u] = {}
      /\ UNCHANGED <<tables, call, raced>>
  BY DEF Crash, history
<1>2. ASSUME NEW u \in Threads
      PROVE  /\ CalmThread(u, pc'[u], seen'[u], base'[u], locked'[u])
             /\ Busy(u)' => Busy(u)
  BY <1>1 DEF CalmThread, Busy
<1>3. QED
  BY <1>1, <1>2, CalmKept

LEMMA StutterCalm == ASSUME Calm, UNCHANGED vars PROVE Calm'
<1>1. UNCHANGED <<tables, call, pc, seen, base, locked, raced>>
  BY DEF vars, threadVars, history
<1>2. \A u, v \in Threads : u # v => locked'[u] \cap locked'[v] = {}
  BY <1>1 DEF Calm, Locks
<1>3. QED
  BY <1>1, <1>2, CalmKept, ThreadsCalm DEF Busy

LEMMA QuietCalm ==
  ASSUME Sound, Calm, NEW t \in Threads, CommitFails(t) \/ Audit(t)
  PROVE  Calm'
<1>1. PICK say : Finish(t, say)
  BY DEF CommitFails, Audit
<1>2. UNCHANGED <<tables, call, raced>> /\ Busy(t)
  BY DEF CommitFails, Audit, history, Busy
<1>3. QED
  BY <1>1, <1>2, FinishCalm

LEMMA SubmitCalm ==
  ASSUME Sound, Calm, NEW t \in Threads, NEW c \in Calls, Submit(t, c)
  PROVE  Calm'
<1>1. /\ pc[t] = "idle" /\ FreshId(c) /\ Consistent(c) /\ call' = [call EXCEPT ![t] = c]
      /\ pc' = [pc EXCEPT ![t] = IF TakesLock(c) THEN "lock" ELSE "read"]
      /\ UNCHANGED <<tables, seen, base, locked>>
      /\ raced' = raced \cup Mixed(c)
            \cup IF \E u \in Threads : Busy(u) /\ Overlap(call[u], c) THEN {c.acc} ELSE {}
  BY DEF Submit, Goto
<1>2. \A u \in Threads : /\ pc'[u] = IF u = t THEN IF TakesLock(c) THEN "lock" ELSE "read"
                                     ELSE pc[u]
                         /\ call'[u] = IF u = t THEN c ELSE call[u]
  BY <1>1 DEF Sound, TypeOK
<1>3. raced \subseteq raced' /\ ~Busy(t) /\ Busy(t)'
  BY <1>1, <1>2 DEF Busy
<1>4. ASSUME NEW u \in Threads, u # t
      PROVE  /\ Busy(u)' <=> Busy(u)
             /\ call'[u] = call[u]
  BY <1>2, <1>4 DEF Busy
<1>5. Staged' /\ Locks'
  <2>1. ASSUME NEW u \in Threads
        PROVE  /\ pc'[u] = "lock" => call'[u].op \in Locking
               /\ pc'[u] = "readAgain" => ReadsTwice(call'[u])
               /\ pc'[u] = "audit" => call'[u].op \in Audited
               /\ locked'[u] = IF pc'[u] \in {"read", "flush", "commit"}
                                  /\ call'[u].op \in Locking
                               THEN {call'[u].acc} ELSE {}
    <3>1. CalmThread(u, pc[u], seen[u], base[u], locked[u])
      BY ThreadsCalm
    <3>2. QED
      BY <1>1, <1>2, <3>1 DEF CalmThread, TakesLock
  <2>2. \A u, v \in Threads : u # v => locked'[u] \cap locked'[v] = {}
    BY <1>1 DEF Calm, Locks
  <2>3. QED
    BY <2>1, <2>2 DEF Staged, Locks
<1>6. Alone'
  <2>1. ASSUME NEW u \in Threads, NEW v \in Threads, u # v, Busy(u)', Busy(v)',
               call'[u].acc = call'[v].acc, call'[u].acc \notin raced'
        PROVE  call'[u].op \in Locking /\ call'[v].op \in Locking
    <3>1. \A x \in Threads : x # t /\ Busy(x) /\ call[x].acc = c.acc /\ c.acc \notin raced'
             => call[x].op \in Locking /\ c.op \in Locking
      BY <1>1 DEF Overlap
    <3>2. QED
      BY <1>2, <1>3, <1>4, <2>1, <3>1 DEF Calm, Alone
  <2>2. QED
    BY <2>1 DEF Alone
<1>7. ASSUME NEW l \in Loans
      PROVE  LoanOwners(l)' \subseteq
               LoanOwners(l) \cup (IF c.op = "apply" /\ c.loan = l THEN {c.acc} ELSE {})
  BY <1>1, <1>2, <1>4 DEF LoanOwners, OnLoan, tables
<1>8. ASSUME NEW g \in Goals
      PROVE  GoalOwners(g)' \subseteq
               GoalOwners(g) \cup (IF c.op = "createGoal" /\ c.goal = g THEN {c.acc} ELSE {})
  BY <1>1, <1>2, <1>4 DEF GoalOwners, OnGoal, tables
<1>9. Owned'
  <2>1. ASSUME NEW u \in Threads, Busy(u)', call'[u].op \in {"approve", "reject"},
               NEW l, l = call'[u].loan
        PROVE  LoanOwners(l)' \subseteq {call'[u].acc}
    <3>1. call'[u] \in Call /\ call'[u].loan \in Loans
      BY <1>2, CallColumns, CallsAreGood DEF Sound, TypeOK
    <3>2. CASE u = t
      <4>1. LoanOwners(c.loan) \subseteq {c.acc} /\ c.op # "apply" /\ call'[u] = c
        BY <1>1, <1>2, <2>1, <3>2 DEF Consistent
      <4>2. QED
        BY <1>7, <2>1, <3>1, <4>1
    <3>3. CASE u # t
      <4>1. OnLoan(u, call[u].loan) /\ LoanOwners(call[u].loan) \subseteq {call[u].acc}
        BY <1>4, <2>1, <3>3 DEF Calm, Owned, OnLoan, LoanCalls
      <4>2. ~(c.op = "apply" /\ c.loan = call[u].loan)
        BY <1>1, <4>1 DEF FreshId
      <4>3. QED
        BY <1>4, <1>7, <2>1, <3>1, <3>3, <4>1, <4>2
    <3>4. QED
      BY <3>2, <3>3
  <2>2. ASSUME NEW u \in Threads, Busy(u)', call'[u].op \in GoalCalls,
               NEW g, g = call'[u].goal
        PROVE  \/ GoalOwners(g)' \subseteq {call'[u].acc}
               \/ GoalOwners(g)' \cup {call'[u].acc} \subseteq raced'
    <3>1. call'[u] \in Call /\ call'[u].goal \in Goals
      BY <1>2, CallColumns, CallsAreGood DEF Sound, TypeOK
    <3>2. CASE u = t
      <4>1. call'[u] = c /\ c.op \in GoalCalls /\ c.goal \in Goals
        BY <1>2, <2>2, <3>1, <3>2
      <4>2. CASE c.op = "createGoal"
        <5>1. GoalOwners(c.goal) = {}
          BY <1>1, <4>2 DEF FreshId, GoalOwners
        <5>2. QED
          BY <1>8, <2>2, <4>1, <5>1
      <4>3. CASE c.op # "createGoal"
        <5>1. \/ GoalOwners(c.goal) \subseteq {c.acc}
              \/ GoalOwners(c.goal) \cup {c.acc} \subseteq raced'
          BY <1>1, <4>1 DEF Mixed
        <5>2. QED
          BY <1>8, <2>2, <4>1, <4>3, <5>1
      <4>4. QED
        BY <4>2, <4>3
    <3>3. CASE u # t
      <4>1. /\ OnGoal(u, call[u].goal)
            /\ \/ GoalOwners(call[u].goal) \subseteq {call[u].acc}
               \/ GoalOwners(call[u].goal) \cup {call[u].acc} \subseteq raced
        BY <1>4, <2>2, <3>3 DEF Calm, Owned, OnGoal
      <4>2. ~(c.op = "createGoal" /\ c.goal = call[u].goal)
        BY <1>1, <4>1 DEF FreshId
      <4>3. QED
        BY <1>3, <1>4, <1>8, <2>2, <3>1, <3>3, <4>1, <4>2
    <3>4. QED
      BY <3>2, <3>3
  <2>3. ASSUME NEW u \in Threads, NEW l, l = call'[u].loan, NEW g, g = call'[u].goal
        PROVE  /\ LoanOwners(call[u].loan)' = LoanOwners(l)'
               /\ GoalOwners(call[u].goal)' = GoalOwners(g)'
    BY <2>3 DEF LoanOwners, GoalOwners, OnLoan, OnGoal
  <2>4. QED
    BY <2>1, <2>2, <2>3 DEF Owned
<1>10. Current'
  <2>1. ASSUME NEW u \in Threads, call'[u].acc \notin raced'
        PROVE  /\ pc'[u] \in {"readAgain", "flush", "commit"} => RowsHold(u, seen[u])'
               /\ pc'[u] = "commit" => RowsHold(u, base[u])'
    <3>1. CASE u = t
      BY <1>2, <3>1
    <3>2. CASE u # t
      <4>1. /\ pc[u] \in {"readAgain", "flush", "commit"} => RowsHold(u, seen[u])
            /\ pc[u] = "commit" => RowsHold(u, base[u])
        BY <1>3, <1>4, <2>1, <3>2 DEF Calm, Current
      <4>2. QED
        BY <1>1, <1>2, <1>4, <3>2, <4>1 DEF RowsHold, tables
    <3>3. QED
      BY <3>1, <3>2
  <2>2. QED
    BY <2>1 DEF Current
<1>11. QED
  BY <1>5, <1>6, <1>9, <1>10 DEF Calm

\* The loan a commit writes is its account's; so is the goal, unless everybody concerned
\* is in raced.
LEMMA CommitOwns ==
  ASSUME Sound, Calm, NEW t \in Threads, Commit(t)
  PROVE  LET c == call[t]
         IN  /\ c.op = "apply" => loans[c.loan].owner = 0
             /\ c.op \in LoanCalls \ {"apply"} => loans[c.loan].owner = c.acc
             /\ c.op = "createGoal" => goals[c.goal].owner = 0 /\ c.acc \in GoalOwners(c.goal)
             /\ c.op \in GoalCalls \ {"createGoal"} =>
                  /\ goals[c.goal].owner # 0
                  /\ goals[c.goal].owner = c.acc \/ {goals[c.goal].owner, c.acc} \subseteq raced
<1> DEFINE c == call[t]
           w == Writes(t)
           rows == seen[t]
<1>1. /\ c \in Call /\ GoodCall(c) /\ GoodRows(rows) /\ PlanIs(c, rows, w)
  BY CommitLeaves
<1>2. /\ LoanPlan(c, rows, w) /\ GoalPlan(c, rows, w)
      /\ c.loan \in Loans /\ c.goal \in Goals
  BY <1>1, PlanLoan, PlanGoal, CallColumns
<1>3. pc[t] = "commit" /\ Busy(t)
  BY DEF Commit, Busy
<1>4. RowsStand(t, rows)
  BY <1>3, ThreadsSound DEF ThreadSound
<1>5. /\ c.op = "apply" => loans[c.loan].owner = 0
      /\ c.op = "createGoal" => goals[c.goal].owner = 0
  BY <1>3 DEF Sound, NewIds, Creates, Founds, Unwritten
<1>6. ASSUME c.op \in LoanCalls \ {"apply"}
      PROVE  loans[c.loan].owner = c.acc
  <2>1. rows.loan.owner # 0 /\ loans[c.loan].owner = rows.loan.owner
    BY <1>2, <1>4, <1>6 DEF LoanPlan, RowsStand, LoanStands
  <2>2. CASE c.op = "payEmi"
    BY <1>2, <2>1, <2>2 DEF LoanPlan
  <2>3. CASE c.op \in {"approve", "reject"}
    <3>1. LoanOwners(c.loan) \subseteq {c.acc}
      BY <1>3, <2>3 DEF Calm, Owned
    <3>2. loans[c.loan].owner \in LoanOwners(c.loan)
      BY <2>1 DEF LoanOwners
    <3>3. QED
      BY <3>1, <3>2
  <2>4. QED
    BY <1>6, <2>2, <2>3 DEF LoanCalls
<1>7. ASSUME c.op = "createGoal"
      PROVE  c.acc \in GoalOwners(c.goal)
  BY <1>3, <1>7 DEF GoalOwners, OnGoal, GoalCalls
<1>8. c.op \in GoalCalls =>
        \/ GoalOwners(c.goal) \subseteq {c.acc}
        \/ GoalOwners(c.goal) \cup {c.acc} \subseteq raced
  BY <1>3 DEF Calm, Owned
<1>9. ASSUME c.op \in GoalCalls \ {"createGoal"}
      PROVE  /\ goals[c.goal].owner # 0
             /\ goals[c.goal].owner = c.acc \/ {goals[c.goal].owner, c.acc} \subseteq raced
  <2>1. rows.goal.exists /\ rows.goal.owner # 0
    BY <1>1, <1>2, <1>9 DEF GoalPlan, GoodRows, SoundGoal, NoGoal
  <2>2. goals[c.goal].owner # 0
    BY <1>4, <2>1 DEF RowsStand, GoalStands
  <2>3. goals[c.goal].owner \in GoalOwners(c.goal)
    BY <2>2 DEF GoalOwners
  <2>4. QED
    BY <1>8, <1>9, <2>2, <2>3
<1>10. QED
  BY <1>5, <1>6, <1>7, <1>9

\* Threads that have read an account on which no calls overlapped work on different ones.
LEMMA Apart ==
  ASSUME Calm, NEW t \in Threads, NEW u \in Threads, t # u, pc[t] = "commit",
         pc[u] \in {"readAgain", "flush", "commit"}, call[u].acc \notin raced
  PROVE  call[u].acc # call[t].acc
<1> SUFFICES ASSUME call[u].acc = call[t].acc PROVE FALSE
  OBVIOUS
<1>1. call[t].op \in Locking /\ call[u].op \in Locking
  BY DEF Calm, Alone, Busy
<1>2. CalmThread(u, pc[u], seen[u], base[u], locked[u])
      /\ CalmThread(t, pc[t], seen[t], base[t], locked[t])
  BY ThreadsCalm
<1>3. pc[u] # "readAgain"
  BY <1>1, <1>2 DEF CalmThread, ReadsTwice, Locking
<1>4. call[t].acc \in locked[t] /\ call[t].acc \in locked[u]
  BY <1>1, <1>2, <1>3 DEF CalmThread
<1>5. QED
  BY <1>4 DEF Calm, Locks

LEMMA CommitCalm == ASSUME Sound, Calm, NEW t \in Threads, Commit(t) PROVE Calm'
<1> DEFINE c == call[t]
           w == Writes(t)
<1>1. /\ c \in Call /\ GoodCall(c) /\ PlanIs(c, seen[t], w)
      /\ \E r : accounts' = [accounts EXCEPT ![c.acc] = r]
      /\ \E r : loans' = [loans EXCEPT ![c.loan] = r]
      /\ \E r : goals' = [goals EXCEPT ![c.goal] = r]
      /\ LoanLeft(c, loans[c.loan], loans'[c.loan]) /\ GoalLeft(c, goals[c.goal], goals'[c.goal])
  BY CommitLeaves
<1>2. /\ c.acc \in Accounts /\ c.loan \in Loans /\ c.goal \in Goals
      /\ c.acc \in Nat /\ c.acc # 0 /\ ScopedPlan(c, w)
  BY <1>1, CallColumns, PlanScoped
<1>3. /\ pc[t] = "commit" /\ UNCHANGED <<call, raced>>
      /\ \/ w.audit # "none" /\ Proceed(t, "audit") /\ UNCHANGED <<seen, base>>
         \/ Finish(t, "done")
  BY DEF Commit
<1>4. /\ c.op = "apply" => loans[c.loan].owner = 0
      /\ c.op \in LoanCalls \ {"apply"} => loans[c.loan].owner = c.acc
      /\ c.op = "createGoal" => goals[c.goal].owner = 0 /\ c.acc \in GoalOwners(c.goal)
      /\ c.op \in GoalCalls \ {"createGoal"} =>
           /\ goals[c.goal].owner # 0
           /\ goals[c.goal].owner = c.acc \/ {goals[c.goal].owner, c.acc} \subseteq raced
  BY CommitOwns
<1>5. Busy(t)
  BY <1>3 DEF Busy
<1> HIDE DEF w
<1>6. ASSUME NEW u \in Threads
      PROVE  /\ u # t => /\ pc'[u] = pc[u] /\ seen'[u] = seen[u] /\ base'[u] = base[u]
                         /\ locked'[u] = locked[u]
             /\ u = t => \/ pc'[u] = "idle" /\ locked'[u] = {}
                         \/ pc'[u] = "audit" /\ c.op \in Audited /\ locked'[u] = locked[u]
             /\ Busy(u)' => Busy(u)
  <2>1. CASE w.audit # "none" /\ Proceed(t, "audit") /\ UNCHANGED <<seen, base>>
    <3>1. c.op \in Audited
      BY <1>2, <2>1 DEF ScopedPlan
    <3>2. QED
      BY <1>5, <2>1, <3>1 DEF Sound, TypeOK, Proceed, Goto, Busy
  <2>2. CASE Finish(t, "done")
    <3>1. /\ pc'[u] = IF u = t THEN "idle" ELSE pc[u]
          /\ seen'[u] = IF u = t THEN NoRows ELSE seen[u]
          /\ base'[u] = IF u = t THEN NoRows ELSE base[u]
          /\ locked'[u] = IF u = t THEN {} ELSE locked[u]
      BY <2>2 DEF Sound, TypeOK, Finish, Goto
    <3>2. CASE u = t
      BY <3>1, <3>2 DEF Busy
    <3>3. CASE u # t
      BY <3>1, <3>3 DEF Busy
    <3>4. QED
      BY <3>2, <3>3, Zenon
  <2>3. QED
    BY <1>3, <2>1, <2>2
<1>7. Staged' /\ Locks'
  <2>1. ASSUME NEW u \in Threads
        PROVE  /\ pc'[u] = "lock" => call'[u].op \in Locking
               /\ pc'[u] = "readAgain" => ReadsTwice(call'[u])
               /\ pc'[u] = "audit" => call'[u].op \in Audited
               /\ locked'[u] = IF pc'[u] \in {"read", "flush", "commit"}
                                  /\ call'[u].op \in Locking
                               THEN {call'[u].acc} ELSE {}
    <3>1. CalmThread(u, pc[u], seen[u], base[u], locked[u])
      BY ThreadsCalm
    <3>2. c.op \in Audited => c.op \notin Locking
      BY DEF Audited, Locking
    <3>3. QED
      BY <1>3, <1>6, <3>1, <3>2 DEF CalmThread
  <2>2. ASSUME NEW u \in Threads, NEW v \in Threads, u # v
        PROVE  locked'[u] \cap locked'[v] = {}
    BY <1>6, <2>2 DEF Calm, Locks
  <2>3. QED
    BY <2>1, <2>2 DEF Staged, Locks
<1>8. Alone'
  BY <1>3, <1>6 DEF Calm, Alone
<1>9. /\ \A l \in Loans : l # c.loan \/ c.op \notin LoanCalls => loans'[l] = loans[l]
      /\ \A g \in Goals : g # c.goal \/ c.op \notin GoalCalls => goals'[g] = goals[g]
      /\ \A a \in Accounts : a # c.acc => accounts'[a] = accounts[a]
      /\ loans'[c.loan].owner = IF c.op = "apply" THEN c.acc ELSE loans[c.loan].owner
      /\ goals'[c.goal].owner = IF c.op = "createGoal" THEN c.acc ELSE goals[c.goal].owner
  <2>1. /\ \A l \in Loans : l # c.loan => loans'[l] = loans[l]
        /\ \A g \in Goals : g # c.goal => goals'[g] = goals[g]
        /\ \A a \in Accounts : a # c.acc => accounts'[a] = accounts[a]
    BY <1>1 DEF Sound, TypeOK
  <2>2. QED
    BY <1>1, <2>1 DEF LoanLeft, GoalLeft
<1>10. Owned'
  <2>1. ASSUME NEW l \in Loans PROVE LoanOwners(l)' \subseteq LoanOwners(l)
    <3>1. c.op = "apply" /\ c.loan = l => c.acc \in LoanOwners(l)
      BY <1>5 DEF LoanOwners, OnLoan, LoanCalls
    <3>2. loans'[l].owner \in {loans[l].owner} \cup
             (IF c.op = "apply" /\ c.loan = l THEN {c.acc} ELSE {})
      BY <1>9
    <3>3. \A u \in Threads : OnLoan(u, l)' => OnLoan(u, l)
      BY <1>3, <1>6 DEF OnLoan
    <3>4. QED
      BY <1>3, <3>1, <3>2, <3>3 DEF LoanOwners
  <2>2. ASSUME NEW g \in Goals PROVE GoalOwners(g)' \subseteq GoalOwners(g)
    <3>1. c.op = "createGoal" /\ c.goal = g => c.acc \in GoalOwners(g)
      BY <1>5 DEF GoalOwners, OnGoal, GoalCalls
    <3>2. goals'[g].owner \in {goals[g].owner} \cup
             (IF c.op = "createGoal" /\ c.goal = g THEN {c.acc} ELSE {})
      BY <1>9
    <3>3. \A u \in Threads : OnGoal(u, g)' => OnGoal(u, g)
      BY <1>3, <1>6 DEF OnGoal
    <3>4. QED
      BY <1>3, <3>1, <3>2, <3>3 DEF GoalOwners
  <2>3. ASSUME NEW u \in Threads, Busy(u)'
        PROVE  /\ call[u].op \in {"approve", "reject"} =>
                    LoanOwners(call[u].loan) \subseteq {call[u].acc}
               /\ call[u].op \in GoalCalls =>
                    \/ GoalOwners(call[u].goal) \subseteq {call[u].acc}
                    \/ GoalOwners(call[u].goal) \cup {call[u].acc} \subseteq raced
               /\ call[u].loan \in Loans /\ call[u].goal \in Goals
    BY <1>6, <2>3, CallColumns DEF Calm, Owned, Sound, TypeOK
  <2>4. ASSUME NEW u \in Threads, NEW l, l = call[u].loan, NEW g, g = call[u].goal
        PROVE  /\ LoanOwners(call[u].loan)' = LoanOwners(l)'
               /\ GoalOwners(call[u].goal)' = GoalOwners(g)'
    BY <1>3, <2>4 DEF LoanOwners, GoalOwners, OnLoan, OnGoal
  <2>5. QED
    BY <1>3, <2>1, <2>2, <2>3, <2>4 DEF Owned
<1>11. ASSUME NEW u \in Threads, u # t, call[u].acc \notin raced,
              pc[u] \in {"readAgain", "flush", "commit"}, NEW rows, RowsHold(u, rows)
       PROVE  /\ rows.account = accounts'[call[u].acc]
              /\ call[u].op \in LoanCalls /\ loans'[call[u].loan].owner = call[u].acc
                   => rows.loan = loans'[call[u].loan]
              /\ call[u].op \in GoalCalls => rows.goal = goals'[call[u].goal]
  <2>1. call[u].acc \in Accounts /\ call[u].loan \in Loans /\ call[u].goal \in Goals
    BY CallColumns DEF Sound, TypeOK
  <2>2. call[u].acc # c.acc
    BY <1>3, <1>11, Apart
  <2>3. Busy(u)
    BY <1>11 DEF Busy
  <2>4. ASSUME loans'[call[u].loan].owner = call[u].acc
        PROVE  loans'[call[u].loan] = loans[call[u].loan]
    BY <1>4, <1>9, <2>1, <2>2, <2>4
  <2>5. ASSUME call[u].op \in GoalCalls
        PROVE  goals'[call[u].goal] = goals[call[u].goal]
    <3>1. CASE call[u].goal # c.goal \/ c.op \notin GoalCalls
      BY <1>9, <2>1, <3>1
    <3>2. CASE call[u].goal = c.goal /\ c.op \in GoalCalls
      <4>1. GoalOwners(c.goal) \subseteq {call[u].acc}
        BY <1>11, <2>3, <2>5, <3>2 DEF Calm, Owned
      <4>2. goals[c.goal].owner # 0 => goals[c.goal].owner \in GoalOwners(c.goal)
        BY DEF GoalOwners
      <4>3. QED
        BY <1>4, <1>11, <2>2, <3>2, <4>1, <4>2
    <3>3. QED
      BY <3>1, <3>2
  <2>6. QED
    BY <1>9, <1>11, <2>1, <2>2, <2>4, <2>5 DEF RowsHold
<1>12. Current'
  <2>1. ASSUME NEW u \in Threads, call'[u].acc \notin raced'
        PROVE  /\ pc'[u] \in {"readAgain", "flush", "commit"} => RowsHold(u, seen[u])'
               /\ pc'[u] = "commit" => RowsHold(u, base[u])'
    <3>1. CASE u = t
      BY <1>6, <3>1
    <3>2. CASE u # t
      <4>1. CalmThread(u, pc[u], seen[u], base[u], locked[u])
        BY ThreadsCalm
      <4>2. /\ pc[u] \in {"readAgain", "flush", "commit"} => RowsHold(u, seen[u])
            /\ pc[u] = "commit" => RowsHold(u, base[u])
        BY <1>3, <2>1, <4>1 DEF CalmThread
      <4>3. pc[u] \in {"readAgain", "flush", "commit"} => RowsHold(u, seen[u])'
        BY <1>3, <1>6, <1>11, <2>1, <3>2, <4>2 DEF RowsHold
      <4>4. pc[u] = "commit" => RowsHold(u, base[u])'
        BY <1>3, <1>6, <1>11, <2>1, <3>2, <4>2 DEF RowsHold
      <4>5. QED
        BY <1>6, <3>2, <4>3, <4>4
    <3>3. QED
      BY <3>1, <3>2
  <2>2. QED
    BY <2>1 DEF Current
<1>13. QED
  BY <1>7, <1>8, <1>10, <1>12 DEF Calm

LEMMA NextCalm == ASSUME Sound, Calm, [Next]_vars PROVE Calm'
<1>1. ASSUME NEW t \in Threads, Advance(t) PROVE Calm'
  BY <1>1, LockCalm, ReadCalm, ReadAgainCalm, FlushCalm, CommitCalm, QuietCalm DEF Advance
<1>2. ASSUME Closing PROVE Calm'
  BY <1>2, StutterCalm DEF Closing
<1>3. QED
  BY <1>1, <1>2, SubmitCalm, CrashCalm, StutterCalm DEF Next

-------------------------------------------------------------------------------
(* What the books tell of the accounts on which no calls overlapped *)

\* A statement of one entry more tells one entry more.
LEMMA EntryIsCounted ==
  ASSUME NEW s \in Seq(Transaction), NEW e, AtMostOne(e)
  PROVE  /\ Credits(s) \in Int /\ Credits(s \o e) = Credits(s) + CreditOf(e)
         /\ \A type \in TransactionType :
              /\ Total(s, type) \in Int
              /\ Total(s \o e, type) =
                   Total(s, type) + (IF e = <<>> THEN 0 ELSE Part(e[1], type))
<1> DEFINE n == Len(s)
<1>1. n \in Nat /\ DOMAIN s = 1 .. n /\ \A i \in 1 .. n : s[i] \in Transaction
  OBVIOUS
<1>2. \A x \in Transaction : Credit(x) \in Int /\ \A type : Part(x, type) \in Int
  BY DEF Transaction, Credit, Part
<1>3. IsFiniteSet(DOMAIN s)
  BY <1>1, FS_Interval
<1> HIDE DEF n
<1>4. Credits(s) \in Int
  <2> DEFINE f == [i \in DOMAIN s |-> Credit(s[i])]
  <2>1. \A i \in DOMAIN s : f[i] \in Int
    BY <1>1, <1>2
  <2> HIDE DEF f
  <2>2. SumOver(f, DOMAIN s) \in Int
    BY <1>3, <2>1, SumInt
  <2>3. QED
    BY <2>2 DEF f, Credits
<1>5. ASSUME NEW type PROVE Total(s, type) \in Int
  <2> DEFINE f == [i \in DOMAIN s |-> Part(s[i], type)]
  <2>1. \A i \in DOMAIN s : f[i] \in Int
    BY <1>1, <1>2
  <2> HIDE DEF f
  <2>2. SumOver(f, DOMAIN s) \in Int
    BY <1>3, <2>1, SumInt
  <2>3. QED
    BY <2>2 DEF f, Total
<1>6. CASE e = <<>>
  <2>1. s \o e = s
    BY <1>6
  <2>2. QED
    BY <1>4, <1>5, <1>6, <2>1 DEF CreditOf
<1>7. ASSUME NEW x \in Transaction, e = <<x>>
      PROVE  /\ Credits(s \o e) = Credits(s) + Credit(x)
             /\ \A type : Total(s \o e, type) = Total(s, type) + Part(x, type)
  <2> DEFINE z == s \o e
  <2>1. /\ DOMAIN z = 1 .. (n + 1) /\ z[n + 1] = x
        /\ \A i \in 1 .. n : z[i] = s[i]
    BY <1>1, <1>7 DEF n
  <2> HIDE DEF z
  <2>2. Credits(z) = Credits(s) + Credit(x)
    <3> DEFINE f == [i \in 1 .. n |-> Credit(s[i])]
               h == [i \in 1 .. (n + 1) |-> Credit(z[i])]
    <3>1. /\ \A i \in 1 .. n : f[i] \in Int /\ h[i] = f[i]
          /\ h[n + 1] = Credit(x) /\ h[n + 1] \in Int
      BY <1>1, <1>2, <1>7, <2>1
    <3>2. Credits(s) = SumOver(f, 1 .. n) /\ Credits(z) = SumOver(h, 1 .. (n + 1))
      BY <1>1, <2>1, Zenon DEF Credits
    <3> HIDE DEF f, h
    <3>3. QED
      BY <1>1, <3>1, <3>2, SumAppend
  <2>3. ASSUME NEW type PROVE Total(z, type) = Total(s, type) + Part(x, type)
    <3> DEFINE f == [i \in 1 .. n |-> Part(s[i], type)]
               h == [i \in 1 .. (n + 1) |-> Part(z[i], type)]
    <3>1. /\ \A i \in 1 .. n : f[i] \in Int /\ h[i] = f[i]
          /\ h[n + 1] = Part(x, type) /\ h[n + 1] \in Int
      BY <1>1, <1>2, <1>7, <2>1
    <3>2. Total(s, type) = SumOver(f, 1 .. n) /\ Total(z, type) = SumOver(h, 1 .. (n + 1))
      BY <1>1, <2>1, Zenon DEF Total
    <3> HIDE DEF f, h
    <3>3. QED
      BY <1>1, <3>1, <3>2, SumAppend
  <2>4. QED
    BY <2>2, <2>3 DEF z
<1>8. ASSUME NEW x \in Transaction, e = <<x>>
      PROVE  e # <<>> /\ e[1] = x
  BY <1>8
<1>9. QED
  BY <1>4, <1>5, <1>6, <1>7, <1>8 DEF CreditOf, AtMostOne

\* An empty statement tells nothing.
LEMMA NothingIsCounted == Credits(<<>>) = 0 /\ \A type : Total(<<>>, type) = 0
<1>1. DOMAIN <<>> = {} /\ IsFiniteSet({})
  BY FS_EmptySet
<1>2. \A f : SumOver(f, {}) = 0
  BY <1>1, SumUnfold
<1>3. QED
  BY <1>1, <1>2, Zenon DEF Credits, Total

\* The sums over the goals and over the loans change with the row that changes.
OneGoal(tbl, new, g) ==
    /\ tbl \in [Goals -> GoalRow] /\ new \in [Goals -> GoalRow] /\ g \in Goals
    /\ \A x \in Goals : x # g => new[x] = tbl[x]
GoalShift(tbl, new, g, a) ==
    /\ Saved(tbl, a) \in Int /\ Saved(new, a) \in Int
    /\ Saved(new, a) = Saved(tbl, a) + Held(new[g], a) - Held(tbl[g], a)
OneLoan(tbl, new, l) ==
    /\ tbl \in [Loans -> LoanRow] /\ new \in [Loans -> LoanRow] /\ l \in Loans
    /\ \A x \in Loans : x # l => new[x] = tbl[x]
LoanShift(tbl, new, l, a) ==
    /\ Disbursed(tbl, a) \in Int /\ Disbursed(new, a) \in Int
    /\ Disbursed(new, a) = Disbursed(tbl, a) + Lent(new[l], a) - Lent(tbl[l], a)
    /\ Repaid(tbl, a) \in Int /\ Repaid(new, a) \in Int
    /\ Repaid(new, a) = Repaid(tbl, a) + PaidOff(new[l], a) - PaidOff(tbl[l], a)

LEMMA GoalIsCounted ==
  ASSUME NEW tbl, NEW new, NEW g, OneGoal(tbl, new, g), NEW a
  PROVE  GoalShift(tbl, new, g, a)
<1> USE DEF OneGoal, GoalShift
<1> DEFINE f == [x \in Goals |-> Held(tbl[x], a)]
           h == [x \in Goals |-> Held(new[x], a)]
<1>1. \A r \in GoalRow : Held(r, a) \in Int
  BY DEF GoalRow, Held
<1>2. /\ \A x \in Goals : f[x] \in Int /\ h[x] \in Int
      /\ \A x \in Goals \ {g} : h[x] = f[x]
      /\ f[g] = Held(tbl[g], a) /\ h[g] = Held(new[g], a)
  BY <1>1
<1>3. Saved(tbl, a) = SumOver(f, Goals) /\ Saved(new, a) = SumOver(h, Goals)
  BY Zenon DEF Saved
<1>4. IsFiniteSet(Goals)
  BY BranchAssumption
<1> HIDE DEF f, h
<1>5. QED
  BY <1>2, <1>3, <1>4, SumChange

LEMMA LoanIsCounted ==
  ASSUME NEW tbl, NEW new, NEW l, OneLoan(tbl, new, l), NEW a
  PROVE  LoanShift(tbl, new, l, a)
<1> USE DEF OneLoan, LoanShift
<1>1. \A r \in LoanRow : Lent(r, a) \in Int /\ PaidOff(r, a) \in Int
  BY DEF LoanRow, Lent, PaidOff
<1>2. IsFiniteSet(Loans)
  BY BranchAssumption
<1>3. /\ Disbursed(tbl, a) \in Int /\ Disbursed(new, a) \in Int
      /\ Disbursed(new, a) = Disbursed(tbl, a) + Lent(new[l], a) - Lent(tbl[l], a)
  <2> DEFINE f == [x \in Loans |-> Lent(tbl[x], a)]
             h == [x \in Loans |-> Lent(new[x], a)]
  <2>1. /\ \A x \in Loans : f[x] \in Int /\ h[x] \in Int
        /\ \A x \in Loans \ {l} : h[x] = f[x]
        /\ f[l] = Lent(tbl[l], a) /\ h[l] = Lent(new[l], a)
    BY <1>1
  <2>2. Disbursed(tbl, a) = SumOver(f, Loans) /\ Disbursed(new, a) = SumOver(h, Loans)
    BY Zenon DEF Disbursed
  <2> HIDE DEF f, h
  <2>3. QED
    BY <1>2, <2>1, <2>2, SumChange
<1>4. /\ Repaid(tbl, a) \in Int /\ Repaid(new, a) \in Int
      /\ Repaid(new, a) = Repaid(tbl, a) + PaidOff(new[l], a) - PaidOff(tbl[l], a)
  <2> DEFINE f == [x \in Loans |-> PaidOff(tbl[x], a)]
             h == [x \in Loans |-> PaidOff(new[x], a)]
  <2>1. /\ \A x \in Loans : f[x] \in Int /\ h[x] \in Int
        /\ \A x \in Loans \ {l} : h[x] = f[x]
        /\ f[l] = PaidOff(tbl[l], a) /\ h[l] = PaidOff(new[l], a)
    BY <1>1
  <2>2. Repaid(tbl, a) = SumOver(f, Loans) /\ Repaid(new, a) = SumOver(h, Loans)
    BY Zenon DEF Repaid
  <2> HIDE DEF f, h
  <2>3. QED
    BY <1>2, <2>1, <2>2, SumChange
<1>5. QED
  BY <1>3, <1>4

\* The loan a call on a loan leaves when its row is the one the service read.
LoanHeld(c, rows, w, r) ==
    /\ GoodCall(c) /\ GoodRows(rows) /\ PlanIs(c, rows, w) /\ c.op \in LoanCalls
    /\ r \in LoanRow /\ SoundLoan(r) /\ SettledLoan(r)
    /\ c.op = "apply" => r = NoLoan
    /\ c.op # "apply" => r = rows.loan /\ r.owner = c.acc
LoanMoved(c, rows, w, r, new) ==
    /\ new \in LoanRow /\ SettledLoan(new) /\ new.owner = c.acc
    /\ Lent(new, c.acc) = Lent(r, c.acc)
         + (IF w.entries = <<>> THEN 0 ELSE Part(w.entries[1], "LOAN_DISBURSEMENT"))
    /\ PaidOff(new, c.acc) = PaidOff(r, c.acc)
         + (IF w.entries = <<>> THEN 0 ELSE Part(w.entries[1], "LOAN_REPAYMENT"))

LEMMA LoanMoves ==
  ASSUME NEW c, NEW rows, NEW w, NEW r, LoanHeld(c, rows, w, r)
  PROVE  LoanMoved(c, rows, w, r, UpdateRow(w.loan, r, r))
<1> DEFINE new == UpdateRow(w.loan, r, r)
           D == IF w.entries = <<>> THEN 0 ELSE Part(w.entries[1], "LOAN_DISBURSEMENT")
           R == IF w.entries = <<>> THEN 0 ELSE Part(w.entries[1], "LOAN_REPAYMENT")
<1>1. /\ GoodCall(c) /\ GoodRows(rows) /\ PlanIs(c, rows, w) /\ c.op \in LoanCalls
      /\ r \in LoanRow /\ SoundLoan(r) /\ SettledLoan(r)
      /\ c.op = "apply" => r = NoLoan
      /\ c.op # "apply" => r = rows.loan /\ r.owner = c.acc
      /\ c.acc \in Nat /\ c.acc # 0
  BY DEF LoanHeld, GoodCall
<1>2. LoanPlan(c, rows, w) /\ TypedPlan(w) /\ EntryPlan(c, rows, w)
  BY <1>1, PlanLoan, PlanTyped, PlanEntry
<1>3. new \in LoanRow
  BY <1>1, <1>2, LoanRowKept DEF TypedPlan
<1>4. \A type \in {"LOAN_DISBURSEMENT", "LOAN_REPAYMENT"} :
         (IF w.entries = <<>> THEN 0 ELSE Part(w.entries[1], type)) =
         CASE type = "LOAN_DISBURSEMENT" /\ c.op = "approve" -> rows.loan.principal
           [] type = "LOAN_REPAYMENT" /\ c.op = "payEmi" -> w.loan.paid - rows.loan.paid
           [] OTHER -> 0
  BY <1>2 DEF EntryPlan
<1>5. /\ D = IF c.op = "approve" THEN rows.loan.principal ELSE 0
      /\ R = IF c.op = "payEmi" THEN w.loan.paid - rows.loan.paid ELSE 0
  BY <1>4
<1> HIDE DEF D, R, new
<1>6. CASE c.op = "apply"
  <2>1. /\ w.loan \in LoanRow /\ w.loan.owner = c.acc /\ w.loan.status = "PENDING"
        /\ w.loan.paid = 0
    BY <1>2, <1>6 DEF LoanPlan
  <2>2. new.owner = c.acc /\ new.status = "PENDING" /\ new.paid = 0
    BY <1>1, <1>6, <2>1, UpdatedLoan DEF Assigned, LoanRow, NoLoan, new
  <2>3. ~Runs(new, c.acc) /\ ~Runs(r, c.acc)
    BY <1>1, <1>6, <2>2 DEF Runs, RunningStatus, NoLoan
  <2>4. SettledLoan(new)
    BY <2>2 DEF SettledLoan, RunningStatus
  <2>5. QED
    BY <1>3, <1>5, <1>6, <2>2, <2>3, <2>4 DEF LoanMoved, Lent, PaidOff, D, R, new
<1>7. CASE c.op # "apply"
  <2>1. /\ w.loan \in RepaidColumns /\ w.loan.principal = r.principal
        /\ w.loan.paid + w.loan.remaining = r.principal
        /\ r.paid + r.remaining = r.principal
        /\ r.principal \in Int /\ r.paid \in Int /\ r.remaining \in Int
    BY <1>1, <1>2, <1>7 DEF LoanPlan, SoundLoan, LoanRow
  <2>2. /\ new.owner = r.owner /\ new.status = w.loan.status /\ new.principal = r.principal
        /\ new.paid = w.loan.paid /\ new.remaining = w.loan.remaining
    BY <1>1, <2>1, UpdatedLoan DEF Assigned, RepaidColumns, new
  <2>3. w.loan.paid \in Int /\ w.loan.remaining \in Int
    BY <2>1 DEF RepaidColumns
  <2>4. CASE c.op = "approve"
    <3>1. r.status = "PENDING" /\ new.status = "ACTIVE" /\ new.paid = r.paid
      BY <1>1, <1>2, <1>7, <2>2, <2>4 DEF LoanPlan
    <3>2. r.paid = 0
      BY <1>1, <3>1 DEF SettledLoan
    <3>3. r.principal > 0
      BY <1>1, <1>7 DEF SoundLoan
    <3>4. new.paid = 0 /\ new.remaining # 0
      BY <2>1, <2>2, <2>3, <3>1, <3>2, <3>3
    <3>5. SettledLoan(new)
      BY <3>1, <3>4 DEF SettledLoan
    <3>6. ~Runs(r, c.acc) /\ Runs(new, c.acc)
      BY <1>1, <1>7, <2>2, <3>1 DEF Runs, RunningStatus
    <3>7. D = r.principal /\ R = 0
      BY <1>1, <1>5, <1>7, <2>4
    <3>8. /\ Lent(new, c.acc) = Lent(r, c.acc) + D
          /\ PaidOff(new, c.acc) = PaidOff(r, c.acc) + R
      BY <2>1, <2>2, <3>4, <3>6, <3>7 DEF Lent, PaidOff
    <3>9. QED
      BY <1>1, <1>3, <1>7, <2>2, <3>5, <3>8 DEF LoanMoved, D, R, new
  <2>5. CASE c.op = "reject"
    <3>1. r.status = "PENDING" /\ new.status = "REJECTED"
      BY <1>1, <1>2, <1>7, <2>2, <2>5 DEF LoanPlan
    <3>2. SettledLoan(new)
      BY <3>1 DEF SettledLoan, RunningStatus
    <3>3. ~Runs(r, c.acc) /\ ~Runs(new, c.acc) /\ D = 0 /\ R = 0
      BY <1>5, <2>5, <3>1 DEF Runs, RunningStatus
    <3>4. QED
      BY <1>1, <1>3, <1>7, <2>2, <3>2, <3>3 DEF LoanMoved, Lent, PaidOff, D, R, new
  <2>6. CASE c.op = "payEmi"
    <3>1. /\ r.status \in {"APPROVED", "ACTIVE"}
          /\ new.status = IF new.remaining = 0 THEN "CLOSED" ELSE r.status
      BY <1>1, <1>2, <1>7, <2>2, <2>6 DEF LoanPlan
    <3>2. SettledLoan(new)
      BY <3>1 DEF SettledLoan, RunningStatus
    <3>3. Runs(r, c.acc) /\ Runs(new, c.acc)
      BY <1>1, <1>7, <2>2, <3>1 DEF Runs, RunningStatus
    <3>4. D = 0 /\ R = w.loan.paid - r.paid
      BY <1>1, <1>5, <1>7, <2>6
    <3>5. /\ Lent(new, c.acc) = Lent(r, c.acc) + D
          /\ PaidOff(new, c.acc) = PaidOff(r, c.acc) + R
      BY <2>1, <2>2, <2>3, <3>3, <3>4 DEF Lent, PaidOff
    <3>6. QED
      BY <1>1, <1>3, <1>7, <2>2, <3>2, <3>5 DEF LoanMoved, D, R, new
  <2>7. QED
    BY <1>1, <1>7, <2>4, <2>5, <2>6 DEF LoanCalls
<1>8. QED
  BY <1>6, <1>7

\* The goal a call on a goal leaves when its row is the one the service read.
GoalHeld(c, rows, w, r) ==
    /\ GoodCall(c) /\ GoodRows(rows) /\ PlanIs(c, rows, w) /\ c.op \in GoalCalls
    /\ r \in GoalRow /\ SoundGoal(r)
    /\ c.op = "createGoal" => r = NoGoal
    /\ c.op # "createGoal" => r = rows.goal /\ r.owner = c.acc
GoalMoved(c, rows, r, new) ==
    /\ MarkedGoal(r) => MarkedGoal(new)
    /\ (rows.account.deleted => c.op # "deleteGoal") =>
         Held(new, c.acc) = Held(r, c.acc) - FromGoal(c, rows)

LEMMA GoalMoves ==
  ASSUME NEW c, NEW rows, NEW w, NEW r, GoalHeld(c, rows, w, r)
  PROVE  GoalMoved(c, rows, r, GoalAfter(c, w, r, r))
<1> DEFINE new == GoalAfter(c, w, r, r)
<1>1. /\ GoodCall(c) /\ GoodRows(rows) /\ PlanIs(c, rows, w) /\ c.op \in GoalCalls
      /\ r \in GoalRow /\ SoundGoal(r)
      /\ c.op = "createGoal" => r = NoGoal
      /\ c.op # "createGoal" => r = rows.goal /\ r.owner = c.acc
      /\ c.acc \in Nat /\ c.acc # 0 /\ c.value \in Int
      /\ r.current \in Nat /\ r.target \in Int /\ r.exists \in BOOLEAN /\ r.completed \in BOOLEAN
  BY DEF GoalHeld, GoodCall, SoundGoal, GoalRow
<1>2. GoalPlan(c, rows, w)
  BY <1>1, PlanGoal
<1>3. CASE c.op = "createGoal"
  <2>1. /\ w.goal = [exists |-> TRUE, owner |-> c.acc, target |-> c.value, current |-> 0,
                     completed |-> FALSE]
        /\ w.adds = 0 /\ w.drops = FALSE /\ c.value > 0
    BY <1>2, <1>3 DEF GoalPlan
  <2>2. new = UpdateRow(w.goal, r, r)
    BY <1>3, <2>1 DEF GoalAfter
  <2>3. new.current = 0 /\ new.target = c.value /\ new.completed = FALSE
    <3>1. /\ new.current = Assigned(w.goal, r, r, "current")
          /\ new.target = Assigned(w.goal, r, r, "target")
          /\ new.completed = Assigned(w.goal, r, r, "completed")
      BY <1>1, <2>2, UpdatedGoal
    <3> HIDE DEF new
    <3>2. /\ {"current", "target", "completed"} \subseteq DOMAIN w.goal
          /\ w.goal.current = 0 /\ w.goal.target = c.value /\ w.goal.completed = FALSE
      BY <2>1
    <3>3. QED
      BY <3>1, <3>2, Zenon DEF Assigned
  <2> HIDE DEF new
  <2>4. MarkedGoal(new)
    BY <1>1, <2>1, <2>3 DEF MarkedGoal
  <2>5. Held(new, c.acc) = 0 /\ Held(r, c.acc) = 0 /\ FromGoal(c, rows) = 0
    BY <1>1, <1>3, <2>3 DEF Held, NoGoal, FromGoal
  <2>6. QED
    BY <2>4, <2>5 DEF GoalMoved, new
<1>4. CASE c.op = "contribute"
  <2>1. /\ w.goal = <<>> /\ w.adds = c.value /\ w.drops = FALSE /\ c.value > 0
        /\ r = rows.goal /\ r.owner = c.acc /\ r.exists
    BY <1>1, <1>2, <1>4 DEF GoalPlan
  <2> DEFINE k == [current |-> r.current + c.value,
                   completed |-> r.completed \/ r.current + c.value >= r.target]
  <2>2. Contribution(r, w.adds) = k
    BY <2>1 DEF Contribution
  <2>3. new = UpdateRow(k, r, r)
    BY <1>1, <1>4, <2>1, <2>2 DEF GoalAfter
  <2>4. /\ new.current = r.current + c.value /\ new.target = r.target
        /\ new.owner = r.owner /\ new.exists = r.exists
        /\ new.completed <=> r.completed \/ r.current + c.value >= r.target
    <3>1. /\ new.current = Assigned(k, r, r, "current")
          /\ new.target = Assigned(k, r, r, "target")
          /\ new.owner = Assigned(k, r, r, "owner")
          /\ new.exists = Assigned(k, r, r, "exists")
          /\ new.completed = Assigned(k, r, r, "completed")
      BY <1>1, <2>3, UpdatedGoal
    <3>2. /\ DOMAIN k = {"current", "completed"} /\ k.current = r.current + c.value
          /\ k.completed = (r.completed \/ r.current + c.value >= r.target)
      OBVIOUS
    <3> HIDE DEF new, k
    <3>3. new.current = k.current /\ new.completed = k.completed
      BY <3>1, <3>2, Zenon DEF Assigned
    <3>4. new.completed <=> r.completed \/ r.current + c.value >= r.target
      BY <3>2, <3>3, Zenon
    <3>5. QED
      BY <3>1, <3>2, <3>3, <3>4 DEF Assigned
  <2> HIDE DEF new, k
  <2>5. MarkedGoal(r) => MarkedGoal(new)
    BY <1>1, <2>1, <2>4 DEF MarkedGoal
  <2>6. FromGoal(c, rows) = -c.value
    BY <1>4 DEF FromGoal
  <2>7. Held(new, c.acc) = Held(r, c.acc) - FromGoal(c, rows)
    BY <1>1, <2>1, <2>4, <2>6 DEF Held
  <2>8. QED
    BY <2>5, <2>7 DEF GoalMoved, new
<1>5. CASE c.op = "deleteGoal"
  <2>1. /\ w.goal = <<>> /\ w.adds = 0 /\ w.drops = TRUE
        /\ r = rows.goal /\ r.owner = c.acc /\ r.exists
    BY <1>1, <1>2, <1>5 DEF GoalPlan
  <2>2. new = [r EXCEPT !.exists = FALSE]
    BY <1>5, <2>1 DEF GoalAfter
  <2>3. new.exists = FALSE
    BY <1>1, <2>2 DEF GoalRow
  <2> HIDE DEF new
  <2>4. MarkedGoal(new)
    BY <2>3 DEF MarkedGoal
  <2>5. Held(new, c.acc) = 0 /\ Held(r, c.acc) = r.current
    BY <2>1, <2>3 DEF Held
  <2>6. ~rows.account.deleted => FromGoal(c, rows) = r.current
    BY <1>5, <2>1 DEF FromGoal
  <2>7. QED
    BY <1>1, <1>5, <2>4, <2>5, <2>6 DEF GoalMoved, new
<1>6. CASE c.op = "updateGoal"
  <2>1. /\ w.goal = [target |-> c.value, current |-> r.current,
                     completed |-> r.current >= c.value]
        /\ w.adds = 0 /\ w.drops = FALSE
        /\ r = rows.goal /\ r.owner = c.acc /\ r.exists
    BY <1>1, <1>2, <1>6 DEF GoalPlan
  <2>2. new = UpdateRow(w.goal, r, r)
    BY <1>6, <2>1 DEF GoalAfter
  <2>3. /\ new.current = r.current /\ new.target = c.value
        /\ new.owner = r.owner /\ new.exists = r.exists
        /\ new.completed <=> r.current >= c.value
    <3>1. /\ new.current = Assigned(w.goal, r, r, "current")
          /\ new.target = Assigned(w.goal, r, r, "target")
          /\ new.owner = Assigned(w.goal, r, r, "owner")
          /\ new.exists = Assigned(w.goal, r, r, "exists")
          /\ new.completed = Assigned(w.goal, r, r, "completed")
      BY <1>1, <2>2, UpdatedGoal
    <3>2. /\ DOMAIN w.goal = {"target", "current", "completed"}
          /\ w.goal.current = r.current /\ w.goal.target = c.value
          /\ w.goal.completed = (r.current >= c.value)
      BY <2>1
    <3> HIDE DEF new
    <3>3. /\ new.current = w.goal.current /\ new.target = w.goal.target
          /\ new.completed = w.goal.completed
      BY <3>1, <3>2, Zenon DEF Assigned
    <3>4. new.completed <=> r.current >= c.value
      BY <3>2, <3>3, Zenon
    <3>5. QED
      BY <3>1, <3>2, <3>3, <3>4 DEF Assigned
  <2> HIDE DEF new
  <2>4. MarkedGoal(new)
    BY <1>1, <2>3 DEF MarkedGoal
  <2>5. FromGoal(c, rows) = 0
    BY <1>6 DEF FromGoal
  <2>6. Held(new, c.acc) = Held(r, c.acc) - FromGoal(c, rows)
    BY <1>1, <2>1, <2>3, <2>5 DEF Held
  <2>7. QED
    BY <2>4, <2>6 DEF GoalMoved, new
<1>7. QED
  BY <1>1, <1>3, <1>4, <1>5, <1>6 DEF GoalCalls

LEMMA InitTold == Init => Told
<1> SUFFICES ASSUME Init PROVE Told
  OBVIOUS
<1>1. /\ accounts = OpeningAccounts /\ loans = OpeningLoans /\ goals = OpeningGoals
      /\ raced = {} /\ statements = [a \in Accounts |-> <<>>]
      /\ OpeningAccounts \in [Accounts -> AccountRow] /\ OpeningGoals \in [Goals -> GoalRow]
      /\ OpeningLoans \in [Loans -> LoanRow]
      /\ \A l \in Loans : SettledLoan(OpeningLoans[l])
      /\ \A g \in Goals : MarkedGoal(OpeningGoals[g])
  BY BranchAssumption DEF Init
<1>2. ASSUME NEW a
      PROVE  /\ Saved(OpeningGoals, a) \in Int
             /\ Disbursed(OpeningLoans, a) \in Int /\ Repaid(OpeningLoans, a) \in Int
  <2>1. /\ \A r \in GoalRow : Held(r, a) \in Int
        /\ \A r \in LoanRow : Lent(r, a) \in Int /\ PaidOff(r, a) \in Int
    BY DEF GoalRow, LoanRow, Held, Lent, PaidOff
  <2> DEFINE f == [g \in Goals |-> Held(OpeningGoals[g], a)]
             h == [l \in Loans |-> Lent(OpeningLoans[l], a)]
             k == [l \in Loans |-> PaidOff(OpeningLoans[l], a)]
  <2>2. /\ \A g \in Goals : f[g] \in Int
        /\ \A l \in Loans : h[l] \in Int /\ k[l] \in Int
    BY <1>1, <2>1
  <2>3. IsFiniteSet(Goals) /\ IsFiniteSet(Loans)
    BY BranchAssumption
  <2> HIDE DEF f, h, k
  <2>4. SumOver(f, Goals) \in Int /\ SumOver(h, Loans) \in Int /\ SumOver(k, Loans) \in Int
    BY <2>2, <2>3, SumInt
  <2>5. QED
    BY <2>4, Zenon DEF Saved, Disbursed, Repaid, f, h, k
<1>3. \A a \in Accounts : accounts[a].balance \in Int
  BY <1>1 DEF AccountRow
<1>4. MoneyIsKept
  BY <1>1, <1>2, <1>3, NothingIsCounted DEF MoneyIsKept
<1>5. LoansSettled /\ GoalsAreMarked
  BY <1>1 DEF LoansSettled, GoalsAreMarked
<1>6. LoansMatchStatements
  <2>1. ASSUME NEW a \in Accounts, NEW l \in Loans, Runs(loans[l], a)
        PROVE  loans[l].status = "CLOSED" <=> loans[l].remaining = 0
    BY <1>1, <2>1 DEF Runs, SettledLoan
  <2>2. QED
    BY <1>1, <1>2, <2>1, NothingIsCounted DEF LoansMatchStatements
<1>7. QED
  BY <1>4, <1>5, <1>6 DEF Told

\* A step that leaves the tables alone and calms nobody.
LEMMA ToldKept == ASSUME Told, UNCHANGED tables, raced \subseteq raced' PROVE Told'
<1>1. MoneyIsKept'
  BY DEF Told, MoneyIsKept, tables
<1>2. LoansMatchStatements'
  BY DEF Told, LoansMatchStatements, tables
<1>3. LoansSettled' /\ GoalsAreMarked'
  BY DEF Told, LoansSettled, GoalsAreMarked, tables
<1>4. QED
  BY <1>1, <1>2, <1>3 DEF Told

\* What a commit on an account on which no calls overlapped has read is still there.
LEMMA CommitReads ==
  ASSUME Sound, Calm, NEW t \in Threads, Commit(t), call[t].acc \notin raced
  PROVE  LET c == call[t]
         IN  /\ seen[t].account = accounts[c.acc] /\ base[t].account = accounts[c.acc]
             /\ c.op \in LoanCalls => base[t].loan = loans[c.loan]
             /\ c.op \in LoanCalls \ {"apply"} => seen[t].loan = loans[c.loan]
             /\ c.op = "apply" => loans[c.loan] = NoLoan
             /\ c.op \in GoalCalls => /\ base[t].goal = goals[c.goal]
                                      /\ seen[t].goal = goals[c.goal]
             /\ c.op = "createGoal" => goals[c.goal] = NoGoal
<1> DEFINE c == call[t]
<1>1. pc[t] = "commit" /\ c.loan \in Loans /\ c.goal \in Goals
  BY CommitLeaves, CallColumns DEF Commit
<1>2. RowsHold(t, seen[t]) /\ RowsHold(t, base[t])
  BY <1>1 DEF Calm, Current
<1>3. /\ c.op = "apply" => loans[c.loan].owner = 0
      /\ c.op \in LoanCalls \ {"apply"} => loans[c.loan].owner = c.acc
      /\ c.op = "createGoal" => goals[c.goal].owner = 0
  BY CommitOwns
<1>4. SoundLoan(loans[c.loan]) /\ SoundGoal(goals[c.goal])
  BY <1>1 DEF Sound, SoundTables
<1>5. RowsStand(t, base[t]) /\ SoundLoan(base[t].loan)
  BY <1>1, ThreadsSound DEF ThreadSound, GoodRows
<1>6. c.op = "apply" => loans[c.loan] = NoLoan /\ base[t].loan = NoLoan
  BY <1>3, <1>4, <1>5 DEF SoundLoan, RowsStand, LoanStands
<1>7. c.op = "createGoal" => goals[c.goal] = NoGoal
  BY <1>3, <1>4 DEF SoundGoal
<1>8. QED
  BY <1>2, <1>3, <1>6, <1>7 DEF RowsHold

LEMMA CommitTold == ASSUME Sound, Calm, Told, NEW t \in Threads, Commit(t) PROVE Told'
<1> DEFINE c == call[t]
           w == Writes(t)
           rows == seen[t]
           b == base[t]
           l == c.loan
           g == c.goal
           D == IF w.entries = <<>> THEN 0 ELSE Part(w.entries[1], "LOAN_DISBURSEMENT")
           R == IF w.entries = <<>> THEN 0 ELSE Part(w.entries[1], "LOAN_REPAYMENT")
<1>1. /\ c \in Call /\ GoodCall(c) /\ GoodRows(rows) /\ GoodRows(b) /\ PlanIs(c, rows, w)
      /\ accounts' = [accounts EXCEPT ![c.acc] =
             IF b.account.deleted THEN accounts[c.acc]
             ELSE UpdateRow(w.account, b.account, accounts[c.acc])]
      /\ loans' = [loans EXCEPT ![l] = UpdateRow(w.loan, b.loan, loans[l])]
      /\ goals' = [goals EXCEPT ![g] = GoalAfter(c, w, b.goal, goals[g])]
      /\ statements' = [statements EXCEPT ![c.acc] = statements[c.acc] \o w.entries]
      /\ LoanLeft(c, loans[l], loans'[l]) /\ GoalLeft(c, goals[g], goals'[g])
  BY CommitLeaves
<1>2. /\ c.acc \in Accounts /\ l \in Loans /\ g \in Goals /\ c.acc \in Nat /\ c.acc # 0
      /\ AtMostOne(w.entries) /\ EntryPlan(c, rows, w) /\ ScopedPlan(c, w)
  BY <1>1, CallColumns, PlanTyped, PlanEntry, PlanScoped DEF TypedPlan
<1>3. /\ c.op = "apply" => loans[l].owner = 0
      /\ c.op \in LoanCalls \ {"apply"} => loans[l].owner = c.acc
      /\ c.op = "createGoal" => goals[g].owner = 0 /\ c.acc \in GoalOwners(g)
      /\ c.op \in GoalCalls \ {"createGoal"} =>
           /\ goals[g].owner # 0
           /\ goals[g].owner = c.acc \/ {goals[g].owner, c.acc} \subseteq raced
  BY CommitOwns
<1>4. c.acc \notin raced =>
        /\ rows.account = accounts[c.acc] /\ b.account = accounts[c.acc]
        /\ c.op \in LoanCalls => b.loan = loans[l]
        /\ c.op \in LoanCalls \ {"apply"} => rows.loan = loans[l]
        /\ c.op = "apply" => loans[l] = NoLoan
        /\ c.op \in GoalCalls => b.goal = goals[g] /\ rows.goal = goals[g]
        /\ c.op = "createGoal" => goals[g] = NoGoal
  BY CommitReads
<1>5. raced' = raced
  BY DEF Commit
<1>6. /\ accounts \in [Accounts -> AccountRow] /\ accounts' \in [Accounts -> AccountRow]
      /\ loans \in [Loans -> LoanRow] /\ loans' \in [Loans -> LoanRow]
      /\ goals \in [Goals -> GoalRow] /\ goals' \in [Goals -> GoalRow]
      /\ statements \in [Accounts -> Seq(Transaction)]
      /\ SoundLoan(loans[l]) /\ SoundGoal(goals[g])
  BY <1>2, CommitSound DEF Sound, TypeOK, SoundTables
<1> HIDE DEF c, w, rows, b, l, g
<1>7. /\ \A a \in Accounts : a # c.acc => /\ accounts'[a] = accounts[a]
                                          /\ statements'[a] = statements[a]
      /\ \A x \in Loans : x # l => loans'[x] = loans[x]
      /\ \A x \in Goals : x # g => goals'[x] = goals[x]
      /\ c.op \notin LoanCalls => loans'[l] = loans[l]
      /\ c.op \notin GoalCalls => goals'[g] = goals[g]
      /\ statements'[c.acc] = statements[c.acc] \o w.entries
  BY <1>1, <1>2, <1>6 DEF LoanLeft, GoalLeft
<1>8. /\ loans'[l].owner = IF c.op = "apply" THEN c.acc ELSE loans[l].owner
      /\ goals'[g].owner = IF c.op = "createGoal" THEN c.acc ELSE goals[g].owner
  BY <1>1 DEF LoanLeft, GoalLeft
<1>9. /\ LoansSettled /\ LoansMatchStatements /\ GoalsAreMarked /\ MoneyIsKept
  BY DEF Told
\* The rows of the call's own account.
<1>10. ASSUME c.acc \notin raced
       PROVE  \/ accounts'[c.acc].deleted
              \/ /\ ~rows.account.deleted
                 /\ AccountLeft(c, rows, w, accounts'[c.acc])
  <2>1. rows.account = accounts[c.acc] /\ b.account = accounts[c.acc]
    BY <1>4, <1>10
  <2>2. accounts'[c.acc] = IF b.account.deleted THEN accounts[c.acc]
                           ELSE UpdateRow(w.account, b.account, accounts[c.acc])
    BY <1>1, <1>2, <1>6
  <2>3. AccountLeft(c, rows, w, UpdateRow(w.account, rows.account, rows.account))
    BY <1>1, AccountMoves DEF AccountReady
  <2>4. QED
    BY <2>1, <2>2, <2>3
<1>11. ASSUME c.acc \notin raced, c.op \in LoanCalls
       PROVE  LoanMoved(c, rows, w, loans[l], loans'[l])
  <2>1. loans[l] \in LoanRow /\ SettledLoan(loans[l])
    <3>1. CASE c.op = "apply"
      <4>1. SettledLoan(NoLoan)
        BY DEF NoLoan, SettledLoan, RunningStatus
      <4>2. QED
        BY <1>2, <1>4, <1>6, <1>11, <3>1, <4>1
    <3>2. CASE c.op # "apply"
      <4>1. loans[l].owner \notin raced
        BY <1>3, <1>11, <3>2
      <4>2. QED
        BY <1>2, <1>6, <1>9, <4>1 DEF LoansSettled
    <3>3. QED
      BY <3>1, <3>2
  <2>2. LoanHeld(c, rows, w, loans[l])
    <3>1. /\ c.op = "apply" => loans[l] = NoLoan
          /\ c.op # "apply" => loans[l] = rows.loan /\ loans[l].owner = c.acc
      BY <1>3, <1>4, <1>11
    <3>2. QED
      BY <1>1, <1>6, <1>11, <2>1, <3>1, Zenon DEF LoanHeld
  <2>3. loans'[l] = UpdateRow(w.loan, loans[l], loans[l])
    <3>1. b.loan = loans[l]
      BY <1>4, <1>11
    <3>2. QED
      BY <1>1, <1>2, <1>6, <3>1
  <2>4. QED
    BY <2>2, <2>3, LoanMoves
<1>12. ASSUME c.acc \notin raced, c.op \in GoalCalls
       PROVE  GoalMoved(c, rows, goals[g], goals'[g])
  <2>1. GoalHeld(c, rows, w, goals[g])
    <3>1. /\ c.op = "createGoal" => goals[g] = NoGoal
          /\ c.op # "createGoal" => goals[g] = rows.goal /\ goals[g].owner = c.acc
      BY <1>3, <1>4, <1>12
    <3>2. goals[g] \in GoalRow
      BY <1>2, <1>6
    <3>3. QED
      BY <1>1, <1>6, <1>12, <3>1, <3>2, Zenon DEF GoalHeld
  <2>2. goals'[g] = GoalAfter(c, w, goals[g], goals[g])
    <3>1. b.goal = goals[g]
      BY <1>4, <1>12
    <3>2. QED
      BY <1>1, <1>2, <1>6, <3>1
  <2>3. QED
    BY <2>1, <2>2, GoalMoves
\* The loan and the goal belong to no other account on which no calls overlapped.
<1>13. ASSUME NEW a \in Accounts \ raced, a # c.acc
       PROVE  /\ c.op \in LoanCalls => loans[l].owner # a /\ loans'[l].owner # a
              /\ c.op \in GoalCalls => goals[g].owner # a /\ goals'[g].owner # a
  <2>1. a # 0
    BY BranchAssumption
  <2>2. QED
    BY <1>3, <1>8, <1>13, <2>1 DEF LoanCalls, GoalCalls
\* The sums of every account on which no calls overlapped.
<1>14. ASSUME NEW a \in Accounts \ raced
       PROVE  /\ Saved(goals, a) \in Int /\ Disbursed(loans, a) \in Int /\ Repaid(loans, a) \in Int
              /\ Saved(goals', a) = Saved(goals, a) + Held(goals'[g], a) - Held(goals[g], a)
              /\ Disbursed(loans', a) =
                   Disbursed(loans, a) + Lent(loans'[l], a) - Lent(loans[l], a)
              /\ Repaid(loans', a) =
                   Repaid(loans, a) + PaidOff(loans'[l], a) - PaidOff(loans[l], a)
  <2>1. OneGoal(goals, goals', g) /\ OneLoan(loans, loans', l)
    BY <1>2, <1>6, <1>7 DEF OneGoal, OneLoan
  <2>2. GoalShift(goals, goals', g, a) /\ LoanShift(loans, loans', l, a)
    BY <2>1, GoalIsCounted, LoanIsCounted, Zenon
  <2>3. QED
    BY <2>2 DEF GoalShift, LoanShift
<1>15. /\ Credits(statements[c.acc]) \in Int
       /\ Credits(statements'[c.acc]) = Credits(statements[c.acc]) + CreditOf(w.entries)
       /\ Total(statements[c.acc], "LOAN_DISBURSEMENT") \in Int
       /\ Total(statements'[c.acc], "LOAN_DISBURSEMENT")
            = Total(statements[c.acc], "LOAN_DISBURSEMENT") + D
       /\ Total(statements[c.acc], "LOAN_REPAYMENT") \in Int
       /\ Total(statements'[c.acc], "LOAN_REPAYMENT")
            = Total(statements[c.acc], "LOAN_REPAYMENT") + R
  <2>1. statements[c.acc] \in Seq(Transaction)
    BY <1>2, <1>6
  <2>2. "LOAN_DISBURSEMENT" \in TransactionType /\ "LOAN_REPAYMENT" \in TransactionType
    BY DEF TransactionType
  <2> DEFINE s == statements[c.acc]
             e == w.entries
             P(type) == IF e = <<>> THEN 0 ELSE Part(e[1], type)
  <2>3. /\ D = P("LOAN_DISBURSEMENT") /\ R = P("LOAN_REPAYMENT")
        /\ AtMostOne(e) /\ s \in Seq(Transaction) /\ statements'[c.acc] = s \o e
    BY <1>2, <1>7, <2>1
  <2> HIDE DEF s, e, D, R
  <2>4. /\ Credits(s) \in Int /\ Credits(s \o e) = Credits(s) + CreditOf(e)
        /\ \A type \in TransactionType :
             Total(s, type) \in Int /\ Total(s \o e, type) = Total(s, type) + P(type)
    BY <2>3, EntryIsCounted
  <2> HIDE DEF P
  <2>5. /\ Total(s, "LOAN_DISBURSEMENT") \in Int /\ Total(s, "LOAN_REPAYMENT") \in Int
        /\ Total(s \o e, "LOAN_DISBURSEMENT")
             = Total(s, "LOAN_DISBURSEMENT") + P("LOAN_DISBURSEMENT")
        /\ Total(s \o e, "LOAN_REPAYMENT") = Total(s, "LOAN_REPAYMENT") + P("LOAN_REPAYMENT")
    BY <2>2, <2>4
  <2>6. QED
    BY <2>3, <2>4, <2>5 DEF s, e
<1>16. CreditOf(w.entries) \in Int /\ D \in Int /\ R \in Int
  BY <1>2 DEF AtMostOne, CreditOf, Credit, Part, Transaction, D, R
<1>17. FromGoal(c, rows) \in Int /\ (c.op \notin GoalCalls => FromGoal(c, rows) = 0)
  BY <1>1, RowsTyped DEF FromGoal, GoalCalls
<1> HIDE DEF D, R
<1>18. \A a : \A r \in GoalRow : Held(r, a) \in Int
  BY DEF GoalRow, Held
<1>19. \A a : \A r \in LoanRow : Lent(r, a) \in Int /\ PaidOff(r, a) \in Int
  BY DEF LoanRow, Lent, PaidOff
<1>20. ASSUME NEW a \in Accounts \ raced, ~accounts'[a].deleted
       PROVE  accounts'[a].balance + Saved(goals', a)
                = OpeningAccounts[a].balance + Saved(OpeningGoals, a) + Credits(statements'[a])
  <2> DEFINE opening == OpeningAccounts[a].balance + Saved(OpeningGoals, a)
  <2>1. opening \in Int
    <3>1. OneGoal(OpeningGoals, OpeningGoals, g)
      BY <1>2, BranchAssumption DEF OneGoal
    <3>2. Saved(OpeningGoals, a) \in Int
      BY <3>1, GoalIsCounted, Zenon DEF GoalShift
    <3>3. OpeningAccounts[a].balance \in Int
      BY BranchAssumption DEF AccountRow
    <3>4. QED
      BY <3>2, <3>3
  <2>2. ~accounts[a].deleted => accounts[a].balance + Saved(goals, a)
                                  = opening + Credits(statements[a])
    BY <1>9 DEF MoneyIsKept
  <2>3. /\ accounts[a].balance \in Int /\ accounts'[a].balance \in Int
        /\ Held(goals[g], a) \in Int /\ Held(goals'[g], a) \in Int
    BY <1>2, <1>6, <1>18 DEF AccountRow
  <2> HIDE DEF opening
  <2>4. CASE a = c.acc
    <3>1. /\ ~rows.account.deleted /\ AccountLeft(c, rows, w, accounts'[c.acc])
          /\ rows.account = accounts[c.acc]
      BY <1>4, <1>10, <1>20, <2>4
    <3>2. accounts'[a].balance = accounts[a].balance + CreditOf(w.entries) + FromGoal(c, rows)
      BY <2>4, <3>1 DEF AccountLeft
    <3>3. Held(goals'[g], a) = Held(goals[g], a) - FromGoal(c, rows)
      <4>1. CASE c.op \in GoalCalls
        BY <1>12, <2>4, <3>1, <4>1 DEF GoalMoved
      <4>2. CASE c.op \notin GoalCalls
        BY <1>7, <1>17, <2>3, <4>2
      <4>3. QED
        BY <4>1, <4>2
    <3>4. QED
      BY <1>14, <1>15, <1>16, <1>17, <2>1, <2>2, <2>3, <2>4, <3>1, <3>2, <3>3 DEF opening
  <2>5. CASE a # c.acc
    <3>1. accounts'[a] = accounts[a] /\ statements'[a] = statements[a]
      BY <1>7, <2>5
    <3>2. Held(goals'[g], a) = Held(goals[g], a)
      BY <1>7, <1>13, <2>5 DEF Held
    <3>3. QED
      BY <1>14, <1>20, <2>2, <2>3, <3>1, <3>2 DEF opening
  <2>6. QED
    BY <2>4, <2>5
<1>21. ASSUME NEW x \in Loans, loans'[x].owner \notin raced PROVE SettledLoan(loans'[x])
  <2>1. CASE x = l /\ c.op \in LoanCalls
    <3>1. c.acc \notin raced
      BY <1>3, <1>8, <1>21, <2>1
    <3>2. QED
      BY <1>11, <2>1, <3>1 DEF LoanMoved
  <2>2. CASE ~(x = l /\ c.op \in LoanCalls)
    BY <1>7, <1>9, <1>21, <2>2 DEF LoansSettled
  <2>3. QED
    BY <2>1, <2>2
<1>22. ASSUME NEW x \in Goals, goals'[x].owner \notin raced PROVE MarkedGoal(goals'[x])
  <2>1. CASE x = g /\ c.op \in GoalCalls
    <3>1. c.acc \notin raced
      BY <1>3, <1>8, <1>22, <2>1
    <3>2. MarkedGoal(goals[g])
      <4>1. CASE c.op = "createGoal"
        BY <1>4, <3>1, <4>1 DEF MarkedGoal, NoGoal
      <4>2. CASE c.op # "createGoal"
        BY <1>2, <1>8, <1>9, <1>22, <2>1, <4>2 DEF GoalsAreMarked
      <4>3. QED
        BY <4>1, <4>2
    <3>3. QED
      BY <1>12, <2>1, <3>1, <3>2 DEF GoalMoved
  <2>2. CASE ~(x = g /\ c.op \in GoalCalls)
    BY <1>7, <1>9, <1>22, <2>2 DEF GoalsAreMarked
  <2>3. QED
    BY <2>1, <2>2
<1>23. ASSUME NEW a \in Accounts \ raced
       PROVE  /\ Total(statements'[a], "LOAN_DISBURSEMENT")
                   = Disbursed(loans', a) - Disbursed(OpeningLoans, a)
              /\ Total(statements'[a], "LOAN_REPAYMENT")
                   = Repaid(loans', a) - Repaid(OpeningLoans, a)
  <2>1. /\ Total(statements[a], "LOAN_DISBURSEMENT")
             = Disbursed(loans, a) - Disbursed(OpeningLoans, a)
        /\ Total(statements[a], "LOAN_REPAYMENT")
             = Repaid(loans, a) - Repaid(OpeningLoans, a)
    BY <1>9 DEF LoansMatchStatements
  <2>2. Disbursed(OpeningLoans, a) \in Int /\ Repaid(OpeningLoans, a) \in Int
    <3>1. OneLoan(OpeningLoans, OpeningLoans, l)
      BY <1>2, BranchAssumption DEF OneLoan
    <3>2. QED
      BY <3>1, LoanIsCounted, Zenon DEF LoanShift
  <2>3. /\ Lent(loans[l], a) \in Int /\ Lent(loans'[l], a) \in Int
        /\ PaidOff(loans[l], a) \in Int /\ PaidOff(loans'[l], a) \in Int
    BY <1>2, <1>6, <1>19
  <2>4. CASE a = c.acc
    <3>1. Lent(loans'[l], a) = Lent(loans[l], a) + D /\ PaidOff(loans'[l], a) = PaidOff(loans[l], a) + R
      <4>1. CASE c.op \in LoanCalls
        BY <1>11, <2>4, <4>1 DEF LoanMoved, D, R
      <4>2. CASE c.op \notin LoanCalls
        <5>1. D = 0 /\ R = 0
          BY <1>2, <4>2 DEF EntryPlan, LoanCalls, D, R
        <5>2. QED
          BY <1>7, <2>3, <4>2, <5>1
      <4>3. QED
        BY <4>1, <4>2
    <3>2. QED
      BY <1>14, <1>15, <1>16, <2>1, <2>2, <2>3, <2>4, <3>1
  <2>5. CASE a # c.acc
    <3>1. Lent(loans'[l], a) = Lent(loans[l], a) /\ PaidOff(loans'[l], a) = PaidOff(loans[l], a)
      BY <1>7, <1>13, <2>5 DEF Lent, PaidOff, Runs
    <3>2. QED
      BY <1>7, <1>14, <2>1, <2>2, <2>3, <2>5, <3>1
  <2>6. QED
    BY <2>4, <2>5
<1>24. ASSUME NEW a \in Accounts \ raced, NEW x \in Loans, Runs(loans'[x], a)
       PROVE  loans'[x].status = "CLOSED" <=> loans'[x].remaining = 0
  BY <1>21, <1>24 DEF Runs, SettledLoan
<1>25. QED
  BY <1>5, <1>20, <1>21, <1>22, <1>23, <1>24
  DEF Told, MoneyIsKept, LoansSettled, LoansMatchStatements, GoalsAreMarked

LEMMA NextTold == ASSUME Sound, Calm, Told, [Next]_vars PROVE Told'
<1>1. ASSUME NEW t \in Threads, Advance(t) PROVE Told'
  <2>1. CASE Commit(t)
    BY <2>1, CommitTold
  <2>2. CASE Lock(t) \/ Read(t) \/ ReadAgain(t) \/ Flush(t) \/ CommitFails(t) \/ Audit(t)
    <3>1. UNCHANGED tables /\ raced' = raced
      BY <2>2 DEF Lock, Read, ReadAgain, Flush, CommitFails, Audit, history
    <3>2. QED
      BY <3>1, ToldKept
  <2>3. QED
    BY <1>1, <2>1, <2>2 DEF Advance
<1>2. ASSUME NEW t \in Threads, NEW c \in Calls, Submit(t, c) PROVE Told'
  <2>1. UNCHANGED tables /\ raced \subseteq raced'
    BY <1>2 DEF Submit
  <2>2. QED
    BY <2>1, ToldKept
<1>3. CASE Crash
  <2>1. UNCHANGED tables /\ raced' = raced
    BY <1>3 DEF Crash, history
  <2>2. QED
    BY <2>1, ToldKept
<1>4. CASE Closing \/ UNCHANGED vars
  <2>1. UNCHANGED tables /\ raced' = raced
    BY <1>4 DEF Closing, vars, history
  <2>2. QED
    BY <2>1, ToldKept
<1>5. QED
  BY <1>1, <1>2, <1>3, <1>4 DEF Next

\* What the locks and the order of the steps keep: on an account on which no unlocked call
\* has overlapped another, a thread's rows are the stored rows until it commits.
THEOREM AlwaysCalm == Spec => [](Sound /\ Calm)
<1>1. Init => Sound /\ Calm
  BY InitSound, InitCalm
<1>2. Sound /\ Calm /\ [Next]_vars => (Sound /\ Calm)'
  BY NextSound, NextCalm
<1>3. QED
  BY <1>1, <1>2, PTL DEF Spec

\* The books of such an account agree with its statement.
THEOREM AlwaysTold == Spec => [](Sound /\ Calm /\ Told)
<1>1. Init => Sound /\ Calm /\ Told
  BY InitSound, InitCalm, InitTold
<1>2. Sound /\ Calm /\ Told /\ [Next]_vars => (Sound /\ Calm /\ Told)'
  BY NextSound, NextCalm, NextTold
<1>3. QED
  BY <1>1, <1>2, PTL DEF Spec

\* Unless unlocked calls overlapped on an account, its balance and its goals together are
\* what it had and what its statement brought in.
THEOREM MoneyStaysTogether == Spec => []MoneyIsKept
<1>1. Told => MoneyIsKept
  BY DEF Told
<1>2. QED
  BY <1>1, AlwaysTold, PTL

\* Unless unlocked calls overlapped, the statements tell of the loans what the loans do.
THEOREM StatementsTellLoans == Spec => []LoansMatchStatements
<1>1. Told => LoansMatchStatements
  BY DEF Told
<1>2. QED
  BY <1>1, AlwaysTold, PTL

\* Unless unlocked calls overlapped, a goal is marked completed exactly when it is.
THEOREM MarksAreTrue == Spec => []GoalsAreMarked
<1>1. Told => GoalsAreMarked
  BY DEF Told
<1>2. QED
  BY <1>1, AlwaysTold, PTL

\* The statement of a frozen, closed or deleted account grows by contributions only.
LEMMA IdleStep ==
  ASSUME Sound, Calm, [Next]_vars
  PROVE  \A a \in Accounts \ raced' : Idle(a) => Len(statements'[a]) = Len(statements[a])
            \/ Last(statements'[a]).type = "TRANSFER_OUT"
<1> SUFFICES ASSUME NEW a \in Accounts, a \notin raced', Idle(a)
             PROVE  \/ Len(statements'[a]) = Len(statements[a])
                    \/ Last(statements'[a]).type = "TRANSFER_OUT"
  OBVIOUS
<1>1. ASSUME NEW t \in Threads, Commit(t)
      PROVE  \/ Len(statements'[a]) = Len(statements[a])
             \/ Last(statements'[a]).type = "TRANSFER_OUT"
  <2> DEFINE c == call[t]
             w == Writes(t)
             s == statements[a]
  <2>1. /\ c \in Call /\ GoodCall(c) /\ GoodRows(seen[t]) /\ PlanIs(c, seen[t], w)
        /\ statements' = [statements EXCEPT ![c.acc] = statements[c.acc] \o w.entries]
        /\ statements \in [Accounts -> Seq(Transaction)] /\ raced' = raced
    BY <1>1, CommitLeaves DEF Commit, Sound, TypeOK
  <2>2. EntryPlan(c, seen[t], w) /\ AtMostOne(w.entries)
    BY <2>1, PlanEntry, PlanTyped DEF TypedPlan
  <2>3. CASE a # c.acc
    BY <2>1, <2>3
  <2>4. CASE a = c.acc
    <3>1. seen[t].account = accounts[a]
      BY <1>1, <2>1, <2>4, CommitReads
    <3>2. w.entries = <<>> \/ w.entries[1].type = "TRANSFER_OUT"
      BY <2>2, <3>1 DEF EntryPlan, Idle, Usable
    <3>3. statements'[a] = s \o w.entries /\ s \in Seq(Transaction)
      BY <2>1, <2>4
    <3> HIDE DEF w, s
    <3>4. CASE w.entries = <<>>
      BY <3>3, <3>4 DEF s
    <3>5. ASSUME NEW x \in Transaction, w.entries = <<x>>, w.entries[1].type = "TRANSFER_OUT"
          PROVE  Last(statements'[a]).type = "TRANSFER_OUT"
      <4>1. Len(s \o <<x>>) = Len(s) + 1 /\ (s \o <<x>>)[Len(s) + 1] = x
        BY <3>3
      <4>2. x.type = "TRANSFER_OUT"
        BY <3>5
      <4>3. QED
        BY <3>3, <3>5, <4>1, <4>2 DEF Last
    <3>6. QED
      BY <2>2, <3>2, <3>4, <3>5 DEF AtMostOne
  <2>5. QED
    BY <2>3, <2>4
<1>2. ASSUME statements' = statements
      PROVE  Len(statements'[a]) = Len(statements[a])
  BY <1>2
<1>3. \A t \in Threads, c \in Calls : Submit(t, c) => statements' = statements
  BY DEF Submit, tables
<1>4. \A t \in Threads : Advance(t) => Commit(t) \/ statements' = statements
  BY DEF Advance, Lock, Read, ReadAgain, Flush, CommitFails, Audit, tables
<1>5. Crash \/ Closing \/ UNCHANGED vars => statements' = statements
  BY DEF Crash, Closing, vars, tables
<1>6. QED
  BY <1>1, <1>2, <1>3, <1>4, <1>5 DEF Next

\* No money of an account that cannot transact moves, but into its goals, unless unlocked
\* calls overlapped: the check of a call is still true when the call commits.
THEOREM IdleAccountsRest == Spec => IdleMoneyStays
<1>1. Sound /\ Calm /\ [Next]_vars =>
        [\A a \in Accounts \ raced' : Idle(a) => Len(statements'[a]) = Len(statements[a])
              \/ Last(statements'[a]).type = "TRANSFER_OUT"]_vars
  BY IdleStep
<1>2. QED
  BY <1>1, AlwaysCalm, PTL DEF Spec, IdleMoneyStays

-------------------------------------------------------------------------------
(* What the audit log tells *)

Writing(e) == {t \in Threads : pc[t] = "audit" /\ EventOf(t) = e}

LEMMA WritingCounts ==
  ASSUME NEW e
  PROVE  /\ IsFiniteSet(Writing(e)) /\ Auditing(e) = Cardinality(Writing(e))
         /\ Auditing(e) \in Nat
<1>1. IsFiniteSet(Threads) /\ Writing(e) \in SUBSET Threads
  BY BranchAssumption DEF Writing
<1>2. IsFiniteSet(Writing(e)) /\ Cardinality(Writing(e)) \in Nat
  BY <1>1, FS_Subset, FS_CardinalityType
<1>3. QED
  BY <1>2 DEF Auditing, Writing

\* The events are events of the tables.
LEMMA EventsOf == ASSUME Sound, NEW t \in Threads PROVE EventOf(t) \in Events /\ EventOf(t)[1] = call[t].op
BY CallColumns DEF Sound, TypeOK, EventOf, Events

LEMMA InitTallied == Init => Tallied
<1> SUFFICES ASSUME Init PROVE Tallied
  OBVIOUS
<1>1. done = <<>> /\ audit = <<>> /\ crashes = 0 /\ DOMAIN <<>> = {} /\ \A t \in Threads : pc[t] = "idle"
  BY DEF Init
<1>2. \A e : Writing(e) = {}
  BY <1>1 DEF Writing
<1>3. \A e : Auditing(e) = 0
  BY <1>2, WritingCounts, FS_EmptySet
<1>4. \A e : Count(done, e) = 0 /\ Count(audit, e) = 0
  BY <1>1 DEF Count
<1>5. QED
  BY <1>1, <1>3, <1>4 DEF Tallied

\* A step that neither commits nor ends an audit.
LEMMA TalliedKept ==
  ASSUME Tallied, UNCHANGED <<done, audit, crashes>>,
         \A u \in Threads : /\ pc'[u] = "audit" <=> pc[u] = "audit"
                            /\ pc[u] = "audit" => call'[u] = call[u]
  PROVE  Tallied'
<1>1. ASSUME NEW e PROVE Auditing(e)' = Auditing(e)
  <2>1. Writing(e)' = Writing(e)
    BY DEF Writing, EventOf
  <2>2. Auditing(e)' = Cardinality(Writing(e)')
    BY DEF Auditing, Writing
  <2>3. QED
    BY <2>1, <2>2, WritingCounts
<1>2. QED
  BY <1>1 DEF Tallied

LEMMA CommitTallied ==
  ASSUME Sound, Calm, Tallied, NEW t \in Threads, Commit(t) PROVE Tallied'
<1> DEFINE E == EventOf(t)
           w == Writes(t)
<1>1. /\ pc[t] = "commit" /\ UNCHANGED <<audit, call, crashes>> /\ done' = Tally(done, E)
      /\ \/ w.audit # "none" /\ Proceed(t, "audit")
         \/ w.audit = "none" /\ Finish(t, "done")
  BY DEF Commit, boundVars
<1>2. E \in Events /\ E[1] = call[t].op
  BY EventsOf
<1>3. w.audit # "none" <=> call[t].op \in Audited
  BY CommitLeaves, PlanScoped DEF ScopedPlan
<1>4. /\ done \in [DOMAIN done -> Nat] /\ audit \in [DOMAIN audit -> Nat]
      /\ pc \in [Threads -> Stages]
  BY DEF Sound, TypeOK
<1>5. \A u \in Threads : pc'[u] = IF u = t THEN IF call[t].op \in Audited THEN "audit" ELSE "idle"
                                  ELSE pc[u]
  BY <1>1, <1>3, <1>4 DEF Proceed, Finish, Goto
<1>6. \A u \in Threads : EventOf(u)' = EventOf(u)
  BY <1>1 DEF EventOf
<1> HIDE DEF E, w
<1>7. /\ DOMAIN done' = DOMAIN done \cup {E}
      /\ \A x : Count(done', x) = Count(done, x) + (IF x = E THEN 1 ELSE 0)
      /\ \A x : Count(done, x) \in Nat /\ Count(audit, x) \in Nat
  <2>1. /\ DOMAIN Tally(done, E) = DOMAIN done \cup {E}
        /\ \A x : Count(Tally(done, E), x) = Count(done, x) + (IF x = E THEN 1 ELSE 0)
    BY <1>4, TallyCounts
  <2>2. \A x : Count(done, x) \in Nat /\ Count(audit, x) \in Nat
    BY <1>4, TallyCounts
  <2>3. QED
    BY <1>1, <2>1, <2>2
<1>8. ASSUME NEW e \in Events, e[1] \in Audited
      PROVE  Auditing(e)' = Auditing(e) + (IF e = E THEN 1 ELSE 0)
  <2>1. Auditing(e)' = Cardinality(Writing(e)')
    BY DEF Auditing, Writing
  <2>2. CASE e = E
    <3>1. Writing(e)' = Writing(e) \cup {t} /\ t \notin Writing(e)
      BY <1>1, <1>2, <1>5, <1>6, <1>8, <2>2 DEF Writing, E
    <3>2. QED
      BY <2>1, <2>2, <3>1, WritingCounts, FS_AddElement
  <2>3. CASE e # E
    <3>1. Writing(e)' = Writing(e)
      BY <1>1, <1>2, <1>5, <1>6, <1>8, <2>3 DEF Writing, E
    <3>2. QED
      BY <2>1, <2>3, <3>1, WritingCounts
  <2>4. QED
    BY <2>2, <2>3
<1>9. \A e : Auditing(e) \in Nat
  BY WritingCounts
<1>10. ASSUME NEW e \in Events, e[1] \in Audited
       PROVE  /\ Count(audit', e) + Auditing(e)' <= Count(done', e)
              /\ crashes' = 0 => Count(audit', e) + Auditing(e)' = Count(done', e)
  BY <1>1, <1>7, <1>8, <1>9, <1>10 DEF Tallied
<1>11. DOMAIN done' \subseteq Events /\ DOMAIN audit' \subseteq Events /\ crashes' \in Nat
  BY <1>1, <1>2, <1>7 DEF Tallied
<1>12. QED
  BY <1>10, <1>11 DEF Tallied

LEMMA AuditTallied ==
  ASSUME Sound, Calm, Tallied, NEW t \in Threads, Audit(t) PROVE Tallied'
<1> DEFINE E == EventOf(t)
<1>1. /\ pc[t] = "audit" /\ UNCHANGED <<done, call, crashes>> /\ audit' = Tally(audit, E)
      /\ Finish(t, "done")
  BY DEF Audit, boundVars, history
<1>2. E \in Events /\ E[1] = call[t].op /\ call[t].op \in Audited
  BY <1>1, EventsOf DEF Calm, Staged
<1>3. /\ done \in [DOMAIN done -> Nat] /\ audit \in [DOMAIN audit -> Nat]
      /\ pc \in [Threads -> Stages]
  BY DEF Sound, TypeOK
<1>4. \A u \in Threads : pc'[u] = IF u = t THEN "idle" ELSE pc[u]
  BY <1>1, <1>3 DEF Finish, Goto
<1>5. \A u \in Threads : EventOf(u)' = EventOf(u)
  BY <1>1 DEF EventOf
<1> HIDE DEF E
<1>6. /\ DOMAIN audit' = DOMAIN audit \cup {E}
      /\ \A x : Count(audit', x) = Count(audit, x) + (IF x = E THEN 1 ELSE 0)
      /\ \A x : Count(done, x) \in Nat /\ Count(audit, x) \in Nat
  BY <1>1, <1>3, TallyCounts
<1>7. ASSUME NEW e \in Events
      PROVE  /\ Auditing(e)' = Auditing(e) - (IF e = E THEN 1 ELSE 0)
             /\ Auditing(e) \in Nat
  <2>1. Auditing(e)' = Cardinality(Writing(e)') /\ Auditing(e) \in Nat
    BY WritingCounts DEF Auditing, Writing
  <2>2. CASE e = E
    <3>1. Writing(e)' = Writing(e) \ {t} /\ t \in Writing(e)
      BY <1>1, <1>4, <1>5, <2>2 DEF Writing, E
    <3>2. QED
      BY <2>1, <2>2, <3>1, WritingCounts, FS_RemoveElement
  <2>3. CASE e # E
    <3>1. Writing(e)' = Writing(e)
      BY <1>1, <1>4, <1>5, <2>3 DEF Writing, E
    <3>2. QED
      BY <2>1, <2>3, <3>1, WritingCounts
  <2>4. QED
    BY <2>2, <2>3
<1>8. ASSUME NEW e \in Events, e[1] \in Audited
      PROVE  /\ Count(audit', e) + Auditing(e)' <= Count(done', e)
             /\ crashes' = 0 => Count(audit', e) + Auditing(e)' = Count(done', e)
  BY <1>1, <1>6, <1>7, <1>8 DEF Tallied
<1>9. DOMAIN done' \subseteq Events /\ DOMAIN audit' \subseteq Events /\ crashes' \in Nat
  BY <1>1, <1>2, <1>6 DEF Tallied
<1>10. QED
  BY <1>8, <1>9 DEF Tallied

LEMMA CrashTallied == ASSUME Sound, Tallied, Crash PROVE Tallied'
<1>1. /\ UNCHANGED <<done, audit>> /\ crashes' = crashes + 1 /\ crashes \in Nat
      /\ \A u \in Threads : pc'[u] = "idle"
  BY DEF Crash, history, Tallied
<1>2. ASSUME NEW e PROVE Auditing(e)' = 0
  <2>1. Writing(e)' = {} /\ Auditing(e)' = Cardinality(Writing(e)')
    BY <1>1 DEF Writing, Auditing
  <2>2. QED
    BY <2>1, FS_EmptySet
<1>3. \A x : Count(done, x) \in Nat /\ Count(audit, x) \in Nat
  BY TallyCounts DEF Sound, TypeOK
<1>4. \A e : Auditing(e) \in Nat
  BY WritingCounts
<1>5. ASSUME NEW e \in Events, e[1] \in Audited
      PROVE  /\ Count(audit', e) + Auditing(e)' <= Count(done', e)
             /\ crashes' # 0
  BY <1>1, <1>2, <1>3, <1>4, <1>5 DEF Tallied
<1>6. crashes' \in Nat
  BY <1>1
<1>7. QED
  BY <1>1, <1>5, <1>6 DEF Tallied

LEMMA NextTallied == ASSUME Sound, Calm, Tallied, [Next]_vars PROVE Tallied'
<1>0. pc \in [Threads -> Stages] /\ call \in [Threads -> Call]
  BY DEF Sound, TypeOK
<1>1. ASSUME NEW t \in Threads, Lock(t) \/ Read(t) \/ ReadAgain(t) \/ Flush(t) \/ CommitFails(t)
      PROVE  Tallied'
  <2>1. UNCHANGED <<done, audit, crashes, call>>
    BY <1>1 DEF Lock, Read, ReadAgain, Flush, CommitFails, history, boundVars
  <2>2. /\ pc[t] \in {"lock", "read", "readAgain", "flush", "commit"}
        /\ \E stage \in {"idle", "read", "readAgain", "flush", "commit"} :
              pc' = [pc EXCEPT ![t] = stage]
    BY <1>1 DEF Lock, Read, ReadAgain, Flush, CommitFails, Decide, Proceed, Finish, Goto
  <2>3. QED
    BY <1>0, <2>1, <2>2, TalliedKept
<1>2. ASSUME NEW t \in Threads, NEW c \in Calls, Submit(t, c) PROVE Tallied'
  <2>1. /\ UNCHANGED <<done, audit, crashes>> /\ pc[t] = "idle"
        /\ call' = [call EXCEPT ![t] = c]
        /\ \E stage \in {"lock", "read"} : pc' = [pc EXCEPT ![t] = stage]
    BY <1>2 DEF Submit, Goto
  <2>2. QED
    BY <1>0, <2>1, TalliedKept
<1>3. CASE Closing \/ UNCHANGED vars
  <2>1. UNCHANGED <<done, audit, crashes, pc, call>>
    BY <1>3 DEF Closing, vars, threadVars, boundVars, history
  <2>2. QED
    BY <2>1, TalliedKept
<1>4. ASSUME NEW t \in Threads, Advance(t) PROVE Tallied'
  BY <1>1, <1>4, CommitTallied, AuditTallied DEF Advance
<1>5. QED
  BY <1>2, <1>3, <1>4, CrashTallied DEF Next

\* The audit log tells of committed calls only, and of all of them but the ones whose
\* thread is between its two commits, or died there.
THEOREM AuditIsTrue == Spec => []AuditTellsTheTruth
<1>1. Init => Sound /\ Calm /\ Tallied
  BY InitSound, InitCalm, InitTallied
<1>2. Sound /\ Calm /\ Tallied /\ [Next]_vars => (Sound /\ Calm /\ Tallied)'
  BY NextSound, NextCalm, NextTallied
<1>3. Tallied => AuditTellsTheTruth
  BY DEF Tallied, AuditTellsTheTruth
<1>4. QED
  BY <1>1, <1>2, <1>3, PTL DEF Spec
===============================================================================
