---------------------------- MODULE AsyncBank_proofs ----------------------------
(***************************************************************************)
(* The asynchronous services for any number of tasks, calls and failures.  *)
(* A call that no call of another lock has met is alone in the session     *)
(* once it holds its lock (Exclusive and Tangles), so that what it has     *)
(* written is pending until its own commit or its own rollback             *)
(* (ProgressOf), and a key is claimed, decided and recorded by one call at *)
(* a time (ClaimsOf).  The answers and the records of the keys follow.     *)
(* The money comes last.  A call that writes several rows owes its         *)
(* account, between two of them, what it has taken from one and not added  *)
(* to the other.  On an account that has not raced no other task owes      *)
(* anything (OthersOweNothing), what a task has read is still there when   *)
(* it writes (Sees), and a commit or a rollback of another task finds      *)
(* nothing of it half written.                                             *)
(***************************************************************************)
EXTENDS AsyncBank, Services_proofs, SequenceTheorems

-------------------------------------------------------------------------------
(* The inductive invariant *)

Rows == [account : AccountRow, receiver : AccountRow, goal : GoalRow, admin : Int,
         attempt : BOOLEAN]
\* A goal whose owner is one of the accounts, or a free id.
OwnedGoal == [exists : BOOLEAN, owner : Accounts \cup {0}, target : Int, current : Int,
              completed : BOOLEAN]
TablesOf(numbers) ==
    [accounts : [Accounts -> AccountRow], statements : [Accounts -> Seq(EntryRow)],
     goals : [Goals -> OwnedGoal], versions : [Accounts -> Nat],
     attempts : [Logins -> AttemptRow], keys : [Keys -> KeyRow], admin : Int,
     audit : SUBSET numbers, effects : SUBSET numbers, doomed : BOOLEAN]

Typed ==
    /\ answers \in Seq([call : Calls, say : Says])
    /\ stored \in TablesOf(DOMAIN answers) /\ working \in TablesOf(DOMAIN answers)
    /\ ~stored.doomed /\ stored.effects \subseteq working.effects
    /\ broken \in BOOLEAN /\ clock \in Nat
    /\ DOMAIN todo = Tasks /\ DOMAIN call = Tasks
    /\ number \in [Tasks -> Nat] /\ result \in [Tasks -> Says]
    /\ seen \in [Tasks -> Rows \cup {NoRows}]
    /\ unsure \subseteq DOMAIN answers /\ tangled \subseteq DOMAIN answers
    /\ raced \subseteq Accounts

\* What a task still has to await: a tail of its program, or what takes its place.
Ends == {<<"commit", "complete", "store">>, <<"complete", "store">>, <<"store">>}
KeyedMovement ==
    {<<"lock", "claim", "insert", "account", "update", "commit", "complete", "store">>,
     <<"claim", "insert", "account", "update", "commit", "complete", "store">>,
     <<"insert", "account", "update", "commit", "complete", "store">>,
     <<"account", "update", "commit", "complete", "store">>,
     <<"update", "commit", "complete", "store">>}
KeyedTransfer ==
    {<<"lock", "claim", "insert", "account", "receiver", "update", "updateReceiver", "commit",
       "complete", "store">>,
     <<"claim", "insert", "account", "receiver", "update", "updateReceiver", "commit",
       "complete", "store">>,
     <<"insert", "account", "receiver", "update", "updateReceiver", "commit", "complete",
       "store">>,
     <<"account", "receiver", "update", "updateReceiver", "commit", "complete", "store">>,
     <<"receiver", "update", "updateReceiver", "commit", "complete", "store">>,
     <<"update", "updateReceiver", "commit", "complete", "store">>,
     <<"updateReceiver", "commit", "complete", "store">>}
Movement3 == {<<"account", "update", "commit">>, <<"update", "commit">>, <<"commit">>}
PlainMovement == {<<"lock", "account", "update", "commit">>} \cup Movement3
PlainTransfer ==
    {<<"lock", "account", "receiver", "update", "updateReceiver", "commit">>,
     <<"account", "receiver", "update", "updateReceiver", "commit">>,
     <<"receiver", "update", "updateReceiver", "commit">>,
     <<"update", "updateReceiver", "commit">>, <<"updateReceiver", "commit">>, <<"commit">>}
NewPassword ==
    {<<"account", "update", "increment", "commit">>, <<"update", "increment", "commit">>,
     <<"increment", "commit">>, <<"commit">>}
Logs == {<<"commit", "log">>, <<"log">>}
Freezing ==
    {<<"account", "setFrozen", "setActive", "commit", "log">>,
     <<"setFrozen", "setActive", "commit", "log">>, <<"setActive", "commit", "log">>} \cup Logs
Unfreezing == {<<"account", "setFrozen", "commit", "log">>, <<"setFrozen", "commit", "log">>} \cup Logs
Deleting == {<<"account", "remove", "commit", "log">>, <<"remove", "commit", "log">>} \cup Logs
NewAdmin == {<<"admin", "setPassword", "commit", "log">>, <<"setPassword", "commit", "log">>} \cup Logs
Adding == {<<"add", "commit">>, <<"commit">>}
Contributing ==
    {<<"account", "goal", "update", "addToGoal", "commit">>,
     <<"goal", "update", "addToGoal", "commit">>, <<"update", "addToGoal", "commit">>,
     <<"addToGoal", "commit">>, <<"commit">>}
Dropping ==
    {<<"goal", "dropGoal", "refund", "update", "commit">>,
     <<"dropGoal", "refund", "update", "commit">>, <<"dropGoal", "commit">>,
     <<"refund", "update", "commit">>, <<"update", "commit">>, <<"commit">>}
Verdicts == {<<"attempt", "failure", "commit">>, <<"failure", "commit">>, <<"reset", "commit">>,
             <<"commit">>}
CustomerSigning == {<<"isLocked", "account">>, <<"account">>} \cup Verdicts
AdminSigning == {<<"isLocked", "admin">>, <<"admin">>} \cup Verdicts

Tails(c) ==
    IF c.key # NoKey
    THEN (IF c.op = "transfer" THEN KeyedTransfer ELSE KeyedMovement)
         \cup Ends \cup {<<"reclaim">>}
    ELSE CASE c.op \in {"deposit", "withdraw"} -> PlainMovement
           [] c.op = "transfer" -> PlainTransfer
           [] c.op \in {"interest", "profile", "close"} -> Movement3
           [] c.op = "password" -> NewPassword
           [] c.op = "freeze" -> Freezing
           [] c.op = "unfreeze" -> Unfreezing
           [] c.op = "delete" -> Deleting
           [] c.op = "adminPassword" -> NewAdmin
           [] c.op \in {"createGoal", "register"} -> Adding
           [] c.op = "contribute" -> Contributing
           [] c.op = "deleteGoal" -> Dropping
           [] c.op = "login" -> CustomerSigning
           [] c.op = "adminLogin" -> AdminSigning

Staged ==
    \A t \in Tasks : Busy(t) =>
        /\ todo[t] \in Tails(call[t])
        /\ call[t] \in Calls /\ ~RefusedAtOnce(call[t])

\* A busy task serves the call of its number, alone, and has not answered it.
Numbered ==
    /\ \A t \in Tasks : Busy(t) =>
         /\ number[t] \in DOMAIN answers
         /\ answers[number[t]].call = call[t] /\ answers[number[t]].say = "none"
    /\ \A t, u \in Tasks : t # u /\ Busy(t) /\ Busy(u) => number[t] # number[u]

\* A lock has one holder; tasks that share none are tangled.
Exclusive ==
    \A t, u \in Tasks : t # u /\ Holds(t) /\ Holds(u) /\ LockOf(call[t]) # {} =>
        LockOf(call[t]) # LockOf(call[u])
Tangles ==
    \A t, u \in Tasks : t # u /\ Busy(t) /\ Busy(u) /\ ~Serialized(call[t], call[u]) =>
        number[t] \in tangled /\ number[u] \in tangled

Orderly == Typed /\ Staged /\ Numbered /\ Exclusive /\ Tangles

\* Where a task's own writes are: nowhere, pending in the session (unless they can never
\* be committed), or committed.
At(t) == Head(todo[t])
SignIns == {"login", "adminLogin"}
Writing(stage, c) ==
    \/ stage \in {"updateReceiver", "setActive", "increment", "refund", "addToGoal", "commit"}
    \/ stage = "update" /\ c.op = "deleteGoal"
Recording == {"complete", "store"}
Nowhere(n) == n \notin stored.effects /\ n \notin working.effects
Tidy(t) == Busy(t) /\ number[t] \notin tangled
ProgressOf(t) ==
    Tidy(t) =>
        /\ ~Writing(At(t), call[t]) /\ At(t) \notin Recording \cup {"log"} => Nowhere(number[t])
        /\ Writing(At(t), call[t]) =>
             /\ number[t] \notin stored.effects
             /\ number[t] \in working.effects \/ working.doomed
        /\ At(t) = "log" => number[t] \in stored.effects
        /\ At(t) \in Recording =>
             IF result[t] = "done" THEN number[t] \in stored.effects ELSE Nowhere(number[t])
\* The answer a task is preparing.
PreparedOf(t) ==
    Busy(t) =>
        IF call[t].op \in SignIns THEN result[t] \in {"done", "wrong password"}
        ELSE At(t) \notin Recording \cup {"reclaim"} => result[t] = "done"
\* A row to freeze or to delete is still there.
FixedOf(t) ==
    Tidy(t) /\ At(t) \in {"setFrozen", "remove"} => ~working.accounts[call[t].acc].deleted

\* What an answer says of the effects of its call.
ToldOf(n) ==
    n \notin tangled =>
        /\ answers[n].say \in Refusals => Nowhere(n) \/ n \in unsure
        /\ answers[n].say = "wrong password" /\ answers[n].call.op \in SignIns
             => n \in stored.effects
        /\ answers[n].say = "done" /\ KeyOf(n) = NoKey => n \in stored.effects

\* A key that no call of another lock has disturbed; its record and the effects of its
\* calls in what is committed, and in the session: there the same, unless the call that
\* has the claim is on its way.
Calm(k) == \A n \in DOMAIN answers : KeyOf(n) = k => n \notin tangled
Moved(tables, k) == {n \in tables.effects : KeyOf(n) = k}
Recorded(k) ==
    /\ \A m, n \in Moved(stored, k) : m = n
    /\ stored.keys[k].status = "completed" =>
         (stored.keys[k].result = "done" <=> Moved(stored, k) # {})
    /\ Moved(stored, k) # {} => stored.keys[k].status # "none"
Agreed(k) == working.keys[k] = stored.keys[k] /\ Moved(working, k) = Moved(stored, k)
Unclaimed == {"lock", "claim", "insert", "reclaim"}
Claimant(t, k) == Busy(t) /\ call[t].key = k /\ At(t) \notin Unclaimed
Claimed(t, k) ==
    /\ At(t) \notin Recording =>
         /\ stored.keys[k].status = "none" /\ working.keys[k].status = "pending"
         /\ ~Writing(At(t), call[t]) => Moved(working, k) = {}
         /\ Moved(working, k) \subseteq {number[t]}
    /\ At(t) \in Recording =>
         /\ stored.keys[k].status = IF result[t] = "done" THEN "pending" ELSE "none"
         /\ working.keys[k].status = IF At(t) = "complete" THEN "pending" ELSE "completed"
         /\ At(t) = "store" => working.keys[k].result = result[t]
         /\ Moved(working, k) = Moved(stored, k)
         /\ Moved(working, k) = IF result[t] = "done" THEN {number[t]} ELSE {}
ClaimsOf(k) ==
    Calm(k) =>
        /\ Recorded(k)
        /\ (\A t \in Tasks : ~Claimant(t, k)) => Agreed(k)
        /\ \A t \in Tasks : Claimant(t, k) => Claimed(t, k)
\* "done" under a key is said by whoever finds the money moved.
KeyToldOf(n) ==
    KeyOf(n) # NoKey /\ Calm(KeyOf(n)) /\ answers[n].say = "done" =>
        Moved(stored, KeyOf(n)) # {}

Truthful ==
    /\ \A t \in Tasks : ProgressOf(t) /\ PreparedOf(t) /\ FixedOf(t)
    /\ \A n \in DOMAIN answers : ToldOf(n) /\ KeyToldOf(n)
    /\ \A k \in Keys : ClaimsOf(k)

-------------------------------------------------------------------------------
(* Programs: what a call's statements are, one after the other *)

LEMMA Glue ==
  ASSUME NEW S, NEW s \in Seq(S), NEW t \in Seq(S), NEW r \in Seq(S),
         Len(r) = Len(s) + Len(t),
         \A i \in 1 .. Len(s) : r[i] = s[i], \A i \in 1 .. Len(t) : r[Len(s) + i] = t[i]
  PROVE  s \o t = r
<1>1. /\ s \o t \in Seq(S) /\ Len(s \o t) = Len(s) + Len(t)
      /\ \A i \in 1 .. (Len(s) + Len(t)) :
           (s \o t)[i] = IF i <= Len(s) THEN s[i] ELSE t[i - Len(s)]
  BY ConcatProperties
<1>2. ASSUME NEW i \in 1 .. Len(r) PROVE (s \o t)[i] = r[i]
  <2>1. CASE i <= Len(s)
    BY <1>1, <2>1
  <2>2. CASE i > Len(s)
    <3>1. i - Len(s) \in 1 .. Len(t) /\ Len(s) + (i - Len(s)) = i
      BY <2>2
    <3>2. QED
      BY <1>1, <2>2, <3>1
  <2>3. QED
    BY <2>1, <2>2
<1>3. QED
  BY <1>1, <1>2, SeqEqual

LEMMA Glue1And2 ==
  ASSUME NEW a, NEW b, NEW c
  PROVE  <<a>> \o <<b, c>> = <<a, b, c>>
<1> DEFINE s == <<a>>
           t == <<b, c>>
           r == <<a, b, c>>
           S == {a, b, c}
<1>1. s \in Seq(S) /\ Len(s) = 1 /\ t \in Seq(S) /\ Len(t) = 2
  OBVIOUS
<1>2. r \in Seq(S) /\ Len(r) = 3
  OBVIOUS
<1>3. r[1] = s[1]
  OBVIOUS
<1>4. r[2] = t[1] /\ r[3] = t[2]
  OBVIOUS
<1> HIDE DEF s, t, r, S
<1>5. \A i \in 1 .. Len(s) : r[i] = s[i]
  BY <1>1, <1>3
<1>6. ASSUME NEW i \in 1 .. Len(t) PROVE r[Len(s) + i] = t[i]
  <2>1. i = 1 \/ i = 2
    BY <1>1
  <2>2. QED
    BY <1>1, <1>4, <2>1
<1>7. Len(r) = Len(s) + Len(t)
  BY <1>1, <1>2
<1>8. s \o t = r
  BY <1>1, <1>2, <1>5, <1>6, <1>7, Glue, Zenon
<1>9. QED
  BY <1>8 DEF s, t, r

LEMMA Glue3And3 ==
  ASSUME NEW a, NEW b, NEW c, NEW d, NEW e, NEW f
  PROVE  <<a, b, c>> \o <<d, e, f>> = <<a, b, c, d, e, f>>
<1> DEFINE s == <<a, b, c>>
           t == <<d, e, f>>
           r == <<a, b, c, d, e, f>>
           S == {a, b, c, d, e, f}
<1>1. s \in Seq(S) /\ Len(s) = 3 /\ t \in Seq(S) /\ Len(t) = 3
  OBVIOUS
<1>2. r \in Seq(S) /\ Len(r) = 6
  OBVIOUS
<1>3. r[1] = s[1] /\ r[2] = s[2] /\ r[3] = s[3]
  OBVIOUS
<1>4. r[4] = t[1] /\ r[5] = t[2] /\ r[6] = t[3]
  OBVIOUS
<1> HIDE DEF s, t, r, S
<1>5. \A i \in 1 .. Len(s) : r[i] = s[i]
  BY <1>1, <1>3
<1>6. ASSUME NEW i \in 1 .. Len(t) PROVE r[Len(s) + i] = t[i]
  <2>1. i = 1 \/ i = 2 \/ i = 3
    BY <1>1
  <2>2. QED
    BY <1>1, <1>4, <2>1
<1>7. Len(r) = Len(s) + Len(t)
  BY <1>1, <1>2
<1>8. s \o t = r
  BY <1>1, <1>2, <1>5, <1>6, <1>7, Glue, Zenon
<1>9. QED
  BY <1>8 DEF s, t, r

LEMMA Glue6And2 ==
  ASSUME NEW a, NEW b, NEW c, NEW d, NEW e, NEW f, NEW g, NEW h
  PROVE  <<a, b, c, d, e, f>> \o <<g, h>> = <<a, b, c, d, e, f, g, h>>
<1> DEFINE s == <<a, b, c, d, e, f>>
           t == <<g, h>>
           r == <<a, b, c, d, e, f, g, h>>
           S == {a, b, c, d, e, f, g, h}
<1>1. s \in Seq(S) /\ Len(s) = 6 /\ t \in Seq(S) /\ Len(t) = 2
  OBVIOUS
<1>2. r \in Seq(S) /\ Len(r) = 8
  OBVIOUS
<1>3. r[1] = s[1] /\ r[2] = s[2] /\ r[3] = s[3] /\ r[4] = s[4] /\ r[5] = s[5] /\ r[6] = s[6]
  OBVIOUS
<1>4. r[7] = t[1] /\ r[8] = t[2]
  OBVIOUS
<1> HIDE DEF s, t, r, S
<1>5. \A i \in 1 .. Len(s) : r[i] = s[i]
  BY <1>1, <1>3
<1>6. ASSUME NEW i \in 1 .. Len(t) PROVE r[Len(s) + i] = t[i]
  <2>1. i = 1 \/ i = 2
    BY <1>1
  <2>2. QED
    BY <1>1, <1>4, <2>1
<1>7. Len(r) = Len(s) + Len(t)
  BY <1>1, <1>2
<1>8. s \o t = r
  BY <1>1, <1>2, <1>5, <1>6, <1>7, Glue, Zenon
<1>9. QED
  BY <1>8 DEF s, t, r

LEMMA Glue3And5 ==
  ASSUME NEW a, NEW b, NEW c, NEW d, NEW e, NEW f, NEW g, NEW h
  PROVE  <<a, b, c>> \o <<d, e, f, g, h>> = <<a, b, c, d, e, f, g, h>>
<1> DEFINE s == <<a, b, c>>
           t == <<d, e, f, g, h>>
           r == <<a, b, c, d, e, f, g, h>>
           S == {a, b, c, d, e, f, g, h}
<1>1. s \in Seq(S) /\ Len(s) = 3 /\ t \in Seq(S) /\ Len(t) = 5
  OBVIOUS
<1>2. r \in Seq(S) /\ Len(r) = 8
  OBVIOUS
<1>3. r[1] = s[1] /\ r[2] = s[2] /\ r[3] = s[3]
  OBVIOUS
<1>4. r[4] = t[1] /\ r[5] = t[2] /\ r[6] = t[3] /\ r[7] = t[4] /\ r[8] = t[5]
  OBVIOUS
<1> HIDE DEF s, t, r, S
<1>5. \A i \in 1 .. Len(s) : r[i] = s[i]
  BY <1>1, <1>3
<1>6. ASSUME NEW i \in 1 .. Len(t) PROVE r[Len(s) + i] = t[i]
  <2>1. i = 1 \/ i = 2 \/ i = 3 \/ i = 4 \/ i = 5
    BY <1>1
  <2>2. QED
    BY <1>1, <1>4, <2>1
<1>7. Len(r) = Len(s) + Len(t)
  BY <1>1, <1>2
<1>8. s \o t = r
  BY <1>1, <1>2, <1>5, <1>6, <1>7, Glue, Zenon
<1>9. QED
  BY <1>8 DEF s, t, r

LEMMA Glue8And2 ==
  ASSUME NEW a, NEW b, NEW c, NEW d, NEW e, NEW f, NEW g, NEW h, NEW x, NEW y
  PROVE  <<a, b, c, d, e, f, g, h>> \o <<x, y>> = <<a, b, c, d, e, f, g, h, x, y>>
<1> DEFINE s == <<a, b, c, d, e, f, g, h>>
           t == <<x, y>>
           r == <<a, b, c, d, e, f, g, h, x, y>>
           S == {a, b, c, d, e, f, g, h, x, y}
<1>1. s \in Seq(S) /\ Len(s) = 8 /\ t \in Seq(S) /\ Len(t) = 2
  OBVIOUS
<1>2. r \in Seq(S) /\ Len(r) = 10
  OBVIOUS
<1>3. /\ r[1] = s[1] /\ r[2] = s[2] /\ r[3] = s[3] /\ r[4] = s[4]
      /\ r[5] = s[5] /\ r[6] = s[6] /\ r[7] = s[7] /\ r[8] = s[8]
  OBVIOUS
<1>4. r[9] = t[1] /\ r[10] = t[2]
  OBVIOUS
<1> HIDE DEF s, t, r, S
<1>5. \A i \in 1 .. Len(s) : r[i] = s[i]
  BY <1>1, <1>3
<1>6. ASSUME NEW i \in 1 .. Len(t) PROVE r[Len(s) + i] = t[i]
  <2>1. i = 1 \/ i = 2
    BY <1>1
  <2>2. QED
    BY <1>1, <1>4, <2>1
<1>7. Len(r) = Len(s) + Len(t)
  BY <1>1, <1>2
<1>8. s \o t = r
  BY <1>1, <1>2, <1>5, <1>6, <1>7, Glue, Zenon
<1>9. QED
  BY <1>8 DEF s, t, r

LEMMA Glue1And3 ==
  ASSUME NEW a, NEW b, NEW c, NEW d
  PROVE  <<a>> \o <<b, c, d>> = <<a, b, c, d>>
<1> DEFINE s == <<a>>
           t == <<b, c, d>>
           r == <<a, b, c, d>>
           S == {a, b, c, d}
<1>1. s \in Seq(S) /\ Len(s) = 1 /\ t \in Seq(S) /\ Len(t) = 3
  OBVIOUS
<1>2. r \in Seq(S) /\ Len(r) = 4
  OBVIOUS
<1>3. r[1] = s[1]
  OBVIOUS
<1>4. r[2] = t[1] /\ r[3] = t[2] /\ r[4] = t[3]
  OBVIOUS
<1> HIDE DEF s, t, r, S
<1>5. \A i \in 1 .. Len(s) : r[i] = s[i]
  BY <1>1, <1>3
<1>6. ASSUME NEW i \in 1 .. Len(t) PROVE r[Len(s) + i] = t[i]
  <2>1. i = 1 \/ i = 2 \/ i = 3
    BY <1>1
  <2>2. QED
    BY <1>1, <1>4, <2>1
<1>7. Len(r) = Len(s) + Len(t)
  BY <1>1, <1>2
<1>8. s \o t = r
  BY <1>1, <1>2, <1>5, <1>6, <1>7, Glue, Zenon
<1>9. QED
  BY <1>8 DEF s, t, r

LEMMA Glue1And5 ==
  ASSUME NEW a, NEW b, NEW c, NEW d, NEW e, NEW f
  PROVE  <<a>> \o <<b, c, d, e, f>> = <<a, b, c, d, e, f>>
<1> DEFINE s == <<a>>
           t == <<b, c, d, e, f>>
           r == <<a, b, c, d, e, f>>
           S == {a, b, c, d, e, f}
<1>1. s \in Seq(S) /\ Len(s) = 1 /\ t \in Seq(S) /\ Len(t) = 5
  OBVIOUS
<1>2. r \in Seq(S) /\ Len(r) = 6
  OBVIOUS
<1>3. r[1] = s[1]
  OBVIOUS
<1>4. r[2] = t[1] /\ r[3] = t[2] /\ r[4] = t[3] /\ r[5] = t[4] /\ r[6] = t[5]
  OBVIOUS
<1> HIDE DEF s, t, r, S
<1>5. \A i \in 1 .. Len(s) : r[i] = s[i]
  BY <1>1, <1>3
<1>6. ASSUME NEW i \in 1 .. Len(t) PROVE r[Len(s) + i] = t[i]
  <2>1. i = 1 \/ i = 2 \/ i = 3 \/ i = 4 \/ i = 5
    BY <1>1
  <2>2. QED
    BY <1>1, <1>4, <2>1
<1>7. Len(r) = Len(s) + Len(t)
  BY <1>1, <1>2
<1>8. s \o t = r
  BY <1>1, <1>2, <1>5, <1>6, <1>7, Glue, Zenon
<1>9. QED
  BY <1>8 DEF s, t, r

\* Programs as they are written: what the lock and the key add to a service.
LEMMA ProgramIs ==
  ASSUME NEW c \in Calls
  PROVE  /\ Program(c) \in Tails(c)
         /\ Program(c) # <<>>
         /\ Head(Program(c)) \in {"lock", "account", "goal", "add", "isLocked", "admin"}
         /\ LockOf(c) # {} => Head(Program(c)) = "lock"
<1>0. /\ c \in Call /\ c.op \in DOMAIN Programs
      /\ c.key # NoKey => c.op \in Movements
      /\ (LockOf(c) # {}) <=> c.op \in Movements
  BY CallsAssumption DEF Call, LockOf, Movements
<1> DEFINE L == IF LockOf(c) # {} THEN <<"lock">> ELSE <<>>
           C == IF c.key # NoKey THEN <<"claim", "insert">> ELSE <<>>
           E == IF c.key # NoKey THEN <<"complete", "store">> ELSE <<>>
           P == Programs[c.op]
<1>a. Program(c) = ((L \o C) \o P) \o E
  BY DEF Program
<1>1. CASE c.op \in {"deposit", "withdraw"} /\ c.key # NoKey
  <2>1. /\ L = <<"lock">> /\ C = <<"claim", "insert">> /\ E = <<"complete", "store">>
        /\ P = <<"account", "update", "commit">>
    BY <1>0, <1>1 DEF Programs, Deposit, Withdraw, Movements
  <2> HIDE DEF L, C, E, P
  <2>2. L \o C = <<"lock", "claim", "insert">>
    BY <2>1, Glue1And2
  <2>3. (L \o C) \o P = <<"lock", "claim", "insert", "account", "update", "commit">>
    <3>1. <<"lock", "claim", "insert">> \o <<"account", "update", "commit">>
            = <<"lock", "claim", "insert", "account", "update", "commit">>
      BY Glue3And3
    <3>2. QED
      BY <2>1, <2>2, <3>1, Zenon
  <2>4. Program(c) = <<"lock", "claim", "insert", "account", "update", "commit", "complete", "store">>
    <3>1. <<"lock", "claim", "insert", "account", "update", "commit">> \o <<"complete", "store">>
            = <<"lock", "claim", "insert", "account", "update", "commit", "complete", "store">>
      BY Glue6And2
    <3>2. QED
      BY <1>a, <2>1, <2>3, <3>1, Zenon
  <2>5. QED
    BY <1>1, <2>4 DEF Tails, KeyedMovement
<1>2. CASE c.op = "transfer" /\ c.key # NoKey
  <2>1. /\ L = <<"lock">> /\ C = <<"claim", "insert">> /\ E = <<"complete", "store">>
        /\ P = <<"account", "receiver", "update", "updateReceiver", "commit">>
    BY <1>0, <1>2 DEF Programs, Transfer, Movements
  <2> HIDE DEF L, C, E, P
  <2>2. L \o C = <<"lock", "claim", "insert">>
    BY <2>1, Glue1And2
  <2>3. (L \o C) \o P = <<"lock", "claim", "insert", "account", "receiver", "update",
                          "updateReceiver", "commit">>
    <3>1. <<"lock", "claim", "insert">>
            \o <<"account", "receiver", "update", "updateReceiver", "commit">>
            = <<"lock", "claim", "insert", "account", "receiver", "update", "updateReceiver",
                "commit">>
      BY Glue3And5
    <3>2. QED
      BY <2>1, <2>2, <3>1, Zenon
  <2>4. Program(c) = <<"lock", "claim", "insert", "account", "receiver", "update",
                       "updateReceiver", "commit", "complete", "store">>
    <3>1. <<"lock", "claim", "insert", "account", "receiver", "update", "updateReceiver",
            "commit">> \o <<"complete", "store">>
            = <<"lock", "claim", "insert", "account", "receiver", "update", "updateReceiver",
                "commit", "complete", "store">>
      BY Glue8And2
    <3>2. QED
      BY <1>a, <2>1, <2>3, <3>1, Zenon
  <2>5. QED
    BY <1>2, <2>4 DEF Tails, KeyedTransfer
<1>3. CASE c.op \in {"deposit", "withdraw"} /\ c.key = NoKey
  <2>1. /\ L = <<"lock">> /\ C = <<>> /\ E = <<>> /\ P = <<"account", "update", "commit">>
    BY <1>0, <1>3 DEF Programs, Deposit, Withdraw, Movements
  <2> HIDE DEF L, C, E, P
  <2>2. L \o C = <<"lock">>
    BY <2>1
  <2>3. (L \o C) \o P = <<"lock", "account", "update", "commit">>
    BY <2>1, <2>2, Glue1And3
  <2>4. Program(c) = <<"lock", "account", "update", "commit">>
    BY <1>a, <2>1, <2>3
  <2>5. QED
    BY <1>3, <2>4 DEF Tails, PlainMovement
<1>4. CASE c.op = "transfer" /\ c.key = NoKey
  <2>1. /\ L = <<"lock">> /\ C = <<>> /\ E = <<>>
        /\ P = <<"account", "receiver", "update", "updateReceiver", "commit">>
    BY <1>0, <1>4 DEF Programs, Transfer, Movements
  <2> HIDE DEF L, C, E, P
  <2>2. L \o C = <<"lock">>
    BY <2>1
  <2>3. (L \o C) \o P = <<"lock", "account", "receiver", "update", "updateReceiver", "commit">>
    BY <2>1, <2>2, Glue1And5
  <2>4. Program(c) = <<"lock", "account", "receiver", "update", "updateReceiver", "commit">>
    BY <1>a, <2>1, <2>3
  <2>5. QED
    BY <1>4, <2>4 DEF Tails, PlainTransfer
<1>5. CASE c.op \notin Movements
  <2>1. L = <<>> /\ C = <<>> /\ E = <<>> /\ c.key = NoKey /\ LockOf(c) = {}
    BY <1>0, <1>5
  <2>2. CASE c.op \in {"interest", "profile", "close"}
    <3>1. P = <<"account", "update", "commit">>
      BY <2>2 DEF Programs, Interest, UpdateTheProfile, CloseTheAccount
    <3> HIDE DEF L, C, E, P
    <3>2. Program(c) = <<"account", "update", "commit">>
      BY <1>a, <2>1, <3>1
    <3>3. QED
      BY <2>1, <2>2, <3>2 DEF Tails, Movement3
  <2>3. CASE c.op \in {"password"}
    <3>1. P = <<"account", "update", "increment", "commit">>
      BY <2>3 DEF Programs, ChangeThePassword
    <3> HIDE DEF L, C, E, P
    <3>2. Program(c) = <<"account", "update", "increment", "commit">>
      BY <1>a, <2>1, <3>1
    <3>3. QED
      BY <2>1, <2>3, <3>2 DEF Tails, NewPassword
  <2>4. CASE c.op \in {"freeze"}
    <3>1. P = <<"account", "setFrozen", "setActive", "commit", "log">>
      BY <2>4 DEF Programs, Freeze
    <3> HIDE DEF L, C, E, P
    <3>2. Program(c) = <<"account", "setFrozen", "setActive", "commit", "log">>
      BY <1>a, <2>1, <3>1
    <3>3. QED
      BY <2>1, <2>4, <3>2 DEF Tails, Freezing
  <2>5. CASE c.op \in {"unfreeze"}
    <3>1. P = <<"account", "setFrozen", "commit", "log">>
      BY <2>5 DEF Programs, Unfreeze
    <3> HIDE DEF L, C, E, P
    <3>2. Program(c) = <<"account", "setFrozen", "commit", "log">>
      BY <1>a, <2>1, <3>1
    <3>3. QED
      BY <2>1, <2>5, <3>2 DEF Tails, Unfreezing
  <2>6. CASE c.op \in {"delete"}
    <3>1. P = <<"account", "remove", "commit", "log">>
      BY <2>6 DEF Programs, Delete
    <3> HIDE DEF L, C, E, P
    <3>2. Program(c) = <<"account", "remove", "commit", "log">>
      BY <1>a, <2>1, <3>1
    <3>3. QED
      BY <2>1, <2>6, <3>2 DEF Tails, Deleting
  <2>7. CASE c.op \in {"adminPassword"}
    <3>1. P = <<"admin", "setPassword", "commit", "log">>
      BY <2>7 DEF Programs, ChangeAdminPassword
    <3> HIDE DEF L, C, E, P
    <3>2. Program(c) = <<"admin", "setPassword", "commit", "log">>
      BY <1>a, <2>1, <3>1
    <3>3. QED
      BY <2>1, <2>7, <3>2 DEF Tails, NewAdmin
  <2>8. CASE c.op \in {"createGoal", "register"}
    <3>1. P = <<"add", "commit">>
      BY <2>8 DEF Programs, CreateTheGoal, CustomerRegister
    <3> HIDE DEF L, C, E, P
    <3>2. Program(c) = <<"add", "commit">>
      BY <1>a, <2>1, <3>1
    <3>3. QED
      BY <2>1, <2>8, <3>2 DEF Tails, Adding
  <2>9. CASE c.op \in {"contribute"}
    <3>1. P = <<"account", "goal", "update", "addToGoal", "commit">>
      BY <2>9 DEF Programs, ContributeToGoal
    <3> HIDE DEF L, C, E, P
    <3>2. Program(c) = <<"account", "goal", "update", "addToGoal", "commit">>
      BY <1>a, <2>1, <3>1
    <3>3. QED
      BY <2>1, <2>9, <3>2 DEF Tails, Contributing
  <2>10. CASE c.op \in {"deleteGoal"}
    <3>1. P = <<"goal", "dropGoal", "refund", "update", "commit">>
      BY <2>10 DEF Programs, DeleteTheGoal
    <3> HIDE DEF L, C, E, P
    <3>2. Program(c) = <<"goal", "dropGoal", "refund", "update", "commit">>
      BY <1>a, <2>1, <3>1
    <3>3. QED
      BY <2>1, <2>10, <3>2 DEF Tails, Dropping
  <2>11. CASE c.op \in {"login"}
    <3>1. P = <<"isLocked", "account">>
      BY <2>11 DEF Programs, CustomerLogin
    <3> HIDE DEF L, C, E, P
    <3>2. Program(c) = <<"isLocked", "account">>
      BY <1>a, <2>1, <3>1
    <3>3. QED
      BY <2>1, <2>11, <3>2 DEF Tails, CustomerSigning
  <2>12. CASE c.op \in {"adminLogin"}
    <3>1. P = <<"isLocked", "admin">>
      BY <2>12 DEF Programs, AdminLogin
    <3> HIDE DEF L, C, E, P
    <3>2. Program(c) = <<"isLocked", "admin">>
      BY <1>a, <2>1, <3>1
    <3>3. QED
      BY <2>1, <2>12, <3>2 DEF Tails, AdminSigning
  <2>13. QED
    BY <1>0, <1>5, <2>2, <2>3, <2>4, <2>5, <2>6, <2>7, <2>8, <2>9, <2>10, <2>11, <2>12
       DEF Programs, Movements
<1>6. QED
  BY <1>0, <1>1, <1>2, <1>3, <1>4, <1>5 DEF Movements

-------------------------------------------------------------------------------
(* A task's step, whatever it awaits *)

Stepped(t, rest, say) ==
    /\ todo' = [todo EXCEPT ![t] = rest]
    /\ call' = call /\ number' = number /\ tangled' = tangled
    /\ result' = [result EXCEPT ![t] = IF rest = <<>> THEN "none" ELSE say]
    /\ answers' = IF rest = <<>> THEN [answers EXCEPT ![number[t]].say = say] ELSE answers

LEMMA FinishSteps ==
  ASSUME NEW t \in Tasks, NEW say, Finish(t, say), tangled' = tangled
  PROVE  Stepped(t, <<>>, say)
BY DEF Finish, Stepped

LEMMA ContinueSteps ==
  ASSUME NEW t \in Tasks, NEW rest, NEW rows, NEW say, Continue(t, rest, rows, say),
         tangled' = tangled
  PROVE  Stepped(t, rest, say)
<1>1. CASE rest = <<>>
  BY <1>1, FinishSteps DEF Continue
<1>2. CASE rest # <<>>
  BY <1>2 DEF Continue, Stepped
<1>3. QED
  BY <1>1, <1>2

\* The answers keep their calls, and only that of the task may change.
LEMMA AnswersAfter ==
  ASSUME Typed, Numbered, NEW t \in Tasks, Busy(t), NEW rest, NEW say \in Says,
         Stepped(t, rest, say)
  PROVE  /\ answers' \in Seq([call : Calls, say : Says])
         /\ DOMAIN answers' = DOMAIN answers
         /\ \A n \in DOMAIN answers : /\ answers'[n].call = answers[n].call
                                      /\ n # number[t] => answers'[n] = answers[n]
         /\ rest = <<>> => answers'[number[t]].say = say
         /\ rest # <<>> => answers' = answers
<1> DEFINE n == number[t]
           A == [call : Calls, say : Says]
<1>1. answers \in Seq(A) /\ n \in DOMAIN answers
  BY DEF Typed, Numbered
<1>2. n \in 1 .. Len(answers) /\ DOMAIN answers = 1 .. Len(answers) /\ Len(answers) \in Nat
  BY <1>1, LenProperties
<1>3. answers[n] \in A
  BY <1>1, <1>2, ElementOfSeq
<1>4. CASE rest # <<>>
  BY <1>1, <1>4 DEF Stepped
<1>5. CASE rest = <<>>
  <2> DEFINE e == [answers[n] EXCEPT !.say = say]
  <2>1. answers' = [answers EXCEPT ![n] = e]
    BY <1>5 DEF Stepped
  <2>2. e \in A /\ e.call = answers[n].call /\ e.say = say
    BY <1>3
  <2> HIDE DEF e, A, n
  <2>3. /\ answers' \in Seq(A) /\ Len(answers') = Len(answers)
        /\ \A m \in 1 .. Len(answers) : answers'[m] = IF m = n THEN e ELSE answers[m]
    BY <1>1, <1>2, <2>1, <2>2, ExceptSeq
  <2>4. DOMAIN answers' = 1 .. Len(answers)
    BY <2>1, <1>2
  <2>5. QED
    BY <1>2, <1>5, <2>2, <2>3, <2>4 DEF A, n
<1>6. QED
  BY <1>4, <1>5

\* A task nothing has tangled is alone in the session once it has its lock.
LEMMA AloneHolder ==
  ASSUME Orderly, NEW t \in Tasks, Tidy(t), Holds(t), NEW u \in Tasks, u # t
  PROVE  ~Holds(u)
<1>1. SUFFICES ASSUME Holds(u) PROVE FALSE
  OBVIOUS
<1>2. Busy(t) /\ Busy(u) /\ call[t] \in Calls /\ call[u] \in Calls
  BY <1>1 DEF Holds, Orderly, Staged
<1>3. Serialized(call[t], call[u])
  BY <1>2 DEF Orderly, Tangles, Tidy
<1>4. LockOf(call[t]) = LockOf(call[u]) /\ LockOf(call[t]) # {}
  BY <1>3 DEF Serialized, LockOf, Movements
<1>5. QED
  BY <1>1, <1>4 DEF Orderly, Exclusive

\* The tasks stay in order, if a task that takes its lock finds it free.
LEMMA TasksKept ==
  ASSUME Orderly, NEW t \in Tasks, Busy(t), NEW rest, NEW say \in Says, Stepped(t, rest, say),
         rest = <<>> \/ rest \in Tails(call[t]),
         Holds(t) \/ \A u \in Tasks : Holds(u) => LockOf(call[u]) # LockOf(call[t])
  PROVE  Staged' /\ Numbered' /\ Exclusive' /\ Tangles'
<1>0. /\ DOMAIN todo = Tasks /\ call' = call /\ number' = number /\ tangled' = tangled
      /\ todo' = [todo EXCEPT ![t] = rest]
  BY DEF Orderly, Typed, Stepped
<1>1. /\ \A u \in Tasks : u # t => todo'[u] = todo[u]
      /\ todo'[t] = rest
  BY <1>0
<1>2. \A u \in Tasks : Busy(u)' => Busy(u)
  BY <1>1 DEF Busy
<1>3. \A u \in Tasks : u # t /\ Holds(u)' => Holds(u)
  BY <1>1 DEF Busy, Holds
<1>4. Staged'
  <2>1. ASSUME NEW u \in Tasks, Busy(u)'
        PROVE  todo'[u] \in Tails(call[u]) /\ call[u] \in Calls /\ ~RefusedAtOnce(call[u])
    BY <1>1, <1>2, <2>1 DEF Orderly, Staged, Busy
  <2>2. QED
    BY <1>0, <2>1 DEF Staged
<1>5. Numbered'
  <2>1. /\ DOMAIN answers' = DOMAIN answers
        /\ \A n \in DOMAIN answers : /\ answers'[n].call = answers[n].call
                                     /\ n # number[t] => answers'[n] = answers[n]
        /\ rest # <<>> => answers' = answers
    BY AnswersAfter DEF Orderly
  <2>2. ASSUME NEW u \in Tasks, Busy(u)'
        PROVE  /\ number[u] \in DOMAIN answers'
               /\ answers'[number[u]].call = call[u] /\ answers'[number[u]].say = "none"
    <3>1. Busy(u) /\ number[u] \in DOMAIN answers
      BY <1>2, <2>2 DEF Orderly, Numbered
    <3>2. CASE u = t
      <4>1. rest # <<>>
        BY <1>1, <2>2, <3>2 DEF Busy
      <4>2. QED
        BY <2>1, <3>1, <4>1 DEF Orderly, Numbered
    <3>3. CASE u # t
      <4>1. number[u] # number[t]
        BY <3>1, <3>3 DEF Orderly, Numbered
      <4>2. QED
        BY <2>1, <3>1, <4>1 DEF Orderly, Numbered
    <3>4. QED
      BY <3>2, <3>3
  <2>3. \A u, v \in Tasks : u # v /\ Busy(u)' /\ Busy(v)' => number[u] # number[v]
    BY <1>2 DEF Orderly, Numbered
  <2>4. QED
    BY <1>0, <2>2, <2>3 DEF Numbered
<1>6. Exclusive'
  <2>1. ASSUME NEW u \in Tasks, NEW v \in Tasks, u # v, Holds(u)', Holds(v)', LockOf(call[u]) # {}
        PROVE  LockOf(call[u]) # LockOf(call[v])
    <3>1. CASE Holds(u) /\ Holds(v)
      BY <2>1, <3>1 DEF Orderly, Exclusive
    <3>2. CASE ~Holds(u)
      BY <1>3, <2>1, <3>2
    <3>3. CASE ~Holds(v)
      BY <1>3, <2>1, <3>3
    <3>4. QED
      BY <3>1, <3>2, <3>3
  <2>2. QED
    BY <1>0, <2>1 DEF Exclusive
<1>7. Tangles'
  BY <1>0, <1>2 DEF Orderly, Tangles
<1>8. QED
  BY <1>4, <1>5, <1>6, <1>7

-------------------------------------------------------------------------------
(* What a step of one task leaves true of the other tasks, answers and keys *)

\* Tables that differ in no key and no effect but those of the task.
Alike(t, new, old) ==
    /\ \A m \in DOMAIN answers : m # number[t] => (m \in new.effects <=> m \in old.effects)
    /\ \A k \in Keys : k # call[t].key => new.keys[k] = old.keys[k]
Contained(t) ==
    /\ stored.effects \subseteq stored'.effects /\ unsure \subseteq unsure'
    /\ Alike(t, stored', stored) \/ Alike(t, stored', working)
    /\ Alike(t, working', stored) \/ Alike(t, working', working)
Step(t, rest, say) ==
    /\ Orderly /\ Truthful /\ Holds(t) /\ say \in Says /\ Stepped(t, rest, say)
    /\ rest = <<>> \/ rest \in Tails(call[t])
    /\ Typed'

LEMMA StepFacts ==
  ASSUME NEW t \in Tasks, NEW rest, NEW say, Step(t, rest, say)
  PROVE  /\ call' = call /\ number' = number /\ tangled' = tangled
         /\ DOMAIN answers' = DOMAIN answers
         /\ \A n \in DOMAIN answers : KeyOf(n)' = KeyOf(n) /\ answers'[n].call = answers[n].call
         /\ \A n \in DOMAIN answers : n # number[t] => answers'[n] = answers[n]
         /\ rest = <<>> => answers'[number[t]].say = say
         /\ rest # <<>> => answers' = answers
         /\ \A u \in Tasks : u # t => todo'[u] = todo[u] /\ result'[u] = result[u]
         /\ todo'[t] = rest /\ (rest # <<>> => result'[t] = say)
         /\ number[t] \in DOMAIN answers /\ KeyOf(number[t]) = call[t].key
         /\ answers[number[t]].call = call[t]
         /\ call[t] \in Calls /\ todo[t] \in Tails(call[t]) /\ Busy(t)
         /\ stored.effects \subseteq DOMAIN answers /\ working.effects \subseteq DOMAIN answers
         /\ stored'.effects \subseteq DOMAIN answers /\ working'.effects \subseteq DOMAIN answers
<1>1. Typed /\ Numbered /\ Staged /\ Busy(t) /\ say \in Says /\ Stepped(t, rest, say)
  BY DEF Step, Orderly, Holds
<1>2. /\ DOMAIN answers' = DOMAIN answers
      /\ \A n \in DOMAIN answers : /\ answers'[n].call = answers[n].call
                                   /\ n # number[t] => answers'[n] = answers[n]
      /\ rest = <<>> => answers'[number[t]].say = say
      /\ rest # <<>> => answers' = answers
  BY <1>1, AnswersAfter
<1>3. \A n \in DOMAIN answers : KeyOf(n)' = KeyOf(n)
  BY <1>2 DEF KeyOf
<1>4. /\ \A u \in Tasks : u # t => todo'[u] = todo[u] /\ result'[u] = result[u]
      /\ todo'[t] = rest /\ (rest # <<>> => result'[t] = say)
  BY <1>1 DEF Stepped, Typed
<1>5. /\ number[t] \in DOMAIN answers /\ KeyOf(number[t]) = call[t].key
      /\ answers[number[t]].call = call[t]
  BY <1>1 DEF Numbered, KeyOf
<1>6. /\ stored.effects \subseteq DOMAIN answers /\ working.effects \subseteq DOMAIN answers
  BY <1>1 DEF Typed, TablesOf
<1>7. /\ stored'.effects \subseteq DOMAIN answers /\ working'.effects \subseteq DOMAIN answers
  BY <1>2 DEF Step, Typed, TablesOf
<1>8. QED
  BY <1>1, <1>2, <1>3, <1>4, <1>5, <1>6, <1>7 DEF Stepped, Staged

LEMMA CalmSame ==
  ASSUME NEW t \in Tasks, NEW rest, NEW say, Step(t, rest, say), NEW k
  PROVE  Calm(k)' <=> Calm(k)
BY StepFacts DEF Calm

\* The others.
LEMMA OthersProgress ==
  ASSUME NEW t \in Tasks, NEW rest, NEW say, Step(t, rest, say), Contained(t),
         NEW u \in Tasks, u # t
  PROVE  ProgressOf(u)' /\ PreparedOf(u)' /\ FixedOf(u)'
<1>1. /\ call' = call /\ number' = number /\ tangled' = tangled
      /\ todo'[u] = todo[u] /\ result'[u] = result[u]
  BY StepFacts
<1>2. (Busy(u)' <=> Busy(u)) /\ At(u)' = At(u) /\ (Tidy(u)' <=> Tidy(u))
  BY <1>1 DEF Busy, At, Tidy
<1>3. PreparedOf(u)'
  BY <1>1, <1>2 DEF PreparedOf, Step, Truthful
<1>4. SUFFICES ASSUME Tidy(u) PROVE ProgressOf(u)' /\ FixedOf(u)'
  BY <1>2, <1>3 DEF ProgressOf, FixedOf
<1>5. At(u) = "lock"
  BY <1>4, AloneHolder DEF Step, Tidy, Holds, At
<1>6. number[u] # number[t] /\ number[u] \in DOMAIN answers
  BY <1>4 DEF Step, Orderly, Numbered, Tidy, Holds
<1>7. Nowhere(number[u])
  BY <1>4, <1>5 DEF Step, Truthful, ProgressOf, Writing, Recording
<1>8. Nowhere(number[u])'
  BY <1>1, <1>6, <1>7 DEF Nowhere, Contained, Alike
<1>9. QED
  BY <1>1, <1>2, <1>5, <1>8 DEF ProgressOf, FixedOf, Writing, Recording

LEMMA OthersTold ==
  ASSUME NEW t \in Tasks, NEW rest, NEW say, Step(t, rest, say), Contained(t),
         NEW n \in DOMAIN answers, n # number[t] \/ rest # <<>>
  PROVE  ToldOf(n)' /\ KeyToldOf(n)'
<1>1. /\ tangled' = tangled /\ answers'[n] = answers[n] /\ KeyOf(n)' = KeyOf(n)
      /\ \A m \in DOMAIN answers : KeyOf(m)' = KeyOf(m)
      /\ stored.effects \subseteq DOMAIN answers
  BY StepFacts
<1>2. ToldOf(n) /\ KeyToldOf(n)
  BY DEF Step, Truthful
<1>3. answers[n].say \in Refusals /\ Nowhere(n) => Nowhere(n)'
  <2>1. CASE n # number[t]
    BY <2>1 DEF Nowhere, Contained, Alike
  <2>2. CASE n = number[t]
    BY <2>2 DEF Step, Orderly, Numbered, Holds, Refusals
  <2>3. QED
    BY <2>1, <2>2
<1>4. ToldOf(n)'
  BY <1>1, <1>2, <1>3 DEF ToldOf, Contained
<1>5. KeyToldOf(n)'
  <2>1. SUFFICES ASSUME KeyOf(n) # NoKey, Calm(KeyOf(n)), answers[n].say = "done"
                 PROVE  Moved(stored, KeyOf(n))' # {}
    BY <1>1, CalmSame DEF KeyToldOf
  <2>2. PICK m \in stored.effects : KeyOf(m) = KeyOf(n)
    BY <1>2, <2>1 DEF KeyToldOf, Moved
  <2>3. m \in stored'.effects /\ KeyOf(m)' = KeyOf(n)
    BY <1>1, <2>2 DEF Contained
  <2>4. QED
    BY <1>1, <2>3 DEF Moved
<1>6. QED
  BY <1>4, <1>5

LEMMA OthersClaim ==
  ASSUME NEW t \in Tasks, NEW rest, NEW say, Step(t, rest, say), Contained(t),
         NEW k \in Keys, Calm(k)'
  PROVE  /\ \A u \in Tasks : u # t => ~Claimant(u, k) /\ ~Claimant(u, k)'
         /\ k # call[t].key => ClaimsOf(k)'
<1>0. /\ call' = call /\ number' = number /\ tangled' = tangled
      /\ \A u \in Tasks : u # t => todo'[u] = todo[u]
      /\ \A m \in DOMAIN answers : KeyOf(m)' = KeyOf(m)
      /\ KeyOf(number[t]) = call[t].key
      /\ stored.effects \subseteq DOMAIN answers /\ working.effects \subseteq DOMAIN answers
      /\ stored'.effects \subseteq DOMAIN answers /\ working'.effects \subseteq DOMAIN answers
  BY StepFacts
<1>1. Calm(k) /\ ClaimsOf(k)
  BY CalmSame DEF Step, Truthful
<1>2. ASSUME NEW u \in Tasks, u # t PROVE ~Claimant(u, k) /\ ~Claimant(u, k)'
  <2>1. Claimant(u, k)' <=> Claimant(u, k)
    BY <1>0, <1>2 DEF Claimant, Busy, At
  <2>2. ASSUME Claimant(u, k) PROVE FALSE
    <3>1. Busy(u) /\ KeyOf(number[u]) = k /\ number[u] \in DOMAIN answers /\ Holds(u)
      BY <2>2 DEF Claimant, Step, Orderly, Numbered, KeyOf, Holds, At, Unclaimed
    <3>2. Tidy(u)
      BY <1>1, <3>1 DEF Calm, Tidy
    <3>3. QED
      BY <1>2, <3>1, <3>2, AloneHolder DEF Step
  <2>3. QED
    BY <2>1, <2>2
<1>3. ASSUME k # call[t].key PROVE ClaimsOf(k)'
  <2>1. (\A u \in Tasks : ~Claimant(u, k)) /\ \A u \in Tasks : ~Claimant(u, k)'
    BY <1>0, <1>2, <1>3 DEF Claimant
  <2>2. Recorded(k) /\ Agreed(k)
    BY <1>1, <2>1 DEF ClaimsOf
  <2>3. /\ stored'.keys[k] = stored.keys[k] /\ working'.keys[k] = stored.keys[k]
    BY <1>3, <2>2 DEF Contained, Alike, Agreed
  <2>4. Moved(stored, k)' = Moved(stored, k) /\ Moved(working, k)' = Moved(stored, k)
    <3>1. Moved(working, k) = Moved(stored, k)
      BY <2>2 DEF Agreed
    <3>2. ASSUME NEW m \in DOMAIN answers, KeyOf(m) = k
          PROVE  /\ m \in stored'.effects <=> m \in stored.effects
                 /\ m \in working'.effects <=> m \in stored.effects
      <4>1. m # number[t]
        BY <1>0, <1>3, <3>2
      <4>2. m \in working.effects <=> m \in stored.effects
        BY <3>1, <3>2 DEF Moved
      <4>3. QED
        BY <4>1, <4>2 DEF Contained, Alike
    <3>3. QED
      BY <1>0, <3>2 DEF Moved
  <2>5. Recorded(k)' /\ Agreed(k)'
    BY <2>2, <2>3, <2>4 DEF Recorded, Agreed
  <2>6. QED
    BY <2>1, <2>5 DEF ClaimsOf
<1>4. QED
  BY <1>2, <1>3

LEMMA MovedAfter ==
  ASSUME NEW t \in Tasks, NEW rest, NEW say, Step(t, rest, say), NEW k
  PROVE  Moved(stored, k)' = Moved(stored', k) /\ Moved(working, k)' = Moved(working', k)
BY StepFacts DEF Moved

\* Own parts of a task's step.
LEMMA TruthfulKept ==
  ASSUME NEW t \in Tasks, NEW rest, NEW say, Step(t, rest, say), Contained(t),
         ProgressOf(t)' /\ PreparedOf(t)' /\ FixedOf(t)',
         \A n \in DOMAIN answers : n = number[t] /\ rest = <<>> => ToldOf(n)' /\ KeyToldOf(n)',
         \A k \in Keys : k = call[t].key /\ Calm(k) => ClaimsOf(k)'
  PROVE  Truthful'
<1>1. \A u \in Tasks : ProgressOf(u)' /\ PreparedOf(u)' /\ FixedOf(u)'
  BY OthersProgress
<1>2. DOMAIN answers' = DOMAIN answers
  BY StepFacts
<1>3. ASSUME NEW n \in DOMAIN answers PROVE ToldOf(n)' /\ KeyToldOf(n)'
  <2>1. CASE n = number[t] /\ rest = <<>>
    BY <2>1
  <2>2. CASE n # number[t] \/ rest # <<>>
    BY <2>2, OthersTold
  <2>3. QED
    BY <2>1, <2>2
<1>4. ASSUME NEW k \in Keys PROVE ClaimsOf(k)'
  <2>1. CASE ~Calm(k)'
    BY <2>1 DEF ClaimsOf
  <2>2. CASE Calm(k)' /\ k # call[t].key
    BY <2>2, OthersClaim
  <2>3. CASE Calm(k)' /\ k = call[t].key
    BY <2>3, CalmSame
  <2>4. QED
    BY <2>1, <2>2, <2>3
<1>5. QED
  BY <1>1, <1>2, <1>3, <1>4 DEF Truthful

\* A task of a calm key is tidy.
LEMMA CalmTidy ==
  ASSUME NEW t \in Tasks, NEW rest, NEW say, Step(t, rest, say), Contained(t),
         NEW k \in Keys, k = call[t].key, Calm(k)
  PROVE  /\ Tidy(t) /\ Calm(k)' /\ call[t].op \notin SignIns
         /\ Recorded(k)
         /\ At(t) \in Unclaimed => Agreed(k)
         /\ At(t) \notin Unclaimed => Claimed(t, k)
         /\ \A u \in Tasks : u # t => ~Claimant(u, k)'
<1>1. Tidy(t) /\ Calm(k)' /\ Busy(t) /\ call[t] \in Calls
  BY StepFacts, CalmSame DEF Calm, Tidy
<1>2. call[t].op \notin SignIns
  BY <1>1, CallsAssumption, AsyncAssumption DEF SignIns, Movements
<1>3. \A u \in Tasks : u # t => ~Claimant(u, k) /\ ~Claimant(u, k)'
  BY <1>1, OthersClaim
<1>4. ClaimsOf(k)
  BY DEF Step, Truthful
<1>5. At(t) \in Unclaimed => \A u \in Tasks : ~Claimant(u, k)
  BY <1>3 DEF Claimant
<1>6. At(t) \notin Unclaimed => Claimant(t, k)
  BY <1>1 DEF Claimant
<1>7. QED
  BY <1>1, <1>2, <1>3, <1>4, <1>5, <1>6 DEF ClaimsOf

LEMMA OwnAfter ==
  ASSUME NEW t \in Tasks, NEW rest, NEW say, Step(t, rest, say)
  PROVE  /\ rest = <<>> => ~Busy(t)' /\ ProgressOf(t)' /\ PreparedOf(t)' /\ FixedOf(t)'
         /\ rest # <<>> => Busy(t)' /\ At(t)' = Head(rest) /\ (Tidy(t)' <=> Tidy(t))
         /\ call' = call /\ number' = number
<1>1. todo'[t] = rest /\ call' = call /\ number' = number /\ tangled' = tangled /\ Busy(t)
  BY StepFacts
<1>2. rest = <<>> => ~Busy(t)'
  BY <1>1 DEF Busy
<1>3. rest # <<>> => Busy(t)' /\ At(t)' = Head(rest) /\ (Tidy(t)' <=> Tidy(t))
  BY <1>1 DEF Busy, At, Tidy
<1>4. ~Busy(t)' => ProgressOf(t)' /\ PreparedOf(t)' /\ FixedOf(t)'
  BY DEF ProgressOf, PreparedOf, FixedOf, Tidy
<1>5. QED
  BY <1>1, <1>2, <1>3, <1>4

LEMMA OwnClaims ==
  ASSUME NEW t \in Tasks, NEW rest, NEW say, Step(t, rest, say), Contained(t),
         NEW k \in Keys, k = call[t].key, Calm(k), Recorded(k)',
         rest = <<>> \/ Head(rest) \in Unclaimed => Agreed(k)',
         rest # <<>> /\ Head(rest) \notin Unclaimed => Claimed(t, k)'
  PROVE  ClaimsOf(k)'
<1>1. \A u \in Tasks : u # t => ~Claimant(u, k)'
  BY CalmTidy
<1>2. CASE rest = <<>> \/ Head(rest) \in Unclaimed
  <2>1. ~Claimant(t, k)'
    BY <1>2, OwnAfter DEF Claimant, Busy, At
  <2>2. QED
    BY <1>1, <1>2, <2>1 DEF ClaimsOf
<1>3. CASE rest # <<>> /\ Head(rest) \notin Unclaimed
  <2>1. Claimant(t, k)'
    BY <1>3, OwnAfter DEF Claimant
  <2>2. QED
    BY <1>1, <1>3, <2>1 DEF ClaimsOf
<1>4. QED
  BY <1>2, <1>3

-------------------------------------------------------------------------------
(* The kinds of statements *)

SameBooks(new, old) ==
    new.keys = old.keys /\ new.effects = old.effects /\ new.doomed = old.doomed
\* Statements that change no key and no effect.
Looks(t, rest, say) ==
    /\ stored' = stored /\ unsure' = unsure /\ SameBooks(working', working)
    /\ ~Writing(At(t), call[t]) /\ At(t) \notin Recording \cup {"log"}
    /\ rest = <<>> =>
         /\ say = "done" =>
              /\ call[t].key \in Keys /\ At(t) \in Unclaimed
              /\ working.keys[call[t].key].status = "completed"
              /\ working.keys[call[t].key].result = "done"
         /\ say = "wrong password" => call[t].op \notin SignIns
         /\ call[t].key \in Keys => At(t) \in Unclaimed
    /\ rest # <<>> =>
         /\ ~Writing(Head(rest), call[t]) /\ Head(rest) \notin {"log", "store", "reclaim"}
         /\ Head(rest) = "complete" => say # "done" /\ call[t].key \in Keys
         /\ call[t].op \in SignIns => say \in {"done", "wrong password"}
         /\ call[t].op \notin SignIns /\ Head(rest) # "complete" => say = "done"
         /\ call[t].key \in Keys => (Head(rest) \in Unclaimed <=> At(t) \in Unclaimed)

LEMMA LooksContained ==
  ASSUME NEW t \in Tasks, stored' = stored, unsure' = unsure, SameBooks(working', working)
  PROVE  Contained(t)
BY DEF Contained, Alike, SameBooks

LEMMA LookKept ==
  ASSUME NEW t \in Tasks, NEW rest, NEW say, Step(t, rest, say), Looks(t, rest, say),
         FixedOf(t)'
  PROVE  Truthful'
<1>1. Contained(t)
  BY LooksContained DEF Looks
<1>2. /\ Busy(t) /\ tangled' = tangled /\ number[t] \in DOMAIN answers
      /\ \A n : n = number[t] => /\ rest = <<>> => answers'[n].say = say
                                 /\ answers'[n].call = call[t]
      /\ rest # <<>> => result'[t] = say
  BY StepFacts
<1>3. Tidy(t) => Nowhere(number[t])
  BY DEF Step, Truthful, ProgressOf, Looks
<1>4. \A n : Nowhere(n)' <=> Nowhere(n)
  BY DEF Looks, SameBooks, Nowhere
<1>5. ProgressOf(t)'
  <2>1. CASE rest = <<>>
    BY <2>1, OwnAfter
  <2>2. CASE rest # <<>>
    BY <1>2, <1>3, <1>4, <2>2, OwnAfter DEF ProgressOf, Looks, Recording
  <2>3. QED
    BY <2>1, <2>2
<1>6. PreparedOf(t)'
  <2>1. CASE rest = <<>>
    BY <2>1, OwnAfter
  <2>2. CASE rest # <<>>
    BY <1>2, <2>2, OwnAfter DEF PreparedOf, Looks, Recording
  <2>3. QED
    BY <2>1, <2>2
<1>7. ASSUME NEW k \in Keys, k = call[t].key, Calm(k) PROVE ClaimsOf(k)'
  <2>1. /\ Recorded(k)
        /\ At(t) \in Unclaimed => Agreed(k)
        /\ At(t) \notin Unclaimed => Claimed(t, k)
    BY <1>1, <1>7, CalmTidy
  <2>2. /\ stored'.keys[k] = stored.keys[k] /\ working'.keys[k] = working.keys[k]
        /\ Moved(stored, k)' = Moved(stored, k) /\ Moved(working, k)' = Moved(working, k)
    BY MovedAfter DEF Looks, SameBooks, Moved
  <2>3. Recorded(k)'
    BY <2>1, <2>2 DEF Recorded
  <2>4. CASE At(t) \in Unclaimed
    <3>1. Agreed(k)'
      BY <2>1, <2>2, <2>4 DEF Agreed
    <3>2. rest # <<>> => Head(rest) \in Unclaimed
      BY <1>7, <2>4 DEF Looks
    <3>3. QED
      BY <1>1, <1>7, <2>3, <3>1, <3>2, OwnClaims
  <2>5. CASE At(t) \notin Unclaimed
    <3>1. rest # <<>> /\ Head(rest) \notin Unclaimed
      BY <1>7, <2>5 DEF Looks
    <3>2. /\ stored.keys[k].status = "none" /\ working.keys[k].status = "pending"
          /\ Moved(working, k) = {} /\ Moved(stored, k) = {}
      BY <2>1, <2>5 DEF Claimed, Looks, Recorded
    <3>3. Claimed(t, k)'
      <4>1. /\ At(t)' = Head(rest) /\ call' = call /\ number' = number /\ result'[t] = say
            /\ ~Writing(Head(rest), call[t]) /\ Head(rest) \notin {"log", "store", "reclaim"}
            /\ Head(rest) = "complete" => say # "done"
        BY <1>2, <3>1, OwnAfter DEF Looks
      <4>2. /\ stored'.keys[k].status = "none" /\ working'.keys[k].status = "pending"
            /\ Moved(working, k)' = {} /\ Moved(stored, k)' = {}
        BY <2>2, <3>2
      <4>3. CASE Head(rest) = "complete"
        BY <4>1, <4>2, <4>3 DEF Claimed, Recording
      <4>4. CASE Head(rest) # "complete"
        BY <4>1, <4>2, <4>4 DEF Claimed, Recording
      <4>5. QED
        BY <4>3, <4>4
    <3>4. QED
      BY <1>1, <1>7, <2>3, <3>1, <3>3, OwnClaims
  <2>6. QED
    BY <2>4, <2>5
<1>8. ASSUME NEW n \in DOMAIN answers, n = number[t], rest = <<>> PROVE ToldOf(n)' /\ KeyToldOf(n)'
  <2>1. /\ say = "done" => /\ call[t].key \in Keys /\ At(t) \in Unclaimed
                           /\ working.keys[call[t].key].status = "completed"
                           /\ working.keys[call[t].key].result = "done"
        /\ say = "wrong password" => call[t].op \notin SignIns
    BY <1>8 DEF Looks
  <2>2. ToldOf(n)'
    <3>1. n \notin tangled => Nowhere(n)'
      BY <1>2, <1>3, <1>4, <1>8 DEF Tidy
    <3>2. QED
      BY <1>2, <1>8, <2>1, <3>1, AsyncAssumption DEF ToldOf, KeyOf
  <2>3. KeyToldOf(n)'
    <3>1. SUFFICES ASSUME NEW k, k = call[t].key, Calm(k)', say = "done"
                   PROVE  Moved(stored, k)' # {}
      BY <1>2, <1>8 DEF KeyToldOf, KeyOf
    <3>2. k \in Keys /\ At(t) \in Unclaimed /\ Calm(k)
      BY <2>1, <3>1, CalmSame
    <3>3. Recorded(k) /\ Agreed(k)
      BY <1>1, <3>1, <3>2, CalmTidy
    <3>4. Moved(stored, k) # {}
      BY <2>1, <3>1, <3>3 DEF Recorded, Agreed
    <3>5. Moved(stored, k)' = Moved(stored, k)
      BY MovedAfter DEF Looks, Moved
    <3>6. QED
      BY <3>4, <3>5
  <2>4. QED
    BY <2>2, <2>3
<1>9. QED
  BY <1>1, <1>5, <1>6, <1>7, <1>8, TruthfulKept

\* Statements that write something new into the session, and do not commit it.
Marks(t, rest, say) ==
    /\ stored' = stored /\ unsure' = unsure /\ ~working.doomed
    /\ working'.keys = working.keys
    /\ \/ working'.effects = working.effects \cup {number[t]}
       \/ working'.effects = working.effects
          /\ (Writing(At(t), call[t]) \/ working'.doomed \/ ~Tidy(t))
    /\ rest # <<>> /\ Writing(Head(rest), call[t]) /\ say = result[t]
    /\ At(t) \notin Unclaimed \cup Recording \cup {"log", "commit"}

LEMMA MarkKept ==
  ASSUME NEW t \in Tasks, NEW rest, NEW say, Step(t, rest, say), Marks(t, rest, say)
  PROVE  Truthful'
<1>1. Contained(t)
  BY DEF Marks, Contained, Alike
<1>2. /\ Busy(t) /\ tangled' = tangled /\ number[t] \in DOMAIN answers
      /\ result'[t] = result[t] /\ number' = number /\ call' = call
      /\ Busy(t)' /\ At(t)' = Head(rest) /\ (Tidy(t)' <=> Tidy(t))
      /\ KeyOf(number[t]) = call[t].key
  BY StepFacts, OwnAfter DEF Marks
<1>3. Writing(At(t), call[t])'
  BY <1>2 DEF Marks, Writing
<1>4. At(t)' \notin Recording \cup {"log", "reclaim", "setFrozen", "remove"} \cup Unclaimed
  BY <1>2 DEF Marks, Writing, Recording, Unclaimed
<1>5. ProgressOf(t) /\ PreparedOf(t)
  BY DEF Step, Truthful
<1>6. ProgressOf(t)'
  <2>1. SUFFICES ASSUME Tidy(t)
                 PROVE  /\ number[t] \notin stored'.effects
                        /\ number[t] \in working'.effects \/ working'.doomed
    BY <1>2, <1>3, <1>4 DEF ProgressOf
  <2>2. number[t] \notin stored.effects
    BY <1>5, <2>1 DEF ProgressOf, Nowhere, Marks
  <2>3. Writing(At(t), call[t]) => number[t] \in working.effects
    BY <1>5, <2>1 DEF ProgressOf, Marks
  <2>4. QED
    BY <2>1, <2>2, <2>3 DEF Marks
<1>7. PreparedOf(t)'
  BY <1>2, <1>4, <1>5 DEF PreparedOf, Marks, Unclaimed, Recording
<1>8. FixedOf(t)'
  BY <1>4 DEF FixedOf
<1>9. ASSUME NEW k \in Keys, k = call[t].key, Calm(k) PROVE ClaimsOf(k)'
  <2>1. Recorded(k) /\ Claimed(t, k)
    BY <1>1, <1>9, CalmTidy DEF Marks
  <2>2. /\ stored'.keys[k] = stored.keys[k] /\ working'.keys[k] = working.keys[k]
        /\ Moved(stored, k)' = Moved(stored, k)
        /\ Moved(working, k)' \subseteq Moved(working, k) \cup {number[t]}
    BY MovedAfter DEF Marks, Moved
  <2>3. Recorded(k)'
    BY <2>1, <2>2 DEF Recorded
  <2>4. /\ stored.keys[k].status = "none" /\ working.keys[k].status = "pending"
        /\ Moved(working, k) \subseteq {number[t]}
    BY <2>1 DEF Claimed, Marks
  <2>5. Claimed(t, k)'
    BY <1>2, <1>3, <1>4, <2>2, <2>4 DEF Claimed
  <2>6. QED
    BY <1>1, <1>2, <1>4, <1>9, <2>3, <2>5, OwnClaims DEF Marks
<1>10. QED
  BY <1>1, <1>6, <1>7, <1>8, <1>9, TruthfulKept DEF Marks

\* The statement that commits what the session has.
Commits(t, rest, say) ==
    /\ stored' = working /\ working' = working /\ unsure' = unsure /\ ~working.doomed
    /\ At(t) = "commit" /\ say = result[t]
    /\ IF call[t].key \in Keys THEN rest = <<"complete", "store">> /\ call[t].op \notin SignIns
       ELSE rest \in {<<>>, <<"log">>}

LEMMA CommitKept ==
  ASSUME NEW t \in Tasks, NEW rest, NEW say, Step(t, rest, say), Commits(t, rest, say)
  PROVE  Truthful'
<1>1. Contained(t)
  BY DEF Commits, Contained, Alike, Step, Orderly, Typed
<1>2. /\ Busy(t) /\ tangled' = tangled /\ number[t] \in DOMAIN answers
      /\ \A n : n = number[t] => /\ rest = <<>> => answers'[n].say = result[t]
                                 /\ answers'[n].call = call[t] /\ KeyOf(n) = call[t].key
      /\ rest # <<>> => result'[t] = result[t]
      /\ call' = call /\ number' = number
  BY StepFacts DEF Commits
<1>3. rest # <<>> => Busy(t)' /\ At(t)' = Head(rest) /\ (Tidy(t)' <=> Tidy(t))
  BY OwnAfter
<1>4. ProgressOf(t) /\ PreparedOf(t) /\ Writing(At(t), call[t])
  BY DEF Step, Truthful, Commits, Writing
<1>5. Tidy(t) => number[t] \in stored'.effects
  BY <1>4 DEF ProgressOf, Commits
<1>6. IF call[t].op \in SignIns THEN result[t] \in {"done", "wrong password"}
      ELSE result[t] = "done"
  BY <1>2, <1>4 DEF PreparedOf, Commits, Recording
<1>7. ProgressOf(t)' /\ PreparedOf(t)' /\ FixedOf(t)'
  <2>1. CASE rest = <<>>
    BY <2>1, OwnAfter
  <2>2. CASE rest # <<>>
    <3>1. Head(rest) \in {"complete", "log"} /\ (Head(rest) = "complete" => result[t] = "done")
      <4>1. CASE call[t].key \in Keys
        BY <1>6, <4>1 DEF Commits
      <4>2. CASE call[t].key \notin Keys
        <5>1. rest = <<"log">>
          BY <2>2, <4>2 DEF Commits
        <5>2. QED
          BY <5>1
      <4>3. QED
        BY <4>1, <4>2
    <3>2. ProgressOf(t)'
      BY <1>2, <1>3, <1>5, <2>2, <3>1 DEF ProgressOf, Recording, Writing
    <3>3. PreparedOf(t)'
      BY <1>2, <1>3, <1>6, <2>2 DEF PreparedOf
    <3>4. FixedOf(t)'
      BY <1>3, <2>2, <3>1 DEF FixedOf
    <3>5. QED
      BY <3>2, <3>3, <3>4
  <2>3. QED
    BY <2>1, <2>2
<1>8. ASSUME NEW k \in Keys, k = call[t].key, Calm(k) PROVE ClaimsOf(k)'
  <2>1. Tidy(t) /\ Claimed(t, k) /\ rest = <<"complete", "store">> /\ result[t] = "done"
    BY <1>1, <1>6, <1>8, CalmTidy DEF Commits, Unclaimed
  <2>2. working.keys[k].status = "pending" /\ Moved(working, k) \subseteq {number[t]}
    BY <2>1 DEF Claimed, Commits, Recording
  <2>3. Moved(working, k) = {number[t]}
    BY <1>2, <1>5, <1>8, <2>1, <2>2 DEF Moved, Commits
  <2>4. /\ stored'.keys[k].status = "pending" /\ working'.keys[k].status = "pending"
        /\ Moved(stored, k)' = {number[t]} /\ Moved(working, k)' = {number[t]}
    BY <2>2, <2>3, MovedAfter DEF Commits
  <2>5. Recorded(k)'
    BY <2>4 DEF Recorded
  <2>6. Head(rest) = "complete" /\ rest # <<>>
    BY <2>1
  <2>7. Claimed(t, k)'
    BY <1>2, <1>3, <2>1, <2>4, <2>6 DEF Claimed, Recording
  <2>8. QED
    BY <1>1, <1>8, <2>5, <2>6, <2>7, OwnClaims DEF Unclaimed
<1>9. ASSUME NEW n \in DOMAIN answers, n = number[t], rest = <<>>
      PROVE ToldOf(n)' /\ KeyToldOf(n)'
  <2>1. call[t].key = NoKey
    BY <1>9, StepFacts, CallsAssumption DEF Commits, Call
  <2>2. answers'[n].call.key = NoKey
    BY <1>2, <1>9, <2>1
  <2>3. n \notin tangled => n \in stored'.effects
    BY <1>2, <1>5, <1>9 DEF Tidy
  <2>4. answers'[n].say \notin Refusals
    BY <1>2, <1>6, <1>9 DEF Refusals
  <2>5. QED
    BY <1>2, <2>2, <2>3, <2>4 DEF ToldOf, KeyToldOf, KeyOf
<1>10. QED
  BY <1>1, <1>7, <1>8, <1>9, TruthfulKept

\* The statements of a key: the claim, its loss to another, the completion.
Takes(t, rest, say) ==
    /\ stored' = stored /\ unsure' = unsure /\ call[t].key \in Keys
    /\ working'.effects = working.effects
    /\ working.keys[call[t].key].status = "none"
    /\ working'.keys[call[t].key].status = "pending"
    /\ \A k \in Keys : k # call[t].key => working'.keys[k] = working.keys[k]
    /\ At(t) = "insert" /\ rest # <<>> /\ Head(rest) = "account" /\ say = result[t]

LEMMA TakeKept ==
  ASSUME NEW t \in Tasks, NEW rest, NEW say, Step(t, rest, say), Takes(t, rest, say)
  PROVE  Truthful'
<1>1. Contained(t)
  BY DEF Takes, Contained, Alike
<1>2. /\ Busy(t) /\ result'[t] = result[t] /\ number' = number /\ call' = call
      /\ Busy(t)' /\ At(t)' = "account" /\ (Tidy(t)' <=> Tidy(t))
      /\ At(t) = "insert"
  BY StepFacts, OwnAfter DEF Takes
<1>3. ProgressOf(t) /\ PreparedOf(t)
  BY DEF Step, Truthful
<1>4. ProgressOf(t)'
  <2>1. Tidy(t) => Nowhere(number[t])
    BY <1>2, <1>3 DEF ProgressOf, Recording, Writing
  <2>2. Tidy(t)' => Nowhere(number[t])'
    BY <1>2, <2>1 DEF Nowhere, Takes
  <2>3. QED
    BY <1>2, <2>2 DEF ProgressOf, Recording, Writing
<1>5. PreparedOf(t)' /\ FixedOf(t)'
  BY <1>2, <1>3 DEF PreparedOf, FixedOf, Recording
<1>6. ASSUME NEW k \in Keys, k = call[t].key, Calm(k) PROVE ClaimsOf(k)'
  <2>1. Recorded(k) /\ Agreed(k)
    BY <1>1, <1>2, <1>6, CalmTidy DEF Unclaimed
  <2>2. /\ stored'.keys[k] = stored.keys[k] /\ working'.keys[k].status = "pending"
        /\ Moved(stored, k)' = Moved(stored, k) /\ Moved(working, k)' = Moved(working, k)
    <3>1. Moved(stored, k)' = Moved(stored', k) /\ Moved(working, k)' = Moved(working', k)
      BY MovedAfter
    <3>2. Moved(stored', k) = Moved(stored, k) /\ Moved(working', k) = Moved(working, k)
      BY DEF Takes, Moved
    <3>3. QED
      BY <1>6, <3>1, <3>2 DEF Takes
  <2>3. stored.keys[k].status = "none" /\ Moved(stored, k) = {} /\ Moved(working, k) = {}
    BY <1>6, <2>1 DEF Takes, Agreed, Recorded
  <2>4. Recorded(k)'
    BY <2>1, <2>2 DEF Recorded
  <2>5. Claimed(t, k)'
    BY <1>2, <2>2, <2>3 DEF Claimed, Recording
  <2>6. QED
    BY <1>1, <1>6, <2>4, <2>5, OwnClaims DEF Takes, Unclaimed
<1>7. QED
  BY <1>1, <1>4, <1>5, <1>6, TruthfulKept DEF Takes

Retreats(t, rest, say) ==
    /\ stored' = stored /\ unsure' = unsure /\ working' = stored
    /\ At(t) = "insert" /\ rest = <<"reclaim">> /\ call[t].op \notin SignIns

LEMMA RetreatKept ==
  ASSUME NEW t \in Tasks, NEW rest, NEW say, Step(t, rest, say), Retreats(t, rest, say)
  PROVE  Truthful'
<1>1. Contained(t)
  BY DEF Retreats, Contained, Alike
<1>2. rest # <<>> /\ Head(rest) = "reclaim"
  BY DEF Retreats
<1>3. /\ Busy(t) /\ number' = number /\ call' = call
      /\ Busy(t)' /\ At(t)' = "reclaim" /\ (Tidy(t)' <=> Tidy(t))
      /\ At(t) = "insert"
  BY <1>2, StepFacts, OwnAfter DEF Retreats
<1>4. ProgressOf(t)'
  <2>1. Tidy(t) => Nowhere(number[t])
    BY <1>3 DEF Step, Truthful, ProgressOf, Recording, Writing
  <2>2. Tidy(t)' => Nowhere(number[t])'
    BY <1>3, <2>1 DEF Nowhere, Retreats
  <2>3. QED
    BY <1>3, <2>2 DEF ProgressOf, Recording, Writing
<1>5. PreparedOf(t)' /\ FixedOf(t)'
  BY <1>3 DEF PreparedOf, FixedOf, Recording, Retreats
<1>6. ASSUME NEW k \in Keys, k = call[t].key, Calm(k) PROVE ClaimsOf(k)'
  <2>1. Recorded(k)
    BY <1>1, <1>6, CalmTidy
  <2>2. /\ stored'.keys[k] = stored.keys[k] /\ working'.keys[k] = stored.keys[k]
        /\ Moved(stored, k)' = Moved(stored, k) /\ Moved(working, k)' = Moved(stored, k)
    BY MovedAfter DEF Retreats, Moved
  <2>3. Recorded(k)' /\ Agreed(k)'
    BY <2>1, <2>2 DEF Recorded, Agreed
  <2>4. QED
    BY <1>1, <1>2, <1>6, <2>3, OwnClaims DEF Unclaimed
<1>7. QED
  BY <1>1, <1>2, <1>4, <1>5, <1>6, TruthfulKept

Records(t, rest, say) ==
    /\ stored' = stored /\ unsure' = unsure /\ call[t].key \in Keys
    /\ working'.effects = working.effects
    /\ working.keys[call[t].key].status # "none" =>
         /\ working'.keys[call[t].key].status = "completed"
         /\ working'.keys[call[t].key].result = result[t]
    /\ \A k \in Keys : k # call[t].key => working'.keys[k] = working.keys[k]
    /\ At(t) = "complete" /\ rest = <<"store">> /\ say = result[t]
    /\ call[t].op \notin SignIns

LEMMA RecordKept ==
  ASSUME NEW t \in Tasks, NEW rest, NEW say, Step(t, rest, say), Records(t, rest, say)
  PROVE  Truthful'
<1>1. Contained(t)
  BY DEF Records, Contained, Alike
<1>2. rest # <<>> /\ Head(rest) = "store"
  BY DEF Records
<1>3. /\ Busy(t) /\ result'[t] = result[t] /\ number' = number /\ call' = call
      /\ Busy(t)' /\ At(t)' = "store" /\ (Tidy(t)' <=> Tidy(t))
      /\ At(t) = "complete"
  BY <1>2, StepFacts, OwnAfter DEF Records
<1>4. ProgressOf(t)'
  <2>1. Tidy(t) => IF result[t] = "done" THEN number[t] \in stored.effects ELSE Nowhere(number[t])
    BY <1>3 DEF Step, Truthful, ProgressOf, Recording, Writing
  <2>2. Tidy(t)' => IF result[t] = "done" THEN number[t] \in stored'.effects ELSE Nowhere(number[t])'
    BY <1>3, <2>1 DEF Nowhere, Records
  <2>3. QED
    BY <1>3, <2>2 DEF ProgressOf, Recording, Writing
<1>5. PreparedOf(t)' /\ FixedOf(t)'
  BY <1>3 DEF PreparedOf, FixedOf, Recording, Records
<1>6. ASSUME NEW k \in Keys, k = call[t].key, Calm(k) PROVE ClaimsOf(k)'
  <2>1. Recorded(k) /\ Claimed(t, k)
    BY <1>1, <1>3, <1>6, CalmTidy DEF Unclaimed
  <2>2. /\ stored'.keys[k] = stored.keys[k]
        /\ Moved(stored, k)' = Moved(stored, k) /\ Moved(working, k)' = Moved(working, k)
    BY <1>6, MovedAfter DEF Records, Moved
  <2>3. /\ stored.keys[k].status = IF result[t] = "done" THEN "pending" ELSE "none"
        /\ working.keys[k].status = "pending"
        /\ Moved(working, k) = Moved(stored, k)
        /\ Moved(working, k) = IF result[t] = "done" THEN {number[t]} ELSE {}
    BY <1>3, <2>1 DEF Claimed, Recording
  <2>4. working'.keys[k].status = "completed" /\ working'.keys[k].result = result[t]
    BY <1>6, <2>3 DEF Records
  <2>5. Recorded(k)'
    BY <2>1, <2>2 DEF Recorded
  <2>6. Claimed(t, k)'
    BY <1>3, <2>2, <2>3, <2>4 DEF Claimed, Recording
  <2>7. QED
    BY <1>1, <1>2, <1>6, <2>5, <2>6, OwnClaims DEF Unclaimed
<1>7. QED
  BY <1>1, <1>2, <1>4, <1>5, <1>6, TruthfulKept

\* The commit of a completed key, and that of an audit entry.
Stores(t, say) ==
    /\ stored' = working /\ working' = working /\ unsure' = unsure
    /\ At(t) = "store" /\ say = result[t]
    /\ call[t].key \in Keys /\ call[t].op \notin SignIns

\* What the record of a key and the effects of its calls are once it is completed.
LEMMA CompletedIsRecorded ==
  ASSUME NEW t \in Tasks, NEW k \in Keys, Claimed(t, k), At(t) = "store"
  PROVE  /\ \A m, n \in Moved(working, k) : m = n
         /\ working.keys[k].status = "completed"
         /\ working.keys[k].result = "done" <=> Moved(working, k) # {}
BY DEF Claimed, Recording

LEMMA StoreKept ==
  ASSUME NEW t \in Tasks, NEW say, Step(t, <<>>, say), Stores(t, say)
  PROVE  Truthful'
<1>1. Contained(t)
  BY DEF Stores, Contained, Alike, Step, Orderly, Typed
<1>2. /\ Busy(t) /\ tangled' = tangled
      /\ \A n : n = number[t] => /\ answers'[n].say = result[t]
                                 /\ answers'[n].call = call[t] /\ KeyOf(n) = call[t].key
      /\ number[t] \in DOMAIN answers
  BY StepFacts DEF Stores
<1>3. Tidy(t) => IF result[t] = "done" THEN number[t] \in stored.effects ELSE Nowhere(number[t])
  BY DEF Step, Truthful, ProgressOf, Recording, Writing, Stores
<1>4. ProgressOf(t)' /\ PreparedOf(t)' /\ FixedOf(t)'
  BY OwnAfter
<1>5. ASSUME NEW k \in Keys, k = call[t].key, Calm(k) PROVE ClaimsOf(k)'
  <2>1. Claimed(t, k)
    BY <1>1, <1>5, CalmTidy DEF Unclaimed, Stores
  <2>2. /\ stored'.keys[k] = working.keys[k] /\ working'.keys[k] = working.keys[k]
        /\ Moved(stored, k)' = Moved(working, k) /\ Moved(working, k)' = Moved(working, k)
    BY MovedAfter DEF Stores, Moved
  <2>3. Recorded(k)'
    BY <2>1, <2>2, CompletedIsRecorded DEF Recorded, Stores
  <2>4. Agreed(k)'
    BY <2>2 DEF Agreed
  <2>5. QED
    BY <1>1, <1>5, <2>3, <2>4, OwnClaims
<1>6. ASSUME NEW n \in DOMAIN answers, n = number[t] PROVE ToldOf(n)' /\ KeyToldOf(n)'
  <2>1. answers'[n].call.key \in Keys /\ answers'[n].call.op \notin SignIns
    BY <1>2, <1>6 DEF Stores
  <2>2. ToldOf(n)'
    <3>1. n \notin tangled /\ answers'[n].say \in Refusals => Nowhere(n)'
      BY <1>2, <1>3, <1>6 DEF Tidy, Nowhere, Stores, Refusals
    <3>2. QED
      BY <1>2, <2>1, <3>1, AsyncAssumption DEF ToldOf, KeyOf
  <2>3. KeyToldOf(n)'
    <3>1. SUFFICES ASSUME NEW k, k = call[t].key, Calm(k)', result[t] = "done"
                   PROVE  Moved(stored, k)' # {}
      BY <1>2, <1>6 DEF KeyToldOf, KeyOf
    <3>2. Calm(k) /\ k \in Keys
      BY <3>1, CalmSame DEF Stores
    <3>3. number[t] \in stored'.effects /\ KeyOf(number[t]) = k
      BY <1>1, <1>2, <1>3, <3>1, <3>2 DEF Tidy, Calm, Contained
    <3>4. Moved(stored, k)' = Moved(stored', k)
      BY MovedAfter
    <3>5. QED
      BY <3>3, <3>4 DEF Moved
  <2>4. QED
    BY <2>2, <2>3
<1>7. QED
  BY <1>1, <1>4, <1>5, <1>6, TruthfulKept

Audits(t, say) ==
    /\ SameBooks(stored', working) /\ SameBooks(working', working) /\ unsure' = unsure
    /\ At(t) = "log" /\ say = result[t] /\ call[t].key = NoKey

LEMMA LogKept ==
  ASSUME NEW t \in Tasks, NEW say, Step(t, <<>>, say), Audits(t, say)
  PROVE  Truthful'
<1>1. Contained(t)
  BY DEF Audits, SameBooks, Contained, Alike, Step, Orderly, Typed
<1>2. /\ Busy(t) /\ tangled' = tangled /\ call[t].key \notin Keys
      /\ \A n : n = number[t] => /\ answers'[n].say = result[t] /\ answers'[n].call = call[t]
  BY StepFacts, AsyncAssumption DEF Audits
<1>3. Tidy(t) => number[t] \in stored'.effects
  BY <1>1 DEF Step, Truthful, ProgressOf, Audits, Contained
<1>4. result[t] \in {"done", "wrong password"}
  BY <1>2 DEF Step, Truthful, PreparedOf, Recording, Audits
<1>5. ProgressOf(t)' /\ PreparedOf(t)' /\ FixedOf(t)'
  BY OwnAfter
<1>6. ASSUME NEW n \in DOMAIN answers, n = number[t] PROVE ToldOf(n)' /\ KeyToldOf(n)'
  <2>1. answers'[n].call.key = NoKey
    BY <1>2, <1>6 DEF Audits
  <2>2. answers'[n].say \notin Refusals /\ (n \notin tangled => n \in stored'.effects)
    BY <1>2, <1>3, <1>4, <1>6 DEF Tidy, Refusals
  <2>3. QED
    BY <1>2, <2>1, <2>2 DEF ToldOf, KeyToldOf, KeyOf
<1>7. QED
  BY <1>1, <1>2, <1>5, <1>6, TruthfulKept

\* A statement that fails, and with it all that is pending, unless the failure comes after
\* the fact.
Loses(t, say) ==
    /\ working' = stored'
    /\ \/ stored' = stored /\ unsure' = unsure
       \/ /\ SameBooks(stored', working) /\ ~working.doomed
          /\ unsure' = unsure \cup {number[t]} /\ At(t) \in {"commit", "store", "log"}
    /\ say = "done" => At(t) \in Recording /\ result[t] = "done" /\ call[t].key \in Keys
    /\ say = "wrong password" => call[t].op \notin SignIns
    /\ say \in Refusals => \/ At(t) \in {"insert", "update", "updateReceiver", "commit"}
                           \/ At(t) \in Recording /\ say = result[t]
    /\ At(t) = "log" => call[t].key = NoKey
    /\ call[t].key \in Keys => result[t] = "done" \/ At(t) # "commit"

LEMMA LoseKept ==
  ASSUME NEW t \in Tasks, NEW say, Step(t, <<>>, say), Loses(t, say)
  PROVE  Truthful'
<1>1. Contained(t)
  BY DEF Loses, SameBooks, Contained, Alike, Step, Orderly, Typed
<1>2. /\ Busy(t) /\ tangled' = tangled
      /\ \A n : n = number[t] => /\ answers'[n].say = say
                                 /\ answers'[n].call = call[t] /\ KeyOf(n) = call[t].key
      /\ number[t] \in DOMAIN answers
  BY StepFacts
<1>3. ProgressOf(t)
  BY DEF Step, Truthful
<1>4. ProgressOf(t)' /\ PreparedOf(t)' /\ FixedOf(t)'
  BY OwnAfter
<1>5. ASSUME NEW k \in Keys, k = call[t].key, Calm(k) PROVE ClaimsOf(k)'
  <2>1. /\ Tidy(t) /\ Recorded(k) /\ (At(t) \notin Unclaimed => Claimed(t, k))
    BY <1>1, <1>5, CalmTidy
  <2>2. working'.keys[k] = stored'.keys[k] /\ Moved(working, k)' = Moved(stored, k)'
    BY MovedAfter DEF Loses, Moved
  <2>3. Agreed(k)'
    BY <2>2 DEF Agreed
  <2>4. Recorded(k)'
    <3>1. CASE stored' = stored
      <4>1. Moved(stored, k)' = Moved(stored, k)
        BY <3>1, MovedAfter
      <4>2. QED
        BY <2>1, <3>1, <4>1 DEF Recorded
    <3>2. CASE /\ SameBooks(stored', working) /\ ~working.doomed
               /\ At(t) \in {"commit", "store", "log"}
      <4>1. stored'.keys[k] = working.keys[k] /\ Moved(stored, k)' = Moved(working, k)
        BY <3>2, MovedAfter DEF SameBooks, Moved
      <4>2. At(t) # "log"
        BY <1>5, AsyncAssumption DEF Loses
      <4>3. CASE At(t) = "store"
        <5>1. Claimed(t, k)
          BY <2>1, <4>3 DEF Unclaimed
        <5>2. QED
          BY <4>1, <4>3, <5>1, CompletedIsRecorded DEF Recorded
      <4>4. CASE At(t) = "commit"
        <5>1. Moved(working, k) \subseteq {number[t]} /\ working.keys[k].status = "pending"
          BY <2>1, <4>4 DEF Claimed, Unclaimed, Recording
        <5>2. QED
          BY <4>1, <5>1 DEF Recorded
      <4>5. QED
        BY <3>2, <4>2, <4>3, <4>4
    <3>3. QED
      BY <3>1, <3>2 DEF Loses
  <2>5. QED
    BY <1>1, <1>5, <2>3, <2>4, OwnClaims
<1>6. ASSUME NEW n \in DOMAIN answers, n = number[t] PROVE ToldOf(n)' /\ KeyToldOf(n)'
  <2>1. say = "done" /\ n \notin tangled => n \in stored'.effects
    BY <1>1, <1>2, <1>3, <1>6 DEF ProgressOf, Tidy, Loses, Recording, Contained
  <2>2. say \in Refusals /\ n \notin tangled => n \in unsure' \/ Nowhere(n)'
    <3>1. SUFFICES ASSUME say \in Refusals, Tidy(t), stored' = stored
                   PROVE  n \notin stored.effects
      BY <1>2, <1>6 DEF Nowhere, Loses, Tidy
    <3>2. say # "done"
      BY <3>1 DEF Refusals
    <3>3. CASE Writing(At(t), call[t])
      BY <1>3, <1>6, <3>1, <3>3 DEF ProgressOf
    <3>4. CASE ~Writing(At(t), call[t]) /\ At(t) \in Recording
      <4>1. say = result[t]
        BY <3>1, <3>4 DEF Loses, Recording
      <4>2. QED
        BY <1>3, <1>6, <3>1, <3>2, <3>4, <4>1 DEF ProgressOf, Nowhere
    <3>5. CASE ~Writing(At(t), call[t]) /\ At(t) \notin Recording
      BY <1>3, <1>6, <3>1, <3>5 DEF ProgressOf, Nowhere, Loses
    <3>6. QED
      BY <3>3, <3>4, <3>5
  <2>3. ToldOf(n)'
    <3>1. say = "done" => call[t].key # NoKey
      BY AsyncAssumption DEF Loses
    <3>2. say = "wrong password" => call[t].op \notin SignIns
      BY DEF Loses
    <3>3. QED
      BY <1>2, <1>6, <2>2, <3>1, <3>2 DEF ToldOf, KeyOf
  <2>4. KeyToldOf(n)'
    <3>1. SUFFICES ASSUME NEW k, k = call[t].key, Calm(k)', say = "done"
                   PROVE  Moved(stored, k)' # {}
      BY <1>2, <1>6 DEF KeyToldOf, KeyOf
    <3>2. Calm(k)
      BY <3>1, CalmSame
    <3>3. n \in stored'.effects /\ KeyOf(n) = k
      BY <1>2, <1>6, <2>1, <3>1, <3>2 DEF Calm
    <3>4. Moved(stored, k)' = Moved(stored', k)
      BY MovedAfter
    <3>5. QED
      BY <3>3, <3>4 DEF Moved
  <2>5. QED
    BY <2>3, <2>4
<1>7. QED
  BY <1>1, <1>4, <1>5, <1>6, TruthfulKept

\* A statement that is refused because another task's is in flight: nothing is lost, but
\* the two are tangled.
Yields(t, say) ==
    /\ stored' = stored /\ working' = working /\ unsure' = unsure
    /\ say = "error" /\ ~Tidy(t)

LEMMA YieldKept ==
  ASSUME NEW t \in Tasks, NEW say, Step(t, <<>>, say), Yields(t, say)
  PROVE  Truthful'
<1>1. Contained(t)
  BY DEF Yields, Contained, Alike
<1>2. ProgressOf(t)' /\ PreparedOf(t)' /\ FixedOf(t)'
  BY OwnAfter
<1>3. /\ Busy(t) /\ tangled' = tangled /\ number[t] \in tangled
      /\ \A n : n = number[t] => answers'[n].say = "error"
  BY StepFacts DEF Yields, Tidy
<1>4. ASSUME NEW k \in Keys, k = call[t].key, Calm(k) PROVE FALSE
  BY <1>1, <1>4, CalmTidy DEF Yields
<1>5. ASSUME NEW n \in DOMAIN answers, n = number[t] PROVE ToldOf(n)' /\ KeyToldOf(n)'
  BY <1>3, <1>5 DEF ToldOf, KeyToldOf
<1>6. QED
  BY <1>1, <1>2, <1>4, <1>5, TruthfulKept

-------------------------------------------------------------------------------
(* The tables keep their types *)

BooksOf(new, old) == SameBooks(new, old) /\ new.accounts = old.accounts

LEMMA PutAccount ==
  ASSUME NEW S, NEW T \in TablesOf(S), NEW a \in Accounts, NEW r \in AccountRow
  PROVE  /\ [T EXCEPT !.accounts[a] = r] \in TablesOf(S)
         /\ SameBooks([T EXCEPT !.accounts[a] = r], T)
<1> DEFINE X == [T EXCEPT !.accounts[a] = r]
           f == [T.accounts EXCEPT ![a] = r]
<1>1. f \in [Accounts -> AccountRow]
  BY DEF TablesOf
<1>2. X = [T EXCEPT !.accounts = f]
  OBVIOUS
<1> HIDE DEF f
<1>3. QED
  BY <1>1, <1>2 DEF TablesOf, SameBooks

LEMMA PutStatement ==
  ASSUME NEW S, NEW T \in TablesOf(S), NEW a \in Accounts, NEW s \in Seq(EntryRow)
  PROVE  /\ [T EXCEPT !.statements[a] = s] \in TablesOf(S)
         /\ BooksOf([T EXCEPT !.statements[a] = s], T)
<1> DEFINE X == [T EXCEPT !.statements[a] = s]
           f == [T.statements EXCEPT ![a] = s]
<1>1. f \in [Accounts -> Seq(EntryRow)]
  BY DEF TablesOf
<1>2. X = [T EXCEPT !.statements = f]
  OBVIOUS
<1> HIDE DEF f
<1>3. QED
  BY <1>1, <1>2 DEF TablesOf, SameBooks, BooksOf

LEMMA OwnedGoals == OwnedGoal \subseteq GoalRow
<1>1. Accounts \cup {0} \subseteq Nat
  BY AsyncAssumption
<1>2. QED
  BY <1>1 DEF OwnedGoal, GoalRow

LEMMA PutGoal ==
  ASSUME NEW S, NEW T \in TablesOf(S), NEW g \in Goals, NEW r \in OwnedGoal
  PROVE  /\ [T EXCEPT !.goals[g] = r] \in TablesOf(S)
         /\ BooksOf([T EXCEPT !.goals[g] = r], T)
<1> DEFINE X == [T EXCEPT !.goals[g] = r]
           f == [T.goals EXCEPT ![g] = r]
<1>1. f \in [Goals -> OwnedGoal]
  BY DEF TablesOf
<1>2. X = [T EXCEPT !.goals = f]
  OBVIOUS
<1> HIDE DEF f
<1>3. QED
  BY <1>1, <1>2 DEF TablesOf, SameBooks, BooksOf

LEMMA PutVersion ==
  ASSUME NEW S, NEW T \in TablesOf(S), NEW a \in Accounts
  PROVE  /\ [T EXCEPT !.versions[a] = @ + 1] \in TablesOf(S)
         /\ BooksOf([T EXCEPT !.versions[a] = @ + 1], T)
<1> DEFINE X == [T EXCEPT !.versions[a] = @ + 1]
           f == [T.versions EXCEPT ![a] = T.versions[a] + 1]
<1>1. f \in [Accounts -> Nat]
  BY DEF TablesOf
<1>2. X = [T EXCEPT !.versions = f]
  OBVIOUS
<1> HIDE DEF f
<1>3. QED
  BY <1>1, <1>2 DEF TablesOf, SameBooks, BooksOf

LEMMA PutAttempt ==
  ASSUME NEW S, NEW T \in TablesOf(S), NEW l \in Logins, NEW r \in AttemptRow
  PROVE  /\ [T EXCEPT !.attempts[l] = r] \in TablesOf(S)
         /\ BooksOf([T EXCEPT !.attempts[l] = r], T)
<1> DEFINE X == [T EXCEPT !.attempts[l] = r]
           f == [T.attempts EXCEPT ![l] = r]
<1>1. f \in [Logins -> AttemptRow]
  BY DEF TablesOf
<1>2. X = [T EXCEPT !.attempts = f]
  OBVIOUS
<1> HIDE DEF f
<1>3. QED
  BY <1>1, <1>2 DEF TablesOf, SameBooks, BooksOf

LEMMA PutKey ==
  ASSUME NEW S, NEW T \in TablesOf(S), NEW k \in Keys, NEW r \in KeyRow
  PROVE  /\ [T EXCEPT !.keys[k] = r] \in TablesOf(S)
         /\ [T EXCEPT !.keys[k] = r].effects = T.effects
         /\ [T EXCEPT !.keys[k] = r].doomed = T.doomed
         /\ [T EXCEPT !.keys[k] = r].keys = [T.keys EXCEPT ![k] = r]
         /\ [T EXCEPT !.keys[k] = r].keys[k] = r
         /\ \A j \in Keys : j # k => [T EXCEPT !.keys[k] = r].keys[j] = T.keys[j]
<1> DEFINE X == [T EXCEPT !.keys[k] = r]
           f == [T.keys EXCEPT ![k] = r]
<1>1. f \in [Keys -> KeyRow] /\ f[k] = r /\ \A j \in Keys : j # k => f[j] = T.keys[j]
  BY DEF TablesOf
<1>2. X = [T EXCEPT !.keys = f]
  OBVIOUS
<1> HIDE DEF f
<1>3. X \in TablesOf(S) /\ X.effects = T.effects /\ X.doomed = T.doomed /\ X.keys = f
  BY <1>1, <1>2 DEF TablesOf
<1>4. QED
  BY <1>1, <1>3 DEF f

LEMMA PutAdmin ==
  ASSUME NEW S, NEW T \in TablesOf(S), NEW v \in Int
  PROVE  /\ [T EXCEPT !.admin = v] \in TablesOf(S)
         /\ BooksOf([T EXCEPT !.admin = v], T)
BY DEF TablesOf, SameBooks, BooksOf

LEMMA PutAudit ==
  ASSUME NEW S, NEW T \in TablesOf(S), NEW n \in S
  PROVE  /\ [T EXCEPT !.audit = @ \cup {n}] \in TablesOf(S)
         /\ BooksOf([T EXCEPT !.audit = @ \cup {n}], T)
BY DEF TablesOf, SameBooks, BooksOf

LEMMA PutEffect ==
  ASSUME NEW S, NEW T \in TablesOf(S), NEW n \in S
  PROVE  /\ [T EXCEPT !.effects = @ \cup {n}] \in TablesOf(S)
         /\ [T EXCEPT !.effects = @ \cup {n}].effects = T.effects \cup {n}
         /\ [T EXCEPT !.effects = @ \cup {n}].keys = T.keys
         /\ [T EXCEPT !.effects = @ \cup {n}].doomed = T.doomed
         /\ [T EXCEPT !.effects = @ \cup {n}].accounts = T.accounts
BY DEF TablesOf

LEMMA PutDoomed ==
  ASSUME NEW S, NEW T \in TablesOf(S)
  PROVE  /\ [T EXCEPT !.doomed = TRUE] \in TablesOf(S)
         /\ [T EXCEPT !.doomed = TRUE].effects = T.effects
         /\ [T EXCEPT !.doomed = TRUE].keys = T.keys
         /\ [T EXCEPT !.doomed = TRUE].doomed
BY DEF TablesOf

\* What update() writes is a row of the table, however the columns came about.
LEMMA OverwrittenRow ==
  ASSUME NEW r \in AccountRow, NEW cols \in AccountWrites
  PROVE  Overwritten(r, cols) \in AccountRow
<1> DEFINE Pick(c) == IF c \in DOMAIN cols THEN cols[c] ELSE r[c]
<1>1. Overwritten(r, cols) =
        [balance |-> Pick("balance"), active |-> Pick("active"), frozen |-> Pick("frozen"),
         deleted |-> Pick("deleted"), profile |-> Pick("profile"), password |-> Pick("password")]
  BY DEF AccountRow, Overwritten
<1>2. CASE cols = <<>>
  BY <1>1, <1>2 DEF AccountRow
<1>3. CASE cols \in AllColumns
  BY <1>1, <1>3 DEF AccountRow, AllColumns
<1>4. CASE cols \in [frozen : BOOLEAN, active : BOOLEAN]
  BY <1>1, <1>4 DEF AccountRow
<1>5. CASE cols \in [frozen : BOOLEAN]
  BY <1>1, <1>5 DEF AccountRow
<1>6. CASE cols \in [deleted : BOOLEAN, active : BOOLEAN]
  BY <1>1, <1>6 DEF AccountRow
<1>7. QED
  BY <1>2, <1>3, <1>4, <1>5, <1>6 DEF AccountWrites

-------------------------------------------------------------------------------
(* What a service decides, on rows of the right types *)

Sensible(v) ==
    /\ v.ok => v.say = "done"
    /\ ~v.ok => v.say \in Refusals \cup {"wrong password"}
    /\ v.writes.account \in AccountWrites /\ AtMostOne(v.writes.entries)

LEMMA RefusedSensible ==
  ASSUME NEW why \in Refusals \cup {"wrong password"}
  PROVE  Sensible(Refused(why)) /\ Refused(why).ok = FALSE /\ Refused(why).say = why
BY DEF Sensible, Refused, NoWrites, AccountWrites, AtMostOne

LEMMA DoneSensible ==
  ASSUME NEW w, w.account \in AccountWrites, AtMostOne(w.entries)
  PROVE  Sensible(Done(w)) /\ Done(w).ok = TRUE /\ Done(w).writes = w
BY DEF Sensible, Done

LEMMA WritesOf ==
  ASSUME NEW r \in AccountRow
  PROVE  /\ \A type \in TransactionType, amount \in Int :
              LET w == MoveMoney(r, type, amount) IN
              /\ w.account \in AccountWrites /\ AtMostOne(w.entries)
              /\ \A x : /\ [w EXCEPT !.adds = x].account = w.account
                        /\ [w EXCEPT !.adds = x].entries = w.entries
         /\ LET w == UpdateAccount(r) IN
              /\ w.account \in AccountWrites /\ w.entries = <<>>
              /\ \A x : /\ [w EXCEPT !.bumps = x].account = w.account
                        /\ [w EXCEPT !.bumps = x].entries = <<>>
                        /\ [w EXCEPT !.drops = x].account = w.account
                        /\ [w EXCEPT !.drops = x].entries = <<>>
<1>1. ASSUME NEW type \in TransactionType, NEW amount \in Int, NEW w, w = MoveMoney(r, type, amount)
      PROVE  /\ w.account \in AccountWrites /\ AtMostOne(w.entries)
             /\ \A x : /\ [w EXCEPT !.adds = x].account = w.account
                       /\ [w EXCEPT !.adds = x].entries = w.entries
  <2>1. JustMoves(w, r, type, amount)
    BY <1>1, MoveMoneyMoves
  <2>2. w.account \in AllColumns /\ AtMostOne(w.entries)
    BY <2>1, MovesWrites DEF JustMoves
  <2>3. \A x : /\ [w EXCEPT !.adds = x].account = w.account
               /\ [w EXCEPT !.adds = x].entries = w.entries
    BY <2>1 DEF JustMoves
  <2>4. QED
    BY <2>2, <2>3 DEF AccountWrites
<1>2. ASSUME NEW w, w = UpdateAccount(r)
      PROVE  /\ w.account \in AccountWrites /\ w.entries = <<>>
             /\ \A x : /\ [w EXCEPT !.bumps = x].account = w.account
                       /\ [w EXCEPT !.bumps = x].entries = <<>>
                       /\ [w EXCEPT !.drops = x].account = w.account
                       /\ [w EXCEPT !.drops = x].entries = <<>>
  <2>1. /\ w = [NoWrites EXCEPT !.account = AccountColumns(r), !.whole = TRUE]
    BY <1>2 DEF UpdateAccount
  <2>2. AccountColumns(r) \in AccountWrites
    BY AccountColumnsOf DEF AccountWrites
  <2>3. /\ w = [account |-> AccountColumns(r), whole |-> TRUE, loan |-> <<>>, goal |-> <<>>,
                adds |-> 0, drops |-> FALSE, entries |-> <<>>, bumps |-> FALSE, audit |-> "none"]
    BY <2>1 DEF NoWrites
  <2>4. QED
    BY <2>2, <2>3
<1>3. QED
  BY <1>1, <1>2

LEMMA MovementSensible ==
  ASSUME NEW r \in AccountRow, NEW type \in TransactionType, NEW amount \in Int, amount > 0
  PROVE  Sensible(Movement(r, type, amount))
<1> DEFINE w == MoveMoney(r, type, amount)
<1>1. Sensible(Done(w))
  BY WritesOf, DoneSensible
<1>2. /\ Sensible(Refused("not found")) /\ Sensible(Refused("frozen or closed"))
      /\ Sensible(Refused("insufficient"))
  BY RefusedSensible DEF Refusals
<1>3. Movement(r, type, amount) \in
        {Refused("not found"), Refused("frozen or closed"), Refused("insufficient"), Done(w)}
  <2>1. ~(amount <= 0)
    OBVIOUS
  <2> HIDE DEF w
  <2>2. w = MoveMoney(r, type, amount) => Movement(r, type, amount) \in
        {Refused("not found"), Refused("frozen or closed"), Refused("insufficient"), Done(w)}
    BY <2>1, Zenon DEF Movement
  <2>3. QED
    BY <2>2 DEF w
<1> HIDE DEF w
<1>4. QED
  BY <1>1, <1>2, <1>3, Zenon

LEMMA TransferSensible ==
  ASSUME NEW r \in AccountRow, NEW s \in AccountRow, NEW amount \in Int, amount > 0
  PROVE  Sensible(TransferDecision(r, s, FALSE, amount))
<1>0. "TRANSFER_OUT" \in TransactionType
  BY DEF TransactionType
<1> DEFINE w == MoveMoney(r, "TRANSFER_OUT", amount)
<1>1. Sensible(Done(w))
  BY <1>0, WritesOf, DoneSensible
<1>2. /\ Sensible(Refused("not found")) /\ Sensible(Refused("frozen or closed"))
      /\ Sensible(Refused("insufficient"))
  BY RefusedSensible DEF Refusals
<1>3. TransferDecision(r, s, FALSE, amount) \in
        {Refused("not found"), Refused("frozen or closed"), Refused("insufficient"), Done(w)}
  <2>1. ~(amount <= 0)
    OBVIOUS
  <2> HIDE DEF w
  <2>2. w = MoveMoney(r, "TRANSFER_OUT", amount) => TransferDecision(r, s, FALSE, amount) \in
        {Refused("not found"), Refused("frozen or closed"), Refused("insufficient"), Done(w)}
    BY <2>1, Zenon DEF TransferDecision
  <2>3. QED
    BY <2>2 DEF w
<1> HIDE DEF w
<1>4. QED
  BY <1>1, <1>2, <1>3, Zenon

LEMMA ContributeSensible ==
  ASSUME NEW r \in AccountRow, NEW goal, NEW amount \in Int, amount > 0
  PROVE  Sensible(Contribute(r, goal, amount))
<1>0. "TRANSFER_OUT" \in TransactionType
  BY DEF TransactionType
<1> DEFINE w == MoveMoney(r, "TRANSFER_OUT", amount)
           x == [w EXCEPT !.adds = amount]
<1>1. x.account \in AccountWrites /\ AtMostOne(x.entries)
  BY <1>0, WritesOf
<1>2. Sensible(Done(x))
  BY <1>1, DoneSensible
<1>3. /\ Sensible(Refused("not found")) /\ Sensible(Refused("insufficient"))
  BY RefusedSensible DEF Refusals
<1>4. Contribute(r, goal, amount) \in {Refused("not found"), Refused("insufficient"), Done(x)}
  <2>1. ~(amount <= 0)
    OBVIOUS
  <2> HIDE DEF x, w
  <2>2. x = [MoveMoney(r, "TRANSFER_OUT", amount) EXCEPT !.adds = amount] =>
        Contribute(r, goal, amount) \in {Refused("not found"), Refused("insufficient"), Done(x)}
    BY <2>1, Zenon DEF Contribute
  <2>3. QED
    BY <2>2 DEF x, w
<1> HIDE DEF x, w
<1>5. QED
  BY <1>2, <1>3, <1>4, Zenon

\* The services that read an account and decide on it alone.
AccountOps == {"deposit", "withdraw", "interest", "profile", "password", "close", "freeze",
               "unfreeze", "delete"}

LEMMA AccountSensible ==
  ASSUME NEW c \in Calls, ~RefusedAtOnce(c), NEW rows \in Rows, c.op \in AccountOps
  PROVE  Sensible(Decision(c, rows))
<1>0. /\ rows.account \in AccountRow /\ c.value \in Int
      /\ c.op \in {"deposit", "withdraw"} => c.value > 0
      /\ c.op \in {"profile", "password"} => c.value \in Nat
  BY CallsAssumption DEF Call, Rows, RefusedAtOnce, Movements
<1> DEFINE r == rows.account
<1>a. /\ Sensible(Refused("not found")) /\ Sensible(Refused("frozen or closed"))
      /\ Sensible(Refused("insufficient")) /\ Sensible(Refused("no interest"))
      /\ Sensible(Refused("wrong password")) /\ Sensible(Refused("closed"))
      /\ Sensible(Refused("already frozen")) /\ Sensible(Refused("not frozen"))
  BY RefusedSensible DEF Refusals
<1>b. /\ "DEPOSIT" \in TransactionType /\ "WITHDRAW" \in TransactionType
      /\ "INTEREST" \in TransactionType
  BY DEF TransactionType
<1>c. \A s \in AccountRow : Sensible(Done(UpdateAccount(s)))
  BY WritesOf, DoneSensible DEF AtMostOne
<1>1. CASE c.op \in {"deposit", "withdraw"}
  BY <1>0, <1>1, <1>b, MovementSensible DEF Decision
<1>2. CASE c.op = "interest"
  <2>1. MonthlyInterest(r.balance) \in Int
    BY <1>0 DEF MonthlyInterest, AccountRow
  <2>2. Sensible(Done(MoveMoney(r, "INTEREST", MonthlyInterest(r.balance))))
    BY <1>0, <1>b, <2>1, WritesOf, DoneSensible
  <2>3. QED
    BY <1>2, <1>a, <2>2 DEF Decision, ApplyInterest
<1>3. CASE c.op = "profile"
  <2>1. [r EXCEPT !.profile = c.value] \in AccountRow
    BY <1>0, <1>3 DEF AccountRow
  <2>2. QED
    BY <1>3, <1>a, <1>c, <2>1 DEF Decision, UpdateProfile
<1>4. CASE c.op = "password"
  <2>1. [r EXCEPT !.password = c.value] \in AccountRow
    BY <1>0, <1>4 DEF AccountRow
  <2>2. Sensible(Done([UpdateAccount([r EXCEPT !.password = c.value]) EXCEPT !.bumps = TRUE]))
    BY <2>1, WritesOf, DoneSensible DEF AtMostOne
  <2>3. QED
    BY <1>4, <1>a, <2>2 DEF Decision, ChangePassword
<1>5. CASE c.op = "close"
  <2>1. [r EXCEPT !.active = FALSE] \in AccountRow
    BY <1>0 DEF AccountRow
  <2>2. QED
    BY <1>5, <1>a, <1>c, <2>1 DEF Decision, CloseAccount
<1>6. ASSUME NEW cols \in AccountWrites, NEW action PROVE Sensible(SetColumns(cols, action))
  <2>1. /\ [NoWrites EXCEPT !.account = cols, !.audit = action].account = cols
        /\ [NoWrites EXCEPT !.account = cols, !.audit = action].entries = <<>>
    BY DEF NoWrites
  <2>2. QED
    BY <2>1, DoneSensible DEF SetColumns, AtMostOne
<1>7. CASE c.op = "freeze"
  <2>1. [frozen |-> TRUE, active |-> FALSE] \in AccountWrites
    BY DEF AccountWrites
  <2>2. QED
    BY <1>6, <1>7, <1>a, <2>1 DEF Decision, FreezeAccount
<1>8. CASE c.op = "unfreeze"
  <2>1. [frozen |-> FALSE] \in AccountWrites
    BY DEF AccountWrites
  <2>2. QED
    BY <1>6, <1>8, <1>a, <2>1 DEF Decision, UnfreezeAccount
<1>9. CASE c.op = "delete"
  <2>1. [deleted |-> TRUE, active |-> FALSE] \in AccountWrites
    BY DEF AccountWrites
  <2>2. QED
    BY <1>6, <1>9, <1>a, <2>1 DEF Decision, DeleteAccount
<1>10. QED
  BY <1>1, <1>2, <1>3, <1>4, <1>5, <1>7, <1>8, <1>9 DEF AccountOps

LEMMA VerdictSensible ==
  ASSUME NEW c \in Calls, ~RefusedAtOnce(c), NEW rows \in Rows,
         c.op \notin {"createGoal", "register", "deleteGoal"}
  PROVE  /\ Sensible(Verdict(c, rows))
         /\ c.op \in {"login", "adminLogin", "adminPassword"} /\ Verdict(c, rows).ok
              => Verdict(c, rows).writes = NoWrites
<1>0. /\ rows.account \in AccountRow /\ rows.receiver \in AccountRow /\ c.value \in Int
      /\ c.op \in Movements \cup {"contribute"} => c.value > 0
      /\ c.op \in DOMAIN Programs
  BY CallsAssumption DEF Call, Rows, RefusedAtOnce
<1>a. /\ Sensible(Refused("not found")) /\ Sensible(Refused("frozen or closed"))
      /\ Sensible(Refused("wrong password"))
  BY RefusedSensible DEF Refusals
<1>b. Sensible(Done(NoWrites)) /\ Done(NoWrites).writes = NoWrites
  BY DoneSensible DEF NoWrites, AccountWrites, AtMostOne
<1>c. \A why : Refused(why).writes = NoWrites
  BY DEF Refused
<1>1. CASE c.op = "transfer"
  BY <1>0, <1>1, TransferSensible DEF Verdict, Movements
<1>2. CASE c.op = "login"
  BY <1>2, <1>a, <1>b, <1>c DEF Verdict, LoginVerdict
<1>3. CASE c.op \in {"adminLogin", "adminPassword"}
  BY <1>3, <1>a, <1>b, <1>c DEF Verdict
<1>4. CASE c.op = "contribute"
  <2>1. Verdict(c, rows) = Contribute(rows.account, rows.goal, c.value)
    BY <1>4 DEF Verdict, Decision
  <2>2. QED
    BY <1>0, <1>4, <2>1, ContributeSensible
<1>5. CASE c.op \in AccountOps
  <2>1. Verdict(c, rows) = Decision(c, rows)
    BY <1>5 DEF Verdict, AccountOps
  <2>2. QED
    BY <1>5, <2>1, AccountSensible DEF AccountOps
<1>6. QED
  BY <1>0, <1>1, <1>2, <1>3, <1>4, <1>5 DEF Programs, AccountOps

\* The refund of a goal, on a row that may hold any amount.
LEMMA RefundSensible ==
  ASSUME NEW c, c.op = "deleteGoal", NEW rows \in Rows
  PROVE  /\ Verdict(c, rows).writes.account \in AccountWrites
         /\ AtMostOne(Verdict(c, rows).writes.entries)
<1>1. Verdict(c, rows) = DeleteGoal(rows.goal, rows.account)
  BY DEF Verdict, Decision
<1>2. [rows.account EXCEPT !.balance = @ + rows.goal.current] \in AccountRow
  BY DEF Rows, AccountRow, GoalRow
<1> DEFINE w == UpdateAccount([rows.account EXCEPT !.balance = @ + rows.goal.current])
<1>3. [w EXCEPT !.drops = TRUE].account \in AccountWrites /\ [w EXCEPT !.drops = TRUE].entries = <<>>
  BY <1>2, WritesOf
<1>4. [NoWrites EXCEPT !.drops = TRUE].account \in AccountWrites
      /\ [NoWrites EXCEPT !.drops = TRUE].entries = <<>>
  BY DEF NoWrites, AccountWrites
<1>5. Refused("not found").writes.account \in AccountWrites
      /\ Refused("not found").writes.entries = <<>>
  BY DEF Refused, NoWrites, AccountWrites
<1>6. QED
  BY <1>1, <1>3, <1>4, <1>5, DoneSensible DEF DeleteGoal, AtMostOne, Done

-------------------------------------------------------------------------------
(* What a program goes on with *)

Follows(c, x) ==
    LET at == Head(x)
        rest == Tail(x)
        next == Head(rest)
        keyed == c.key \in Keys
    IN
    /\ rest = <<>> \/ rest \in Tails(c)
    /\ keyed \/ c.key = NoKey
    /\ keyed => c.op \in Movements
    /\ at \in {"lock", "claim", "insert", "reclaim", "complete", "store"} => c.op \in Movements
    /\ at \in {"claim", "insert", "reclaim", "complete", "store"} => keyed
    /\ at \in {"log", "setFrozen", "setActive", "remove"} => c.key = NoKey
    /\ at = "lock" => rest # <<>> /\ next = IF keyed THEN "claim" ELSE "account"
    /\ at = "claim" => rest # <<>> /\ next = "insert"
    /\ at = "insert" => rest # <<>> /\ next = "account"
    /\ at = "account" =>
         /\ c.op \in AccountOps \cup {"transfer", "contribute", "login"}
         /\ IF c.op = "login" THEN rest = <<>>
            ELSE /\ rest # <<>>
                 /\ next = CASE c.op = "transfer" -> "receiver"
                             [] c.op = "contribute" -> "goal"
                             [] c.op \in {"freeze", "unfreeze"} -> "setFrozen"
                             [] c.op = "delete" -> "remove"
                             [] OTHER -> "update"
    /\ at = "receiver" => c.op = "transfer" /\ rest # <<>> /\ next = "update"
    /\ at = "update" =>
         /\ c.op \in (AccountOps \ {"freeze", "unfreeze", "delete"})
                     \cup {"transfer", "contribute", "deleteGoal"}
         /\ rest # <<>>
         /\ next = CASE c.op = "transfer" -> "updateReceiver"
                     [] c.op = "contribute" -> "addToGoal"
                     [] c.op = "password" -> "increment"
                     [] OTHER -> "commit"
    /\ at = "updateReceiver" => c.op = "transfer" /\ rest # <<>> /\ next = "commit"
    /\ at = "setFrozen" => /\ c.op \in {"freeze", "unfreeze"} /\ rest # <<>>
                           /\ next \in {"setActive", "commit"}
    /\ at = "setActive" => c.op = "freeze" /\ rest # <<>> /\ next = "commit"
    /\ at = "remove" => c.op = "delete" /\ rest # <<>> /\ next = "commit"
    /\ at \in {"increment", "setPassword", "add", "addToGoal", "failure", "reset"} =>
         rest # <<>> /\ next = "commit"
    /\ at = "increment" => c.op = "password"
    /\ at = "setPassword" => c.op = "adminPassword"
    /\ at = "add" => c.op \in {"createGoal", "register"}
    /\ at = "addToGoal" => c.op = "contribute"
    /\ at \in {"isLocked", "attempt", "failure", "reset"} => c.op \in SignIns
    /\ at = "isLocked" => rest # <<>> /\ next \in {"account", "admin"}
    /\ at = "attempt" => rest # <<>> /\ next = "failure"
    /\ at = "admin" => \/ c.op = "adminLogin" /\ rest = <<>>
                       \/ c.op = "adminPassword" /\ rest # <<>> /\ next = "setPassword"
    /\ at = "goal" => /\ c.op \in {"contribute", "deleteGoal"} /\ rest # <<>>
                      /\ next = IF c.op = "contribute" THEN "update" ELSE "dropGoal"
    /\ at = "dropGoal" => c.op = "deleteGoal" /\ rest # <<>> /\ next \in {"refund", "commit"}
    /\ at = "refund" => c.op = "deleteGoal" /\ rest # <<>> /\ next = "update"
    /\ at = "commit" => IF keyed THEN rest = <<"complete", "store">> ELSE rest \in {<<>>, <<"log">>}
    /\ at = "complete" => rest = <<"store">>
    /\ at \in {"reclaim", "store", "log"} => rest = <<>>
    /\ at \in {"lock", "claim", "insert", "reclaim", "complete", "store", "account", "receiver",
               "update", "updateReceiver", "setFrozen", "setActive", "remove", "increment",
               "setPassword", "add", "addToGoal", "isLocked", "attempt", "failure", "reset",
               "admin", "goal", "dropGoal", "refund", "commit", "log"}

LEMMA One ==
  ASSUME NEW a
  PROVE  Head(<<a>>) = a /\ Tail(<<a>>) = <<>> /\ <<a>> # <<>>
OBVIOUS

LEMMA Two ==
  ASSUME NEW a, NEW b
  PROVE  Head(<<a, b>>) = a /\ Tail(<<a, b>>) = <<b>> /\ <<a, b>> # <<>>
OBVIOUS

LEMMA Three ==
  ASSUME NEW a, NEW b, NEW c
  PROVE  Head(<<a, b, c>>) = a /\ Tail(<<a, b, c>>) = <<b, c>> /\ <<a, b, c>> # <<>>
OBVIOUS

LEMMA Four ==
  ASSUME NEW a, NEW b, NEW c, NEW d
  PROVE  Head(<<a, b, c, d>>) = a /\ Tail(<<a, b, c, d>>) = <<b, c, d>> /\ <<a, b, c, d>> # <<>>
OBVIOUS

LEMMA Five ==
  ASSUME NEW a, NEW b, NEW c, NEW d, NEW e
  PROVE  /\ Head(<<a, b, c, d, e>>) = a
         /\ Tail(<<a, b, c, d, e>>) = <<b, c, d, e>>
         /\ <<a, b, c, d, e>> # <<>>
OBVIOUS

LEMMA Six ==
  ASSUME NEW a, NEW b, NEW c, NEW d, NEW e, NEW f
  PROVE  /\ Head(<<a, b, c, d, e, f>>) = a
         /\ Tail(<<a, b, c, d, e, f>>) = <<b, c, d, e, f>>
         /\ <<a, b, c, d, e, f>> # <<>>
OBVIOUS

LEMMA Seven ==
  ASSUME NEW a, NEW b, NEW c, NEW d, NEW e, NEW f, NEW g
  PROVE  /\ Head(<<a, b, c, d, e, f, g>>) = a
         /\ Tail(<<a, b, c, d, e, f, g>>) = <<b, c, d, e, f, g>>
         /\ <<a, b, c, d, e, f, g>> # <<>>
OBVIOUS

LEMMA Eight ==
  ASSUME NEW a, NEW b, NEW c, NEW d, NEW e, NEW f, NEW g, NEW h
  PROVE  /\ Head(<<a, b, c, d, e, f, g, h>>) = a
         /\ Tail(<<a, b, c, d, e, f, g, h>>) = <<b, c, d, e, f, g, h>>
         /\ <<a, b, c, d, e, f, g, h>> # <<>>
OBVIOUS

LEMMA Nine ==
  ASSUME NEW a, NEW b, NEW c, NEW d, NEW e, NEW f, NEW g, NEW h, NEW i
  PROVE  /\ Head(<<a, b, c, d, e, f, g, h, i>>) = a
         /\ Tail(<<a, b, c, d, e, f, g, h, i>>) = <<b, c, d, e, f, g, h, i>>
         /\ <<a, b, c, d, e, f, g, h, i>> # <<>>
OBVIOUS

LEMMA Ten ==
  ASSUME NEW a, NEW b, NEW c, NEW d, NEW e, NEW f, NEW g, NEW h, NEW i, NEW j
  PROVE  /\ Head(<<a, b, c, d, e, f, g, h, i, j>>) = a
         /\ Tail(<<a, b, c, d, e, f, g, h, i, j>>) = <<b, c, d, e, f, g, h, i, j>>
         /\ <<a, b, c, d, e, f, g, h, i, j>> # <<>>
OBVIOUS

LEMMA FollowsKeyed ==
  ASSUME NEW c, c.key \in Keys, c.op \in {"deposit", "withdraw"},
         NEW x \in KeyedMovement \cup Ends \cup {<<"reclaim">>}
  PROVE  Follows(c, x)
<1>0. Tails(c) = KeyedMovement \cup Ends \cup {<<"reclaim">>} /\ (c.key \in Keys <=> c.key # NoKey)
  BY AsyncAssumption DEF Tails
<1>1. CASE x = <<"lock", "claim", "insert", "account", "update", "commit",
                   "complete", "store">>
  BY <1>0, <1>1, Eight, Seven
  DEF Follows, Movements, AccountOps, SignIns, KeyedMovement, Ends
<1>2. CASE x = <<"claim", "insert", "account", "update", "commit", "complete", "store">>
  BY <1>0, <1>2, Seven, Six
  DEF Follows, Movements, AccountOps, SignIns, KeyedMovement, Ends
<1>3. CASE x = <<"insert", "account", "update", "commit", "complete", "store">>
  BY <1>0, <1>3, Six, Five
  DEF Follows, Movements, AccountOps, SignIns, KeyedMovement, Ends
<1>4. CASE x = <<"account", "update", "commit", "complete", "store">>
  BY <1>0, <1>4, Five, Four
  DEF Follows, Movements, AccountOps, SignIns, KeyedMovement, Ends
<1>5. CASE x = <<"update", "commit", "complete", "store">>
  BY <1>0, <1>5, Four, Three
  DEF Follows, Movements, AccountOps, SignIns, KeyedMovement, Ends
<1>6. CASE x = <<"commit", "complete", "store">>
  BY <1>0, <1>6, Three, Two
  DEF Follows, Movements, AccountOps, SignIns, KeyedMovement, Ends
<1>7. CASE x = <<"complete", "store">>
  BY <1>0, <1>7, Two, One
  DEF Follows, Movements, AccountOps, SignIns, KeyedMovement, Ends
<1>8. CASE x = <<"store">>
  BY <1>0, <1>8, One
  DEF Follows, Movements, AccountOps, SignIns, KeyedMovement, Ends
<1>9. CASE x = <<"reclaim">>
  BY <1>0, <1>9, One
  DEF Follows, Movements, AccountOps, SignIns, KeyedMovement, Ends
<1>10. QED
  BY <1>1, <1>2, <1>3, <1>4, <1>5, <1>6, <1>7, <1>8, <1>9 DEF KeyedMovement, Ends

LEMMA FollowsKeyedTransfer ==
  ASSUME NEW c, c.key \in Keys, c.op = "transfer",
         NEW x \in KeyedTransfer \cup Ends \cup {<<"reclaim">>}
  PROVE  Follows(c, x)
<1>0. Tails(c) = KeyedTransfer \cup Ends \cup {<<"reclaim">>} /\ (c.key \in Keys <=> c.key # NoKey)
  BY AsyncAssumption DEF Tails
<1>1. CASE x = <<"lock", "claim", "insert", "account", "receiver", "update",
                   "updateReceiver", "commit", "complete", "store">>
  BY <1>0, <1>1, Ten, Nine
  DEF Follows, Movements, AccountOps, SignIns, KeyedTransfer, Ends
<1>2. CASE x = <<"claim", "insert", "account", "receiver", "update",
                   "updateReceiver", "commit", "complete", "store">>
  BY <1>0, <1>2, Nine, Eight
  DEF Follows, Movements, AccountOps, SignIns, KeyedTransfer, Ends
<1>3. CASE x = <<"insert", "account", "receiver", "update", "updateReceiver",
                   "commit", "complete", "store">>
  BY <1>0, <1>3, Eight, Seven
  DEF Follows, Movements, AccountOps, SignIns, KeyedTransfer, Ends
<1>4. CASE x = <<"account", "receiver", "update", "updateReceiver", "commit",
                   "complete", "store">>
  BY <1>0, <1>4, Seven, Six
  DEF Follows, Movements, AccountOps, SignIns, KeyedTransfer, Ends
<1>5. CASE x = <<"receiver", "update", "updateReceiver", "commit", "complete", "store">>
  BY <1>0, <1>5, Six, Five
  DEF Follows, Movements, AccountOps, SignIns, KeyedTransfer, Ends
<1>6. CASE x = <<"update", "updateReceiver", "commit", "complete", "store">>
  BY <1>0, <1>6, Five, Four
  DEF Follows, Movements, AccountOps, SignIns, KeyedTransfer, Ends
<1>7. CASE x = <<"updateReceiver", "commit", "complete", "store">>
  BY <1>0, <1>7, Four, Three
  DEF Follows, Movements, AccountOps, SignIns, KeyedTransfer, Ends
<1>8. CASE x = <<"commit", "complete", "store">>
  BY <1>0, <1>8, Three, Two
  DEF Follows, Movements, AccountOps, SignIns, KeyedTransfer, Ends
<1>9. CASE x = <<"complete", "store">>
  BY <1>0, <1>9, Two, One
  DEF Follows, Movements, AccountOps, SignIns, KeyedTransfer, Ends
<1>10. CASE x = <<"store">>
  BY <1>0, <1>10, One
  DEF Follows, Movements, AccountOps, SignIns, KeyedTransfer, Ends
<1>11. CASE x = <<"reclaim">>
  BY <1>0, <1>11, One
  DEF Follows, Movements, AccountOps, SignIns, KeyedTransfer, Ends
<1>12. QED
  BY <1>1, <1>2, <1>3, <1>4, <1>5, <1>6, <1>7, <1>8, <1>9, <1>10, <1>11 DEF KeyedTransfer, Ends

LEMMA FollowsMovement ==
  ASSUME NEW c, c.key = NoKey, c.op \in {"deposit", "withdraw"},
         NEW x \in PlainMovement
  PROVE  Follows(c, x)
<1>0. Tails(c) = PlainMovement /\ (c.key \in Keys <=> c.key # NoKey)
  BY AsyncAssumption DEF Tails
<1>1. CASE x = <<"lock", "account", "update", "commit">>
  BY <1>0, <1>1, Four, Three
  DEF Follows, Movements, AccountOps, SignIns, PlainMovement, Movement3
<1>2. CASE x = <<"account", "update", "commit">>
  BY <1>0, <1>2, Three, Two
  DEF Follows, Movements, AccountOps, SignIns, PlainMovement, Movement3
<1>3. CASE x = <<"update", "commit">>
  BY <1>0, <1>3, Two, One
  DEF Follows, Movements, AccountOps, SignIns, PlainMovement, Movement3
<1>4. CASE x = <<"commit">>
  BY <1>0, <1>4, One
  DEF Follows, Movements, AccountOps, SignIns, PlainMovement, Movement3
<1>5. QED
  BY <1>1, <1>2, <1>3, <1>4 DEF PlainMovement, Movement3

LEMMA FollowsTransfer ==
  ASSUME NEW c, c.key = NoKey, c.op = "transfer",
         NEW x \in PlainTransfer
  PROVE  Follows(c, x)
<1>0. Tails(c) = PlainTransfer /\ (c.key \in Keys <=> c.key # NoKey)
  BY AsyncAssumption DEF Tails
<1>1. CASE x = <<"lock", "account", "receiver", "update", "updateReceiver", "commit">>
  BY <1>0, <1>1, Six, Five
  DEF Follows, Movements, AccountOps, SignIns, PlainTransfer
<1>2. CASE x = <<"account", "receiver", "update", "updateReceiver", "commit">>
  BY <1>0, <1>2, Five, Four
  DEF Follows, Movements, AccountOps, SignIns, PlainTransfer
<1>3. CASE x = <<"receiver", "update", "updateReceiver", "commit">>
  BY <1>0, <1>3, Four, Three
  DEF Follows, Movements, AccountOps, SignIns, PlainTransfer
<1>4. CASE x = <<"update", "updateReceiver", "commit">>
  BY <1>0, <1>4, Three, Two
  DEF Follows, Movements, AccountOps, SignIns, PlainTransfer
<1>5. CASE x = <<"updateReceiver", "commit">>
  BY <1>0, <1>5, Two, One
  DEF Follows, Movements, AccountOps, SignIns, PlainTransfer
<1>6. CASE x = <<"commit">>
  BY <1>0, <1>6, One
  DEF Follows, Movements, AccountOps, SignIns, PlainTransfer
<1>7. QED
  BY <1>1, <1>2, <1>3, <1>4, <1>5, <1>6 DEF PlainTransfer

LEMMA FollowsUpdate ==
  ASSUME NEW c, c.key = NoKey, c.op \in {"interest", "profile", "close"},
         NEW x \in Movement3
  PROVE  Follows(c, x)
<1>0. Tails(c) = Movement3 /\ (c.key \in Keys <=> c.key # NoKey)
  BY AsyncAssumption DEF Tails
<1>1. CASE x = <<"account", "update", "commit">>
  BY <1>0, <1>1, Three, Two
  DEF Follows, Movements, AccountOps, SignIns, Movement3
<1>2. CASE x = <<"update", "commit">>
  BY <1>0, <1>2, Two, One
  DEF Follows, Movements, AccountOps, SignIns, Movement3
<1>3. CASE x = <<"commit">>
  BY <1>0, <1>3, One
  DEF Follows, Movements, AccountOps, SignIns, Movement3
<1>4. QED
  BY <1>1, <1>2, <1>3 DEF Movement3

LEMMA FollowsPassword ==
  ASSUME NEW c, c.key = NoKey, c.op = "password",
         NEW x \in NewPassword
  PROVE  Follows(c, x)
<1>0. Tails(c) = NewPassword /\ (c.key \in Keys <=> c.key # NoKey)
  BY AsyncAssumption DEF Tails
<1>1. CASE x = <<"account", "update", "increment", "commit">>
  BY <1>0, <1>1, Four, Three
  DEF Follows, Movements, AccountOps, SignIns, NewPassword
<1>2. CASE x = <<"update", "increment", "commit">>
  BY <1>0, <1>2, Three, Two
  DEF Follows, Movements, AccountOps, SignIns, NewPassword
<1>3. CASE x = <<"increment", "commit">>
  BY <1>0, <1>3, Two, One
  DEF Follows, Movements, AccountOps, SignIns, NewPassword
<1>4. CASE x = <<"commit">>
  BY <1>0, <1>4, One
  DEF Follows, Movements, AccountOps, SignIns, NewPassword
<1>5. QED
  BY <1>1, <1>2, <1>3, <1>4 DEF NewPassword

LEMMA FollowsFreeze ==
  ASSUME NEW c, c.key = NoKey, c.op = "freeze",
         NEW x \in Freezing
  PROVE  Follows(c, x)
<1>0. Tails(c) = Freezing /\ (c.key \in Keys <=> c.key # NoKey)
  BY AsyncAssumption DEF Tails
<1>1. CASE x = <<"account", "setFrozen", "setActive", "commit", "log">>
  BY <1>0, <1>1, Five, Four
  DEF Follows, Movements, AccountOps, SignIns, Freezing, Logs
<1>2. CASE x = <<"setFrozen", "setActive", "commit", "log">>
  BY <1>0, <1>2, Four, Three
  DEF Follows, Movements, AccountOps, SignIns, Freezing, Logs
<1>3. CASE x = <<"setActive", "commit", "log">>
  BY <1>0, <1>3, Three, Two
  DEF Follows, Movements, AccountOps, SignIns, Freezing, Logs
<1>4. CASE x = <<"commit", "log">>
  BY <1>0, <1>4, Two, One
  DEF Follows, Movements, AccountOps, SignIns, Freezing, Logs
<1>5. CASE x = <<"log">>
  BY <1>0, <1>5, One
  DEF Follows, Movements, AccountOps, SignIns, Freezing, Logs
<1>6. QED
  BY <1>1, <1>2, <1>3, <1>4, <1>5 DEF Freezing, Logs

LEMMA FollowsUnfreeze ==
  ASSUME NEW c, c.key = NoKey, c.op = "unfreeze",
         NEW x \in Unfreezing
  PROVE  Follows(c, x)
<1>0. Tails(c) = Unfreezing /\ (c.key \in Keys <=> c.key # NoKey)
  BY AsyncAssumption DEF Tails
<1>1. CASE x = <<"account", "setFrozen", "commit", "log">>
  BY <1>0, <1>1, Four, Three
  DEF Follows, Movements, AccountOps, SignIns, Unfreezing, Logs
<1>2. CASE x = <<"setFrozen", "commit", "log">>
  BY <1>0, <1>2, Three, Two
  DEF Follows, Movements, AccountOps, SignIns, Unfreezing, Logs
<1>3. CASE x = <<"commit", "log">>
  BY <1>0, <1>3, Two, One
  DEF Follows, Movements, AccountOps, SignIns, Unfreezing, Logs
<1>4. CASE x = <<"log">>
  BY <1>0, <1>4, One
  DEF Follows, Movements, AccountOps, SignIns, Unfreezing, Logs
<1>5. QED
  BY <1>1, <1>2, <1>3, <1>4 DEF Unfreezing, Logs

LEMMA FollowsDelete ==
  ASSUME NEW c, c.key = NoKey, c.op = "delete",
         NEW x \in Deleting
  PROVE  Follows(c, x)
<1>0. Tails(c) = Deleting /\ (c.key \in Keys <=> c.key # NoKey)
  BY AsyncAssumption DEF Tails
<1>1. CASE x = <<"account", "remove", "commit", "log">>
  BY <1>0, <1>1, Four, Three
  DEF Follows, Movements, AccountOps, SignIns, Deleting, Logs
<1>2. CASE x = <<"remove", "commit", "log">>
  BY <1>0, <1>2, Three, Two
  DEF Follows, Movements, AccountOps, SignIns, Deleting, Logs
<1>3. CASE x = <<"commit", "log">>
  BY <1>0, <1>3, Two, One
  DEF Follows, Movements, AccountOps, SignIns, Deleting, Logs
<1>4. CASE x = <<"log">>
  BY <1>0, <1>4, One
  DEF Follows, Movements, AccountOps, SignIns, Deleting, Logs
<1>5. QED
  BY <1>1, <1>2, <1>3, <1>4 DEF Deleting, Logs

LEMMA FollowsAdmin ==
  ASSUME NEW c, c.key = NoKey, c.op = "adminPassword",
         NEW x \in NewAdmin
  PROVE  Follows(c, x)
<1>0. Tails(c) = NewAdmin /\ (c.key \in Keys <=> c.key # NoKey)
  BY AsyncAssumption DEF Tails
<1>1. CASE x = <<"admin", "setPassword", "commit", "log">>
  BY <1>0, <1>1, Four, Three
  DEF Follows, Movements, AccountOps, SignIns, NewAdmin, Logs
<1>2. CASE x = <<"setPassword", "commit", "log">>
  BY <1>0, <1>2, Three, Two
  DEF Follows, Movements, AccountOps, SignIns, NewAdmin, Logs
<1>3. CASE x = <<"commit", "log">>
  BY <1>0, <1>3, Two, One
  DEF Follows, Movements, AccountOps, SignIns, NewAdmin, Logs
<1>4. CASE x = <<"log">>
  BY <1>0, <1>4, One
  DEF Follows, Movements, AccountOps, SignIns, NewAdmin, Logs
<1>5. QED
  BY <1>1, <1>2, <1>3, <1>4 DEF NewAdmin, Logs

LEMMA FollowsAdd ==
  ASSUME NEW c, c.key = NoKey, c.op \in {"createGoal", "register"},
         NEW x \in Adding
  PROVE  Follows(c, x)
<1>0. Tails(c) = Adding /\ (c.key \in Keys <=> c.key # NoKey)
  BY AsyncAssumption DEF Tails
<1>1. CASE x = <<"add", "commit">>
  BY <1>0, <1>1, Two, One
  DEF Follows, Movements, AccountOps, SignIns, Adding
<1>2. CASE x = <<"commit">>
  BY <1>0, <1>2, One
  DEF Follows, Movements, AccountOps, SignIns, Adding
<1>3. QED
  BY <1>1, <1>2 DEF Adding

LEMMA FollowsContribute ==
  ASSUME NEW c, c.key = NoKey, c.op = "contribute",
         NEW x \in Contributing
  PROVE  Follows(c, x)
<1>0. Tails(c) = Contributing /\ (c.key \in Keys <=> c.key # NoKey)
  BY AsyncAssumption DEF Tails
<1>1. CASE x = <<"account", "goal", "update", "addToGoal", "commit">>
  BY <1>0, <1>1, Five, Four
  DEF Follows, Movements, AccountOps, SignIns, Contributing
<1>2. CASE x = <<"goal", "update", "addToGoal", "commit">>
  BY <1>0, <1>2, Four, Three
  DEF Follows, Movements, AccountOps, SignIns, Contributing
<1>3. CASE x = <<"update", "addToGoal", "commit">>
  BY <1>0, <1>3, Three, Two
  DEF Follows, Movements, AccountOps, SignIns, Contributing
<1>4. CASE x = <<"addToGoal", "commit">>
  BY <1>0, <1>4, Two, One
  DEF Follows, Movements, AccountOps, SignIns, Contributing
<1>5. CASE x = <<"commit">>
  BY <1>0, <1>5, One
  DEF Follows, Movements, AccountOps, SignIns, Contributing
<1>6. QED
  BY <1>1, <1>2, <1>3, <1>4, <1>5 DEF Contributing

LEMMA FollowsDrop ==
  ASSUME NEW c, c.key = NoKey, c.op = "deleteGoal",
         NEW x \in Dropping
  PROVE  Follows(c, x)
<1>0. Tails(c) = Dropping /\ (c.key \in Keys <=> c.key # NoKey)
  BY AsyncAssumption DEF Tails
<1>1. CASE x = <<"goal", "dropGoal", "refund", "update", "commit">>
  BY <1>0, <1>1, Five, Four
  DEF Follows, Movements, AccountOps, SignIns, Dropping
<1>2. CASE x = <<"dropGoal", "refund", "update", "commit">>
  BY <1>0, <1>2, Four, Three
  DEF Follows, Movements, AccountOps, SignIns, Dropping
<1>3. CASE x = <<"dropGoal", "commit">>
  BY <1>0, <1>3, Two, One
  DEF Follows, Movements, AccountOps, SignIns, Dropping
<1>4. CASE x = <<"refund", "update", "commit">>
  BY <1>0, <1>4, Three, Two
  DEF Follows, Movements, AccountOps, SignIns, Dropping
<1>5. CASE x = <<"update", "commit">>
  BY <1>0, <1>5, Two, One
  DEF Follows, Movements, AccountOps, SignIns, Dropping
<1>6. CASE x = <<"commit">>
  BY <1>0, <1>6, One
  DEF Follows, Movements, AccountOps, SignIns, Dropping
<1>7. QED
  BY <1>1, <1>2, <1>3, <1>4, <1>5, <1>6 DEF Dropping

LEMMA FollowsLogin ==
  ASSUME NEW c, c.key = NoKey, c.op = "login",
         NEW x \in CustomerSigning
  PROVE  Follows(c, x)
<1>0. Tails(c) = CustomerSigning /\ (c.key \in Keys <=> c.key # NoKey)
  BY AsyncAssumption DEF Tails
<1>1. CASE x = <<"isLocked", "account">>
  BY <1>0, <1>1, Two, One
  DEF Follows, Movements, AccountOps, SignIns, CustomerSigning, Verdicts
<1>2. CASE x = <<"account">>
  BY <1>0, <1>2, One
  DEF Follows, Movements, AccountOps, SignIns, CustomerSigning, Verdicts
<1>3. CASE x = <<"attempt", "failure", "commit">>
  BY <1>0, <1>3, Three, Two
  DEF Follows, Movements, AccountOps, SignIns, CustomerSigning, Verdicts
<1>4. CASE x = <<"failure", "commit">>
  BY <1>0, <1>4, Two, One
  DEF Follows, Movements, AccountOps, SignIns, CustomerSigning, Verdicts
<1>5. CASE x = <<"reset", "commit">>
  BY <1>0, <1>5, Two, One
  DEF Follows, Movements, AccountOps, SignIns, CustomerSigning, Verdicts
<1>6. CASE x = <<"commit">>
  BY <1>0, <1>6, One
  DEF Follows, Movements, AccountOps, SignIns, CustomerSigning, Verdicts
<1>7. QED
  BY <1>1, <1>2, <1>3, <1>4, <1>5, <1>6 DEF CustomerSigning, Verdicts

LEMMA FollowsAdminLogin ==
  ASSUME NEW c, c.key = NoKey, c.op = "adminLogin",
         NEW x \in AdminSigning
  PROVE  Follows(c, x)
<1>0. Tails(c) = AdminSigning /\ (c.key \in Keys <=> c.key # NoKey)
  BY AsyncAssumption DEF Tails
<1>1. CASE x = <<"isLocked", "admin">>
  BY <1>0, <1>1, Two, One
  DEF Follows, Movements, AccountOps, SignIns, AdminSigning, Verdicts
<1>2. CASE x = <<"admin">>
  BY <1>0, <1>2, One
  DEF Follows, Movements, AccountOps, SignIns, AdminSigning, Verdicts
<1>3. CASE x = <<"attempt", "failure", "commit">>
  BY <1>0, <1>3, Three, Two
  DEF Follows, Movements, AccountOps, SignIns, AdminSigning, Verdicts
<1>4. CASE x = <<"failure", "commit">>
  BY <1>0, <1>4, Two, One
  DEF Follows, Movements, AccountOps, SignIns, AdminSigning, Verdicts
<1>5. CASE x = <<"reset", "commit">>
  BY <1>0, <1>5, Two, One
  DEF Follows, Movements, AccountOps, SignIns, AdminSigning, Verdicts
<1>6. CASE x = <<"commit">>
  BY <1>0, <1>6, One
  DEF Follows, Movements, AccountOps, SignIns, AdminSigning, Verdicts
<1>7. QED
  BY <1>1, <1>2, <1>3, <1>4, <1>5, <1>6 DEF AdminSigning, Verdicts

LEMMA TheProgramFollows ==
  ASSUME NEW c \in Calls, NEW x \in Tails(c)
  PROVE  Follows(c, x)
<1>0. c \in Call /\ (c.key # NoKey => c.op \in Movements) /\ NoKey \notin Keys
  BY CallsAssumption, AsyncAssumption
<1>1. /\ c.key \in Keys \cup {NoKey} /\ (c.key \in Keys => c.op \in Movements)
      /\ c.op \in DOMAIN Programs
  BY <1>0 DEF Call
<1>2. CASE c.key \in Keys /\ c.op \in {"deposit", "withdraw"}
  BY <1>0, <1>2, FollowsKeyed DEF Tails
<1>3. CASE c.key \in Keys /\ c.op = "transfer"
  BY <1>0, <1>3, FollowsKeyedTransfer DEF Tails
<1>4. CASE c.key = NoKey /\ c.op \in {"deposit", "withdraw"}
  BY <1>0, <1>4, FollowsMovement DEF Tails
<1>5. CASE c.key = NoKey /\ c.op = "transfer"
  BY <1>0, <1>5, FollowsTransfer DEF Tails
<1>6. CASE c.key = NoKey /\ c.op \in {"interest", "profile", "close"}
  BY <1>0, <1>6, FollowsUpdate DEF Tails
<1>7. CASE c.key = NoKey /\ c.op = "password"
  BY <1>0, <1>7, FollowsPassword DEF Tails
<1>8. CASE c.key = NoKey /\ c.op = "freeze"
  BY <1>0, <1>8, FollowsFreeze DEF Tails
<1>9. CASE c.key = NoKey /\ c.op = "unfreeze"
  BY <1>0, <1>9, FollowsUnfreeze DEF Tails
<1>10. CASE c.key = NoKey /\ c.op = "delete"
  BY <1>0, <1>10, FollowsDelete DEF Tails
<1>11. CASE c.key = NoKey /\ c.op = "adminPassword"
  BY <1>0, <1>11, FollowsAdmin DEF Tails
<1>12. CASE c.key = NoKey /\ c.op \in {"createGoal", "register"}
  BY <1>0, <1>12, FollowsAdd DEF Tails
<1>13. CASE c.key = NoKey /\ c.op = "contribute"
  BY <1>0, <1>13, FollowsContribute DEF Tails
<1>14. CASE c.key = NoKey /\ c.op = "deleteGoal"
  BY <1>0, <1>14, FollowsDrop DEF Tails
<1>15. CASE c.key = NoKey /\ c.op = "login"
  BY <1>0, <1>15, FollowsLogin DEF Tails
<1>16. CASE c.key = NoKey /\ c.op = "adminLogin"
  BY <1>0, <1>16, FollowsAdminLogin DEF Tails
<1>17. QED
  BY <1>0, <1>1, <1>2, <1>3, <1>4, <1>5, <1>6, <1>7, <1>8, <1>9, <1>10, <1>11, <1>12, <1>13,
     <1>14, <1>15, <1>16 DEF Movements, Programs
-------------------------------------------------------------------------------
(* A task's step keeps the types *)

LEMMA SeenRows ==
  ASSUME Orderly, NEW t \in Tasks, Busy(t)
  PROVE  seen[t] \in Rows /\ call[t] \in Call /\ call[t] \in Calls /\ NoRows \in Rows
<1>1. call[t] \in Call /\ call[t] \in Calls
  BY CallsAssumption DEF Orderly, Staged
<1>2. NoRows \in Rows
  <2>1. call[t].acc \in Accounts /\ call[t].goal \in Goals
    BY <1>1 DEF Call
  <2>2. (CHOOSE a \in Accounts : TRUE) \in Accounts /\ (CHOOSE g \in Goals : TRUE) \in Goals
    BY <2>1
  <2> DEFINE row == OpeningAccounts[CHOOSE a \in Accounts : TRUE]
             saving == OpeningGoals[CHOOSE g \in Goals : TRUE]
  <2>3. row \in AccountRow /\ saving \in GoalRow
    BY <2>2, AsyncAssumption
  <2>4. NoRows = [account |-> row, receiver |-> row, goal |-> saving, admin |-> 0, attempt |-> FALSE]
    BY DEF NoRows
  <2> HIDE DEF row, saving
  <2>5. QED
    BY <2>3, <2>4 DEF Rows
<1>3. QED
  BY <1>1, <1>2 DEF Orderly, Typed

LEMMA TypedStep ==
  ASSUME Orderly, NEW t \in Tasks, Busy(t), NEW rest, NEW rows \in Rows, NEW say \in Says,
         Continue(t, rest, rows, say), tangled' = tangled,
         stored' \in TablesOf(DOMAIN answers), working' \in TablesOf(DOMAIN answers),
         ~stored'.doomed, stored'.effects \subseteq working'.effects,
         broken' \in BOOLEAN, clock' \in Nat, unsure' \subseteq DOMAIN answers,
         raced' \subseteq Accounts
  PROVE  Stepped(t, rest, say) /\ Typed'
<1>1. Stepped(t, rest, say)
  BY ContinueSteps
<1>2. /\ answers' \in Seq([call : Calls, say : Says]) /\ DOMAIN answers' = DOMAIN answers
  BY <1>1, AnswersAfter DEF Orderly
<1>3. result' \in [Tasks -> Says]
  <2>1. "none" \in Says
    BY DEF Says
  <2>2. QED
    BY <1>1, <2>1 DEF Stepped, Orderly, Typed
<1>4. seen' \in [Tasks -> Rows \cup {NoRows}]
  <2>1. seen' = [seen EXCEPT ![t] = rows] \/ seen' = [seen EXCEPT ![t] = NoRows]
    BY DEF Continue, Finish
  <2>2. QED
    BY <2>1 DEF Orderly, Typed
<1>5. DOMAIN todo' = Tasks /\ DOMAIN call' = Tasks /\ number' \in [Tasks -> Nat]
  BY <1>1 DEF Stepped, Orderly, Typed
<1>6. tangled' \subseteq DOMAIN answers
  BY DEF Orderly, Typed
<1>7. QED
  BY <1>1, <1>2, <1>3, <1>4, <1>5, <1>6 DEF Typed

\* A statement of a task that has its lock, with the tables it leaves.
LEMMA StepTaken ==
  ASSUME Orderly, Truthful, NEW t \in Tasks, Holds(t), NEW rest, NEW rows \in Rows,
         NEW say \in Says, Continue(t, rest, rows, say), tangled' = tangled,
         rest = <<>> \/ rest \in Tails(call[t]),
         stored' \in TablesOf(DOMAIN answers), working' \in TablesOf(DOMAIN answers),
         ~stored'.doomed, stored'.effects \subseteq working'.effects,
         broken' \in BOOLEAN, clock' \in Nat, unsure' \subseteq DOMAIN answers,
         raced' \subseteq Accounts
  PROVE  Step(t, rest, say) /\ Orderly'
<1>1. Busy(t)
  BY DEF Holds
<1>2. Stepped(t, rest, say) /\ Typed'
  BY <1>1, TypedStep
<1>3. Staged' /\ Numbered' /\ Exclusive' /\ Tangles'
  BY <1>1, <1>2, TasksKept
<1>4. QED
  BY <1>2, <1>3 DEF Step, Orderly

\* A statement that reads: it changes no table.
LEMMA ReadTaken ==
  ASSUME Orderly, Truthful, NEW t \in Tasks, NEW statement, statement # "lock",
         Reads(t, statement), NEW rest, NEW rows \in Rows,
         NEW say \in Says, Continue(t, rest, rows, say),
         rest = <<>> \/ rest \in Tails(call[t])
  PROVE  /\ Step(t, rest, say) /\ Orderly'
         /\ stored' = stored /\ working' = working /\ unsure' = unsure
<1>1. /\ Busy(t) /\ Holds(t) /\ UNCHANGED <<broken, clock, unsure, tangled, raced, stored, working>>
  BY DEF Reads, Runs, Healthy, Holds
<1>2. QED
  BY <1>1, StepTaken DEF Orderly, Typed

\* A statement that writes into the session.
LEMMA WriteTaken ==
  ASSUME Orderly, Truthful, NEW t \in Tasks, NEW statement, statement # "lock",
         Changed(t, statement), working' \in TablesOf(DOMAIN answers),
         working.effects \subseteq working'.effects
  PROVE  /\ Step(t, Tail(todo[t]), result[t]) /\ Orderly' /\ Follows(call[t], todo[t])
         /\ At(t) = statement /\ stored' = stored /\ unsure' = unsure /\ ~working.doomed
<1>1. /\ Busy(t) /\ Holds(t) /\ UNCHANGED <<broken, clock, unsure, tangled, raced, stored>>
      /\ At(t) = statement /\ ~working.doomed /\ Proceed(t)
  BY DEF Changed, Runs, Healthy, Holds, At
<1>2. Follows(call[t], todo[t])
  BY <1>1, TheProgramFollows DEF Orderly, Staged
<1>3. result[t] \in Says /\ seen[t] \in Rows
  BY <1>1, SeenRows DEF Orderly, Typed
<1>4. Step(t, Tail(todo[t]), result[t]) /\ Orderly'
  <2>1. Tail(todo[t]) = <<>> \/ Tail(todo[t]) \in Tails(call[t])
    BY <1>2 DEF Follows
  <2>2. /\ stored' \in TablesOf(DOMAIN answers) /\ ~stored'.doomed
        /\ stored'.effects \subseteq working'.effects /\ broken' \in BOOLEAN /\ clock' \in Nat
        /\ unsure' \subseteq DOMAIN answers /\ raced' \subseteq Accounts
    BY <1>1 DEF Orderly, Typed
  <2>3. Continue(t, Tail(todo[t]), seen[t], result[t])
    BY <1>1 DEF Proceed
  <2>4. QED
    BY <1>1, <1>3, <2>1, <2>2, <2>3, StepTaken
<1>5. QED
  BY <1>1, <1>2, <1>4

LEMMA BystandersAreAccounts ==
  ASSUME Orderly, NEW t \in Tasks
  PROVE  Bystanders(t) \subseteq Accounts
<1>1. ASSUME NEW u \in Others(t) PROVE Touched(call[u]) \subseteq Accounts
  <2>1. u \in Tasks /\ Busy(u)
    BY DEF Others, Holds
  <2>2. call[u] \in Call
    BY <2>1, SeenRows
  <2>3. QED
    BY <2>2 DEF Call, Touched
<1>2. QED
  BY <1>1 DEF Bystanders
-------------------------------------------------------------------------------
(* The statements of a key *)

LEMMA FixedFree ==
  ASSUME NEW t \in Tasks, NEW rest, NEW say, Step(t, rest, say),
         rest = <<>> \/ Head(rest) \notin {"setFrozen", "remove"}
  PROVE  FixedOf(t)'
BY OwnAfter DEF FixedOf

LEMMA ClassOf ==
  ASSUME NEW row \in KeyRow
  PROVE  /\ Classified(row) \in Says \cup {"claimed"}
         /\ Classified(row) = "done" => row.status = "completed" /\ row.result = "done"
         /\ row.status # "none" => Classified(row) \in Says
         /\ "incomplete" \in Says
BY DEF Classified, KeyRow, Says, Refusals

LEMMA GetKeyKept ==
  ASSUME Orderly, Truthful, NEW t \in Tasks, GetKey(t)
  PROVE  Orderly' /\ Truthful'
<1>1. Busy(t) /\ At(t) = "claim" /\ Reads(t, "claim")
  BY DEF GetKey, Reads, Runs, Healthy, At
<1>2. Follows(call[t], todo[t])
  BY <1>1, TheProgramFollows DEF Orderly, Staged
<1>3. /\ call[t].key \in Keys /\ call[t].op \in Movements /\ seen[t] \in Rows /\ NoRows \in Rows
      /\ result[t] \in Says
  BY <1>1, <1>2, SeenRows DEF Follows, At, Orderly, Typed
<1> DEFINE row == working.keys[call[t].key]
<1>4. row \in KeyRow
  BY <1>3 DEF Orderly, Typed, TablesOf
<1>5. CASE Classified(row) = "claimed"
  <2> DEFINE rest == Tail(todo[t])
  <2>1. rest # <<>> /\ Head(rest) = "insert" /\ rest \in Tails(call[t])
    BY <1>1, <1>2 DEF Follows, At
  <2>2. Continue(t, rest, seen[t], result[t])
    BY <1>5 DEF GetKey, Answered, Proceed
  <2> HIDE DEF rest
  <2>3. Step(t, rest, result[t]) /\ Orderly' /\ stored' = stored /\ working' = working /\ unsure' = unsure
    BY <1>1, <1>3, <2>1, <2>2, ReadTaken
  <2>4. result[t] = "done"
    BY <1>1, <1>3 DEF Truthful, PreparedOf, Recording, SignIns, Movements
  <2>5. Looks(t, rest, result[t])
    BY <1>1, <1>3, <2>1, <2>3, <2>4 DEF Looks, SameBooks, Writing, Recording, SignIns,
       Movements, Unclaimed
  <2>6. QED
    BY <2>1, <2>3, <2>5, FixedFree, LookKept
<1>6. CASE Classified(row) # "claimed"
  <2> DEFINE say == Classified(row)
  <2>1. say \in Says /\ (say = "done" => row.status = "completed" /\ row.result = "done")
    BY <1>4, <1>6, ClassOf
  <2>2. Continue(t, <<>>, NoRows, say)
    BY <1>6 DEF GetKey, Answered, Continue
  <2> HIDE DEF say
  <2>3. Step(t, <<>>, say) /\ Orderly' /\ stored' = stored /\ working' = working /\ unsure' = unsure
    BY <1>1, <1>3, <2>1, <2>2, ReadTaken
  <2>4. Looks(t, <<>>, say)
    BY <1>1, <1>3, <2>1, <2>3 DEF Looks, SameBooks, Writing, Recording, SignIns, Movements, Unclaimed
  <2>5. QED
    BY <2>3, <2>4, FixedFree, LookKept
<1>7. QED
  BY <1>5, <1>6

LEMMA GetKeyAgainKept ==
  ASSUME Orderly, Truthful, NEW t \in Tasks, GetKeyAgain(t)
  PROVE  Orderly' /\ Truthful'
<1>1. Busy(t) /\ At(t) = "reclaim" /\ Reads(t, "reclaim")
  BY DEF GetKeyAgain, Reads, Runs, Healthy, At
<1>2. Follows(call[t], todo[t])
  BY <1>1, TheProgramFollows DEF Orderly, Staged
<1>3. /\ call[t].key \in Keys /\ call[t].op \in Movements /\ NoRows \in Rows
  BY <1>1, <1>2, SeenRows DEF Follows, At, Orderly, Typed
<1> DEFINE row == working.keys[call[t].key]
           say == IF row.status = "none" THEN "incomplete" ELSE Classified(row)
<1>4. row \in KeyRow
  BY <1>3 DEF Orderly, Typed, TablesOf
<1>5. say \in Says /\ (say = "done" => row.status = "completed" /\ row.result = "done")
  BY <1>4, ClassOf
<1>6. Continue(t, <<>>, NoRows, say)
  BY DEF GetKeyAgain, Continue
<1> HIDE DEF say
<1>7. Step(t, <<>>, say) /\ Orderly' /\ stored' = stored /\ working' = working /\ unsure' = unsure
  BY <1>1, <1>3, <1>5, <1>6, ReadTaken
<1>8. Looks(t, <<>>, say)
  BY <1>1, <1>3, <1>5, <1>7 DEF Looks, SameBooks, Writing, Recording, SignIns, Movements, Unclaimed
<1>9. QED
  BY <1>7, <1>8, FixedFree, LookKept

LEMMA InsertKeyKept ==
  ASSUME Orderly, Truthful, NEW t \in Tasks, InsertKey(t)
  PROVE  Orderly' /\ Truthful'
<1>1. /\ Busy(t) /\ At(t) = "insert" /\ Holds(t) /\ ~working.doomed
      /\ UNCHANGED <<stored, broken, clock, unsure, tangled>>
  BY DEF InsertKey, Healthy, At, Holds
<1>2. Follows(call[t], todo[t])
  BY <1>1, TheProgramFollows DEF Orderly, Staged
<1> DEFINE k == call[t].key
<1>3. /\ k \in Keys /\ call[t].op \in Movements /\ seen[t] \in Rows
      /\ result[t] \in Says /\ "none" \in Says /\ call[t] \in Calls
  BY <1>1, <1>2, SeenRows DEF Follows, At, Orderly, Typed, Says
<1>4. /\ stored \in TablesOf(DOMAIN answers) /\ working \in TablesOf(DOMAIN answers)
      /\ ~stored.doomed /\ stored.effects \subseteq working.effects
      /\ broken \in BOOLEAN /\ clock \in Nat /\ unsure \subseteq DOMAIN answers
      /\ raced \subseteq Accounts
  BY DEF Orderly, Typed
<1>5. CASE /\ working.keys[k].status = "none" /\ raced' = raced
           /\ working' = [working EXCEPT !.keys[k] =
                 [status |-> "pending", result |-> "none", born |-> clock]]
           /\ Proceed(t)
  <2> DEFINE rest == Tail(todo[t])
             row == [status |-> "pending", result |-> "none", born |-> clock]
  <2>1. rest # <<>> /\ Head(rest) = "account" /\ rest \in Tails(call[t])
    BY <1>1, <1>2 DEF Follows, At
  <2>2. Continue(t, rest, seen[t], result[t])
    BY <1>5 DEF Proceed
  <2>3. row \in KeyRow /\ row.status = "pending"
    BY <1>3, <1>4 DEF KeyRow
  <2> HIDE DEF rest, row
  <2>4. working' = [working EXCEPT !.keys[k] = row]
    BY <1>5 DEF row
  <2>5. /\ working' \in TablesOf(DOMAIN answers) /\ working'.effects = working.effects
        /\ working'.keys[k] = row /\ \A j \in Keys : j # k => working'.keys[j] = working.keys[j]
    BY <1>3, <1>4, <2>3, <2>4, PutKey
  <2>6. Step(t, rest, result[t]) /\ Orderly'
    BY <1>1, <1>3, <1>4, <1>5, <2>1, <2>2, <2>5, StepTaken
  <2>7. Takes(t, rest, result[t])
    BY <1>1, <1>3, <1>5, <2>1, <2>3, <2>5 DEF Takes
  <2>8. QED
    BY <2>6, <2>7, TakeKept
<1>6. CASE /\ working' = stored /\ raced' = raced \cup Bystanders(t)
           /\ Continue(t, <<"reclaim">>, seen[t], "none")
  <2>1. <<"reclaim">> \in Tails(call[t])
    BY <1>3, AsyncAssumption DEF Tails
  <2>2. raced' \subseteq Accounts
    BY <1>4, <1>6, BystandersAreAccounts
  <2>3. Step(t, <<"reclaim">>, "none") /\ Orderly'
    BY <1>1, <1>3, <1>4, <1>6, <2>1, <2>2, StepTaken
  <2>4. Retreats(t, <<"reclaim">>, "none")
    BY <1>1, <1>3, <1>6 DEF Retreats, SignIns, Movements
  <2>5. QED
    BY <2>3, <2>4, RetreatKept
<1>7. QED
  BY <1>5, <1>6 DEF InsertKey

LEMMA CompleteKeyKept ==
  ASSUME Orderly, Truthful, NEW t \in Tasks, CompleteKey(t)
  PROVE  Orderly' /\ Truthful'
<1> DEFINE k == call[t].key
           row == [working.keys[k] EXCEPT !.status = "completed", !.result = result[t]]
<1>1. Busy(t) /\ At(t) = "complete" /\ Changed(t, "complete")
  BY DEF CompleteKey, Changed, Runs, Healthy, At
<1>2. Follows(call[t], todo[t])
  BY <1>1, TheProgramFollows DEF Orderly, Staged
<1>3. /\ k \in Keys /\ call[t].op \in Movements /\ result[t] \in Says
      /\ Tail(todo[t]) = <<"store">>
  BY <1>1, <1>2 DEF Follows, At, Orderly, Typed
<1>4. working \in TablesOf(DOMAIN answers) /\ working.keys[k] \in KeyRow
  BY <1>3 DEF Orderly, Typed, TablesOf
<1>5. row \in KeyRow /\ row.status = "completed" /\ row.result = result[t]
  BY <1>3, <1>4 DEF KeyRow
<1>6. /\ working' \in TablesOf(DOMAIN answers) /\ working'.effects = working.effects
      /\ working.keys[k].status # "none" =>
           working'.keys[k].status = "completed" /\ working'.keys[k].result = result[t]
      /\ \A j \in Keys : j # k => working'.keys[j] = working.keys[j]
  <2>1. CASE working.keys[k].status = "none"
    BY <1>4, <2>1 DEF CompleteKey
  <2>2. CASE working.keys[k].status # "none"
    <3>1. working' = [working EXCEPT !.keys[k].status = "completed", !.keys[k].result = result[t]]
      BY <2>2 DEF CompleteKey
    <3>2. working' = [working EXCEPT !.keys[k] = row]
      BY <1>3, <1>4, <3>1 DEF TablesOf
    <3> HIDE DEF row, k
    <3>3. QED
      BY <1>3, <1>4, <1>5, <3>2, PutKey
  <2>3. QED
    BY <2>1, <2>2
<1>7. /\ Step(t, <<"store">>, result[t]) /\ Orderly' /\ stored' = stored /\ unsure' = unsure
  BY <1>1, <1>3, <1>6, WriteTaken
<1>8. Records(t, <<"store">>, result[t])
  BY <1>1, <1>3, <1>6, <1>7 DEF Records, SignIns, Movements
<1>9. QED
  BY <1>7, <1>8, RecordKept
-------------------------------------------------------------------------------
(* Reads, and what a service decides after the last of them *)

\* Where a service decides.
Deciding(t) ==
    \/ At(t) = "account" /\ call[t].op \in AccountOps \cup {"login"}
    \/ At(t) \in {"receiver", "admin"}
    \/ At(t) = "goal" /\ call[t].op = "contribute"

LEMMA DecideKept ==
  ASSUME Orderly, Truthful, NEW t \in Tasks, NEW statement, Reads(t, statement), Deciding(t),
         NEW rows \in Rows, Decide(t, rows),
         Verdict(call[t], rows).ok /\ call[t].op \in {"freeze", "unfreeze", "delete"}
           => ~working.accounts[call[t].acc].deleted
  PROVE  Orderly' /\ Truthful'
<1> DEFINE c == call[t]
           verdict == Verdict(c, rows)
           rest == Tail(todo[t])
<1>1. Busy(t) /\ At(t) = statement /\ statement # "lock"
  BY DEF Reads, Runs, Healthy, At, Deciding
<1>2. Follows(c, todo[t]) /\ c \in Calls /\ ~RefusedAtOnce(c)
  BY <1>1, TheProgramFollows DEF Orderly, Staged
<1>3. /\ At(t) \notin Recording \cup Unclaimed \cup {"log"} /\ ~Writing(At(t), c)
      /\ c.key \in Keys => c.op \in Movements
      /\ c.key \in Keys \/ c.key = NoKey
      /\ c.op \notin {"createGoal", "register", "deleteGoal"}
  BY <1>2 DEF Deciding, Follows, At, Recording, Unclaimed, Writing, AccountOps, Movements
<1>4. Sensible(verdict)
  BY <1>2, <1>3, VerdictSensible
<1>5. /\ c.op \notin SignIns =>
           /\ rest # <<>> /\ rest \in Tails(c)
           /\ Head(rest) \in {"update", "setFrozen", "remove", "setPassword"}
           /\ Head(rest) \in {"setFrozen", "remove"} => c.op \in {"freeze", "unfreeze", "delete"}
      /\ c.op \in SignIns => c.key = NoKey
  BY <1>2 DEF Deciding, Follows, At, SignIns, AccountOps, Movements
<1>6. NoRows \in Rows /\ seen[t] \in Rows
  BY <1>1, SeenRows
<1>7. /\ verdict.ok = TRUE => verdict.say = "done"
      /\ verdict.ok # TRUE => verdict.say \in Refusals \cup {"wrong password"}
      /\ Refusals \cup {"wrong password", "done"} \subseteq Says
      /\ "done" \notin Refusals /\ "wrong password" \notin Refusals
  BY <1>4 DEF Sensible, Says, Refusals
<1> HIDE DEF verdict, rest
<1>8. CASE c.op \in SignIns /\ verdict.ok
  <2>1. Continue(t, GoodLogin, rows, "done")
    BY <1>8 DEF Decide, verdict, SignIns
  <2>2. GoodLogin \in Tails(c) /\ GoodLogin # <<>> /\ Head(GoodLogin) = "reset"
    BY <1>5, <1>8, Two DEF GoodLogin, Tails, SignIns, CustomerSigning, AdminSigning, Verdicts
  <2>3. /\ Step(t, GoodLogin, "done") /\ Orderly'
        /\ stored' = stored /\ working' = working /\ unsure' = unsure
    BY <1>1, <1>7, <2>1, <2>2, ReadTaken
  <2>4. Looks(t, GoodLogin, "done")
    BY <1>3, <1>5, <1>8, <2>2, <2>3, AsyncAssumption DEF Looks, SameBooks, Writing
  <2>5. QED
    BY <2>2, <2>3, <2>4, FixedFree, LookKept
<1>9. CASE c.op \in SignIns /\ ~verdict.ok /\ verdict.say = "wrong password"
  <2>1. Continue(t, FailedLogin, rows, "wrong password")
    BY <1>9 DEF Decide, verdict, SignIns
  <2>2. FailedLogin \in Tails(c) /\ FailedLogin # <<>> /\ Head(FailedLogin) = "attempt"
    <3>1. FailedLogin \in Verdicts
      BY DEF FailedLogin, Verdicts
    <3>2. FailedLogin # <<>> /\ Head(FailedLogin) = "attempt"
      BY Three DEF FailedLogin
    <3>3. Verdicts \subseteq Tails(c)
      BY <1>5, <1>9 DEF Tails, SignIns, CustomerSigning, AdminSigning
    <3>4. QED
      BY <3>1, <3>2, <3>3
  <2>3. /\ Step(t, FailedLogin, "wrong password") /\ Orderly'
        /\ stored' = stored /\ working' = working /\ unsure' = unsure
    BY <1>1, <1>7, <2>1, <2>2, ReadTaken
  <2>4. Looks(t, FailedLogin, "wrong password")
    BY <1>3, <1>5, <1>9, <2>2, <2>3, AsyncAssumption DEF Looks, SameBooks, Writing
  <2>5. QED
    BY <2>2, <2>3, <2>4, FixedFree, LookKept
<1>10. ASSUME Finish(t, verdict.say), ~verdict.ok, c.key = NoKey,
              c.op \notin SignIns \/ verdict.say # "wrong password"
       PROVE  Orderly' /\ Truthful'
  <2> DEFINE say == verdict.say
  <2>1. Continue(t, <<>>, NoRows, say) /\ say \in Says /\ say # "done"
    BY <1>7, <1>10 DEF Continue
  <2>2. c.op \notin SignIns \/ say # "wrong password"
    BY <1>10
  <2> HIDE DEF say
  <2>3. Step(t, <<>>, say) /\ Orderly' /\ stored' = stored /\ working' = working /\ unsure' = unsure
    BY <1>1, <1>6, <2>1, ReadTaken
  <2>4. Looks(t, <<>>, say)
    BY <1>3, <1>10, <2>1, <2>2, <2>3, AsyncAssumption DEF Looks, SameBooks
  <2>5. QED
    BY <2>3, <2>4, FixedFree, LookKept
<1>11. CASE c.op \in SignIns /\ ~verdict.ok /\ verdict.say # "wrong password"
  <2>1. Finish(t, verdict.say)
    BY <1>11 DEF Decide, verdict, SignIns
  <2>2. QED
    BY <1>5, <1>10, <1>11, <2>1
<1>12. CASE c.op \notin SignIns /\ verdict.ok
  <2>1. Continue(t, rest, rows, "done")
    BY <1>12 DEF Decide, verdict, rest, SignIns
  <2>2. Step(t, rest, "done") /\ Orderly' /\ stored' = stored /\ working' = working /\ unsure' = unsure
    BY <1>1, <1>5, <1>7, <1>12, <2>1, ReadTaken
  <2>3. Looks(t, rest, "done")
    BY <1>3, <1>5, <1>12, <2>2 DEF Looks, SameBooks, Writing, Unclaimed
  <2>4. FixedOf(t)'
    <3>1. Head(rest) \in {"setFrozen", "remove"} => ~working'.accounts[c.acc].deleted
      BY <1>5, <1>12, <2>2 DEF verdict
    <3>2. rest # <<>> /\ At(t)' = Head(rest) /\ call' = call
      BY <1>5, <1>12, <2>2, OwnAfter
    <3>3. QED
      BY <3>1, <3>2 DEF FixedOf
  <2>5. QED
    BY <2>2, <2>3, <2>4, LookKept
<1>13. CASE c.op \notin SignIns /\ ~verdict.ok
  <2>1. Refuse(t, verdict.say)
    BY <1>13 DEF Decide, verdict, SignIns
  <2>2. CASE c.key = NoKey
    <3>1. Finish(t, verdict.say)
      BY <2>1, <2>2 DEF Refuse
    <3>2. QED
      BY <1>10, <1>13, <2>2, <3>1
  <2>3. CASE c.key # NoKey
    <3> DEFINE say == verdict.say
    <3>1. Continue(t, <<"complete", "store">>, seen[t], say) /\ say \in Says /\ say # "done"
      BY <1>7, <1>13, <2>1, <2>3 DEF Refuse
    <3>2. <<"complete", "store">> \in Tails(c) /\ c.key \in Keys
      BY <1>3, <2>3 DEF Tails, Ends
    <3> HIDE DEF say
    <3>3. Head(<<"complete", "store">>) = "complete" /\ <<"complete", "store">> # <<>>
      BY Two
    <3>4. Step(t, <<"complete", "store">>, say) /\ Orderly' /\ stored' = stored
          /\ working' = working /\ unsure' = unsure
      BY <1>1, <1>6, <3>1, <3>2, ReadTaken
    <3>5. Looks(t, <<"complete", "store">>, say)
      BY <1>3, <1>13, <3>1, <3>2, <3>3, <3>4 DEF Looks, SameBooks, Writing, Unclaimed
    <3>6. QED
      BY <3>3, <3>4, <3>5, FixedFree, LookKept
  <2>4. QED
    BY <2>2, <2>3
<1>14. QED
  BY <1>8, <1>9, <1>11, <1>12, <1>13
LEMMA FixesWhatIsThere ==
  ASSUME NEW c, c.op \in {"freeze", "unfreeze", "delete"}, NEW rows, Verdict(c, rows).ok
  PROVE  ~rows.account.deleted
<1>1. Refused("not found").ok = FALSE
  BY DEF Refused
<1>2. CASE c.op = "freeze"
  BY <1>1, <1>2 DEF Verdict, Decision, FreezeAccount
<1>3. CASE c.op = "unfreeze"
  BY <1>1, <1>3 DEF Verdict, Decision, UnfreezeAccount
<1>4. CASE c.op = "delete"
  BY <1>1, <1>4 DEF Verdict, Decision, DeleteAccount
<1>5. QED
  BY <1>2, <1>3, <1>4

\* A read after which the service goes on, or answers what it has found.
LEMMA PassKept ==
  ASSUME Orderly, Truthful, NEW t \in Tasks, NEW statement, Reads(t, statement),
         statement \in {"account", "goal"}, NEW rows \in Rows, NEW rest, NEW say,
         Continue(t, rest, rows, say), call[t].op \notin SignIns,
         \/ /\ rest \in Tails(call[t]) /\ rest # <<>> /\ say = "done"
            /\ Head(rest) \in {"receiver", "goal", "dropGoal"}
         \/ /\ rest = <<>> /\ say \in Refusals \cup {"wrong password"} /\ call[t].key = NoKey
  PROVE  Orderly' /\ Truthful'
<1>1. Busy(t) /\ At(t) = statement /\ say \in Says
  BY DEF Reads, Runs, Healthy, At, Says
<1>2. Step(t, rest, say) /\ Orderly' /\ stored' = stored /\ working' = working /\ unsure' = unsure
  BY <1>1, ReadTaken
<1>3. say # "done" \/ rest # <<>>
  BY DEF Refusals
<1>4. Looks(t, rest, say)
  BY <1>1, <1>2, <1>3, AsyncAssumption DEF Looks, SameBooks, Writing, Recording, Unclaimed
<1>5. QED
  BY <1>2, <1>4, FixedFree, LookKept

LEMMA GetAccountKept ==
  ASSUME Orderly, Truthful, NEW t \in Tasks, GetAccount(t)
  PROVE  Orderly' /\ Truthful'
<1> DEFINE c == call[t]
           row == working.accounts[c.acc]
           rows == [seen[t] EXCEPT !.account = row]
           goalToCome == [rows EXCEPT !.goal.exists = TRUE]
           rest == Tail(todo[t])
<1>1. Busy(t) /\ At(t) = "account" /\ Reads(t, "account")
  BY DEF GetAccount, Reads, Runs, Healthy, At
<1>2. Follows(c, todo[t]) /\ ~RefusedAtOnce(c)
  BY <1>1, TheProgramFollows DEF Orderly, Staged
<1>3. seen[t] \in Rows /\ c \in Call /\ c \in Calls
  BY <1>1, SeenRows
<1>4. row \in AccountRow
  BY <1>3 DEF Orderly, Typed, TablesOf, Call
<1>5. rows \in Rows /\ goalToCome \in Rows /\ rows.account = row
  <2> HIDE DEF row
  <2>1. rows \in Rows /\ rows.account = row
    BY <1>3, <1>4 DEF Rows
  <2> HIDE DEF rows
  <2>2. [rows.goal EXCEPT !.exists = TRUE] \in GoalRow
    BY <2>1 DEF Rows, GoalRow
  <2>3. goalToCome = [rows EXCEPT !.goal = [rows.goal EXCEPT !.exists = TRUE]]
    OBVIOUS
  <2>4. goalToCome \in Rows
    BY <2>1, <2>2, <2>3 DEF Rows
  <2>5. QED
    BY <2>1, <2>4
<1>6. /\ c.op \in AccountOps \cup {"transfer", "contribute", "login"}
      /\ c.op \in {"transfer", "contribute"} =>
           rest \in Tails(c) /\ rest # <<>> /\ Head(rest) \in {"receiver", "goal"}
      /\ c.op = "contribute" => c.key = NoKey
  BY <1>1, <1>2 DEF Follows, At, Movements
<1> HIDE DEF row, rows, goalToCome, rest
<1>7. CASE c.op = "transfer"
  <2>1. Continue(t, rest, rows, "done")
    BY <1>7 DEF GetAccount, rest, rows, row
  <2>2. QED
    BY <1>1, <1>5, <1>6, <1>7, <2>1, PassKept DEF SignIns
<1>8. CASE c.op = "contribute"
  <2>1. CASE Verdict(c, goalToCome).ok
    <3>1. Continue(t, rest, rows, "done")
      BY <1>8, <2>1 DEF GetAccount, rest, rows, row, goalToCome
    <3>2. QED
      BY <1>1, <1>5, <1>6, <1>8, <3>1, PassKept DEF SignIns
  <2>2. CASE ~Verdict(c, goalToCome).ok
    <3> DEFINE say == Verdict(c, goalToCome).say
    <3>1. Finish(t, say)
      BY <1>8, <2>2 DEF GetAccount, rows, row, goalToCome
    <3>2. Continue(t, <<>>, rows, say)
      BY <3>1 DEF Continue
    <3>3. Sensible(Verdict(c, goalToCome))
      BY <1>2, <1>3, <1>5, <1>8, VerdictSensible
    <3>4. say \in Refusals \cup {"wrong password"}
      BY <2>2, <3>3 DEF Sensible
    <3> HIDE DEF say
    <3>5. QED
      BY <1>1, <1>5, <1>6, <1>8, <3>2, <3>4, PassKept DEF SignIns
  <2>3. QED
    BY <2>1, <2>2
<1>9. CASE c.op \notin {"transfer", "contribute"}
  <2>1. Decide(t, rows)
    BY <1>9 DEF GetAccount, rows, row
  <2>2. Deciding(t)
    BY <1>1, <1>6, <1>9 DEF Deciding
  <2>3. Verdict(c, rows).ok /\ c.op \in {"freeze", "unfreeze", "delete"} => ~row.deleted
    BY <1>5, FixesWhatIsThere
  <2>4. QED
    BY <1>1, <1>5, <2>1, <2>2, <2>3, DecideKept DEF row
<1>10. QED
  BY <1>7, <1>8, <1>9

LEMMA GetReceiverKept ==
  ASSUME Orderly, Truthful, NEW t \in Tasks, GetReceiver(t)
  PROVE  Orderly' /\ Truthful'
<1> DEFINE row == working.accounts[call[t].to]
           rows == [seen[t] EXCEPT !.receiver = row]
<1>1. Busy(t) /\ At(t) = "receiver" /\ Reads(t, "receiver") /\ Decide(t, rows)
  BY DEF GetReceiver, Reads, Runs, Healthy, At
<1>2. Follows(call[t], todo[t]) /\ seen[t] \in Rows /\ call[t] \in Call
  BY <1>1, TheProgramFollows, SeenRows DEF Orderly, Staged
<1>3. row \in AccountRow
  BY <1>2 DEF Orderly, Typed, TablesOf, Call
<1> HIDE DEF row
<1>4. rows \in Rows
  BY <1>2, <1>3 DEF Rows
<1>5. call[t].op = "transfer" /\ Deciding(t)
  BY <1>1, <1>2 DEF Follows, At, Deciding
<1> HIDE DEF rows
<1>6. QED
  BY <1>1, <1>4, <1>5, DecideKept

LEMMA GetAdminKept ==
  ASSUME Orderly, Truthful, NEW t \in Tasks, GetAdmin(t)
  PROVE  Orderly' /\ Truthful'
<1> DEFINE rows == [seen[t] EXCEPT !.admin = working.admin]
<1>1. Busy(t) /\ At(t) = "admin" /\ Reads(t, "admin") /\ Decide(t, rows)
  BY DEF GetAdmin, Reads, Runs, Healthy, At
<1>2. Follows(call[t], todo[t]) /\ seen[t] \in Rows
  BY <1>1, TheProgramFollows, SeenRows DEF Orderly, Staged
<1>3. working.admin \in Int
  BY DEF Orderly, Typed, TablesOf
<1>4. rows \in Rows
  BY <1>2, <1>3 DEF Rows
<1>5. call[t].op \in {"adminLogin", "adminPassword"} /\ Deciding(t)
  BY <1>1, <1>2 DEF Follows, At, Deciding
<1> HIDE DEF rows
<1>6. QED
  BY <1>1, <1>4, <1>5, DecideKept

LEMMA GetGoalKept ==
  ASSUME Orderly, Truthful, NEW t \in Tasks, GetGoal(t)
  PROVE  Orderly' /\ Truthful'
<1> DEFINE c == call[t]
           goal == working.goals[c.goal]
           rows == [seen[t] EXCEPT !.goal = goal]
           rest == IF rows.goal.current > 0 THEN Tail(todo[t]) ELSE <<"dropGoal", "commit">>
<1>1. Busy(t) /\ At(t) = "goal" /\ Reads(t, "goal")
  BY DEF GetGoal, Reads, Runs, Healthy, At
<1>2. Follows(c, todo[t]) /\ seen[t] \in Rows /\ c \in Call
  BY <1>1, TheProgramFollows, SeenRows DEF Orderly, Staged
<1>3. goal \in GoalRow
  <2>1. goal \in OwnedGoal
    BY <1>2 DEF Orderly, Typed, TablesOf, Call
  <2>2. QED
    BY <2>1, OwnedGoals
<1> HIDE DEF goal
<1>4. rows \in Rows
  BY <1>2, <1>3 DEF Rows
<1>5. c.op \in {"contribute", "deleteGoal"} /\ c.op \notin SignIns
  BY <1>1, <1>2 DEF Follows, At, SignIns
<1>6. c.op = "deleteGoal" => rest \in Tails(c) /\ rest # <<>> /\ Head(rest) = "dropGoal" /\ c.key = NoKey
  <2>1. c.op = "deleteGoal" => c.key = NoKey
    BY <1>2 DEF Follows, Movements
  <2>2. c.op = "deleteGoal" /\ c.key = NoKey => <<"dropGoal", "commit">> \in Tails(c)
    BY DEF Tails, Dropping
  <2>3. Head(<<"dropGoal", "commit">>) = "dropGoal" /\ <<"dropGoal", "commit">> # <<>>
    BY Two
  <2>4. c.op = "deleteGoal" => /\ Tail(todo[t]) \in Tails(c) /\ Tail(todo[t]) # <<>>
                               /\ Head(Tail(todo[t])) = "dropGoal"
    BY <1>1, <1>2 DEF Follows, At
  <2>5. QED
    BY <2>1, <2>2, <2>3, <2>4
<1> HIDE DEF rest
<1>7. CASE c.op = "contribute"
  <2>1. Decide(t, rows) /\ Deciding(t)
    BY <1>1, <1>7 DEF GetGoal, Deciding, goal
  <2> HIDE DEF rows
  <2>2. QED
    BY <1>1, <1>4, <1>7, <2>1, DecideKept
<1>8. CASE c.op = "deleteGoal" /\ ~rows.goal.exists
  <2>1. Finish(t, "not found")
    BY <1>8 DEF GetGoal, goal
  <2>2. Continue(t, <<>>, rows, "not found")
    BY <2>1 DEF Continue
  <2>3. "not found" \in Refusals
    BY DEF Refusals
  <2> HIDE DEF rows
  <2>4. QED
    BY <1>1, <1>4, <1>5, <1>6, <1>8, <2>2, <2>3, PassKept
<1>9. CASE c.op = "deleteGoal" /\ rows.goal.exists
  <2>1. Continue(t, rest, rows, "done")
    BY <1>9 DEF GetGoal, goal, rest
  <2> HIDE DEF rows
  <2>2. QED
    BY <1>1, <1>4, <1>5, <1>6, <1>9, <2>1, PassKept
<1>10. QED
  BY <1>5, <1>7, <1>8, <1>9
LEMMA GetAttemptKept ==
  ASSUME Orderly, Truthful, NEW t \in Tasks, GetAttempt(t)
  PROVE  Orderly' /\ Truthful'
<1> DEFINE found == working.attempts[LoginOf(call[t])].exists
           rows == [seen[t] EXCEPT !.attempt = found]
           rest == Tail(todo[t])
<1>1. Busy(t) /\ At(t) = "attempt" /\ Reads(t, "attempt") /\ Continue(t, rest, rows, result[t])
  BY DEF GetAttempt, Reads, Runs, Healthy, At
<1>2. Follows(call[t], todo[t]) /\ seen[t] \in Rows /\ call[t] \in Call
  BY <1>1, TheProgramFollows, SeenRows DEF Orderly, Staged
<1>3. found \in BOOLEAN
  <2>1. LoginOf(call[t]) \in Logins
    BY <1>2 DEF LoginOf, Logins, Call
  <2>2. QED
    BY <2>1 DEF Orderly, Typed, TablesOf, AttemptRow
<1> HIDE DEF found
<1>4. rows \in Rows
  BY <1>2, <1>3 DEF Rows
<1>5. /\ call[t].op \in SignIns /\ rest # <<>> /\ Head(rest) = "failure" /\ rest \in Tails(call[t])
      /\ call[t].key \notin Keys /\ result[t] \in Says
  BY <1>1, <1>2 DEF Follows, At, SignIns, Movements, Orderly, Typed
<1>6. result[t] \in {"done", "wrong password"}
  BY <1>1, <1>5 DEF Truthful, PreparedOf
<1> HIDE DEF rest, rows
<1>7. Step(t, rest, result[t]) /\ Orderly' /\ stored' = stored /\ working' = working /\ unsure' = unsure
  BY <1>1, <1>4, <1>5, ReadTaken
<1>8. Looks(t, rest, result[t])
  BY <1>1, <1>5, <1>6, <1>7 DEF Looks, SameBooks, Writing, Recording
<1>9. QED
  BY <1>5, <1>7, <1>8, FixedFree, LookKept

LEMMA IsLockedKept ==
  ASSUME Orderly, Truthful, NEW t \in Tasks, IsLocked(t)
  PROVE  Orderly' /\ Truthful'
<1> DEFINE l == LoginOf(call[t])
           row == working.attempts[l]
           rest == Tail(todo[t])
<1>1. /\ Busy(t) /\ Holds(t) /\ At(t) = "isLocked"
      /\ UNCHANGED <<stored, broken, clock, unsure, tangled, raced>>
  BY DEF IsLocked, Runs, Healthy, At, Holds
<1>2. /\ Follows(call[t], todo[t]) /\ seen[t] \in Rows /\ NoRows \in Rows /\ call[t] \in Call
  BY <1>1, TheProgramFollows, SeenRows DEF Orderly, Staged
<1>3. /\ call[t].op \in SignIns /\ rest # <<>> /\ Head(rest) \in {"account", "admin"}
      /\ rest \in Tails(call[t]) /\ call[t].key \notin Keys /\ result[t] \in Says
  BY <1>1, <1>2 DEF Follows, At, SignIns, Movements, Orderly, Typed
<1>4. result[t] \in {"done", "wrong password"}
  BY <1>1, <1>3 DEF Truthful, PreparedOf
<1>5. /\ working' \in TablesOf(DOMAIN answers) /\ SameBooks(working', working)
  <2>1. l \in Logins /\ NoAttempt \in AttemptRow /\ working \in TablesOf(DOMAIN answers)
    BY <1>2 DEF LoginOf, Logins, Call, NoAttempt, AttemptRow, Orderly, Typed
  <2>2. working' = working \/ working' = [working EXCEPT !.attempts[l] = NoAttempt]
    BY DEF IsLocked
  <2> HIDE DEF l
  <2>3. CASE working' = working
    BY <2>1, <2>3 DEF SameBooks
  <2>4. CASE working' = [working EXCEPT !.attempts[l] = NoAttempt]
    <3>1. /\ [working EXCEPT !.attempts[l] = NoAttempt] \in TablesOf(DOMAIN answers)
          /\ BooksOf([working EXCEPT !.attempts[l] = NoAttempt], working)
      BY <2>1, PutAttempt
    <3>2. QED
      BY <2>4, <3>1, Zenon DEF BooksOf
  <2>5. QED
    BY <2>2, <2>3, <2>4
<1>6. /\ stored' \in TablesOf(DOMAIN answers) /\ ~stored'.doomed
      /\ stored'.effects \subseteq working'.effects /\ broken' \in BOOLEAN /\ clock' \in Nat
      /\ unsure' \subseteq DOMAIN answers /\ raced' \subseteq Accounts
  BY <1>1, <1>5 DEF Orderly, Typed, SameBooks
<1>7. "locked" \in Says /\ "locked" \notin {"done", "wrong password"}
  BY DEF Says, Refusals
<1>8. CASE LockedOut(row)
  <2>1. Continue(t, <<>>, NoRows, "locked")
    BY <1>8 DEF IsLocked, Continue
  <2>2. Step(t, <<>>, "locked") /\ Orderly'
    BY <1>1, <1>2, <1>5, <1>6, <1>7, <2>1, StepTaken
  <2>3. Looks(t, <<>>, "locked")
    BY <1>1, <1>3, <1>5, <1>7 DEF Looks, Writing, Recording
  <2>4. QED
    BY <2>2, <2>3, FixedFree, LookKept
<1>9. CASE ~LockedOut(row)
  <2>1. Continue(t, rest, seen[t], result[t])
    BY <1>9 DEF IsLocked, Proceed
  <2> HIDE DEF rest
  <2>2. Step(t, rest, result[t]) /\ Orderly'
    BY <1>1, <1>2, <1>3, <1>5, <1>6, <2>1, StepTaken
  <2>3. Looks(t, rest, result[t])
    BY <1>1, <1>3, <1>4, <1>5 DEF Looks, Writing, Recording
  <2>4. QED
    BY <1>3, <2>2, <2>3, FixedFree, LookKept
<1>10. QED
  BY <1>8, <1>9

\* The account to refund is read once the goal has been dropped.
LEMMA GetRefundedKept ==
  ASSUME Orderly, Truthful, NEW t \in Tasks, GetRefunded(t)
  PROVE  Orderly' /\ Truthful'
<1> DEFINE row == working.accounts[call[t].acc]
           rows == [seen[t] EXCEPT !.account = row]
           rest == IF row.deleted THEN <<"commit">> ELSE Tail(todo[t])
<1>1. /\ Busy(t) /\ At(t) = "refund" /\ Reads(t, "refund") /\ Continue(t, rest, rows, result[t])
      /\ ~working.doomed
  BY DEF GetRefunded, Reads, Runs, Healthy, At
<1>2. Follows(call[t], todo[t]) /\ seen[t] \in Rows /\ call[t] \in Call
  BY <1>1, TheProgramFollows, SeenRows DEF Orderly, Staged
<1>3. row \in AccountRow
  BY <1>2 DEF Orderly, Typed, TablesOf, Call
<1>4. call[t].op = "deleteGoal" /\ call[t].key = NoKey /\ result[t] \in Says
  BY <1>1, <1>2 DEF Follows, At, Movements, Orderly, Typed
<1>5. rest # <<>> /\ Head(rest) \in {"update", "commit"} /\ rest \in Tails(call[t])
  <2>1. <<"commit">> \in Tails(call[t])
    BY <1>4 DEF Tails, Dropping
  <2>2. <<"commit">> # <<>> /\ Head(<<"commit">>) = "commit"
    BY One
  <2>3. Tail(todo[t]) \in Tails(call[t]) /\ Tail(todo[t]) # <<>> /\ Head(Tail(todo[t])) = "update"
    BY <1>1, <1>2 DEF Follows, At
  <2>4. QED
    BY <2>1, <2>2, <2>3
<1> HIDE DEF row, rest
<1>6. rows \in Rows
  BY <1>2, <1>3 DEF Rows
<1> HIDE DEF rows
<1>7. Step(t, rest, result[t]) /\ Orderly' /\ stored' = stored /\ working' = working /\ unsure' = unsure
  BY <1>1, <1>4, <1>5, <1>6, ReadTaken
<1>8. Marks(t, rest, result[t])
  BY <1>1, <1>4, <1>5, <1>7 DEF Marks, Writing, Unclaimed, Recording
<1>9. QED
  BY <1>7, <1>8, MarkKept
-------------------------------------------------------------------------------
(* Writes into the session *)

LEMMA MarkedTables ==
  ASSUME Orderly, NEW t \in Tasks, Busy(t), NEW T \in TablesOf(DOMAIN answers)
  PROVE  /\ Marked(t, T) \in TablesOf(DOMAIN answers) /\ Marked(t, T).keys = T.keys
         /\ Marked(t, T).effects = T.effects \cup {number[t]}
<1>1. number[t] \in DOMAIN answers
  BY DEF Orderly, Numbered
<1>2. QED
  BY <1>1, PutEffect DEF Marked

LEMMA PostedTables ==
  ASSUME NEW S, NEW T \in TablesOf(S), NEW t, NEW a \in Accounts, NEW entries, AtMostOne(entries)
  PROVE  /\ Posted(t, T, a, entries) \in TablesOf(S)
         /\ Posted(t, T, a, entries).keys = T.keys
         /\ Posted(t, T, a, entries).effects = T.effects
<1> DEFINE f == [i \in DOMAIN entries |-> Row(t, entries[i])]
           s == T.statements[a] \o f
<1>1. \A e \in Transaction : Row(t, e) \in EntryRow
  BY DEF Row, Category, EntryRow, Transaction
<1>2. f \in Seq(EntryRow)
  <2>1. CASE entries = <<>>
    <3>1. DOMAIN entries = 1 .. 0
      BY <2>1
    <3>2. f \in [1 .. 0 -> EntryRow]
      BY <3>1
    <3> HIDE DEF f
    <3>3. QED
      BY <3>2, SeqDef
  <2>2. CASE \E e \in Transaction : entries = <<e>>
    <3>1. PICK e \in Transaction : entries = <<e>>
      BY <2>2
    <3>2. DOMAIN entries = 1 .. 1 /\ entries[1] = e
      BY <3>1
    <3>3. f \in [1 .. 1 -> EntryRow]
      BY <1>1, <3>2
    <3>4. DOMAIN f = 1 .. 1 /\ f[1] \in EntryRow
      BY <1>1, <3>2
    <3>5. f = <<f[1]>>
      <4> HIDE DEF f
      <4>1. QED
        BY <3>3
    <3> HIDE DEF f
    <3>6. <<f[1]>> \in Seq(EntryRow)
      BY <3>4
    <3>7. QED
      BY <3>5, <3>6
  <2>3. QED
    BY <2>1, <2>2 DEF AtMostOne
<1> HIDE DEF f
<1>3. s \in Seq(EntryRow)
  <2>1. T.statements[a] \in Seq(EntryRow)
    BY DEF TablesOf
  <2>2. QED
    BY <1>2, <2>1, ConcatProperties
<1>4. Posted(t, T, a, entries) = [T EXCEPT !.statements[a] = s]
  BY DEF Posted, f
<1> HIDE DEF s
<1>5. QED
  BY <1>3, <1>4, PutStatement DEF BooksOf, SameBooks

LEMMA MarkTaken ==
  ASSUME Orderly, Truthful, NEW t \in Tasks, NEW statement, Changed(t, statement),
         statement \in {"update", "updateReceiver", "setFrozen", "setActive", "remove",
                        "increment", "setPassword", "add", "addToGoal", "dropGoal", "failure",
                        "reset"},
         working' \in TablesOf(DOMAIN answers), working'.keys = working.keys,
         \/ working'.effects = working.effects \cup {number[t]}
         \/ working'.effects = working.effects
            /\ (Writing(statement, call[t]) \/ working'.doomed \/ ~Tidy(t))
  PROVE  Orderly' /\ Truthful'
<1> DEFINE rest == Tail(todo[t])
<1>1. /\ Step(t, rest, result[t]) /\ Orderly' /\ Follows(call[t], todo[t])
      /\ At(t) = statement /\ stored' = stored /\ unsure' = unsure /\ ~working.doomed
  BY WriteTaken
<1>2. rest # <<>> /\ Writing(Head(rest), call[t])
  BY <1>1 DEF Follows, At, Writing
<1> HIDE DEF rest
<1>3. Marks(t, rest, result[t])
  BY <1>1, <1>2 DEF Marks, Unclaimed, Recording
<1>4. QED
  BY <1>1, <1>3, MarkKept

\* The row update() finds is overwritten by what the service has decided.
LEMMA UpdateAccountRowKept ==
  ASSUME Orderly, Truthful, NEW t \in Tasks, UpdateAccountRow(t)
  PROVE  Orderly' /\ Truthful'
<1> DEFINE a == call[t].acc
           w == Writes(t)
           row == Overwritten(working.accounts[a], w.account)
           written == [working EXCEPT !.accounts[a] = row]
<1>1. Busy(t) /\ At(t) = "update" /\ Changed(t, "update")
  BY DEF UpdateAccountRow, Changed, Runs, Healthy, At
<1>2. /\ Follows(call[t], todo[t]) /\ seen[t] \in Rows /\ call[t] \in Call /\ call[t] \in Calls
      /\ ~RefusedAtOnce(call[t])
  BY <1>1, TheProgramFollows, SeenRows DEF Orderly, Staged
<1>3. w.account \in AccountWrites /\ AtMostOne(w.entries)
  <2>1. CASE call[t].op = "deleteGoal"
    BY <1>2, <2>1, RefundSensible DEF Writes
  <2>2. CASE call[t].op # "deleteGoal"
    <3>1. call[t].op \notin {"createGoal", "register", "deleteGoal"}
      BY <1>1, <1>2, <2>2 DEF Follows, At, AccountOps
    <3>2. QED
      BY <1>2, <3>1, VerdictSensible DEF Writes, Sensible
  <2>3. QED
    BY <2>1, <2>2
<1> HIDE DEF w
<1>4. a \in Accounts /\ working \in TablesOf(DOMAIN answers) /\ working.accounts[a] \in AccountRow
  BY <1>2 DEF Call, Orderly, Typed, TablesOf
<1>5. row \in AccountRow
  BY <1>3, <1>4, OverwrittenRow
<1> HIDE DEF row
<1>6. /\ written \in TablesOf(DOMAIN answers) /\ written.keys = working.keys
      /\ written.effects = working.effects
  BY <1>4, <1>5, PutAccount DEF SameBooks
<1>7. written = [working EXCEPT !.accounts[a] = Overwritten(@, w.account)]
  BY DEF row
<1> HIDE DEF written, a
<1>8. /\ working' \in TablesOf(DOMAIN answers) /\ working'.keys = working.keys
      /\ \/ working'.effects = working.effects \cup {number[t]}
         \/ working'.effects = working.effects /\ working'.doomed
  <2>1. CASE working' = [working EXCEPT !.doomed = TRUE]
    BY <1>4, <2>1, PutDoomed
  <2>2. CASE working' = Marked(t, written)
    BY <1>1, <1>6, <2>2, MarkedTables
  <2>3. CASE working' = Marked(t, Posted(t, written, a, w.entries))
    <3> DEFINE posted == Posted(t, written, a, w.entries)
    <3>1. /\ posted \in TablesOf(DOMAIN answers) /\ posted.keys = working.keys
          /\ posted.effects = working.effects
      BY <1>3, <1>4, <1>6, PostedTables
    <3> HIDE DEF posted
    <3>2. working' = Marked(t, posted)
      BY <2>3 DEF posted
    <3>3. QED
      BY <1>1, <3>1, <3>2, MarkedTables
  <2>4. QED
    BY <1>7, <2>1, <2>2, <2>3, Zenon DEF UpdateAccountRow, w, a
<1>9. QED
  BY <1>1, <1>8, MarkTaken

LEMMA UpdateReceiverKept ==
  ASSUME Orderly, Truthful, NEW t \in Tasks, UpdateReceiver(t)
  PROVE  Orderly' /\ Truthful'
<1> DEFINE a == call[t].acc
           b == call[t].to
           out == EntryFor(seen[t].account, "TRANSFER_OUT", call[t].value)
           in == EntryFor(seen[t].receiver, "TRANSFER_IN", call[t].value)
           columns == AccountColumns([seen[t].receiver EXCEPT !.balance = in.balance])
           row == Overwritten(working.accounts[b], columns)
           written == [working EXCEPT !.accounts[b] = row]
<1>1. Busy(t) /\ At(t) = "updateReceiver" /\ Changed(t, "updateReceiver")
  BY DEF UpdateReceiver, Changed, Runs, Healthy, At
<1>2. seen[t] \in Rows /\ call[t] \in Call
  BY <1>1, SeenRows
<1>3. /\ a \in Accounts /\ b \in Accounts /\ working \in TablesOf(DOMAIN answers)
      /\ working.accounts[b] \in AccountRow
  BY <1>2 DEF Call, Orderly, Typed, TablesOf
<1>4. out \in Transaction /\ in \in Transaction
  BY <1>2 DEF EntryFor, Transaction, TransactionType, Rows, AccountRow, Call
<1>5. columns \in AccountWrites
  <2>1. [seen[t].receiver EXCEPT !.balance = in.balance] \in AccountRow
    BY <1>2, <1>4 DEF Rows, AccountRow, Transaction
  <2>2. QED
    BY <2>1, AccountColumnsOf DEF AccountWrites
<1> HIDE DEF out, in, columns
<1>6. row \in AccountRow
  BY <1>3, <1>5, OverwrittenRow
<1>7. written = [working EXCEPT !.accounts[b] = Overwritten(@, columns)]
  OBVIOUS
<1> HIDE DEF row
<1>8. /\ written \in TablesOf(DOMAIN answers) /\ written.keys = working.keys
      /\ written.effects = working.effects
  BY <1>3, <1>6, PutAccount DEF SameBooks
<1>9. AtMostOne(<<out>>) /\ AtMostOne(<<in>>)
  BY <1>4 DEF AtMostOne
<1> HIDE DEF written, a, b
<1>10. /\ working' \in TablesOf(DOMAIN answers) /\ working'.keys = working.keys
       /\ working'.effects = working.effects
  <2>1. CASE working' = [working EXCEPT !.doomed = TRUE]
    BY <1>3, <2>1, PutDoomed
  <2>2. CASE working' = Posted(t, Posted(t, written, a, <<out>>), b, <<in>>)
    <3> DEFINE posted == Posted(t, written, a, <<out>>)
    <3>1. /\ posted \in TablesOf(DOMAIN answers) /\ posted.keys = working.keys
          /\ posted.effects = working.effects
      BY <1>3, <1>8, <1>9, PostedTables
    <3> HIDE DEF posted
    <3>2. working' = Posted(t, posted, b, <<in>>)
      BY <2>2 DEF posted
    <3>3. QED
      BY <1>3, <1>9, <3>1, <3>2, PostedTables
  <2>3. QED
    BY <1>7, <2>1, <2>2, Zenon DEF UpdateReceiver, out, in, columns, a, b
<1>11. Writing("updateReceiver", call[t])
  BY DEF Writing
<1>12. QED
  BY <1>1, <1>10, <1>11, MarkTaken
\* set_frozen, set_active and delete: on a row that is gone only for a call that has met
\* another's, or after the row has been written.
LEMMA SetColumnKept ==
  ASSUME Orderly, Truthful, NEW t \in Tasks, NEW statement \in {"setFrozen", "setActive", "remove"},
         NEW columns, \A r \in AccountRow : Overwritten(r, columns) \in AccountRow,
         SetColumn(t, statement, columns)
  PROVE  Orderly' /\ Truthful'
<1> DEFINE a == call[t].acc
           row == Overwritten(working.accounts[a], columns)
           written == [working EXCEPT !.accounts[a] = row]
<1>1. Busy(t) /\ At(t) = statement /\ Changed(t, statement)
  BY DEF SetColumn, Changed, Runs, Healthy, At
<1>2. call[t] \in Call
  BY <1>1, SeenRows
<1>3. a \in Accounts /\ working \in TablesOf(DOMAIN answers) /\ working.accounts[a] \in AccountRow
  BY <1>2 DEF Call, Orderly, Typed, TablesOf
<1>4. row \in AccountRow
  BY <1>3
<1>5. IF working.accounts[a].deleted THEN working' = working ELSE working' = Marked(t, written)
  BY DEF SetColumn
<1> HIDE DEF row
<1>6. /\ written \in TablesOf(DOMAIN answers) /\ written.keys = working.keys
      /\ written.effects = working.effects
  BY <1>3, <1>4, PutAccount DEF SameBooks
<1>7. /\ Marked(t, written) \in TablesOf(DOMAIN answers) /\ Marked(t, written).keys = working.keys
      /\ Marked(t, written).effects = working.effects \cup {number[t]}
  BY <1>1, <1>6, MarkedTables
<1>8. working.accounts[a].deleted => Writing(statement, call[t]) \/ ~Tidy(t)
  BY <1>1 DEF Truthful, FixedOf, Writing
<1> HIDE DEF written, a
<1>9. CASE working' = working
  <2>1. Writing(statement, call[t]) \/ ~Tidy(t) \/ working' = Marked(t, written)
    BY <1>5, <1>8
  <2>2. CASE Writing(statement, call[t]) \/ ~Tidy(t)
    BY <1>1, <1>3, <1>9, <2>2, MarkTaken
  <2>3. CASE working' = Marked(t, written)
    BY <1>1, <1>7, <2>3, MarkTaken
  <2>4. QED
    BY <2>1, <2>2, <2>3
<1>10. CASE working' = Marked(t, written)
  BY <1>1, <1>7, <1>10, MarkTaken
<1>11. QED
  BY <1>5, <1>9, <1>10

LEMMA ColumnsKept ==
  ASSUME Orderly, Truthful, NEW t \in Tasks, SetFrozen(t) \/ SetActive(t) \/ Deleted(t)
  PROVE  Orderly' /\ Truthful'
<1>1. /\ [frozen |-> (call[t].op = "freeze")] \in [frozen : BOOLEAN]
      /\ [deleted |-> TRUE, active |-> FALSE] \in [deleted : BOOLEAN, active : BOOLEAN]
  OBVIOUS
<1>2. CASE SetFrozen(t)
  <2>1. [frozen |-> (call[t].op = "freeze")] \in AccountWrites
    BY <1>1 DEF AccountWrites
  <2>2. QED
    BY <1>2, <2>1, OverwrittenRow, SetColumnKept DEF SetFrozen
<1>3. CASE SetActive(t)
  <2>1. ASSUME NEW r \in AccountRow, NEW cols \in [active : BOOLEAN]
        PROVE  Overwritten(r, cols) \in AccountRow
    <3> DEFINE Pick(c) == IF c \in DOMAIN cols THEN cols[c] ELSE r[c]
    <3>1. Overwritten(r, cols) =
            [balance |-> Pick("balance"), active |-> Pick("active"), frozen |-> Pick("frozen"),
             deleted |-> Pick("deleted"), profile |-> Pick("profile"), password |-> Pick("password")]
      BY DEF AccountRow, Overwritten
    <3>2. QED
      BY <2>1, <3>1 DEF AccountRow
  <2>2. [active |-> FALSE] \in [active : BOOLEAN]
    OBVIOUS
  <2>3. QED
    BY <1>3, <2>1, <2>2, SetColumnKept DEF SetActive
<1>4. CASE Deleted(t)
  <2>1. [deleted |-> TRUE, active |-> FALSE] \in AccountWrites
    BY <1>1 DEF AccountWrites
  <2>2. QED
    BY <1>4, <2>1, OverwrittenRow, SetColumnKept DEF Deleted
<1>5. QED
  BY <1>2, <1>3, <1>4
LEMMA IncrementKept ==
  ASSUME Orderly, Truthful, NEW t \in Tasks, Increment(t)
  PROVE  Orderly' /\ Truthful'
<1>1. Busy(t) /\ Changed(t, "increment")
  BY DEF Increment, Changed, Runs, Healthy
<1>2. call[t].acc \in Accounts /\ working \in TablesOf(DOMAIN answers)
  BY <1>1, SeenRows DEF Call, Orderly, Typed
<1>3. /\ working' \in TablesOf(DOMAIN answers) /\ working'.keys = working.keys
      /\ working'.effects = working.effects
  BY <1>2, PutVersion DEF Increment, BooksOf, SameBooks
<1>4. Writing("increment", call[t])
  BY DEF Writing
<1>5. QED
  BY <1>1, <1>3, <1>4, MarkTaken

\* A statement that writes a new version of the tables and marks its call.
LEMMA MarkedTaken ==
  ASSUME Orderly, Truthful, NEW t \in Tasks, NEW statement, Changed(t, statement),
         statement \in {"setPassword", "add", "dropGoal", "failure", "reset"},
         NEW T \in TablesOf(DOMAIN answers), BooksOf(T, working) \/ SameBooks(T, working),
         working' = Marked(t, T)
  PROVE  Orderly' /\ Truthful'
<1>1. Busy(t)
  BY DEF Changed, Runs, Healthy
<1>2. /\ working' \in TablesOf(DOMAIN answers) /\ working'.keys = working.keys
      /\ working'.effects = working.effects \cup {number[t]}
  BY <1>1, MarkedTables DEF BooksOf, SameBooks
<1>3. QED
  BY <1>2, MarkTaken

LEMMA SetPasswordKept ==
  ASSUME Orderly, Truthful, NEW t \in Tasks, SetPassword(t)
  PROVE  Orderly' /\ Truthful'
<1>1. Busy(t) /\ Changed(t, "setPassword")
  BY DEF SetPassword, Changed, Runs, Healthy
<1>2. call[t].value \in Int /\ working \in TablesOf(DOMAIN answers)
  BY <1>1, SeenRows DEF Call, Orderly, Typed
<1> DEFINE T == [working EXCEPT !.admin = call[t].value]
<1>3. T \in TablesOf(DOMAIN answers) /\ BooksOf(T, working)
  BY <1>2, PutAdmin
<1>4. working' = Marked(t, T)
  BY DEF SetPassword
<1> HIDE DEF T
<1>5. QED
  BY <1>1, <1>3, <1>4, MarkedTaken

\* What a registration and a new goal add to the tables.
LEMMA AddKept ==
  ASSUME Orderly, Truthful, NEW t \in Tasks, Add(t)
  PROVE  Orderly' /\ Truthful'
<1> DEFINE c == call[t]
           new == NewAccount(c.value)
           goal == CreateGoal(c.acc, c.value).writes.goal
<1>1. Busy(t) /\ At(t) = "add" /\ Changed(t, "add")
  BY DEF Add, Changed, Runs, Healthy, At
<1>2. /\ Follows(c, todo[t]) /\ c \in Call /\ c \in Calls /\ ~RefusedAtOnce(c)
      /\ working \in TablesOf(DOMAIN answers)
  BY <1>1, TheProgramFollows, SeenRows DEF Orderly, Staged, Typed
<1>3. c.op \in {"register", "createGoal"} /\ c.value \in Int /\ c.acc \in Accounts /\ c.goal \in Goals
  BY <1>1, <1>2 DEF Follows, At, Call
<1>4. CASE c.op = "register"
  <2>1. c.value \in Nat
    BY <1>2, <1>3, <1>4, CallsAssumption
  <2>2. new \in AccountRow
    BY <2>1 DEF NewAccount, AccountRow
  <2> DEFINE T == [working EXCEPT !.accounts[c.acc] = new]
  <2>3. working' = Marked(t, T)
    BY <1>4 DEF Add
  <2> HIDE DEF new
  <2>4. T \in TablesOf(DOMAIN answers) /\ SameBooks(T, working)
    BY <1>2, <1>3, <2>2, PutAccount
  <2> HIDE DEF T
  <2>5. QED
    BY <1>1, <2>3, <2>4, MarkedTaken
<1>5. CASE c.op = "createGoal"
  <2>1. c.value > 0 /\ c.acc \in Nat
    <3>1. ~(c.value <= 0)
      BY <1>2, <1>5 DEF RefusedAtOnce
    <3>2. c.acc \in Nat
      BY <1>3, AsyncAssumption
    <3>3. QED
      BY <1>3, <3>1, <3>2
  <2>2. goal = [exists |-> TRUE, owner |-> c.acc, target |-> c.value, current |-> 0,
                completed |-> FALSE]
    BY <1>3, <2>1 DEF CreateGoal, Done, NoWrites
  <2>3. goal \in OwnedGoal
    BY <1>3, <2>1, <2>2 DEF OwnedGoal
  <2> DEFINE T == [working EXCEPT !.goals[c.goal] = goal]
  <2>4. working' = Marked(t, T)
    BY <1>5 DEF Add
  <2> HIDE DEF goal
  <2>5. T \in TablesOf(DOMAIN answers) /\ BooksOf(T, working)
    BY <1>2, <1>3, <2>3, PutGoal
  <2> HIDE DEF T
  <2>6. QED
    BY <1>1, <2>4, <2>5, MarkedTaken
<1>6. QED
  BY <1>3, <1>4, <1>5

LEMMA AddToGoalKept ==
  ASSUME Orderly, Truthful, NEW t \in Tasks, AddToGoal(t)
  PROVE  Orderly' /\ Truthful'
<1> DEFINE g == call[t].goal
           old == working.goals[g]
           grown == Contribution(old, call[t].value)
           row == [old EXCEPT !.current = grown.current, !.completed = grown.completed]
<1>1. Busy(t) /\ Changed(t, "addToGoal")
  BY DEF AddToGoal, Changed, Runs, Healthy
<1>2. /\ g \in Goals /\ call[t].value \in Int /\ working \in TablesOf(DOMAIN answers)
      /\ old \in OwnedGoal
  BY <1>1, SeenRows DEF Call, Orderly, Typed, TablesOf
<1>3. row \in OwnedGoal
  <2>1. grown.current \in Int /\ grown.completed \in BOOLEAN
    BY <1>2 DEF Contribution, OwnedGoal
  <2> HIDE DEF grown
  <2>2. QED
    BY <1>2, <2>1 DEF OwnedGoal
<1>4. working' = working \/ working' = [working EXCEPT !.goals[g] = row]
  <2>1. \/ working' = working
        \/ working' = [working EXCEPT !.goals[g].current = grown.current,
                                      !.goals[g].completed = grown.completed]
    BY DEF AddToGoal
  <2> HIDE DEF grown
  <2>2. [working EXCEPT !.goals[g].current = grown.current, !.goals[g].completed = grown.completed]
          = [working EXCEPT !.goals[g] = row]
    BY <1>2 DEF TablesOf
  <2>3. QED
    BY <2>1, <2>2
<1> HIDE DEF row, g
<1>5. /\ working' \in TablesOf(DOMAIN answers) /\ working'.keys = working.keys
      /\ working'.effects = working.effects
  <2>1. CASE working' = working
    BY <1>2, <2>1
  <2>2. CASE working' = [working EXCEPT !.goals[g] = row]
    <3>1. /\ [working EXCEPT !.goals[g] = row] \in TablesOf(DOMAIN answers)
          /\ BooksOf([working EXCEPT !.goals[g] = row], working)
      BY <1>2, <1>3, PutGoal
    <3>2. QED
      BY <2>2, <3>1, Zenon DEF BooksOf, SameBooks
  <2>3. QED
    BY <1>4, <2>1, <2>2
<1>6. Writing("addToGoal", call[t])
  BY DEF Writing
<1>7. QED
  BY <1>1, <1>5, <1>6, MarkTaken

LEMMA DropGoalKept ==
  ASSUME Orderly, Truthful, NEW t \in Tasks, DropGoal(t)
  PROVE  Orderly' /\ Truthful'
<1> DEFINE g == call[t].goal
           row == [working.goals[g] EXCEPT !.exists = FALSE]
           T == [working EXCEPT !.goals[g] = row]
<1>1. Busy(t) /\ Changed(t, "dropGoal")
  BY DEF DropGoal, Changed, Runs, Healthy
<1>2. g \in Goals /\ working \in TablesOf(DOMAIN answers) /\ working.goals[g] \in OwnedGoal
  BY <1>1, SeenRows DEF Call, Orderly, Typed, TablesOf
<1>3. row \in OwnedGoal
  BY <1>2 DEF OwnedGoal
<1>4. working' = Marked(t, T)
  BY DEF DropGoal
<1> HIDE DEF row
<1>5. T \in TablesOf(DOMAIN answers) /\ BooksOf(T, working)
  BY <1>2, <1>3, PutGoal
<1> HIDE DEF T
<1>6. QED
  BY <1>1, <1>4, <1>5, MarkedTaken

LEMMA CountedRow ==
  ASSUME Orderly, NEW row \in AttemptRow
  PROVE  Counted(row) \in AttemptRow
<1>1. clock \in Nat /\ Lockout \in Nat
  BY AsyncAssumption DEF Orderly, Typed
<1>2. QED
  BY <1>1 DEF Counted, AttemptRow

LEMMA RecordFailureKept ==
  ASSUME Orderly, Truthful, NEW t \in Tasks, RecordFailure(t)
  PROVE  Orderly' /\ Truthful'
<1> DEFINE l == LoginOf(call[t])
           row == working.attempts[l]
           counted == [working EXCEPT !.attempts[l] = Counted(row)]
           first == [working EXCEPT !.attempts[l] = [exists |-> TRUE, count |-> 1, until |-> 0]]
<1>1. Busy(t) /\ Changed(t, "failure")
  BY DEF RecordFailure, Changed, Runs, Healthy
<1>2. l \in Logins /\ working \in TablesOf(DOMAIN answers) /\ row \in AttemptRow
  <2>1. l \in Logins
    BY <1>1, SeenRows DEF Call, LoginOf, Logins
  <2>2. QED
    BY <2>1 DEF Orderly, Typed, TablesOf
<1>3. counted \in TablesOf(DOMAIN answers) /\ BooksOf(counted, working)
  BY <1>2, CountedRow, PutAttempt
<1>4. first \in TablesOf(DOMAIN answers) /\ BooksOf(first, working)
  <2>1. [exists |-> TRUE, count |-> 1, until |-> 0] \in AttemptRow
    BY DEF AttemptRow
  <2>2. QED
    BY <1>2, <2>1, PutAttempt
<1>5. SameBooks(working, working)
  BY DEF SameBooks
<1>6. \/ working' = Marked(t, counted) \/ working' = Marked(t, working)
      \/ working' = Marked(t, first) \/ working' = [working EXCEPT !.doomed = TRUE]
  BY DEF RecordFailure
<1> HIDE DEF counted, first
<1>7. CASE working' = [working EXCEPT !.doomed = TRUE]
  BY <1>1, <1>2, <1>7, PutDoomed, MarkTaken
<1>8. QED
  BY <1>1, <1>2, <1>3, <1>4, <1>5, <1>6, <1>7, MarkedTaken

LEMMA ResetAttemptsKept ==
  ASSUME Orderly, Truthful, NEW t \in Tasks, ResetAttempts(t)
  PROVE  Orderly' /\ Truthful'
<1> DEFINE l == LoginOf(call[t])
           T == [working EXCEPT !.attempts[l] = NoAttempt]
<1>1. Busy(t) /\ Changed(t, "reset")
  BY DEF ResetAttempts, Changed, Runs, Healthy
<1>2. l \in Logins /\ working \in TablesOf(DOMAIN answers) /\ NoAttempt \in AttemptRow
  BY <1>1, SeenRows DEF Call, LoginOf, Logins, Orderly, Typed, NoAttempt, AttemptRow
<1>3. working' = Marked(t, T)
  BY DEF ResetAttempts
<1> HIDE DEF l
<1>4. T \in TablesOf(DOMAIN answers) /\ BooksOf(T, working)
  BY <1>2, PutAttempt
<1> HIDE DEF T
<1>5. QED
  BY <1>1, <1>3, <1>4, MarkedTaken
-------------------------------------------------------------------------------
(* Commits and failures *)

LEMMA CommitStatementKept ==
  ASSUME Orderly, Truthful, NEW t \in Tasks, Commit(t)
  PROVE  Orderly' /\ Truthful'
<1> DEFINE rest == Tail(todo[t])
<1>1. /\ Busy(t) /\ Holds(t) /\ At(t) \in {"commit", "store"} /\ ~working.doomed
      /\ UNCHANGED <<broken, clock, unsure, tangled, raced>>
      /\ stored' = working /\ working' = working /\ Continue(t, rest, seen[t], result[t])
  BY DEF Commit, CommitsIn, Runs, Healthy, At, Holds, Proceed
<1>2. /\ Follows(call[t], todo[t]) /\ seen[t] \in Rows /\ result[t] \in Says
  BY <1>1, TheProgramFollows, SeenRows DEF Orderly, Staged, Typed
<1>3. rest = <<>> \/ rest \in Tails(call[t])
  BY <1>2 DEF Follows
<1>4. /\ stored' \in TablesOf(DOMAIN answers) /\ working' \in TablesOf(DOMAIN answers)
      /\ ~stored'.doomed /\ stored'.effects \subseteq working'.effects
      /\ broken' \in BOOLEAN /\ clock' \in Nat /\ unsure' \subseteq DOMAIN answers
      /\ raced' \subseteq Accounts
  BY <1>1 DEF Orderly, Typed
<1>5. /\ At(t) = "commit" => IF call[t].key \in Keys THEN rest = <<"complete", "store">>
                             ELSE rest \in {<<>>, <<"log">>}
      /\ At(t) = "store" => rest = <<>> /\ call[t].key \in Keys
      /\ call[t].key \in Keys => call[t].op \notin SignIns
  BY <1>2 DEF Follows, At, SignIns, Movements
<1> HIDE DEF rest
<1>6. Step(t, rest, result[t]) /\ Orderly'
  BY <1>1, <1>2, <1>3, <1>4, StepTaken
<1>7. CASE At(t) = "commit"
  <2>1. Commits(t, rest, result[t])
    BY <1>1, <1>5, <1>7 DEF Commits
  <2>2. QED
    BY <1>6, <2>1, CommitKept
<1>8. CASE At(t) = "store"
  <2>1. Stores(t, result[t]) /\ rest = <<>>
    BY <1>1, <1>5, <1>8 DEF Stores
  <2>2. QED
    BY <1>6, <2>1, StoreKept
<1>9. QED
  BY <1>1, <1>7, <1>8

LEMMA LogStatementKept ==
  ASSUME Orderly, Truthful, NEW t \in Tasks, Log(t)
  PROVE  Orderly' /\ Truthful'
<1>1. /\ Busy(t) /\ Holds(t) /\ At(t) = "log" /\ ~working.doomed
      /\ UNCHANGED <<broken, clock, unsure, tangled, raced>>
      /\ working' = Logged(t) /\ stored' = Logged(t)
      /\ Continue(t, Tail(todo[t]), seen[t], result[t])
  BY DEF Log, Runs, Healthy, At, Holds, Proceed
<1>2. /\ Follows(call[t], todo[t]) /\ seen[t] \in Rows /\ result[t] \in Says
      /\ number[t] \in DOMAIN answers /\ working \in TablesOf(DOMAIN answers)
  BY <1>1, TheProgramFollows, SeenRows DEF Orderly, Staged, Typed, Numbered
<1>3. Tail(todo[t]) = <<>> /\ call[t].key = NoKey
  BY <1>1, <1>2 DEF Follows, At
<1>4. Logged(t) \in TablesOf(DOMAIN answers) /\ BooksOf(Logged(t), working)
  BY <1>2, PutAudit DEF Logged
<1>5. /\ stored' \in TablesOf(DOMAIN answers) /\ working' \in TablesOf(DOMAIN answers)
      /\ ~stored'.doomed /\ stored'.effects \subseteq working'.effects
      /\ broken' \in BOOLEAN /\ clock' \in Nat /\ unsure' \subseteq DOMAIN answers
      /\ raced' \subseteq Accounts
  BY <1>1, <1>4 DEF Orderly, Typed, BooksOf, SameBooks
<1>6. Step(t, <<>>, result[t]) /\ Orderly'
  BY <1>1, <1>2, <1>3, <1>5, StepTaken
<1>7. Audits(t, result[t])
  BY <1>1, <1>3, <1>4 DEF Audits, BooksOf
<1>8. QED
  BY <1>6, <1>7, LogKept

LEMMA DiscardKept ==
  ASSUME Orderly, Truthful, NEW t \in Tasks, NEW cause \in Causes(t), Holds(t),
         Discard(t, cause), broken' \in BOOLEAN, clock' = clock, tangled' = tangled,
         NEW say, say = (IF Handled(t) # "unhandled" THEN Handled(t) ELSE "error"),
         Finish(t, say)
  PROVE  Orderly' /\ Truthful'
<1>1. Busy(t) /\ Continue(t, <<>>, NoRows, say)
  BY DEF Holds, Continue
<1>2. /\ Follows(call[t], todo[t]) /\ NoRows \in Rows /\ result[t] \in Says
      /\ number[t] \in DOMAIN answers /\ working \in TablesOf(DOMAIN answers)
      /\ stored \in TablesOf(DOMAIN answers) /\ ~stored.doomed
  BY <1>1, TheProgramFollows, SeenRows DEF Orderly, Staged, Typed, Numbered
<1>3. \/ At(t) = "insert" /\ say = "storage_error"
      \/ At(t) \in Recording /\ say = result[t]
      \/ At(t) \in {"update", "updateReceiver", "commit"} /\ say = "failed"
      \/ say = "error"
  BY DEF Handled, At, Recording
<1>4. say \in Says
  BY <1>2, <1>3 DEF Says, Refusals
<1>5. /\ working' = stored'
      /\ \/ stored' = stored /\ unsure' = unsure
         \/ /\ SameBooks(stored', working) /\ ~working.doomed /\ stored' \in TablesOf(DOMAIN answers)
            /\ unsure' = unsure \cup {number[t]} /\ At(t) \in {"commit", "store", "log"}
  <2>1. /\ working' = stored'
        /\ \/ stored' = stored /\ unsure' = unsure
           \/ /\ cause = "fault" /\ At(t) \in {"commit", "store", "log"}
              /\ stored' = Logged(t) \/ stored' = working
              /\ unsure' = unsure \cup {number[t]}
    BY DEF Discard, At, CommitsIn
  <2>2. cause = "fault" => ~working.doomed
    BY DEF Causes
  <2>3. /\ Logged(t) \in TablesOf(DOMAIN answers) /\ SameBooks(Logged(t), working)
        /\ SameBooks(working, working)
    BY <1>2, PutAudit DEF Logged, BooksOf, SameBooks
  <2>4. QED
    BY <1>2, <2>1, <2>2, <2>3
<1>6. /\ stored' \in TablesOf(DOMAIN answers) /\ working' \in TablesOf(DOMAIN answers)
      /\ ~stored'.doomed /\ stored'.effects \subseteq working'.effects
      /\ clock' \in Nat /\ unsure' \subseteq DOMAIN answers /\ raced' \subseteq Accounts
  <2>1. raced' = raced \cup Bystanders(t) /\ Bystanders(t) \subseteq Accounts
    BY BystandersAreAccounts DEF Discard
  <2>2. QED
    BY <1>2, <1>5, <2>1 DEF Orderly, Typed, SameBooks
<1>7. Step(t, <<>>, say) /\ Orderly'
  BY <1>1, <1>2, <1>4, <1>6, StepTaken
<1>8. Loses(t, say)
  <2>1. /\ At(t) \in Recording => call[t].key \in Keys /\ call[t].op \notin SignIns
        /\ At(t) = "log" => call[t].key = NoKey
        /\ call[t].key \in Keys => call[t].op \notin SignIns
    BY <1>2 DEF Follows, At, Recording, SignIns, Movements
  <2>2. call[t].key \in Keys => result[t] = "done" \/ At(t) # "commit"
    BY <1>1, <2>1 DEF Truthful, PreparedOf, Recording
  <2>3. "error" \notin Refusals
    BY DEF Refusals
  <2>4. QED
    BY <1>3, <1>5, <2>1, <2>2, <2>3 DEF Loses
<1>9. QED
  BY <1>7, <1>8, LoseKept

LEMMA FailKept ==
  ASSUME Orderly, Truthful, NEW t \in Tasks, NEW cause \in Causes(t), Fail(t, cause)
  PROVE  Orderly' /\ Truthful'
<1>1. Holds(t) /\ Busy(t) /\ clock' = clock /\ tangled' = tangled /\ NoRows \in Rows
  BY SeenRows DEF Fail, Holds
<1>2. CASE Handled(t) # "unhandled"
  <2>1. Discard(t, cause) /\ broken' \in BOOLEAN /\ Finish(t, Handled(t))
    BY <1>2 DEF Fail
  <2>2. QED
    BY <1>1, <1>2, <2>1, DiscardKept
<1>3. CASE Handled(t) = "unhandled" /\ cause # "refused"
  <2>1. Discard(t, cause) /\ broken' \in BOOLEAN /\ Finish(t, "error")
    BY <1>3 DEF Fail
  <2>2. QED
    BY <1>1, <1>3, <2>1, DiscardKept
<1>4. CASE Handled(t) = "unhandled" /\ cause = "refused"
  <2>1. UNCHANGED <<stored, working, broken, unsure, raced>> /\ Continue(t, <<>>, NoRows, "error")
    BY <1>4 DEF Fail, Continue
  <2>2. "error" \in Says
    BY DEF Says
  <2>3. Step(t, <<>>, "error") /\ Orderly'
    BY <1>1, <2>1, <2>2, StepTaken DEF Orderly, Typed
  <2>4. ~Tidy(t)
    <3>1. PICK u \in Others(t) : TRUE
      BY <1>4 DEF Causes
    <3>2. QED
      BY <1>1, <3>1, AloneHolder DEF Others
  <2>5. Yields(t, "error")
    BY <2>1, <2>4 DEF Yields
  <2>6. QED
    BY <2>3, <2>5, YieldKept
<1>5. QED
  BY <1>2, <1>3, <1>4
-------------------------------------------------------------------------------
(* Locks, new calls, crashes *)

\* A step of the lock changes neither tables nor answers.
LEMMA LockKept ==
  ASSUME Orderly, Truthful, NEW t \in Tasks, Lock(t)
  PROVE  Orderly' /\ Truthful'
<1> DEFINE rest == Tail(todo[t])
<1>1. /\ Busy(t) /\ At(t) = "lock" /\ Continue(t, rest, seen[t], result[t])
      /\ UNCHANGED <<stored, working, broken, clock, unsure, tangled, raced>>
      /\ \A u \in Tasks : Holds(u) => LockOf(call[u]) # LockOf(call[t])
  BY DEF Lock, At, Proceed
<1>2. Follows(call[t], todo[t]) /\ seen[t] \in Rows /\ result[t] \in Says
  BY <1>1, TheProgramFollows, SeenRows DEF Orderly, Staged, Typed
<1>3. /\ rest # <<>> /\ rest \in Tails(call[t]) /\ call[t].op \in Movements
      /\ Head(rest) = IF call[t].key \in Keys THEN "claim" ELSE "account"
  BY <1>1, <1>2 DEF Follows, At
<1> HIDE DEF rest
<1>4. Stepped(t, rest, result[t]) /\ Typed'
  BY <1>1, <1>2, TypedStep DEF Orderly, Typed
<1>5. Orderly'
  BY <1>1, <1>2, <1>3, <1>4, TasksKept DEF Orderly
<1>6. /\ call' = call /\ number' = number /\ answers' = answers
      /\ \A u \in Tasks : u # t => todo'[u] = todo[u]
      /\ \A u \in Tasks : result'[u] = result[u]
      /\ todo'[t] = rest
  BY <1>3, <1>4 DEF Stepped, Orderly, Typed
<1>7. /\ \A u \in Tasks : u # t => (Busy(u)' <=> Busy(u)) /\ At(u)' = At(u)
      /\ Busy(t)' /\ At(t)' = Head(rest)
      /\ \A u \in Tasks : Tidy(u)' <=> Tidy(u)
  BY <1>1, <1>3, <1>6 DEF Busy, At, Tidy
<1>8. ASSUME NEW u \in Tasks PROVE ProgressOf(u)' /\ PreparedOf(u)' /\ FixedOf(u)'
  <2>1. ProgressOf(u) /\ PreparedOf(u) /\ FixedOf(u)
    BY DEF Truthful
  <2>2. CASE u # t
    BY <1>1, <1>6, <1>7, <2>1, <2>2 DEF ProgressOf, PreparedOf, FixedOf, Nowhere
  <2>3. CASE u = t
    <3>1. Tidy(t) => Nowhere(number[t])
      BY <1>1, <2>1, <2>3 DEF ProgressOf, Writing, Recording
    <3>2. result[t] = "done"
      BY <1>1, <1>3, <2>1, <2>3 DEF PreparedOf, Recording, SignIns, Movements
    <3>3. QED
      BY <1>1, <1>3, <1>6, <1>7, <2>3, <3>1, <3>2
      DEF ProgressOf, PreparedOf, FixedOf, Nowhere, Writing, Recording
  <2>4. QED
    BY <2>2, <2>3
<1>9. \A n \in DOMAIN answers : ToldOf(n)' /\ KeyToldOf(n)'
  BY <1>1, <1>6 DEF Truthful, ToldOf, KeyToldOf, KeyOf, Nowhere, Calm, Moved
<1>10. ASSUME NEW k \in Keys PROVE ClaimsOf(k)'
  <2>1. ClaimsOf(k)
    BY DEF Truthful
  <2>2. /\ Calm(k)' <=> Calm(k)
        /\ Moved(stored, k)' = Moved(stored, k) /\ Moved(working, k)' = Moved(working, k)
    BY <1>1, <1>6 DEF Calm, Moved, KeyOf
  <2>3. (Recorded(k)' <=> Recorded(k)) /\ (Agreed(k)' <=> Agreed(k))
    BY <1>1, <2>2 DEF Recorded, Agreed
  <2>4. ~Claimant(t, k) /\ ~Claimant(t, k)'
    BY <1>1, <1>3, <1>6, <1>7 DEF Claimant, Unclaimed
  <2>5. ASSUME NEW u \in Tasks, u # t
        PROVE  (Claimant(u, k)' <=> Claimant(u, k)) /\ (Claimed(u, k)' <=> Claimed(u, k))
    BY <1>1, <1>6, <1>7, <2>2, <2>5 DEF Claimant, Claimed
  <2>6. QED
    BY <2>1, <2>2, <2>3, <2>4, <2>5 DEF ClaimsOf
<1>11. QED
  BY <1>5, <1>6, <1>8, <1>9, <1>10 DEF Truthful

LEMMA TablesGrow ==
  ASSUME NEW S, NEW R, S \subseteq R, NEW T \in TablesOf(S)
  PROVE  T \in TablesOf(R)
BY DEF TablesOf

\* The new call gets a number no row has.
LEMMA AnswersGrow ==
  ASSUME Typed, NEW e \in [call : Calls, say : Says], answers' = Append(answers, e)
  PROVE  /\ answers' \in Seq([call : Calls, say : Says])
         /\ DOMAIN answers' = DOMAIN answers \cup {Len(answers) + 1}
         /\ Len(answers) + 1 \notin DOMAIN answers /\ Len(answers) \in Nat
         /\ \A n \in DOMAIN answers : answers'[n] = answers[n]
         /\ answers'[Len(answers) + 1] = e
<1> DEFINE A == [call : Calls, say : Says]
<1>1. answers \in Seq(A)
  BY DEF Typed
<1>2. Len(answers) \in Nat /\ DOMAIN answers = 1 .. Len(answers)
  BY <1>1, LenProperties
<1> HIDE DEF A
<1>3. /\ answers' \in Seq(A) /\ Len(answers') = Len(answers) + 1
      /\ \A i \in 1 .. Len(answers) : answers'[i] = answers[i]
      /\ answers'[Len(answers) + 1] = e
  BY <1>1, AppendProperties DEF A
<1>4. DOMAIN answers' = 1 .. (Len(answers) + 1)
  BY <1>3, LenProperties
<1>5. QED
  BY <1>2, <1>3, <1>4 DEF A

Arrives(t, c) ==
    /\ todo' = [todo EXCEPT ![t] = Program(c)] /\ call' = [call EXCEPT ![t] = c]
    /\ number' = [number EXCEPT ![t] = Len(answers) + 1]
    /\ result' = [result EXCEPT ![t] = "done"] /\ seen' = seen

\* What a new call leaves of the others; it is either refused at once or the task's.
Grows(t, c) ==
    /\ ~Busy(t) /\ c \in Calls
    /\ UNCHANGED <<stored, working, unsure>>
    /\ tangled \subseteq tangled'
    /\ DOMAIN answers' = DOMAIN answers \cup {Len(answers) + 1}
    /\ Len(answers) + 1 \notin DOMAIN answers
    /\ \A n \in DOMAIN answers : answers'[n] = answers[n]
    /\ answers'[Len(answers) + 1].call = c
    /\ answers'[Len(answers) + 1].say = IF RefusedAtOnce(c) THEN "refused" ELSE "none"
    /\ IF RefusedAtOnce(c) THEN UNCHANGED <<todo, locals>> ELSE Arrives(t, c)

LEMMA OwnersAreAccounts ==
  ASSUME Orderly, NEW g \in Goals
  PROVE  GoalOwners(g) \subseteq Accounts
<1>1. working.goals[g].owner \in Accounts \cup {0}
  BY DEF Orderly, Typed, TablesOf, OwnedGoal
<1>2. ASSUME NEW u \in Tasks, Uses(u, g) PROVE call[u].acc \in Accounts
  BY <1>2, SeenRows DEF Uses, Call
<1>3. QED
  BY <1>1, <1>2 DEF GoalOwners

LEMMA SubmitGrows ==
  ASSUME Orderly, NEW t \in Tasks, NEW c \in Calls, Submit(t, c)
  PROVE  Grows(t, c) /\ Typed'
<1> DEFINE n == Len(answers) + 1
           met == {u \in Tasks : Busy(u) /\ ~Serialized(call[u], c)}
           e == [call |-> c, say |-> IF RefusedAtOnce(c) THEN "refused" ELSE "none"]
<1>1. e \in [call : Calls, say : Says] /\ answers' = Append(answers, e)
  BY DEF Submit, Says
<1> HIDE DEF e
<1>2. /\ answers' \in Seq([call : Calls, say : Says])
      /\ DOMAIN answers' = DOMAIN answers \cup {n} /\ n \notin DOMAIN answers /\ n \in Nat
      /\ \A m \in DOMAIN answers : answers'[m] = answers[m]
      /\ answers'[n] = e
  <2>1. Typed
    BY DEF Orderly
  <2>2. /\ answers' \in Seq([call : Calls, say : Says])
        /\ DOMAIN answers' = DOMAIN answers \cup {Len(answers) + 1}
        /\ Len(answers) + 1 \notin DOMAIN answers /\ Len(answers) \in Nat
        /\ \A m \in DOMAIN answers : answers'[m] = answers[m]
        /\ answers'[Len(answers) + 1] = e
    BY <1>1, <2>1, AnswersGrow, Zenon
  <2>3. QED
    BY <2>2
<1>3. /\ ~Busy(t) /\ UNCHANGED <<stored, working, broken, clock, unsure>>
      /\ tangled' = (IF met = {} THEN tangled ELSE tangled \cup {n} \cup {number[u] : u \in met})
      /\ IF RefusedAtOnce(c) THEN UNCHANGED <<todo, locals>> ELSE Arrives(t, c)
  BY DEF Submit, Arrives
<1> HIDE DEF n
<1>4. Grows(t, c)
  BY <1>2, <1>3 DEF Grows, e, n
<1>5. \A u \in met : number[u] \in DOMAIN answers /\ Touched(call[u]) \subseteq Accounts
  <2>1. ASSUME NEW u \in met PROVE number[u] \in DOMAIN answers /\ Touched(call[u]) \subseteq Accounts
    <3>1. u \in Tasks /\ Busy(u)
      OBVIOUS
    <3>2. number[u] \in DOMAIN answers /\ call[u] \in Call
      BY <3>1, SeenRows DEF Orderly, Numbered
    <3>3. QED
      BY <3>2 DEF Touched, Call
  <2>2. QED
    BY <2>1
<1>6. tangled' \subseteq DOMAIN answers'
  BY <1>2, <1>3, <1>5 DEF Orderly, Typed
<1>7. raced' \subseteq Accounts
  <2>1. c \in Call /\ Touched(c) \subseteq Accounts
    BY CallsAssumption DEF Call, Touched
  <2>2. \A d : Torn(d) \subseteq Touched(d)
    BY DEF Torn
  <2>3. raced' = raced \cup Mixed(c) \cup (IF met = {} THEN {} ELSE Torn(c))
                  \cup UNION {(Touched(c) \cap Touched(call[u])) \cup Torn(call[u]) : u \in met}
    BY DEF Submit
  <2>4. raced \subseteq Accounts
    BY DEF Orderly, Typed
  <2> HIDE DEF met
  <2>5. ASSUME NEW u \in met
        PROVE  (Touched(c) \cap Touched(call[u])) \cup Torn(call[u]) \subseteq Accounts
    BY <1>5, <2>1, <2>2
  <2>6. UNION {(Touched(c) \cap Touched(call[u])) \cup Torn(call[u]) : u \in met} \subseteq Accounts
    BY <2>5
  <2>7. (IF met = {} THEN {} ELSE Torn(c)) \subseteq Accounts
    BY <2>1, <2>2
  <2> DEFINE crossed == UNION {(Touched(c) \cap Touched(call[u])) \cup Torn(call[u]) : u \in met}
             torn == IF met = {} THEN {} ELSE Torn(c)
  <2>8. raced' = raced \cup Mixed(c) \cup torn \cup crossed
    BY <2>3
  <2>9. crossed \subseteq Accounts /\ torn \subseteq Accounts
    BY <2>6, <2>7
  <2> HIDE DEF crossed, torn
  <2>10. Mixed(c) \subseteq Accounts
    BY <2>1, OwnersAreAccounts DEF Mixed, Call
  <2>11. QED
    BY <2>4, <2>8, <2>9, <2>10
<1>8. /\ stored' \in TablesOf(DOMAIN answers') /\ working' \in TablesOf(DOMAIN answers')
      /\ unsure' \subseteq DOMAIN answers'
  BY <1>2, <1>3, TablesGrow DEF Orderly, Typed
<1>9. /\ DOMAIN todo' = Tasks /\ DOMAIN call' = Tasks /\ number' \in [Tasks -> Nat]
      /\ result' \in [Tasks -> Says] /\ seen' = seen
  <2>1. "done" \in Says
    BY DEF Says
  <2>2. CASE RefusedAtOnce(c)
    BY <1>3, <2>2 DEF Orderly, Typed, locals
  <2>3. CASE ~RefusedAtOnce(c)
    BY <1>2, <1>3, <2>1, <2>3 DEF Orderly, Typed, Arrives, n
  <2>4. QED
    BY <2>2, <2>3
<1>10. QED
  BY <1>2, <1>3, <1>4, <1>6, <1>7, <1>8, <1>9 DEF Orderly, Typed
\* The tasks after a call has come.
LEMMA TasksAfter ==
  ASSUME Orderly, NEW t \in Tasks, NEW c, Grows(t, c)
  PROVE  /\ \A u \in Tasks : u # t => /\ todo'[u] = todo[u] /\ call'[u] = call[u]
                                      /\ number'[u] = number[u] /\ result'[u] = result[u]
         /\ RefusedAtOnce(c) => ~Busy(t)'
         /\ ~RefusedAtOnce(c) => /\ todo'[t] = Program(c) /\ call'[t] = c /\ Busy(t)'
                                 /\ number'[t] = Len(answers) + 1 /\ result'[t] = "done"
         /\ \A u \in Tasks : u # t => (Busy(u)' <=> Busy(u)) /\ At(u)' = At(u)
         /\ Program(c) \in Tails(c) /\ Program(c) # <<>>
         /\ Head(Program(c)) \in {"lock", "account", "goal", "add", "isLocked", "admin"}
         /\ LockOf(c) # {} => Head(Program(c)) = "lock"
<1>1. /\ DOMAIN todo = Tasks /\ DOMAIN call = Tasks /\ number \in [Tasks -> Nat]
      /\ result \in [Tasks -> Says]
  BY DEF Orderly, Typed
<1>2. /\ Program(c) \in Tails(c) /\ Program(c) # <<>>
      /\ Head(Program(c)) \in {"lock", "account", "goal", "add", "isLocked", "admin"}
      /\ LockOf(c) # {} => Head(Program(c)) = "lock"
  BY ProgramIs DEF Grows
<1>3. CASE RefusedAtOnce(c)
  BY <1>2, <1>3 DEF Grows, locals, Busy, At
<1>4. CASE ~RefusedAtOnce(c)
  <2>1. /\ \A u \in Tasks : u # t => /\ todo'[u] = todo[u] /\ call'[u] = call[u]
                                     /\ number'[u] = number[u] /\ result'[u] = result[u]
        /\ todo'[t] = Program(c) /\ call'[t] = c
        /\ number'[t] = Len(answers) + 1 /\ result'[t] = "done"
    BY <1>1, <1>4 DEF Grows, Arrives
  <2>2. QED
    BY <1>2, <1>4, <2>1 DEF Busy, At
<1>5. QED
  BY <1>3, <1>4

LEMMA SubmitOrderly ==
  ASSUME Orderly, NEW t \in Tasks, NEW c \in Calls, Submit(t, c)
  PROVE  Orderly'
<1> DEFINE n == Len(answers) + 1
<1>1. Grows(t, c) /\ Typed'
  BY SubmitGrows
<1>2. /\ \A u \in Tasks : u # t => /\ todo'[u] = todo[u] /\ call'[u] = call[u]
                                   /\ number'[u] = number[u] /\ (Busy(u)' <=> Busy(u))
      /\ Busy(t)' => /\ ~RefusedAtOnce(c) /\ todo'[t] = Program(c) /\ call'[t] = c
                     /\ number'[t] = n
      /\ Program(c) \in Tails(c)
      /\ LockOf(c) # {} => Head(Program(c)) = "lock"
  BY <1>1, TasksAfter
<1>3. /\ n \notin DOMAIN answers /\ DOMAIN answers' = DOMAIN answers \cup {n}
      /\ \A m \in DOMAIN answers : answers'[m] = answers[m]
      /\ answers'[n].call = c /\ answers'[n].say = IF RefusedAtOnce(c) THEN "refused" ELSE "none"
      /\ ~Busy(t)
  BY <1>1 DEF Grows
<1> HIDE DEF n
<1>4. \A u \in Tasks : Busy(u) => number[u] \in DOMAIN answers /\ u # t
  BY <1>3 DEF Orderly, Numbered
<1>5. Staged'
  <2>1. ASSUME NEW u \in Tasks, Busy(u)'
        PROVE  todo'[u] \in Tails(call'[u]) /\ call'[u] \in Calls /\ ~RefusedAtOnce(call'[u])
    <3>1. CASE u = t
      BY <1>2, <2>1, <3>1
    <3>2. CASE u # t
      BY <1>2, <2>1, <3>2 DEF Orderly, Staged
    <3>3. QED
      BY <3>1, <3>2
  <2>2. QED
    BY <2>1 DEF Staged
<1>6. Numbered'
  <2>1. ASSUME NEW u \in Tasks, Busy(u)'
        PROVE  /\ number'[u] \in DOMAIN answers'
               /\ answers'[number'[u]].call = call'[u] /\ answers'[number'[u]].say = "none"
    <3>1. CASE u = t
      BY <1>2, <1>3, <2>1, <3>1
    <3>2. CASE u # t
      BY <1>2, <1>3, <1>4, <2>1, <3>2 DEF Orderly, Numbered
    <3>3. QED
      BY <3>1, <3>2
  <2>2. ASSUME NEW u \in Tasks, NEW v \in Tasks, u # v, Busy(u)', Busy(v)'
        PROVE  number'[u] # number'[v]
    <3>1. CASE u # t /\ v # t
      BY <1>2, <2>2, <3>1 DEF Orderly, Numbered
    <3>2. CASE u = t
      BY <1>2, <1>3, <1>4, <2>2, <3>2
    <3>3. CASE v = t
      BY <1>2, <1>3, <1>4, <2>2, <3>3
    <3>4. QED
      BY <3>1, <3>2, <3>3
  <2>3. QED
    BY <2>1, <2>2 DEF Numbered
<1>7. Exclusive'
  <2>1. \A u \in Tasks : u # t => (Holds(u)' <=> Holds(u))
    BY <1>2 DEF Holds
  <2>2. Holds(t)' => LockOf(call'[t]) = {}
    BY <1>2 DEF Holds
  <2>3. ASSUME NEW u \in Tasks, NEW v \in Tasks, u # v, Holds(u)', Holds(v)', LockOf(call'[u]) # {}
        PROVE  LockOf(call'[u]) # LockOf(call'[v])
    <3>1. u # t
      BY <2>2, <2>3
    <3>2. CASE v = t
      BY <2>2, <2>3, <3>2
    <3>3. CASE v # t
      BY <1>2, <2>1, <2>3, <3>1, <3>3 DEF Orderly, Exclusive
    <3>4. QED
      BY <3>2, <3>3
  <2>4. QED
    BY <2>3 DEF Exclusive
<1>8. Tangles'
  <2>1. \A u \in Tasks : Busy(u) /\ ~Serialized(call[u], c) =>
          n \in tangled' /\ number[u] \in tangled'
    <3> DEFINE met == {u \in Tasks : Busy(u) /\ ~Serialized(call[u], c)}
    <3>1. tangled' = (IF met = {} THEN tangled ELSE tangled \cup {n} \cup {number[u] : u \in met})
      BY DEF Submit, n
    <3>2. \A u \in met : n \in tangled' /\ number[u] \in tangled'
      BY <3>1
    <3>3. QED
      BY <3>2
  <2>2. \A d \in Calls : Serialized(c, d) <=> Serialized(d, c)
    BY DEF Serialized
  <2>3. tangled \subseteq tangled'
    BY <1>1 DEF Grows
  <2>4. ASSUME NEW u \in Tasks, NEW v \in Tasks, u # v, Busy(u)', Busy(v)',
               ~Serialized(call'[u], call'[v])
        PROVE  number'[u] \in tangled' /\ number'[v] \in tangled'
    <3>1. CASE u # t /\ v # t
      BY <1>2, <2>3, <2>4, <3>1 DEF Orderly, Tangles
    <3>2. CASE u = t
      <4>1. Busy(v) /\ call[v] \in Calls /\ v # t
        BY <1>2, <2>4, <3>2 DEF Orderly, Staged
      <4>2. QED
        BY <1>2, <2>1, <2>2, <2>4, <3>2, <4>1
    <3>3. CASE v = t
      <4>1. Busy(u) /\ u # t
        BY <1>2, <2>4, <3>3
      <4>2. QED
        BY <1>2, <2>1, <2>4, <3>3, <4>1
    <3>4. QED
      BY <3>1, <3>2, <3>3
  <2>5. QED
    BY <2>4 DEF Tangles
<1>9. QED
  BY <1>1, <1>5, <1>6, <1>7, <1>8 DEF Orderly

LEMMA SubmitTruthful ==
  ASSUME Orderly, Truthful, NEW t \in Tasks, NEW c, Grows(t, c)
  PROVE  Truthful'
<1> DEFINE n == Len(answers) + 1
<1>1. /\ \A u \in Tasks : u # t => /\ todo'[u] = todo[u] /\ call'[u] = call[u]
                                   /\ number'[u] = number[u] /\ (Busy(u)' <=> Busy(u))
                                   /\ result'[u] = result[u] /\ At(u)' = At(u)
      /\ Busy(t)' => /\ ~RefusedAtOnce(c) /\ todo'[t] = Program(c) /\ call'[t] = c
                     /\ number'[t] = n /\ result'[t] = "done"
      /\ Head(Program(c)) \in {"lock", "account", "goal", "add", "isLocked", "admin"}
      /\ LockOf(c) # {} => Head(Program(c)) = "lock"
  BY TasksAfter
<1>2. /\ n \notin DOMAIN answers /\ DOMAIN answers' = DOMAIN answers \cup {n}
      /\ \A m \in DOMAIN answers : answers'[m] = answers[m]
      /\ answers'[n].say \in {"refused", "none"}
      /\ ~Busy(t) /\ stored' = stored /\ working' = working /\ unsure' = unsure
      /\ tangled \subseteq tangled' /\ c \in Calls
  BY DEF Grows
<1>3. /\ stored.effects \subseteq DOMAIN answers /\ working.effects \subseteq DOMAIN answers
  BY DEF Orderly, Typed, TablesOf
<1> HIDE DEF n
<1>4. ASSUME NEW u \in Tasks PROVE ProgressOf(u)' /\ PreparedOf(u)' /\ FixedOf(u)'
  <2>1. CASE u # t
    <3>1. ProgressOf(u) /\ PreparedOf(u) /\ FixedOf(u)
      BY DEF Truthful
    <3>2. Tidy(u)' => Tidy(u)
      BY <1>1, <1>2, <2>1 DEF Tidy
    <3>3. QED
      BY <1>1, <1>2, <2>1, <3>1, <3>2 DEF ProgressOf, PreparedOf, FixedOf, Nowhere
  <2>2. CASE u = t /\ Busy(t)'
    <3>1. At(t)' \in {"lock", "account", "goal", "add", "isLocked", "admin"}
      BY <1>1, <2>2 DEF At
    <3>2. n \notin stored'.effects /\ n \notin working'.effects
      BY <1>2, <1>3
    <3>3. Nowhere(number[t])'
      BY <1>1, <2>2, <3>2 DEF Nowhere
    <3>4. QED
      BY <1>1, <2>2, <3>1, <3>3 DEF ProgressOf, PreparedOf, FixedOf, Writing, Recording
  <2>3. CASE u = t /\ ~Busy(t)'
    BY <2>3 DEF ProgressOf, PreparedOf, FixedOf, Tidy
  <2>4. QED
    BY <2>1, <2>2, <2>3
<1>5. /\ \A m \in DOMAIN answers : KeyOf(m)' = KeyOf(m)
      /\ \A k : Calm(k)' => Calm(k)
      /\ \A k : Moved(stored, k)' = Moved(stored, k) /\ Moved(working, k)' = Moved(working, k)
  <2>1. \A m \in DOMAIN answers : KeyOf(m)' = KeyOf(m)
    BY <1>2 DEF KeyOf
  <2>2. ASSUME NEW k, Calm(k)' PROVE Calm(k)
    BY <1>2, <2>1, <2>2 DEF Calm
  <2>3. \A k : Moved(stored, k)' = Moved(stored, k) /\ Moved(working, k)' = Moved(working, k)
    BY <1>2, <1>3, <2>1 DEF Moved
  <2>4. QED
    BY <2>1, <2>2, <2>3
<1>6. ASSUME NEW m \in DOMAIN answers' PROVE ToldOf(m)' /\ KeyToldOf(m)'
  <2>1. CASE m \in DOMAIN answers
    <3>1. ToldOf(m) /\ KeyToldOf(m)
      BY <2>1 DEF Truthful
    <3>2. ToldOf(m)'
      BY <1>2, <1>5, <2>1, <3>1 DEF ToldOf, Nowhere
    <3>3. KeyToldOf(m)'
      BY <1>2, <1>5, <2>1, <3>1 DEF KeyToldOf
    <3>4. QED
      BY <3>2, <3>3
  <2>2. CASE m = n
    BY <1>2, <2>2 DEF ToldOf, KeyToldOf, Refusals
  <2>3. QED
    BY <1>2, <2>1, <2>2
<1>7. ASSUME NEW k \in Keys PROVE ClaimsOf(k)'
  <2>1. SUFFICES ASSUME Calm(k)' PROVE ClaimsOf(k)'
    BY DEF ClaimsOf
  <2>2. Calm(k) /\ ClaimsOf(k)
    BY <1>5, <2>1 DEF Truthful
  <2>3. Recorded(k)' <=> Recorded(k)
    BY <1>2, <1>5 DEF Recorded
  <2>4. Agreed(k)' <=> Agreed(k)
    BY <1>2, <1>5 DEF Agreed
  <2>5. ~Claimant(t, k) /\ ~Claimant(t, k)'
    <3>1. ~Claimant(t, k)
      BY <1>2 DEF Claimant
    <3>2. ASSUME Busy(t)', call'[t].key = k PROVE At(t)' = "lock"
      <4>1. c.op \in Movements
        BY <1>1, <1>2, <3>2, CallsAssumption, AsyncAssumption
      <4>2. LockOf(c) # {}
        BY <4>1 DEF LockOf
      <4>3. QED
        BY <1>1, <3>2, <4>2 DEF At
    <3>3. QED
      BY <3>1, <3>2 DEF Claimant, Unclaimed
  <2>6. ASSUME NEW u \in Tasks, u # t
        PROVE  (Claimant(u, k)' <=> Claimant(u, k)) /\ (Claimed(u, k)' <=> Claimed(u, k))
    BY <1>1, <1>2, <1>5, <2>6 DEF Claimant, Claimed
  <2>7. QED
    BY <2>2, <2>3, <2>4, <2>5, <2>6 DEF ClaimsOf
<1>8. QED
  BY <1>4, <1>6, <1>7 DEF Truthful
\* What is pending is lost with the process, and with it every task.
LEMMA CrashKept ==
  ASSUME Orderly, Truthful, Crash
  PROVE  Orderly' /\ Truthful'
<1>1. /\ stored' = stored /\ working' = stored /\ broken' = FALSE /\ clock' = clock
      /\ call' = call /\ number' = number /\ answers' = answers /\ unsure' = unsure
      /\ tangled' = tangled /\ raced' = raced
      /\ todo' = [t \in Tasks |-> <<>>] /\ seen' = [t \in Tasks |-> NoRows]
      /\ result' = [t \in Tasks |-> "none"]
  BY DEF Crash, history
<1>2. \A t \in Tasks : ~Busy(t)'
  BY <1>1 DEF Busy
<1>3. Orderly'
  <2>1. "none" \in Says
    BY DEF Says
  <2>2. Typed'
    BY <1>1, <2>1 DEF Orderly, Typed
  <2>3. QED
    BY <1>2, <2>2 DEF Orderly, Staged, Numbered, Exclusive, Tangles, Holds
<1>4. \A t \in Tasks : ProgressOf(t)' /\ PreparedOf(t)' /\ FixedOf(t)'
  BY <1>2 DEF ProgressOf, PreparedOf, FixedOf, Tidy
<1>5. /\ \A n \in DOMAIN answers : KeyOf(n)' = KeyOf(n)
      /\ \A k : Calm(k)' <=> Calm(k)
      /\ \A k : Moved(stored, k)' = Moved(stored, k) /\ Moved(working, k)' = Moved(stored, k)
  BY <1>1 DEF KeyOf, Calm, Moved
<1>6. \A n \in DOMAIN answers : ToldOf(n)' /\ KeyToldOf(n)'
  <2>1. ASSUME NEW n \in DOMAIN answers PROVE ToldOf(n)' /\ KeyToldOf(n)'
    <3>1. ToldOf(n) /\ KeyToldOf(n)
      BY DEF Truthful
    <3>2. ToldOf(n)'
      BY <1>1, <1>5, <3>1 DEF ToldOf, Nowhere
    <3>3. KeyToldOf(n)'
      BY <1>1, <1>5, <3>1 DEF KeyToldOf
    <3>4. QED
      BY <3>2, <3>3
  <2>2. QED
    BY <2>1
<1>7. ASSUME NEW k \in Keys PROVE ClaimsOf(k)'
  <2>1. Calm(k) => Recorded(k)
    BY DEF Truthful, ClaimsOf
  <2>2. \A t \in Tasks : ~Claimant(t, k)'
    BY <1>2 DEF Claimant
  <2>3. (Recorded(k)' <=> Recorded(k)) /\ Agreed(k)'
    BY <1>1, <1>5 DEF Recorded, Agreed
  <2>4. QED
    BY <1>5, <2>1, <2>2, <2>3 DEF ClaimsOf
<1>8. QED
  BY <1>1, <1>3, <1>4, <1>6, <1>7 DEF Truthful

LEMMA ClockKept ==
  ASSUME Orderly, Truthful, clock' \in Nat,
         UNCHANGED <<stored, working, broken, todo, locals, history>>
  PROVE  Orderly' /\ Truthful'
<1>1. /\ stored' = stored /\ working' = working /\ broken' = broken /\ todo' = todo
      /\ call' = call /\ number' = number /\ answers' = answers /\ unsure' = unsure
      /\ tangled' = tangled /\ raced' = raced /\ seen' = seen /\ result' = result
  BY DEF locals, history
<1>2. Orderly'
  BY <1>1 DEF Orderly, Typed, Staged, Numbered, Exclusive, Tangles, Busy, Holds
<1>3. \A t \in Tasks : ProgressOf(t)' /\ PreparedOf(t)' /\ FixedOf(t)'
  BY <1>1 DEF Truthful, ProgressOf, PreparedOf, FixedOf, Tidy, Busy, At, Nowhere
<1>4. \A n \in DOMAIN answers : ToldOf(n)' /\ KeyToldOf(n)'
  BY <1>1 DEF Truthful, ToldOf, KeyToldOf, Nowhere, KeyOf, Calm, Moved
<1>5. ASSUME NEW k \in Keys PROVE ClaimsOf(k)'
  <2>1. /\ Calm(k)' <=> Calm(k)
        /\ Moved(stored, k)' = Moved(stored, k) /\ Moved(working, k)' = Moved(working, k)
    BY <1>1 DEF Calm, Moved, KeyOf
  <2>2. (Recorded(k)' <=> Recorded(k)) /\ (Agreed(k)' <=> Agreed(k))
    BY <1>1, <2>1 DEF Recorded, Agreed
  <2>3. \A t \in Tasks : (Claimant(t, k)' <=> Claimant(t, k)) /\ (Claimed(t, k)' <=> Claimed(t, k))
    BY <1>1, <2>1 DEF Claimant, Claimed, Busy, At
  <2>4. QED
    BY <2>1, <2>2, <2>3 DEF Truthful, ClaimsOf
<1>6. QED
  BY <1>1, <1>2, <1>3, <1>4, <1>5 DEF Truthful

LEMMA InitHolds ==
  ASSUME Init
  PROVE  Orderly /\ Truthful
<1>1. /\ stored = OpeningTables /\ working = OpeningTables /\ answers = <<>>
      /\ \A t \in Tasks : ~Busy(t)
  BY DEF Init, Busy
<1>2. OpeningTables \in TablesOf({})
  <2>1. NoAttempt \in AttemptRow /\ NoRecord \in KeyRow
    BY DEF NoAttempt, AttemptRow, NoRecord, KeyRow, Says
  <2>2. \A g \in Goals : OpeningGoals[g] \in OwnedGoal
    BY AsyncAssumption DEF GoalRow, OwnedGoal
  <2>3. /\ OpeningAccounts \in [Accounts -> AccountRow] /\ OpeningGoals \in [Goals -> OwnedGoal]
        /\ [a \in Accounts |-> <<>>] \in [Accounts -> Seq(EntryRow)]
        /\ [a \in Accounts |-> 0] \in [Accounts -> Nat]
        /\ [l \in Logins |-> NoAttempt] \in [Logins -> AttemptRow]
        /\ [k \in Keys |-> NoRecord] \in [Keys -> KeyRow]
    BY <2>1, <2>2, AsyncAssumption
  <2>4. QED
    BY <2>3 DEF OpeningTables, TablesOf
<1>3. /\ ~OpeningTables.doomed /\ OpeningTables.effects = {}
      /\ \A k \in Keys : OpeningTables.keys[k].status = "none"
  BY DEF OpeningTables, NoRecord
<1>4. DOMAIN answers = {} /\ answers \in Seq([call : Calls, say : Says])
  BY <1>1
<1>5. Typed
  <2>1. "none" \in Says
    BY DEF Says
  <2>2. QED
    BY <1>1, <1>2, <1>3, <1>4, <2>1 DEF Typed, Init
<1>6. Orderly
  BY <1>1, <1>5 DEF Orderly, Staged, Numbered, Exclusive, Tangles, Holds
<1>7. \A k \in Keys : ClaimsOf(k)
  BY <1>1, <1>3 DEF ClaimsOf, Recorded, Agreed, Moved, Claimant
<1>8. \A t \in Tasks : ProgressOf(t) /\ PreparedOf(t) /\ FixedOf(t)
  BY <1>1 DEF ProgressOf, PreparedOf, FixedOf, Tidy
<1>9. QED
  BY <1>4, <1>6, <1>7, <1>8 DEF Truthful

-------------------------------------------------------------------------------
(* The theorems on answers and keys *)

LEMMA StatementKept ==
  ASSUME Orderly, Truthful, NEW t \in Tasks, Statement(t)
  PROVE  Orderly' /\ Truthful'
<1>1. CASE GetKey(t) \/ InsertKey(t) \/ GetKeyAgain(t) \/ CompleteKey(t)
  BY <1>1, GetKeyKept, InsertKeyKept, GetKeyAgainKept, CompleteKeyKept
<1>2. CASE GetAccount(t) \/ GetReceiver(t) \/ GetAdmin(t) \/ GetGoal(t) \/ GetRefunded(t)
  BY <1>2, GetAccountKept, GetReceiverKept, GetAdminKept, GetGoalKept, GetRefundedKept
<1>3. CASE UpdateAccountRow(t) \/ UpdateReceiver(t) \/ SetFrozen(t) \/ SetActive(t) \/ Deleted(t)
  BY <1>3, UpdateAccountRowKept, UpdateReceiverKept, ColumnsKept
<1>4. CASE Increment(t) \/ SetPassword(t) \/ Add(t) \/ AddToGoal(t) \/ DropGoal(t)
  BY <1>4, IncrementKept, SetPasswordKept, AddKept, AddToGoalKept, DropGoalKept
<1>5. CASE IsLocked(t) \/ GetAttempt(t) \/ RecordFailure(t) \/ ResetAttempts(t)
  BY <1>5, IsLockedKept, GetAttemptKept, RecordFailureKept, ResetAttemptsKept
<1>6. CASE Commit(t) \/ Log(t)
  BY <1>6, CommitStatementKept, LogStatementKept
<1>7. QED
  BY <1>1, <1>2, <1>3, <1>4, <1>5, <1>6 DEF Statement

LEMMA NextKept ==
  ASSUME Orderly, Truthful, [Next]_vars
  PROVE  Orderly' /\ Truthful'
<1>0. clock \in Nat
  BY DEF Orderly, Typed
<1>1. ASSUME NEW t \in Tasks, NEW c \in Calls, Submit(t, c) PROVE Orderly' /\ Truthful'
  <2>1. Grows(t, c)
    BY <1>1, SubmitGrows
  <2>2. QED
    BY <1>1, <2>1, SubmitOrderly, SubmitTruthful
<1>2. ASSUME NEW t \in Tasks, Lock(t) PROVE Orderly' /\ Truthful'
  BY <1>2, LockKept
<1>3. ASSUME NEW t \in Tasks, Statement(t) PROVE Orderly' /\ Truthful'
  BY <1>3, StatementKept
<1>4. ASSUME NEW t \in Tasks, NEW cause \in Causes(t), Fail(t, cause)
      PROVE  Orderly' /\ Truthful'
  BY <1>4, FailKept
<1>5. CASE Crash
  BY <1>5, CrashKept
<1>6. CASE Tick
  <2>1. clock' \in Nat /\ UNCHANGED <<stored, working, broken, todo, locals, history>>
    BY <1>0, <1>6 DEF Tick
  <2>2. QED
    BY <2>1, ClockKept
<1>7. CASE Closing \/ UNCHANGED vars
  <2>1. clock' \in Nat /\ UNCHANGED <<stored, working, broken, todo, locals, history>>
    BY <1>0, <1>7 DEF Closing, vars
  <2>2. QED
    BY <2>1, ClockKept
<1>8. QED
  BY <1>1, <1>2, <1>3, <1>4, <1>5, <1>6, <1>7 DEF Next

LEMMA InvariantHolds == Spec => [](Orderly /\ Truthful)
<1>1. Init => Orderly /\ Truthful
  BY InitHolds
<1>2. Orderly /\ Truthful /\ [Next]_vars => (Orderly /\ Truthful)'
  BY NextKept
<1>3. QED
  BY <1>1, <1>2, PTL DEF Spec

LEMMA TablesTyped ==
  ASSUME NEW T \in TablesOf(DOMAIN answers)
  PROVE  TablesOK(T)
<1>0. T.goals \in [Goals -> GoalRow]
  BY OwnedGoals DEF TablesOf
<1>1. /\ T.accounts \in [Accounts -> AccountRow]
      /\ T.versions \in [Accounts -> Nat] /\ T.attempts \in [Logins -> AttemptRow]
      /\ T.keys \in [Keys -> KeyRow] /\ T.statements \in [Accounts -> Seq(EntryRow)]
      /\ T.effects \subseteq DOMAIN answers /\ T.audit \subseteq DOMAIN answers
  BY DEF TablesOf
<1>2. ASSUME NEW a \in Accounts PROVE Range(T.statements[a]) \subseteq EntryRow
  <2>1. T.statements[a] \in Seq(EntryRow)
    BY <1>1
  <2>2. T.statements[a] \in [1 .. Len(T.statements[a]) -> EntryRow]
    BY <2>1, SeqDef
  <2>3. QED
    BY <2>2 DEF Range
<1>3. QED
  BY <1>0, <1>1, <1>2 DEF TablesOK

\* However many tasks share the session, and whatever fails, the tables, committed or
\* pending, keep the types of their columns, every statement row that is written is one,
\* and a row that lost its place is never committed (_session_scope, async repositories).
THEOREM TypesAreKept == Spec => []TypeOK
<1>1. Orderly => TypeOK
  <2>1. SUFFICES ASSUME Orderly PROVE TypeOK
    OBVIOUS
  <2>2. stored \in TablesOf(DOMAIN answers) /\ working \in TablesOf(DOMAIN answers)
    BY <2>1 DEF Orderly, Typed
  <2>3. TablesOK(stored) /\ TablesOK(working)
    BY <2>2, TablesTyped
  <2>4. /\ ~stored.doomed /\ broken \in BOOLEAN /\ unsure \cup tangled \subseteq DOMAIN answers
        /\ raced \subseteq Accounts
    BY <2>1 DEF Orderly, Typed
  <2>5. \A t \in Tasks : Busy(t) =>
          number[t] \in DOMAIN answers /\ call[t] = answers[number[t]].call
    BY <2>1 DEF Orderly, Numbered
  <2>6. QED
    BY <2>3, <2>4, <2>5 DEF TypeOK
<1>2. QED
  BY <1>1, InvariantHolds, PTL

\* Under a key that no call of another lock has disturbed, money is moved at most once,
\* and the record of the key says whether it was, through retries, storage failures,
\* crashes and claims that have gone stale (_claim_idempotency, _complete_idempotency).
THEOREM KeysMove == Spec => []KeysMoveOnce
<1>1. Orderly /\ Truthful => KeysMoveOnce
  <2>1. SUFFICES ASSUME Orderly, Truthful, NEW k \in Keys,
                        \A n \in tangled : KeyOf(n) # k
                 PROVE  /\ Cardinality({n \in stored.effects : KeyOf(n) = k}) <= 1
                        /\ stored.keys[k].status = "completed" =>
                             (stored.keys[k].result = "done"
                               <=> {n \in stored.effects : KeyOf(n) = k} # {})
                        /\ {n \in stored.effects : KeyOf(n) = k} # {} =>
                             stored.keys[k].status # "none"
    BY DEF KeysMoveOnce
  <2>2. Calm(k)
    BY <2>1 DEF Calm
  <2>3. Recorded(k)
    BY <2>1, <2>2 DEF Truthful, ClaimsOf
  <2>4. Cardinality(Moved(stored, k)) <= 1
    <3>1. CASE Moved(stored, k) = {}
      BY <3>1, FS_EmptySet
    <3>2. CASE Moved(stored, k) # {}
      <4>1. PICK n : n \in Moved(stored, k)
        BY <3>2
      <4>2. Moved(stored, k) = {n}
        BY <2>3, <4>1 DEF Recorded
      <4>3. Cardinality({n}) = 1
        BY FS_Singleton
      <4>4. QED
        BY <4>2, <4>3
    <3>3. QED
      BY <3>1, <3>2
  <2>5. QED
    BY <2>3, <2>4 DEF Recorded, Moved
<1>2. QED
  BY <1>1, InvariantHolds, PTL

\* An answer tells what has become of the call, for every call that met none of another
\* lock: "done" of what is committed, a refusal of what is not, a wrong password of a
\* failure that is counted.
THEOREM AnswersTell == Spec => []AnswersTellOutcome
<1>1. Orderly /\ Truthful => AnswersTellOutcome
  <2>1. SUFFICES ASSUME Orderly, Truthful, NEW n \in DOMAIN answers, n \notin tangled,
                        KeyOf(n) # NoKey =>
                          \A m \in DOMAIN answers : KeyOf(m) = KeyOf(n) => m \notin tangled
                 PROVE  /\ answers[n].say = "done" => Took(n)
                        /\ answers[n].say = "wrong password"
                             /\ answers[n].call.op \in {"login", "adminLogin"} => Took(n)
                        /\ answers[n].say \in Refusals =>
                             n \notin stored.effects \/ n \in unsure
    BY DEF AnswersTellOutcome
  <2>2. ToldOf(n) /\ KeyToldOf(n)
    BY <2>1 DEF Truthful
  <2>3. ASSUME answers[n].say = "done" PROVE Took(n)
    <3>1. CASE KeyOf(n) = NoKey
      BY <2>1, <2>2, <2>3, <3>1 DEF ToldOf, Took
    <3>2. CASE KeyOf(n) # NoKey
      <4>1. Calm(KeyOf(n))
        BY <2>1, <3>2 DEF Calm
      <4>2. PICK m : m \in Moved(stored, KeyOf(n))
        BY <2>2, <2>3, <3>2, <4>1 DEF KeyToldOf
      <4>3. QED
        BY <3>2, <4>2 DEF Moved, Took
    <3>3. QED
      BY <3>1, <3>2
  <2>4. ASSUME answers[n].say = "wrong password",
               answers[n].call.op \in {"login", "adminLogin"}
        PROVE  Took(n)
    BY <2>1, <2>2, <2>4 DEF ToldOf, Took, SignIns
  <2>5. answers[n].say \in Refusals => n \notin stored.effects \/ n \in unsure
    BY <2>1, <2>2 DEF ToldOf, Nowhere
  <2>6. QED
    BY <2>3, <2>4, <2>5
<1>2. QED
  BY <1>1, InvariantHolds, PTL

-------------------------------------------------------------------------------
(* The invariant of the money *)

\* Tasks that share no lock have raced on the accounts that both touch, and on all those of
\* a call that writes several rows.
Apart ==
    \A t, u \in Tasks : t # u /\ Busy(t) /\ Busy(u) /\ ~Serialized(call[t], call[u]) =>
        (Touched(call[t]) \cap Touched(call[u])) \cup Torn(call[t]) \subseteq raced

\* A goal is used from the account that owns it, or its accounts have raced.
GoalUsers == {"contribute", "deleteGoal"}
OwnGoalOf(t) ==
    Busy(t) /\ call[t].op \in GoalUsers =>
        \/ GoalOwners(call[t].goal) \subseteq {call[t].acc}
        \/ GoalOwners(call[t].goal) \cup {call[t].acc} \subseteq raced
\* What is registered or created is new.
NewIdOf(t) ==
    Busy(t) =>
        /\ call[t].op = "register" => OpeningAccounts[call[t].acc].deleted
        /\ call[t].op = "createGoal" /\ At(t) = "add" => working.goals[call[t].goal].owner = 0
OneMaker ==
    \A t, u \in Tasks : t # u /\ Busy(t) /\ Busy(u)
        /\ call[t].op = "createGoal" /\ call[u].op = "createGoal" => call[t].goal # call[u].goal
SoundTables ==
    \A g \in Goals : /\ SoundGoal(stored.goals[g]) /\ SoundGoal(working.goals[g])
                     /\ stored.goals[g].owner \in {0, working.goals[g].owner}

\* What a task has checked of the rows it has read, and which of them are still what the
\* session holds, unless their account has raced.
Granted(t) ==
    /\ At(t) = "update" /\ call[t].op # "deleteGoal" => Verdict(call[t], seen[t]).ok
    /\ At(t) = "dropGoal" =>
         /\ seen[t].goal.exists
         /\ Head(Tail(todo[t])) = "refund" <=> seen[t].goal.current > 0
    /\ At(t) = "refund" \/ (At(t) = "update" /\ call[t].op = "deleteGoal") =>
         seen[t].goal.exists /\ seen[t].goal.current > 0
Sees(t) ==
    call[t].acc \notin raced =>
        /\ At(t) \in {"receiver", "update"} \/ (At(t) = "goal" /\ call[t].op = "contribute") =>
             seen[t].account = working.accounts[call[t].acc]
        /\ At(t) \in {"update", "addToGoal"} /\ call[t].op = "contribute" =>
             working.goals[call[t].goal].exists
        /\ At(t) = "dropGoal" => seen[t].goal = working.goals[call[t].goal]
SeesReceiver(t) ==
    call[t].op = "transfer" /\ call[t].to \notin raced /\ At(t) \in {"update", "updateReceiver"} =>
        seen[t].receiver = working.accounts[call[t].to]
SeenOf(t) == Holds(t) => Granted(t) /\ Sees(t) /\ SeesReceiver(t)

\* Balance and savings of an account without what its statement brought in: what it had
\* when nothing is missing.  Between two of its writes a call owes its account the amount
\* that it has taken from one row and not yet added to the other.
Total(T, a) == T.accounts[a].balance + Saved(T.goals, a) - MoneyIn(T.statements[a])
Halfway(t) ==
    /\ Holds(t)
    /\ \/ At(t) \in {"updateReceiver", "addToGoal", "refund"}
       \/ At(t) = "update" /\ call[t].op = "deleteGoal"
Missing(t) == IF call[t].op = "deleteGoal" THEN seen[t].goal.current ELSE call[t].value
Owes(t, a) == Halfway(t) /\ call[t].acc = a
WorkingMoney(a) ==
    \/ working.accounts[a].deleted \/ working.doomed
    \/ /\ \A t \in Tasks : Owes(t, a) =>
            Total(working, a) + Missing(t) = Total(OpeningTables, a)
       /\ (\A t \in Tasks : ~Owes(t, a)) => Total(working, a) = Total(OpeningTables, a)
StoredMoney(a) ==
    stored.accounts[a].deleted \/ Total(stored, a) = Total(OpeningTables, a)

Funded ==
    /\ Apart /\ OneMaker /\ SoundTables
    /\ \A t \in Tasks : OwnGoalOf(t) /\ NewIdOf(t) /\ SeenOf(t)
    /\ \A a \in Accounts \ raced :
         ~OpeningAccounts[a].deleted => WorkingMoney(a) /\ StoredMoney(a)

-------------------------------------------------------------------------------
(* Sums *)

LEMMA SignedInt ==
  ASSUME NEW e \in EntryRow
  PROVE  Signed(e) \in Int
BY DEF Signed, EntryRow

LEMMA MoneyInInt ==
  ASSUME NEW s \in Seq(EntryRow)
  PROVE  MoneyIn(s) \in Int
<1> DEFINE f == [i \in DOMAIN s |-> Signed(s[i])]
<1>1. DOMAIN s = 1 .. Len(s) /\ Len(s) \in Nat /\ \A i \in DOMAIN s : s[i] \in EntryRow
  BY LenProperties, ElementOfSeq
<1>2. \A i \in DOMAIN s : f[i] \in Int
  BY <1>1, SignedInt
<1>3. IsFiniteSet(DOMAIN s)
  BY <1>1, FS_Interval
<1> HIDE DEF f
<1>4. SumOver(f, DOMAIN s) \in Int
  BY <1>2, <1>3, SumInt
<1>5. QED
  BY <1>4 DEF MoneyIn, f

\* One more entry counts for what it says.
LEMMA MoneyAdded ==
  ASSUME NEW s \in Seq(EntryRow), NEW e \in EntryRow
  PROVE  /\ s \o <<e>> \in Seq(EntryRow) /\ MoneyIn(s) \in Int /\ Signed(e) \in Int
         /\ MoneyIn(s \o <<e>>) = MoneyIn(s) + Signed(e)
<1> DEFINE n == Len(s)
           r == s \o <<e>>
           f == [i \in DOMAIN s |-> Signed(s[i])]
           h == [i \in DOMAIN r |-> Signed(r[i])]
<1>1. /\ n \in Nat /\ DOMAIN s = 1 .. n /\ \A i \in 1 .. n : s[i] \in EntryRow
  BY LenProperties, ElementOfSeq
<1>2. /\ <<e>> \in Seq(EntryRow) /\ Len(<<e>>) = 1 /\ <<e>>[1] = e
  OBVIOUS
<1>3. /\ r \in Seq(EntryRow) /\ Len(r) = n + 1
      /\ \A i \in 1 .. (n + 1) : r[i] = IF i <= n THEN s[i] ELSE <<e>>[i - n]
  BY <1>2, ConcatProperties
<1> HIDE DEF r
<1>4. DOMAIN r = 1 .. (n + 1) /\ \A i \in 1 .. n : r[i] = s[i]
  BY <1>1, <1>3, LenProperties
<1>5. r[n + 1] = e
  <2>1. n + 1 \in 1 .. (n + 1) /\ ~(n + 1 <= n) /\ (n + 1) - n = 1
    BY <1>1
  <2> HIDE DEF n
  <2>2. QED
    BY <1>2, <1>3, <2>1
<1>6. \A i \in 1 .. n : f[i] \in Int /\ h[i] = f[i]
  BY <1>1, <1>4, SignedInt
<1>7. h[n + 1] = Signed(e) /\ Signed(e) \in Int
  BY <1>1, <1>4, <1>5, SignedInt
<1> HIDE DEF f, h, n
<1>8. /\ SumOver(f, 1 .. n) \in Int
      /\ SumOver(h, 1 .. (n + 1)) = SumOver(f, 1 .. n) + h[n + 1]
  BY <1>1, <1>6, <1>7, SumAppend
<1>9. MoneyIn(s) = SumOver(f, 1 .. n) /\ MoneyIn(r) = SumOver(h, 1 .. (n + 1))
  BY <1>1, <1>4 DEF MoneyIn, f, h
<1>10. QED
  BY <1>3, <1>7, <1>8, <1>9 DEF r

LEMMA HeldInt ==
  ASSUME NEW r \in OwnedGoal, NEW a
  PROVE  Held(r, a) \in Int
BY DEF Held, OwnedGoal

\* One goal that changes changes the savings by what it holds more.
LEMMA SavedChange ==
  ASSUME NEW old \in [Goals -> OwnedGoal], NEW new \in [Goals -> OwnedGoal], NEW a,
         NEW g \in Goals, \A x \in Goals : x # g => new[x] = old[x]
  PROVE  /\ Saved(old, a) \in Int /\ Saved(new, a) \in Int
         /\ Saved(new, a) = Saved(old, a) + Held(new[g], a) - Held(old[g], a)
<1> DEFINE f == [x \in Goals |-> Held(old[x], a)]
           h == [x \in Goals |-> Held(new[x], a)]
<1>1. \A x \in Goals : f[x] \in Int /\ h[x] \in Int
  BY HeldInt
<1>2. \A x \in Goals \ {g} : h[x] = f[x]
  OBVIOUS
<1>3. IsFiniteSet(Goals)
  BY AsyncAssumption
<1>4. f[g] = Held(old[g], a) /\ h[g] = Held(new[g], a)
  OBVIOUS
<1> HIDE DEF f, h
<1>5. /\ SumOver(f, Goals) \in Int /\ SumOver(h, Goals) \in Int
      /\ SumOver(h, Goals) = SumOver(f, Goals) + h[g] - f[g]
  BY <1>1, <1>2, <1>3, SumChange
<1>6. QED
  BY <1>4, <1>5 DEF Saved, f, h

LEMMA SavedInt ==
  ASSUME NEW goals \in [Goals -> OwnedGoal], NEW a
  PROVE  Saved(goals, a) \in Int
<1> DEFINE f == [x \in Goals |-> Held(goals[x], a)]
<1>1. \A x \in Goals : f[x] \in Int
  BY HeldInt
<1>2. IsFiniteSet(Goals)
  BY AsyncAssumption
<1> HIDE DEF f
<1>3. SumOver(f, Goals) \in Int
  BY <1>1, <1>2, SumInt
<1>4. QED
  BY <1>3 DEF Saved, f

LEMMA TotalInt ==
  ASSUME NEW S, NEW T \in TablesOf(S), NEW a \in Accounts
  PROVE  /\ T.accounts[a] \in AccountRow /\ T.accounts[a].balance \in Int
         /\ T.statements[a] \in Seq(EntryRow) /\ MoneyIn(T.statements[a]) \in Int
         /\ T.goals \in [Goals -> OwnedGoal] /\ Saved(T.goals, a) \in Int
         /\ Total(T, a) \in Int
<1>1. /\ T.accounts[a] \in AccountRow /\ T.statements[a] \in Seq(EntryRow)
      /\ T.goals \in [Goals -> OwnedGoal]
  BY DEF TablesOf
<1>2. T.accounts[a].balance \in Int
  BY <1>1 DEF AccountRow
<1>3. MoneyIn(T.statements[a]) \in Int /\ Saved(T.goals, a) \in Int
  BY <1>1, MoneyInInt, SavedInt
<1>4. QED
  BY <1>1, <1>2, <1>3 DEF Total

-------------------------------------------------------------------------------
(* Who shares an account with whom *)

LEMMA Lone ==
  ASSUME Orderly, Apart, NEW t \in Tasks, NEW u \in Tasks, u # t, Holds(t), Holds(u)
  PROVE  /\ Touched(call[t]) \cap Touched(call[u]) \subseteq raced
         /\ Torn(call[t]) \subseteq raced /\ Torn(call[u]) \subseteq raced
<1>1. Busy(t) /\ Busy(u) /\ call[t] \in Calls /\ call[u] \in Calls
  BY DEF Holds, Orderly, Staged
<1>2. ASSUME NEW c, NEW d, Serialized(c, d)
      PROVE  LockOf(c) = LockOf(d) /\ LockOf(c) # {} /\ LockOf(d) # {}
  BY <1>2 DEF Serialized, LockOf, Movements
<1>3. ~Serialized(call[t], call[u]) /\ ~Serialized(call[u], call[t])
  BY <1>2 DEF Orderly, Exclusive
<1>4. QED
  BY <1>1, <1>3 DEF Apart

\* Who is between two of its writes touches several rows of its account.
LEMMA HalfwayTorn ==
  ASSUME Orderly, NEW t \in Tasks, Halfway(t)
  PROVE  Busy(t) /\ call[t].acc \in Torn(call[t])
<1>1. Busy(t) /\ Follows(call[t], todo[t])
  BY TheProgramFollows DEF Orderly, Staged, Halfway, Holds
<1>2. call[t].op \in {"transfer", "contribute", "deleteGoal"}
  BY <1>1 DEF Follows, Halfway, At
<1>3. QED
  BY <1>1, <1>2 DEF Torn, Touched

-------------------------------------------------------------------------------
(* Steps of one task *)

\* The other tasks stay where they are.
Elsewhere(t) ==
    /\ call' = call
    /\ \A u \in Tasks : u # t => todo'[u] = todo[u] /\ seen'[u] = seen[u]

LEMMA OthersSame ==
  ASSUME NEW t \in Tasks, Elsewhere(t), NEW u \in Tasks, u # t
  PROVE  /\ Busy(u)' <=> Busy(u)
         /\ Holds(u)' <=> Holds(u)
         /\ At(u)' = At(u) /\ Missing(u)' = Missing(u)
         /\ \A a : Owes(u, a)' <=> Owes(u, a)
         /\ Granted(u)' <=> Granted(u)
<1>1. call' = call /\ todo'[u] = todo[u] /\ seen'[u] = seen[u]
  BY DEF Elsewhere
<1>2. (Busy(u)' <=> Busy(u)) /\ (Holds(u)' <=> Holds(u)) /\ At(u)' = At(u)
  BY <1>1 DEF Busy, Holds, At
<1>3. Missing(u)' = Missing(u) /\ (Halfway(u)' <=> Halfway(u)) /\ (Granted(u)' <=> Granted(u))
  BY <1>1, <1>2 DEF Missing, Halfway, Granted
<1>4. QED
  BY <1>1, <1>2, <1>3 DEF Owes

\* Another task that owes money to an account has raced on it with whoever holds its lock.
LEMMA OthersOweNothing ==
  ASSUME Orderly, Apart, NEW t \in Tasks, Holds(t), NEW u \in Tasks, u # t, NEW a, Owes(u, a)
  PROVE  a \in raced
<1>1. Holds(u) /\ call[u].acc = a /\ Halfway(u)
  BY DEF Owes, Halfway
<1>2. a \in Torn(call[u])
  BY <1>1, HalfwayTorn
<1>3. QED
  BY <1>1, <1>2, Lone

\* What the task owes and what the session holds change together.
Owed(t, a) == IF Owes(t, a) THEN Missing(t) ELSE 0
Balanced(t) ==
    \A a \in Accounts \ raced :
        ~OpeningAccounts[a].deleted /\ ~working'.accounts[a].deleted /\ ~working'.doomed =>
            /\ ~working.accounts[a].deleted /\ ~working.doomed
            /\ Total(working', a) + Owed(t, a)' = Total(working, a) + Owed(t, a)

LEMMA OwedInt ==
  ASSUME Orderly, NEW t \in Tasks, Busy(t), NEW a
  PROVE  Owed(t, a) \in Int
<1>1. seen[t] \in Rows /\ call[t] \in Call
  BY SeenRows
<1>2. Missing(t) \in Int
  BY <1>1 DEF Missing, Rows, GoalRow, Call
<1>3. QED
  BY <1>2 DEF Owed

LEMMA WorkingMoneyKept ==
  ASSUME Orderly, Apart, Typed', NEW t \in Tasks, Holds(t), Elsewhere(t), Balanced(t),
         NEW a \in Accounts \ raced, ~OpeningAccounts[a].deleted, WorkingMoney(a)
  PROVE  WorkingMoney(a)'
<1>1. SUFFICES ASSUME ~working'.accounts[a].deleted, ~working'.doomed
               PROVE  WorkingMoney(a)'
  BY DEF WorkingMoney
<1>2. /\ ~working.accounts[a].deleted /\ ~working.doomed
      /\ Total(working', a) + Owed(t, a)' = Total(working, a) + Owed(t, a)
  BY <1>1 DEF Balanced
<1>3. \A u \in Tasks : u # t => ~Owes(u, a) /\ ~Owes(u, a)'
  BY OthersOweNothing, OthersSame
<1>4. Total(working, a) \in Int
  BY TotalInt DEF Orderly, Typed
<1>5. Total(working, a) + Owed(t, a) = Total(OpeningTables, a)
  <2>1. CASE Owes(t, a)
    BY <1>2, <2>1 DEF WorkingMoney, Owed
  <2>2. CASE ~Owes(t, a)
    BY <1>2, <1>3, <1>4, <2>2 DEF WorkingMoney, Owed
  <2>3. QED
    BY <2>1, <2>2
<1>6. Total(working', a) + Owed(t, a)' = Total(OpeningTables, a)
  BY <1>2, <1>5
<1>7. Total(working, a)' = Total(working', a) /\ Total(OpeningTables, a)' = Total(OpeningTables, a)
  BY DEF Total, OpeningTables
<1>8. Total(working', a) \in Int
  BY TotalInt DEF Typed
<1>9. QED
  <2>1. CASE Owes(t, a)'
    BY <1>3, <1>6, <1>7, <2>1 DEF WorkingMoney, Owed
  <2>2. CASE ~Owes(t, a)'
    BY <1>3, <1>6, <1>7, <1>8, <2>2 DEF WorkingMoney, Owed
  <2>3. QED
    BY <2>1, <2>2

\* Rows of accounts that the call does not touch are left alone.
Local(t) ==
    \A b \in Accounts \ (raced \cup Touched(call[t])) : working'.accounts[b] = working.accounts[b]

LEMMA OthersSee ==
  ASSUME Orderly, Apart, NEW t \in Tasks, Holds(t), Elsewhere(t), raced' = raced, Local(t),
         NEW u \in Tasks, u # t, SeenOf(u)
  PROVE  SeenOf(u)'
<1>1. SUFFICES ASSUME Holds(u) PROVE SeenOf(u)'
  BY OthersSame DEF SeenOf
<1>2. Granted(u) /\ Sees(u) /\ Granted(u)' /\ At(u)' = At(u)
  BY <1>1, OthersSame DEF SeenOf
<1>3. call'[u] = call[u] /\ seen'[u] = seen[u]
  BY DEF Elsewhere
<1>4. Torn(call[u]) \subseteq raced /\ Touched(call[t]) \cap Touched(call[u]) \subseteq raced
  BY <1>1, Lone
<1>5. Follows(call[u], todo[u]) /\ call[u] \in Call
  BY <1>1, TheProgramFollows, SeenRows DEF Orderly, Staged, Holds
<1>6. Sees(u)'
  <2>1. SUFFICES ASSUME call[u].acc \notin raced PROVE Sees(u)'
    BY <1>3 DEF Sees
  <2>2. call[u].op \notin {"transfer", "contribute", "deleteGoal"}
    BY <1>4, <2>1 DEF Torn, Touched
  <2>3. At(u) # "dropGoal"
    BY <1>5, <2>2 DEF Follows, At
  <2>4. working'.accounts[call[u].acc] = working.accounts[call[u].acc]
    BY <1>4, <1>5, <2>1 DEF Local, Touched, Call
  <2>5. QED
    BY <1>2, <1>3, <2>2, <2>3, <2>4 DEF Sees
<1>7. SeesReceiver(u)'
  BY <1>3, <1>4 DEF SeesReceiver, Torn, Touched
<1>8. QED
  BY <1>2, <1>6, <1>7 DEF SeenOf

\* A goal keeps its owner, or gets the one who creates it.
OwnersKept(t) ==
    \A g \in Goals :
        \/ working'.goals[g].owner \in {0, working.goals[g].owner}
        \/ /\ call[t].op = "createGoal" /\ call[t].goal = g
           /\ working'.goals[g].owner = call[t].acc

LEMMA OwnersShrink ==
  ASSUME NEW t \in Tasks, Busy(t), call' = call, \A u \in Tasks : Busy(u)' => Busy(u),
         OwnersKept(t), NEW g \in Goals
  PROVE  GoalOwners(g)' \subseteq GoalOwners(g)
<1> DEFINE Makers == {u \in Tasks : Uses(u, g) /\ call[u].op = "createGoal"}
           Later == {u \in Tasks : Uses(u, g)' /\ call[u].op = "createGoal"}
<1>1. \A u \in Tasks : Uses(u, g)' => Uses(u, g)
  BY DEF Uses
<1>2. Later \subseteq Makers
  BY <1>1
<1>3. GoalOwners(g)' = ({working'.goals[g].owner} \ {0}) \cup {call[u].acc : u \in Later}
  BY DEF GoalOwners
<1>4. GoalOwners(g) = ({working.goals[g].owner} \ {0}) \cup {call[u].acc : u \in Makers}
  BY DEF GoalOwners
<1>5. {working'.goals[g].owner} \ {0} \subseteq GoalOwners(g)
  <2>1. CASE working'.goals[g].owner \in {0, working.goals[g].owner}
    BY <1>4, <2>1
  <2>2. CASE call[t].op = "createGoal" /\ call[t].goal = g /\ working'.goals[g].owner = call[t].acc
    <3>1. t \in Makers
      BY <2>2 DEF Uses, GoalCalls
    <3>2. QED
      BY <1>4, <2>2, <3>1
  <2>3. QED
    BY <2>1, <2>2 DEF OwnersKept
<1>6. QED
  BY <1>2, <1>3, <1>4, <1>5

\* Who is where, once fewer tasks are busy and more accounts have raced.
LEMMA FewerTasks ==
  ASSUME Orderly, Apart, OneMaker, call' = call, \A u \in Tasks : Busy(u)' => Busy(u),
         raced \subseteq raced', \A g \in Goals : GoalOwners(g)' \subseteq GoalOwners(g),
         \A u \in Tasks : OwnGoalOf(u)
  PROVE  Apart' /\ OneMaker' /\ \A u \in Tasks : OwnGoalOf(u)'
<1>1. Apart'
  <2>1. ASSUME NEW v \in Tasks, NEW u \in Tasks, v # u, Busy(v)', Busy(u)',
               ~Serialized(call[v], call[u])
        PROVE  (Touched(call[v]) \cap Touched(call[u])) \cup Torn(call[v]) \subseteq raced'
    BY <2>1 DEF Apart
  <2>2. QED
    BY <2>1 DEF Apart
<1>2. OneMaker'
  BY DEF OneMaker
<1>3. ASSUME NEW u \in Tasks PROVE OwnGoalOf(u)'
  <2>1. SUFFICES ASSUME Busy(u)', call[u].op \in GoalUsers PROVE OwnGoalOf(u)'
    BY DEF OwnGoalOf
  <2>2. Busy(u) /\ call[u].goal \in Goals
    <3>1. Busy(u)
      BY <2>1
    <3>2. call[u] \in Call
      BY <3>1, SeenRows
    <3>3. QED
      BY <3>1, <3>2 DEF Call
  <2> DEFINE g == call[u].goal
  <2>3. GoalOwners(g)' \subseteq GoalOwners(g)
    BY <2>2
  <2>4. \/ GoalOwners(g) \subseteq {call[u].acc}
        \/ GoalOwners(g) \cup {call[u].acc} \subseteq raced
    BY <2>1, <2>2 DEF OwnGoalOf
  <2>5. OwnGoalOf(u)' <=> \/ GoalOwners(g)' \subseteq {call[u].acc}
                          \/ GoalOwners(g)' \cup {call[u].acc} \subseteq raced'
    BY <2>1 DEF OwnGoalOf, GoalOwners, Uses
  <2>6. QED
    BY <2>3, <2>4, <2>5
<1>4. QED
  BY <1>1, <1>2, <1>3

\* All but the money, when nothing more has raced.
LEMMA RestKept ==
  ASSUME Orderly, Funded, NEW t \in Tasks, Holds(t), Elsewhere(t), raced' = raced,
         Local(t), OwnersKept(t), SeenOf(t)', Busy(t)' => At(t)' # "add"
  PROVE  /\ Apart' /\ OneMaker'
         /\ \A u \in Tasks : OwnGoalOf(u)' /\ NewIdOf(u)' /\ SeenOf(u)'
<1>1. Apart /\ OneMaker /\ \A u \in Tasks : OwnGoalOf(u) /\ NewIdOf(u) /\ SeenOf(u)
  BY DEF Funded
<1>2. Busy(t) /\ call' = call /\ \A u \in Tasks : Busy(u)' => Busy(u)
  BY OthersSame DEF Elsewhere, Holds
<1>3. \A g \in Goals : GoalOwners(g)' \subseteq GoalOwners(g)
  BY <1>2, OwnersShrink
<1>4. Apart' /\ OneMaker' /\ \A u \in Tasks : OwnGoalOf(u)'
  BY <1>1, <1>2, <1>3, FewerTasks
<1>5. ASSUME NEW u \in Tasks PROVE NewIdOf(u)'
  <2>1. NewIdOf(u) /\ (Busy(u)' => Busy(u))
    BY <1>1, <1>2
  <2>2. ASSUME Busy(u)', call[u].op = "createGoal", At(u)' = "add"
        PROVE  working'.goals[call[u].goal].owner = 0
    <3>1. u # t /\ At(u) = "add"
      BY <2>2, OthersSame
    <3>2. working.goals[call[u].goal].owner = 0
      BY <2>1, <2>2, <3>1 DEF NewIdOf
    <3>3. call[u].goal \in Goals
      BY <2>1, <2>2, SeenRows DEF Call
    <3>4. call[t].op = "createGoal" => call[t].goal # call[u].goal
      BY <1>1, <1>2, <2>1, <2>2, <3>1 DEF OneMaker
    <3>5. QED
      BY <3>2, <3>3, <3>4 DEF OwnersKept
  <2>3. QED
    BY <1>2, <2>1, <2>2 DEF NewIdOf
<1>6. \A u \in Tasks : SeenOf(u)'
  BY <1>1, OthersSee
<1>7. QED
  BY <1>4, <1>5, <1>6

LEMMA FundedKept ==
  ASSUME Orderly, Funded, Typed', NEW t \in Tasks, Holds(t), Elsewhere(t),
         stored' = stored, raced' = raced,
         Balanced(t), Local(t), OwnersKept(t), SoundTables', SeenOf(t)',
         Busy(t)' => At(t)' # "add"
  PROVE  Funded'
<1>1. /\ Apart' /\ OneMaker'
      /\ \A u \in Tasks : OwnGoalOf(u)' /\ NewIdOf(u)' /\ SeenOf(u)'
  BY RestKept
<1>2. ASSUME NEW a \in Accounts \ raced, ~OpeningAccounts[a].deleted
      PROVE  WorkingMoney(a)' /\ StoredMoney(a)'
  <2>1. Apart /\ WorkingMoney(a) /\ StoredMoney(a)
    BY <1>2 DEF Funded
  <2>2. WorkingMoney(a)'
    BY <1>2, <2>1, WorkingMoneyKept
  <2>3. StoredMoney(a)'
    BY <2>1 DEF StoredMoney, Total, OpeningTables
  <2>4. QED
    BY <2>2, <2>3
<1>3. QED
  BY <1>1, <1>2 DEF Funded

LEMMA MovesOn ==
  ASSUME Orderly, NEW t \in Tasks, Busy(t), NEW rest, NEW rows, NEW say,
         Continue(t, rest, rows, say)
  PROVE  /\ Elsewhere(t) /\ todo'[t] = rest /\ (Busy(t)' <=> rest # <<>>)
         /\ rest # <<>> => seen'[t] = rows /\ At(t)' = Head(rest)
<1>1. DOMAIN todo = Tasks /\ DOMAIN seen = Tasks
  BY DEF Orderly, Typed
<1>2. CASE rest = <<>>
  BY <1>1, <1>2 DEF Continue, Finish, Elsewhere, Busy
<1>3. CASE rest # <<>>
  BY <1>1, <1>3 DEF Continue, Elsewhere, Busy, At
<1>4. QED
  BY <1>2, <1>3

\* The columns of the tables that the money is in.
SameMoney(new, old) ==
    new.accounts = old.accounts /\ new.statements = old.statements /\ new.goals = old.goals

\* A step that moves no money.
LEMMA StillKept ==
  ASSUME Orderly, Funded, Typed', NEW t \in Tasks, Holds(t), Elsewhere(t),
         stored' = stored, raced' = raced, SameMoney(working', working),
         working.doomed => working'.doomed,
         \A a \in Accounts \ raced : ~working.accounts[a].deleted => Owed(t, a)' = Owed(t, a),
         SeenOf(t)', Busy(t)' => At(t)' # "add"
  PROVE  Funded'
<1>1. Balanced(t)
  <2>1. ASSUME NEW a \in Accounts \ raced, ~working'.accounts[a].deleted, ~working'.doomed
        PROVE  /\ ~working.accounts[a].deleted /\ ~working.doomed
               /\ Total(working', a) + Owed(t, a)' = Total(working, a) + Owed(t, a)
    <3>1. ~working.accounts[a].deleted /\ ~working.doomed
      BY <2>1 DEF SameMoney
    <3>2. Owed(t, a)' = Owed(t, a)
      BY <3>1
    <3>3. Total(working', a) = Total(working, a)
      BY DEF Total, SameMoney
    <3>4. QED
      BY <3>1, <3>2, <3>3
  <2>2. QED
    BY <2>1 DEF Balanced
<1>2. Local(t) /\ OwnersKept(t)
  BY DEF Local, OwnersKept, SameMoney
<1>3. SoundTables'
  BY DEF Funded, SoundTables, SameMoney
<1>4. QED
  BY <1>1, <1>2, <1>3, FundedKept

\* Where a task uses what it has read, or is between two of its writes.
Delicate == {"receiver", "goal", "update", "updateReceiver", "addToGoal", "dropGoal", "refund", "add"}

LEMMA LookOn ==
  ASSUME Orderly, Funded, Typed', NEW t \in Tasks, Holds(t), Elsewhere(t),
         stored' = stored, raced' = raced, SameMoney(working', working),
         working.doomed => working'.doomed,
         At(t) \notin {"update", "updateReceiver", "addToGoal", "refund"},
         Busy(t)' => At(t)' \notin Delicate
  PROVE  Funded'
<1>1. ~Halfway(t) /\ ~Halfway(t)'
  BY DEF Halfway, Holds, Delicate
<1>2. \A a \in Accounts : Owed(t, a)' = Owed(t, a)
  BY <1>1 DEF Owed, Owes
<1>3. SeenOf(t)'
  <2>1. SUFFICES ASSUME Holds(t)' PROVE Granted(t)' /\ Sees(t)' /\ SeesReceiver(t)'
    BY DEF SeenOf
  <2>2. At(t)' \notin Delicate
    BY <2>1 DEF Holds
  <2>3. QED
    BY <2>2 DEF Granted, Sees, SeesReceiver, Delicate
<1>4. Busy(t)' => At(t)' # "add"
  BY DEF Delicate
<1>5. QED
  BY <1>2, <1>3, <1>4, StillKept

\* What a decision goes on with.
LEMMA Decided ==
  ASSUME Orderly, NEW t \in Tasks, Busy(t), NEW rows, Decide(t, rows)
  PROVE  \/ /\ Verdict(call[t], rows).ok /\ call[t].op \notin SignIns
            /\ Continue(t, Tail(todo[t]), rows, "done")
         \/ \E rest, new, say : /\ Continue(t, rest, new, say)
                                /\ rest # <<>> => Head(rest) \notin Delicate
<1>1. /\ GoodLogin # <<>> /\ Head(GoodLogin) \notin Delicate
      /\ FailedLogin # <<>> /\ Head(FailedLogin) \notin Delicate
      /\ <<"complete", "store">> # <<>> /\ Head(<<"complete", "store">>) \notin Delicate
  BY Two, Three DEF GoodLogin, FailedLogin, Delicate
<1>2. \A say : Finish(t, say) => Continue(t, <<>>, NoRows, say)
  BY DEF Continue
<1> DEFINE v == Verdict(call[t], rows)
<1>3. v = Verdict(call[t], rows)
  OBVIOUS
<1> HIDE DEF v
<1>4. CASE call[t].op \in SignIns
  BY <1>1, <1>2, <1>4, Zenon DEF Decide, SignIns
<1>5. CASE call[t].op \notin SignIns
  BY <1>1, <1>2, <1>5, Zenon DEF Decide, SignIns, Refuse
<1>6. QED
  BY <1>4, <1>5

-------------------------------------------------------------------------------
(* Statements that move no money *)

LEMMA PassOn ==
  ASSUME Orderly, Funded, Orderly', NEW t \in Tasks, NEW statement, Runs(t, statement),
         statement \notin {"lock", "update", "updateReceiver", "addToGoal", "refund"},
         stored' = stored, SameMoney(working', working),
         NEW rest, NEW rows, NEW say, Continue(t, rest, rows, say),
         rest # <<>> => Head(rest) \notin Delicate
  PROVE  Funded'
<1>1. Busy(t) /\ Holds(t) /\ At(t) = statement /\ raced' = raced /\ ~working.doomed
  BY DEF Runs, Healthy, Holds, At
<1>2. Elsewhere(t) /\ (Busy(t)' => At(t)' \notin Delicate)
  BY <1>1, MovesOn
<1>3. QED
  BY <1>1, <1>2, LookOn DEF Orderly

LEMMA GetKeyFunded ==
  ASSUME Orderly, Funded, Orderly', NEW t \in Tasks, GetKey(t)
  PROVE  Funded'
<1>1. Runs(t, "claim") /\ Busy(t) /\ At(t) = "claim" /\ stored' = stored /\ working' = working
  BY DEF GetKey, Reads, Runs, Healthy, At
<1>2. Follows(call[t], todo[t])
  BY <1>1, TheProgramFollows DEF Orderly, Staged
<1>3. Tail(todo[t]) # <<>> /\ Head(Tail(todo[t])) \notin Delicate
  BY <1>1, <1>2 DEF Follows, At, Delicate
<1>4. \/ Continue(t, Tail(todo[t]), seen[t], result[t])
      \/ \E say : Continue(t, <<>>, NoRows, say)
  BY DEF GetKey, Answered, Proceed, Continue
<1>5. SameMoney(working', working)
  BY <1>1 DEF SameMoney
<1>6. QED
  BY <1>1, <1>3, <1>4, <1>5, PassOn

LEMMA GetKeyAgainFunded ==
  ASSUME Orderly, Funded, Orderly', NEW t \in Tasks, GetKeyAgain(t)
  PROVE  Funded'
<1>1. Runs(t, "reclaim") /\ Busy(t) /\ stored' = stored /\ working' = working
  BY DEF GetKeyAgain, Reads, Runs, Healthy
<1>2. \E say : Continue(t, <<>>, NoRows, say)
  BY DEF GetKeyAgain, Continue
<1>3. SameMoney(working', working)
  BY <1>1 DEF SameMoney
<1>4. QED
  BY <1>1, <1>2, <1>3, PassOn

LEMMA GetAdminFunded ==
  ASSUME Orderly, Funded, Orderly', NEW t \in Tasks, GetAdmin(t)
  PROVE  Funded'
<1> DEFINE rows == [seen[t] EXCEPT !.admin = working.admin]
<1>1. /\ Runs(t, "admin") /\ Busy(t) /\ At(t) = "admin" /\ stored' = stored /\ working' = working
      /\ Decide(t, rows)
  BY DEF GetAdmin, Reads, Runs, Healthy, At
<1>2. Follows(call[t], todo[t])
  BY <1>1, TheProgramFollows DEF Orderly, Staged
<1>3. Tail(todo[t]) # <<>> => Head(Tail(todo[t])) \notin Delicate
  BY <1>1, <1>2 DEF Follows, At, Delicate
<1> HIDE DEF rows
<1>4. \E rest, new, say : Continue(t, rest, new, say) /\ (rest # <<>> => Head(rest) \notin Delicate)
  BY <1>1, <1>3, Decided
<1>5. SameMoney(working', working)
  BY <1>1 DEF SameMoney
<1>6. QED
  BY <1>1, <1>4, <1>5, PassOn

LEMMA GetAttemptFunded ==
  ASSUME Orderly, Funded, Orderly', NEW t \in Tasks, GetAttempt(t)
  PROVE  Funded'
<1>1. /\ Runs(t, "attempt") /\ Busy(t) /\ At(t) = "attempt" /\ stored' = stored /\ working' = working
      /\ \E rows : Continue(t, Tail(todo[t]), rows, result[t])
  BY DEF GetAttempt, Reads, Runs, Healthy, At
<1>2. Follows(call[t], todo[t])
  BY <1>1, TheProgramFollows DEF Orderly, Staged
<1>3. Head(Tail(todo[t])) \notin Delicate
  BY <1>1, <1>2 DEF Follows, At, Delicate
<1>4. SameMoney(working', working)
  BY <1>1 DEF SameMoney
<1>5. QED
  BY <1>1, <1>3, <1>4, PassOn

LEMMA IsLockedFunded ==
  ASSUME Orderly, Funded, Orderly', NEW t \in Tasks, IsLocked(t)
  PROVE  Funded'
<1>1. /\ Runs(t, "isLocked") /\ Busy(t) /\ At(t) = "isLocked" /\ stored' = stored
      /\ working \in TablesOf(DOMAIN answers)
  BY DEF IsLocked, Runs, Healthy, At, Orderly, Typed
<1>2. Follows(call[t], todo[t])
  BY <1>1, TheProgramFollows DEF Orderly, Staged
<1>3. Head(Tail(todo[t])) \notin Delicate
  BY <1>1, <1>2 DEF Follows, At, Delicate
<1>4. \/ Continue(t, Tail(todo[t]), seen[t], result[t])
      \/ \E say : Continue(t, <<>>, NoRows, say)
  BY DEF IsLocked, Proceed, Continue
<1>5. SameMoney(working', working)
  <2>1. \/ working' = working
        \/ working' = [working EXCEPT !.attempts[LoginOf(call[t])] = NoAttempt]
    BY DEF IsLocked
  <2>2. QED
    BY <1>1, <2>1 DEF SameMoney, TablesOf
<1>6. QED
  BY <1>1, <1>3, <1>4, <1>5, PassOn

\* A write into other columns.
LEMMA WriteElse ==
  ASSUME Orderly, Funded, Orderly', NEW t \in Tasks, NEW statement, Changed(t, statement),
         statement \in {"complete", "increment", "setPassword", "failure", "reset"},
         SameMoney(working', working)
  PROVE  Funded'
<1>1. /\ Runs(t, statement) /\ Busy(t) /\ At(t) = statement /\ stored' = stored
      /\ Continue(t, Tail(todo[t]), seen[t], result[t])
  BY DEF Changed, Runs, Healthy, At, Proceed
<1>2. Follows(call[t], todo[t])
  BY <1>1, TheProgramFollows DEF Orderly, Staged
<1>3. Head(<<"store">>) = "store"
  BY One
<1>4. Head(Tail(todo[t])) \notin Delicate
  BY <1>1, <1>2, <1>3 DEF Follows, At, Delicate
<1>5. QED
  BY <1>1, <1>4, PassOn

LEMMA SameMoneyMarked ==
  ASSUME NEW S, NEW T \in TablesOf(S), NEW t
  PROVE  SameMoney(Marked(t, T), T) /\ Marked(t, T).doomed = T.doomed
BY DEF SameMoney, Marked, TablesOf

LEMMA CompleteKeyFunded ==
  ASSUME Orderly, Funded, Orderly', NEW t \in Tasks, CompleteKey(t)
  PROVE  Funded'
<1>1. Changed(t, "complete") /\ working \in TablesOf(DOMAIN answers)
  BY DEF CompleteKey, Orderly, Typed
<1> DEFINE k == call[t].key
<1>2. \/ working' = working
      \/ working' = [working EXCEPT !.keys[k].status = "completed", !.keys[k].result = result[t]]
  BY DEF CompleteKey
<1> HIDE DEF k
<1>3. SameMoney(working', working)
  BY <1>1, <1>2 DEF SameMoney, TablesOf
<1>4. QED
  BY <1>1, <1>3, WriteElse

LEMMA IncrementFunded ==
  ASSUME Orderly, Funded, Orderly', NEW t \in Tasks, Increment(t)
  PROVE  Funded'
<1>1. /\ Changed(t, "increment") /\ working \in TablesOf(DOMAIN answers)
      /\ working' = [working EXCEPT !.versions[call[t].acc] = @ + 1]
  BY DEF Increment, Orderly, Typed
<1>2. SameMoney(working', working)
  BY <1>1 DEF SameMoney, TablesOf
<1>3. QED
  BY <1>1, <1>2, WriteElse

LEMMA SetPasswordFunded ==
  ASSUME Orderly, Funded, Orderly', NEW t \in Tasks, SetPassword(t)
  PROVE  Funded'
<1> DEFINE T == [working EXCEPT !.admin = call[t].value]
<1>1. Changed(t, "setPassword") /\ Busy(t) /\ working \in TablesOf(DOMAIN answers)
      /\ working' = Marked(t, T)
  BY DEF SetPassword, Changed, Runs, Healthy, Orderly, Typed
<1>2. call[t].value \in Int
  BY <1>1, SeenRows DEF Call
<1>3. T \in TablesOf(DOMAIN answers) /\ SameMoney(T, working)
  BY <1>1, <1>2 DEF SameMoney, TablesOf
<1> HIDE DEF T
<1>4. SameMoney(working', working)
  BY <1>1, <1>3, SameMoneyMarked DEF SameMoney
<1>5. QED
  BY <1>1, <1>4, WriteElse

LEMMA AttemptsElse ==
  ASSUME Orderly, Funded, Orderly', NEW t \in Tasks, NEW statement \in {"failure", "reset"},
         Changed(t, statement), NEW T, T = working \/ \E l, r : T = [working EXCEPT !.attempts[l] = r],
         working' = Marked(t, T)
  PROVE  Funded'
<1>1. working \in TablesOf(DOMAIN answers)
  BY DEF Orderly, Typed
<1>2. SameMoney(T, working) /\ T.effects = working.effects
      /\ \E f : T = [working EXCEPT !.attempts = f]
  <2>1. CASE T = working
    <3>1. T = [working EXCEPT !.attempts = working.attempts]
      BY <1>1, <2>1 DEF TablesOf
    <3>2. QED
      BY <2>1, <3>1 DEF SameMoney
  <2>2. CASE \E l, r : T = [working EXCEPT !.attempts[l] = r]
    BY <1>1, <2>2 DEF SameMoney, TablesOf
  <2>3. QED
    BY <2>1, <2>2
<1>3. SameMoney(working', working)
  BY <1>1, <1>2 DEF SameMoney, Marked, TablesOf
<1>4. QED
  BY <1>3, WriteElse

LEMMA RecordFailureFunded ==
  ASSUME Orderly, Funded, Orderly', NEW t \in Tasks, RecordFailure(t)
  PROVE  Funded'
<1> DEFINE l == LoginOf(call[t])
           counted == [working EXCEPT !.attempts[l] = Counted(working.attempts[l])]
           first == [working EXCEPT !.attempts[l] = [exists |-> TRUE, count |-> 1, until |-> 0]]
<1>1. Changed(t, "failure") /\ working \in TablesOf(DOMAIN answers)
  BY DEF RecordFailure, Orderly, Typed
<1>2. \/ working' = Marked(t, counted) \/ working' = Marked(t, working)
      \/ working' = Marked(t, first) \/ working' = [working EXCEPT !.doomed = TRUE]
  BY DEF RecordFailure
<1>3. /\ \E k, r : counted = [working EXCEPT !.attempts[k] = r]
      /\ \E k, r : first = [working EXCEPT !.attempts[k] = r]
  OBVIOUS
<1> HIDE DEF counted, first
<1>4. CASE working' = [working EXCEPT !.doomed = TRUE]
  <2>1. SameMoney(working', working)
    BY <1>1, <1>4 DEF SameMoney, TablesOf
  <2>2. QED
    BY <1>1, <2>1, WriteElse
<1>5. QED
  BY <1>1, <1>2, <1>3, <1>4, AttemptsElse

LEMMA ResetAttemptsFunded ==
  ASSUME Orderly, Funded, Orderly', NEW t \in Tasks, ResetAttempts(t)
  PROVE  Funded'
<1> DEFINE T == [working EXCEPT !.attempts[LoginOf(call[t])] = NoAttempt]
<1>1. Changed(t, "reset") /\ working' = Marked(t, T)
  BY DEF ResetAttempts
<1>2. \E l, r : T = [working EXCEPT !.attempts[l] = r]
  OBVIOUS
<1> HIDE DEF T
<1>3. QED
  BY <1>1, <1>2, AttemptsElse

-------------------------------------------------------------------------------
(* Reads that a task will write from *)

LEMMA ReadToUse ==
  ASSUME Orderly, Funded, Orderly', NEW t \in Tasks, NEW statement, Reads(t, statement),
         statement \in {"account", "receiver", "goal"},
         NEW rest, NEW rows, NEW say, Continue(t, rest, rows, say), rest # <<>>,
         Head(rest) \notin {"updateReceiver", "addToGoal", "refund", "add"},
         Head(rest) = "update" => call[t].op # "deleteGoal",
         SeenOf(t)'
  PROVE  Funded'
<1>1. /\ Busy(t) /\ Holds(t) /\ At(t) = statement /\ raced' = raced /\ stored' = stored
      /\ working' = working
  BY DEF Reads, Runs, Healthy, Holds, At
<1>2. Elsewhere(t) /\ call' = call /\ At(t)' = Head(rest)
  BY <1>1, MovesOn DEF Elsewhere
<1>3. ~Halfway(t) /\ ~Halfway(t)'
  BY <1>1, <1>2 DEF Halfway
<1>4. \A a \in Accounts : Owed(t, a)' = Owed(t, a)
  BY <1>3 DEF Owed, Owes
<1>5. SameMoney(working', working)
  BY <1>1 DEF SameMoney
<1>6. QED
  BY <1>1, <1>2, <1>4, <1>5, StillKept DEF Orderly

\* A decision that is granted leads to a write; any other to no delicate stage.
LEMMA DecideFunded ==
  ASSUME Orderly, Funded, Orderly', NEW t \in Tasks, NEW statement, Reads(t, statement),
         statement \in {"account", "receiver", "goal"}, NEW rows, Decide(t, rows),
         At(t) = "goal" => call[t].op = "contribute",
         call[t].op # "contribute" \/ At(t) = "goal",
         call[t].op # "transfer" \/ At(t) = "receiver",
         Verdict(call[t], rows).ok /\ call[t].acc \notin raced =>
            rows.account = working.accounts[call[t].acc],
         Verdict(call[t], rows).ok /\ call[t].op = "contribute" =>
            working.goals[call[t].goal].exists,
         call[t].op = "transfer" => rows.receiver = working.accounts[call[t].to]
  PROVE  Funded'
<1>1. /\ Busy(t) /\ At(t) = statement /\ stored' = stored /\ working' = working /\ raced' = raced
      /\ Runs(t, statement)
  BY DEF Reads, Runs, Healthy, At
<1>2. Follows(call[t], todo[t])
  BY <1>1, TheProgramFollows DEF Orderly, Staged
<1>3. SameMoney(working', working)
  BY <1>1 DEF SameMoney
<1>4. CASE \E rest, new, say : Continue(t, rest, new, say) /\ (rest # <<>> => Head(rest) \notin Delicate)
  BY <1>1, <1>3, <1>4, PassOn
<1>5. CASE /\ Verdict(call[t], rows).ok /\ call[t].op \notin SignIns
           /\ Continue(t, Tail(todo[t]), rows, "done")
  <2> DEFINE rest == Tail(todo[t])
  <2>1. rest # <<>> /\ Head(rest) \in {"update", "setFrozen", "remove"} /\ call[t].op # "deleteGoal"
    BY <1>1, <1>2, <1>5 DEF Follows, At, SignIns, AccountOps
  <2> HIDE DEF rest
  <2>2. call' = call /\ seen'[t] = rows /\ At(t)' = Head(rest)
    BY <1>1, <1>5, <2>1, MovesOn DEF rest, Elsewhere
  <2>3. Granted(t)'
    <3>1. Verdict(call[t], seen[t])' = Verdict(call[t], rows)
      BY <2>2
    <3>2. QED
      BY <1>5, <2>1, <2>2, <3>1 DEF Granted
  <2>4. Sees(t)'
    BY <1>1, <1>5, <2>1, <2>2 DEF Sees
  <2>5. SeesReceiver(t)'
    BY <1>1, <2>1, <2>2 DEF SeesReceiver
  <2>6. SeenOf(t)'
    BY <2>3, <2>4, <2>5 DEF SeenOf
  <2>7. QED
    BY <1>1, <1>5, <2>1, <2>6, ReadToUse DEF rest
<1>6. QED
  BY <1>1, <1>4, <1>5, Decided

LEMMA GetAccountFunded ==
  ASSUME Orderly, Funded, Orderly', NEW t \in Tasks, GetAccount(t)
  PROVE  Funded'
<1> DEFINE c == call[t]
           row == working.accounts[c.acc]
           rows == [seen[t] EXCEPT !.account = row]
           goalToCome == [rows EXCEPT !.goal.exists = TRUE]
           rest == Tail(todo[t])
<1>1. /\ Busy(t) /\ At(t) = "account" /\ Reads(t, "account") /\ Runs(t, "account")
      /\ raced' = raced /\ working' = working /\ stored' = stored
  BY DEF GetAccount, Reads, Runs, Healthy, At
<1>2. Follows(c, todo[t]) /\ seen[t] \in Rows
  BY <1>1, TheProgramFollows, SeenRows DEF Orderly, Staged
<1>3. rows.account = row
  BY <1>2 DEF Rows
<1>4. c.op \in {"transfer", "contribute"} => rest # <<>> /\ Head(rest) \in {"receiver", "goal"}
  BY <1>1, <1>2 DEF Follows, At
<1> HIDE DEF rest
<1>5. ASSUME c.op \in {"transfer", "contribute"}, Continue(t, rest, rows, "done")
      PROVE  Funded'
  <2>1. call' = call /\ seen'[t] = rows /\ At(t)' = Head(rest)
    BY <1>1, <1>4, <1>5, MovesOn DEF Elsewhere
  <2>2. Granted(t)' /\ SeesReceiver(t)'
    BY <1>4, <1>5, <2>1 DEF Granted, SeesReceiver
  <2>3. Sees(t)'
    BY <1>1, <1>3, <1>4, <1>5, <2>1 DEF Sees
  <2>4. SeenOf(t)'
    BY <2>2, <2>3 DEF SeenOf
  <2> HIDE DEF rows
  <2>5. QED
    BY <1>1, <1>4, <1>5, <2>4, ReadToUse
<1>6. CASE c.op = "transfer"
  BY <1>5, <1>6 DEF GetAccount, rest
<1>7. CASE c.op = "contribute"
  <2>1. CASE Continue(t, rest, rows, "done")
    BY <1>5, <1>7, <2>1
  <2>2. CASE Continue(t, <<>>, NoRows, Verdict(c, goalToCome).say)
    <3>1. SameMoney(working', working)
      BY <1>1 DEF SameMoney
    <3>2. QED
      BY <1>1, <2>2, <3>1, PassOn
  <2>3. QED
    BY <1>7, <2>1, <2>2 DEF GetAccount, rest, Continue
<1>8. CASE c.op \notin {"transfer", "contribute"}
  <2>1. Decide(t, rows)
    BY <1>8 DEF GetAccount
  <2> HIDE DEF rows
  <2>2. QED
    BY <1>1, <1>3, <1>8, <2>1, DecideFunded
<1>9. QED
  BY <1>6, <1>7, <1>8

LEMMA GetReceiverFunded ==
  ASSUME Orderly, Funded, Orderly', NEW t \in Tasks, GetReceiver(t)
  PROVE  Funded'
<1> DEFINE row == working.accounts[call[t].to]
           rows == [seen[t] EXCEPT !.receiver = row]
<1>1. Busy(t) /\ At(t) = "receiver" /\ Holds(t) /\ Reads(t, "receiver") /\ Decide(t, rows)
  BY DEF GetReceiver, Reads, Runs, Healthy, At, Holds
<1>2. Follows(call[t], todo[t]) /\ seen[t] \in Rows
  BY <1>1, TheProgramFollows, SeenRows DEF Orderly, Staged
<1>3. call[t].op = "transfer" /\ rows.receiver = row /\ rows.account = seen[t].account
  BY <1>1, <1>2 DEF Follows, At, Rows
<1>4. call[t].acc \notin raced => rows.account = working.accounts[call[t].acc]
  BY <1>1, <1>3 DEF Funded, SeenOf, Sees
<1> HIDE DEF rows
<1>5. QED
  BY <1>1, <1>3, <1>4, DecideFunded

LEMMA WholeDeletion ==
  ASSUME NEW c \in Calls, c.op = "deleteGoal", NEW x \in Tails(c), Head(x) = "goal"
  PROVE  Head(Tail(Tail(x))) = "refund"
<1>1. c.key = NoKey
  BY CallsAssumption DEF Movements
<1>2. x \in Dropping
  BY <1>1 DEF Tails
<1>3. x = <<"goal", "dropGoal", "refund", "update", "commit">>
  BY <1>2, One, Two, Three, Four DEF Dropping
<1>4. QED
  BY <1>3, Three, Four, Five

LEMMA GetGoalFunded ==
  ASSUME Orderly, Funded, Orderly', NEW t \in Tasks, GetGoal(t)
  PROVE  Funded'
<1> DEFINE c == call[t]
           goal == working.goals[c.goal]
           rows == [seen[t] EXCEPT !.goal = goal]
           rest == IF rows.goal.current > 0 THEN Tail(todo[t]) ELSE <<"dropGoal", "commit">>
<1>1. /\ Busy(t) /\ At(t) = "goal" /\ Holds(t) /\ Reads(t, "goal") /\ Runs(t, "goal")
      /\ raced' = raced /\ working' = working /\ stored' = stored
  BY DEF GetGoal, Reads, Runs, Healthy, At, Holds
<1>2. Follows(c, todo[t]) /\ seen[t] \in Rows /\ c \in Calls /\ todo[t] \in Tails(c)
  BY <1>1, TheProgramFollows, SeenRows DEF Orderly, Staged
<1>3. rows.account = seen[t].account /\ rows.goal = goal
  BY <1>2 DEF Rows
<1>4. c.op \in {"contribute", "deleteGoal"}
  BY <1>1, <1>2 DEF Follows, At
<1>5. SameMoney(working', working)
  BY <1>1 DEF SameMoney
<1>6. CASE c.op = "contribute"
  <2>1. Decide(t, rows)
    BY <1>6 DEF GetGoal
  <2>2. c.acc \notin raced => rows.account = working.accounts[c.acc]
    BY <1>1, <1>3, <1>6 DEF Funded, SeenOf, Sees
  <2> HIDE DEF rows
  <2>3. Verdict(c, rows).ok => goal.exists
    <3>1. Verdict(c, rows) = Contribute(rows.account, rows.goal, c.value)
      BY <1>6 DEF Verdict, Decision
    <3>2. \A why : ~Refused(why).ok
      BY DEF Refused
    <3>3. ~rows.goal.exists => \E why : Contribute(rows.account, rows.goal, c.value) = Refused(why)
      BY DEF Contribute
    <3>4. QED
      BY <1>3, <3>1, <3>2, <3>3
  <2>4. QED
    BY <1>1, <1>6, <2>1, <2>2, <2>3, DecideFunded
<1>7. CASE c.op = "deleteGoal" /\ ~rows.goal.exists
  <2>1. Continue(t, <<>>, NoRows, "not found")
    BY <1>7 DEF GetGoal, Continue
  <2>2. QED
    BY <1>1, <1>5, <2>1, PassOn
<1>8. CASE c.op = "deleteGoal" /\ rows.goal.exists
  <2>1. Continue(t, rest, rows, "done")
    BY <1>8 DEF GetGoal
  <2>2. /\ rest # <<>> /\ Head(rest) = "dropGoal"
        /\ Head(Tail(rest)) = "refund" <=> goal.current > 0
    <3>1. CASE goal.current > 0
      <4>1. rest = Tail(todo[t])
        BY <1>3, <3>1
      <4>2. rest # <<>> /\ Head(rest) = "dropGoal"
        BY <1>1, <1>2, <1>8, <4>1 DEF Follows, At
      <4>3. Head(Tail(rest)) = "refund"
        BY <1>1, <1>2, <1>8, <4>1, WholeDeletion DEF At
      <4>4. QED
        BY <3>1, <4>2, <4>3
    <3>2. CASE ~(goal.current > 0)
      <4>1. rest = <<"dropGoal", "commit">>
        BY <1>3, <3>2
      <4>2. QED
        BY <3>2, <4>1, Two, One
    <3>3. QED
      BY <3>1, <3>2
  <2> HIDE DEF rest
  <2>3. call' = call /\ seen'[t] = rows /\ todo'[t] = rest /\ At(t)' = Head(rest)
    BY <1>1, <2>1, <2>2, MovesOn DEF Elsewhere
  <2>4. Granted(t)'
    BY <1>3, <1>8, <2>2, <2>3 DEF Granted
  <2>5. Sees(t)' /\ SeesReceiver(t)'
    BY <1>1, <1>3, <1>8, <2>2, <2>3 DEF Sees, SeesReceiver
  <2>6. SeenOf(t)'
    BY <2>4, <2>5 DEF SeenOf
  <2>7. QED
    BY <1>1, <1>8, <2>1, <2>2, <2>6, ReadToUse
<1>9. QED
  BY <1>4, <1>6, <1>7, <1>8

\* The refund stays owed, unless its account is gone.
LEMMA GetRefundedFunded ==
  ASSUME Orderly, Funded, Orderly', NEW t \in Tasks, GetRefunded(t)
  PROVE  Funded'
<1> DEFINE row == working.accounts[call[t].acc]
           rows == [seen[t] EXCEPT !.account = row]
           rest == IF row.deleted THEN <<"commit">> ELSE Tail(todo[t])
<1>1. /\ Busy(t) /\ Holds(t) /\ At(t) = "refund" /\ Continue(t, rest, rows, result[t])
      /\ raced' = raced /\ working' = working /\ stored' = stored
  BY DEF GetRefunded, Reads, Runs, Healthy, At, Holds
<1>2. Follows(call[t], todo[t]) /\ seen[t] \in Rows /\ call[t] \in Call
  BY <1>1, TheProgramFollows, SeenRows DEF Orderly, Staged
<1>3. rows.account = row /\ rows.goal = seen[t].goal
  BY <1>2 DEF Rows
<1>4. call[t].op = "deleteGoal" /\ rest # <<>> /\ Head(rest) = IF row.deleted THEN "commit" ELSE "update"
  BY <1>1, <1>2, One DEF Follows, At
<1>5. Granted(t)
  BY <1>1 DEF Funded, SeenOf
<1> HIDE DEF rest, rows
<1>6. Elsewhere(t) /\ call' = call /\ seen'[t] = rows /\ At(t)' = Head(rest) /\ Busy(t)'
  BY <1>1, <1>4, MovesOn DEF Elsewhere
<1>7. SeenOf(t)'
  <2>1. Granted(t)'
    BY <1>1, <1>3, <1>4, <1>5, <1>6 DEF Granted
  <2>2. Sees(t)'
    BY <1>1, <1>3, <1>4, <1>6 DEF Sees
  <2>3. SeesReceiver(t)'
    BY <1>4, <1>6 DEF SeesReceiver
  <2>4. QED
    BY <2>1, <2>2, <2>3 DEF SeenOf
<1>8. ASSUME NEW a \in Accounts \ raced, ~working.accounts[a].deleted
      PROVE  Owed(t, a)' = Owed(t, a)
  <2>1. CASE call[t].acc # a
    BY <1>6, <2>1 DEF Owed, Owes
  <2>2. CASE call[t].acc = a
    <3>1. Head(rest) = "update"
      BY <1>4, <1>8, <2>2
    <3>2. Owes(t, a) /\ Owes(t, a)'
      BY <1>1, <1>4, <1>6, <2>2, <3>1 DEF Owes, Halfway, Holds, At
    <3>3. Missing(t)' = Missing(t)
      BY <1>3, <1>4, <1>6 DEF Missing
    <3>4. QED
      BY <3>2, <3>3 DEF Owed
  <2>3. QED
    BY <2>1, <2>2
<1>9. SameMoney(working', working)
  BY <1>1 DEF SameMoney
<1>10. At(t)' # "add"
  BY <1>4, <1>6
<1>11. QED
  BY <1>1, <1>6, <1>7, <1>8, <1>9, <1>10, StillKept DEF Orderly

-------------------------------------------------------------------------------
(* What an update brings its account: an amount, and the entry that tells it *)

Brings(t, w, d, s) ==
    /\ w.account \in AllColumns /\ w.account.balance = seen[t].account.balance + d
    /\ \/ w.entries = <<>> /\ s = 0
       \/ \E e \in Transaction : w.entries = <<e>> /\ s = Signed(Row(t, e))

LEMMA RowSigned ==
  ASSUME NEW t, NEW e \in Transaction
  PROVE  /\ Row(t, e) \in EntryRow
         /\ Signed(Row(t, e)) =
              CASE e.type = "TRANSFER_OUT" ->
                     IF call[t].op \in {"contribute", "interest"} THEN 0 ELSE -e.amount
                [] e.type = "WITHDRAW" -> -e.amount
                [] OTHER -> e.amount
<1>1. /\ Row(t, e).type = e.type /\ Row(t, e).amount = e.amount
      /\ Row(t, e).category = IF call[t].op \in {"contribute", "interest"} THEN "Savings" ELSE "General"
  BY DEF Row, Category
<1>2. Row(t, e) \in EntryRow
  BY DEF Row, Category, EntryRow, Transaction
<1>3. QED
  BY <1>1, <1>2 DEF Signed

LEMMA MoveBrings ==
  ASSUME NEW t, seen[t].account \in AccountRow, NEW type \in TransactionType, NEW amount \in Int,
         NEW w, w.account = MoveMoney(seen[t].account, type, amount).account,
         w.entries = MoveMoney(seen[t].account, type, amount).entries,
         NEW d \in Int, NEW s \in Int,
         d = (IF type \in {"DEPOSIT", "TRANSFER_IN", "INTEREST", "LOAN_DISBURSEMENT"}
              THEN amount ELSE -amount),
         s = (CASE type = "TRANSFER_OUT" ->
                     IF call[t].op \in {"contribute", "interest"} THEN 0 ELSE -amount
                [] type = "WITHDRAW" -> -amount
                [] OTHER -> amount)
  PROVE  Brings(t, w, d, s)
<1> DEFINE r == seen[t].account
           m == MoveMoney(r, type, amount)
           b == IF type \in {"DEPOSIT", "TRANSFER_IN", "INTEREST", "LOAN_DISBURSEMENT"}
                THEN r.balance + amount ELSE r.balance - amount
           e == [type |-> type, amount |-> amount, balance |-> b]
<1>1. MovesBalance(m, r, type, amount)
  BY MoveMoneyMoves DEF JustMoves
<1> HIDE DEF m
<1>2. /\ b \in Int /\ m.account \in AllColumns /\ m.entries = <<e>> /\ e \in Transaction
      /\ m.account = [balance |-> b, active |-> r.active, frozen |-> r.frozen,
                      profile |-> r.profile, password |-> r.password]
  BY <1>1, MovesWrites
<1>3. r.balance \in Int
  BY DEF AccountRow
<1>4. m.account.balance = r.balance + d
  <2>1. b = r.balance + d
    BY <1>3
  <2> HIDE DEF b
  <2>2. QED
    BY <1>2, <2>1
<1>5. e.type = type /\ e.amount = amount
  OBVIOUS
<1> HIDE DEF e, b
<1>6. s = Signed(Row(t, e))
  BY <1>2, <1>5, RowSigned
<1>7. w.account = m.account /\ w.entries = m.entries
  BY DEF m
<1>8. QED
  BY <1>2, <1>4, <1>6, <1>7 DEF Brings

\* A row that keeps its balance, with no entry.
LEMMA KeepBrings ==
  ASSUME NEW t, NEW r \in AccountRow, r.balance = seen[t].account.balance,
         seen[t].account.balance \in Int,
         NEW w, w.account = AccountColumns(r), w.entries = <<>>
  PROVE  Brings(t, w, 0, 0)
<1>1. w.account \in AllColumns /\ w.account.balance = r.balance
  BY AccountColumnsOf
<1>2. r.balance = seen[t].account.balance + 0
  OBVIOUS
<1>3. QED
  BY <1>1, <1>2 DEF Brings

LEMMA UpdateAccountIs ==
  ASSUME NEW r
  PROVE  /\ UpdateAccount(r).account = AccountColumns(r) /\ UpdateAccount(r).entries = <<>>
         /\ \A x : /\ [UpdateAccount(r) EXCEPT !.bumps = x].account = AccountColumns(r)
                   /\ [UpdateAccount(r) EXCEPT !.bumps = x].entries = <<>>
                   /\ [UpdateAccount(r) EXCEPT !.drops = x].account = AccountColumns(r)
                   /\ [UpdateAccount(r) EXCEPT !.drops = x].entries = <<>>
<1> DEFINE w == UpdateAccount(r)
<1>1. w = [account |-> AccountColumns(r), whole |-> TRUE, loan |-> <<>>, goal |-> <<>>,
           adds |-> 0, drops |-> FALSE, entries |-> <<>>, bumps |-> FALSE, audit |-> "none"]
  <2>1. w = [NoWrites EXCEPT !.account = AccountColumns(r), !.whole = TRUE]
    BY DEF UpdateAccount
  <2> HIDE DEF w
  <2>2. QED
    BY <2>1 DEF NoWrites
<1> HIDE DEF w
<1>2. QED
  BY <1>1 DEF w

\* What a granted update does, by the call it serves.
LEMMA GrantedBrings ==
  ASSUME Orderly, NEW t \in Tasks, Busy(t), At(t) = "update", call[t].op # "deleteGoal",
         Verdict(call[t], seen[t]).ok
  PROVE  \E d, s \in Int :
            /\ Brings(t, Writes(t), d, s)
            /\ call[t].op \in {"transfer", "contribute"} => d = -call[t].value
            /\ call[t].op = "contribute" => s = 0
            /\ call[t].op \notin {"transfer", "contribute"} => d = s
<1> DEFINE c == call[t]
           r == seen[t].account
           v == Verdict(c, seen[t])
<1>1. /\ c.op \in {"deposit", "withdraw", "interest", "profile", "password", "close", "transfer",
                   "contribute"}
      /\ r \in AccountRow /\ r.balance \in Int /\ c.value \in Int
      /\ c.op \in {"profile", "password"} => c.value \in Nat
  <2>1. Follows(c, todo[t]) /\ c \in Calls /\ c \in Call /\ seen[t] \in Rows
    BY TheProgramFollows, SeenRows DEF Orderly, Staged
  <2>2. c.op \in {"deposit", "withdraw", "interest", "profile", "password", "close", "transfer",
                  "contribute"}
    BY <2>1 DEF Follows, At, AccountOps
  <2>3. r \in AccountRow /\ c.value \in Int
    BY <2>1 DEF Rows, Call
  <2>4. c.op \in {"profile", "password"} => c.value >= 0
    BY <2>1, CallsAssumption
  <2>5. QED
    BY <2>2, <2>3, <2>4 DEF AccountRow
<1>2. /\ \A why : ~Refused(why).ok
      /\ \A w : Done(w).writes = w
  BY DEF Refused, Done
<1>3. v.ok /\ Writes(t) = v.writes
  BY DEF Writes
<1>4. {"DEPOSIT", "WITHDRAW", "INTEREST", "TRANSFER_OUT"} \subseteq TransactionType
  BY DEF TransactionType
<1> HIDE DEF v
<1>5. CASE c.op = "deposit"
  <2>1. v = Movement(r, "DEPOSIT", c.value)
    BY <1>5 DEF v, Verdict, Decision
  <2>2. v = Done(MoveMoney(r, "DEPOSIT", c.value))
    BY <1>2, <1>3, <2>1 DEF Movement
  <2>3. Writes(t) = MoveMoney(r, "DEPOSIT", c.value)
    BY <1>2, <1>3, <2>2
  <2>4. Brings(t, Writes(t), c.value, c.value)
    BY <1>1, <1>4, <1>5, <2>3, MoveBrings
  <2>5. QED
    BY <1>1, <1>5, <2>4
<1>6. CASE c.op = "withdraw"
  <2>1. v = Movement(r, "WITHDRAW", c.value)
    BY <1>6 DEF v, Verdict, Decision
  <2>2. v = Done(MoveMoney(r, "WITHDRAW", c.value))
    BY <1>2, <1>3, <2>1 DEF Movement
  <2>3. Writes(t) = MoveMoney(r, "WITHDRAW", c.value)
    BY <1>2, <1>3, <2>2
  <2>4. Brings(t, Writes(t), -c.value, -c.value)
    BY <1>1, <1>4, <1>6, <2>3, MoveBrings
  <2>5. -c.value \in Int
    BY <1>1
  <2>6. QED
    BY <1>6, <2>4, <2>5
<1>7. CASE c.op = "interest"
  <2> DEFINE m == MonthlyInterest(r.balance)
  <2>1. v = ApplyInterest(r)
    BY <1>7 DEF v, Verdict, Decision
  <2>2. m \in Int
    BY <1>1 DEF MonthlyInterest
  <2>3. v = Done(MoveMoney(r, "INTEREST", m))
    BY <1>2, <1>3, <2>1 DEF ApplyInterest
  <2> HIDE DEF m
  <2>4. Writes(t) = MoveMoney(r, "INTEREST", m)
    BY <1>2, <1>3, <2>3
  <2>5. Brings(t, Writes(t), m, m)
    BY <1>1, <1>4, <1>7, <2>2, <2>4, MoveBrings
  <2>6. QED
    BY <1>7, <2>2, <2>5
<1>8. CASE c.op = "transfer"
  <2>1. v = TransferDecision(r, seen[t].receiver, FALSE, c.value)
    BY <1>8 DEF v, Verdict
  <2>2. v = Done(MoveMoney(r, "TRANSFER_OUT", c.value))
    BY <1>2, <1>3, <2>1 DEF TransferDecision
  <2>3. Writes(t) = MoveMoney(r, "TRANSFER_OUT", c.value)
    BY <1>2, <1>3, <2>2
  <2>4. Brings(t, Writes(t), -c.value, -c.value)
    BY <1>1, <1>4, <1>8, <2>3, MoveBrings
  <2>5. -c.value \in Int
    BY <1>1
  <2>6. QED
    BY <1>8, <2>4, <2>5
<1>9. CASE c.op = "contribute"
  <2> DEFINE m == MoveMoney(r, "TRANSFER_OUT", c.value)
             w == [m EXCEPT !.adds = c.value]
  <2>1. v = Contribute(r, seen[t].goal, c.value)
    BY <1>9 DEF v, Verdict, Decision
  <2>2. v = Done(w)
    BY <1>2, <1>3, <2>1 DEF Contribute
  <2>3. Writes(t) = w
    BY <1>2, <1>3, <2>2
  <2>4. w.account = m.account /\ w.entries = m.entries
    BY <1>1, <1>4, WritesOf
  <2> HIDE DEF w
  <2>5. -c.value \in Int /\ 0 \in Int
    BY <1>1
  <2>6. ASSUME NEW d \in Int, NEW s \in Int, d = -c.value, s = 0
        PROVE  Brings(t, w, d, s)
    BY <1>1, <1>4, <1>9, <2>4, <2>6, MoveBrings
  <2>7. QED
    BY <1>9, <2>3, <2>5, <2>6
<1>10. ASSUME Brings(t, Writes(t), 0, 0), c.op \in {"profile", "password", "close"}
       PROVE  \E d, s \in Int :
            /\ Brings(t, Writes(t), d, s)
            /\ call[t].op \in {"transfer", "contribute"} => d = -call[t].value
            /\ call[t].op = "contribute" => s = 0
            /\ call[t].op \notin {"transfer", "contribute"} => d = s
  BY <1>10
<1>11. CASE c.op = "profile"
  <2> DEFINE row == [r EXCEPT !.profile = c.value]
  <2>1. v = UpdateProfile(r, c.value)
    BY <1>11 DEF v, Verdict, Decision
  <2>2. v = Done(UpdateAccount(row))
    BY <1>2, <1>3, <2>1 DEF UpdateProfile
  <2>3. row \in AccountRow /\ row.balance = r.balance
    BY <1>1, <1>11 DEF AccountRow
  <2> HIDE DEF row
  <2>4. Writes(t) = UpdateAccount(row)
    BY <1>2, <1>3, <2>2
  <2>5. QED
    BY <1>1, <1>10, <1>11, <2>3, <2>4, UpdateAccountIs, KeepBrings
<1>12. CASE c.op = "password"
  <2> DEFINE row == [r EXCEPT !.password = c.value]
  <2>1. v = ChangePassword(r, 0, c.value)
    BY <1>12 DEF v, Verdict, Decision
  <2>2. v = Done([UpdateAccount(row) EXCEPT !.bumps = TRUE])
    BY <1>2, <1>3, <2>1 DEF ChangePassword
  <2>3. row \in AccountRow /\ row.balance = r.balance
    BY <1>1, <1>12 DEF AccountRow
  <2> HIDE DEF row
  <2> DEFINE w == [UpdateAccount(row) EXCEPT !.bumps = TRUE]
  <2>4. Writes(t) = w /\ w.account = AccountColumns(row) /\ w.entries = <<>>
    BY <1>2, <1>3, <2>2, UpdateAccountIs
  <2> HIDE DEF w
  <2>5. QED
    BY <1>1, <1>10, <1>12, <2>3, <2>4, KeepBrings
<1>13. CASE c.op = "close"
  <2> DEFINE row == [r EXCEPT !.active = FALSE]
  <2>1. v = CloseAccount(r, c.value)
    BY <1>13 DEF v, Verdict, Decision
  <2>2. v = Done(UpdateAccount(row))
    BY <1>2, <1>3, <2>1 DEF CloseAccount
  <2>3. row \in AccountRow /\ row.balance = r.balance
    BY <1>1 DEF AccountRow
  <2> HIDE DEF row
  <2>4. Writes(t) = UpdateAccount(row)
    BY <1>2, <1>3, <2>2
  <2>5. QED
    BY <1>1, <1>10, <1>13, <2>3, <2>4, UpdateAccountIs, KeepBrings
<1>14. QED
  BY <1>1, <1>5, <1>6, <1>7, <1>8, <1>9, <1>11, <1>12, <1>13

-------------------------------------------------------------------------------
(* What a write does to the money of an account *)

LEMMA TotalPays ==
  ASSUME NEW S, NEW T \in TablesOf(S), NEW R, NEW U \in TablesOf(R), NEW a \in Accounts,
         U.goals = T.goals, U.statements[a] = T.statements[a]
  PROVE  Total(U, a) = Total(T, a) + U.accounts[a].balance - T.accounts[a].balance
<1>1. /\ T.accounts[a].balance \in Int /\ MoneyIn(T.statements[a]) \in Int /\ Saved(T.goals, a) \in Int
      /\ U.accounts[a].balance \in Int
  BY TotalInt
<1>2. Total(U, a) = U.accounts[a].balance + Saved(T.goals, a) - MoneyIn(T.statements[a])
  BY DEF Total
<1>3. QED
  BY <1>1, <1>2 DEF Total

LEMMA TotalEnters ==
  ASSUME NEW S, NEW T \in TablesOf(S), NEW R, NEW U \in TablesOf(R), NEW a \in Accounts,
         NEW e \in EntryRow, U.goals = T.goals, U.statements[a] = T.statements[a] \o <<e>>
  PROVE  /\ Signed(e) \in Int
         /\ Total(U, a) = Total(T, a) + U.accounts[a].balance - T.accounts[a].balance - Signed(e)
<1>1. /\ T.accounts[a].balance \in Int /\ MoneyIn(T.statements[a]) \in Int /\ Saved(T.goals, a) \in Int
      /\ U.accounts[a].balance \in Int /\ T.statements[a] \in Seq(EntryRow)
  BY TotalInt
<1>2. MoneyIn(U.statements[a]) = MoneyIn(T.statements[a]) + Signed(e) /\ Signed(e) \in Int
  BY <1>1, MoneyAdded
<1>3. Total(U, a) = U.accounts[a].balance + Saved(T.goals, a) - (MoneyIn(T.statements[a]) + Signed(e))
  BY <1>2 DEF Total
<1>4. QED
  BY <1>1, <1>2, <1>3 DEF Total

LEMMA TotalSaves ==
  ASSUME NEW S, NEW T \in TablesOf(S), NEW R, NEW U \in TablesOf(R), NEW a \in Accounts,
         NEW g \in Goals, U.accounts[a].balance = T.accounts[a].balance,
         U.statements[a] = T.statements[a],
         \A x \in Goals : x # g => U.goals[x] = T.goals[x]
  PROVE  /\ Held(U.goals[g], a) \in Int /\ Held(T.goals[g], a) \in Int
         /\ Total(U, a) = Total(T, a) + Held(U.goals[g], a) - Held(T.goals[g], a)
<1>1. /\ T.accounts[a].balance \in Int /\ MoneyIn(T.statements[a]) \in Int
      /\ T.goals \in [Goals -> OwnedGoal] /\ U.goals \in [Goals -> OwnedGoal]
  BY TotalInt
<1>2. /\ Saved(T.goals, a) \in Int /\ Saved(U.goals, a) \in Int
      /\ Saved(U.goals, a) = Saved(T.goals, a) + Held(U.goals[g], a) - Held(T.goals[g], a)
  BY <1>1, SavedChange
<1>3. Held(U.goals[g], a) \in Int /\ Held(T.goals[g], a) \in Int
  BY <1>1, HeldInt
<1>4. Total(U, a) = T.accounts[a].balance + Saved(U.goals, a) - MoneyIn(T.statements[a])
  BY DEF Total
<1>5. Total(T, a) = T.accounts[a].balance + Saved(T.goals, a) - MoneyIn(T.statements[a])
  BY DEF Total
<1>6. QED
  BY <1>1, <1>2, <1>3, <1>4, <1>5

LEMMA OverwrittenPays ==
  ASSUME NEW r \in AccountRow, NEW cols \in AllColumns
  PROVE  Overwritten(r, cols).balance = cols.balance /\ Overwritten(r, cols).deleted = r.deleted
BY DEF Overwritten, AccountRow, AllColumns

LEMMA PutInAccounts ==
  ASSUME NEW S, NEW T \in TablesOf(S), NEW a \in Accounts, NEW r
  PROVE  LET U == [T EXCEPT !.accounts[a] = r] IN
         /\ U.accounts[a] = r /\ \A b \in Accounts : b # a => U.accounts[b] = T.accounts[b]
         /\ U.goals = T.goals /\ U.statements = T.statements /\ U.doomed = T.doomed
BY DEF TablesOf

LEMMA PutInGoals ==
  ASSUME NEW S, NEW T \in TablesOf(S), NEW g \in Goals, NEW r
  PROVE  LET U == [T EXCEPT !.goals[g] = r] IN
         /\ U.goals[g] = r /\ \A x \in Goals : x # g => U.goals[x] = T.goals[x]
         /\ U.accounts = T.accounts /\ U.statements = T.statements /\ U.doomed = T.doomed
BY DEF TablesOf

LEMMA PutInStatements ==
  ASSUME NEW S, NEW T \in TablesOf(S), NEW a \in Accounts, NEW s
  PROVE  LET U == [T EXCEPT !.statements[a] = s] IN
         /\ U.statements[a] = s /\ \A b \in Accounts : b # a => U.statements[b] = T.statements[b]
         /\ U.accounts = T.accounts /\ U.goals = T.goals /\ U.doomed = T.doomed
BY DEF TablesOf

\* The entry a write adds, if any.
Entered(t, U, T, a, entries) ==
    /\ entries = <<>> => U.statements[a] = T.statements[a]
    /\ \A e \in Transaction : entries = <<e>> =>
          U.statements[a] = T.statements[a] \o <<Row(t, e)>>
    /\ \A b \in Accounts : b # a => U.statements[b] = T.statements[b]
    /\ U.accounts = T.accounts /\ U.goals = T.goals /\ U.doomed = T.doomed

LEMMA PostedEntry ==
  ASSUME NEW S, NEW T \in TablesOf(S), NEW t, NEW a \in Accounts, NEW entries,
         entries = <<>> \/ \E e \in Transaction : entries = <<e>>
  PROVE  Entered(t, Posted(t, T, a, entries), T, a, entries)
<1> DEFINE f == [i \in DOMAIN entries |-> Row(t, entries[i])]
           s == T.statements[a] \o f
           U == Posted(t, T, a, entries)
<1>1. U = [T EXCEPT !.statements[a] = s]
  BY DEF Posted
<1>2. /\ U.statements[a] = s /\ \A b \in Accounts : b # a => U.statements[b] = T.statements[b]
      /\ U.accounts = T.accounts /\ U.goals = T.goals /\ U.doomed = T.doomed
  <2> HIDE DEF s, U
  <2>1. QED
    BY <1>1, PutInStatements
<1>3. entries = <<>> => s = T.statements[a]
  <2>1. SUFFICES ASSUME entries = <<>> PROVE s = T.statements[a]
    OBVIOUS
  <2>2. T.statements[a] \in Seq(EntryRow)
    BY DEF TablesOf
  <2>3. f = <<>>
    BY <2>1
  <2> HIDE DEF f
  <2>4. QED
    BY <2>2, <2>3, ConcatEmptySeq
<1>4. ASSUME NEW e \in Transaction, entries = <<e>> PROVE f = <<Row(t, e)>>
  BY <1>4
<1> HIDE DEF f, U
<1>5. QED
  BY <1>2, <1>3, <1>4 DEF Entered, U

LEMMA WriteOn ==
  ASSUME Orderly, Funded, Orderly', NEW t \in Tasks, NEW statement, Changed(t, statement),
         statement \in {"update", "updateReceiver", "setFrozen", "setActive", "remove", "add",
                        "addToGoal", "dropGoal"},
         Balanced(t), Local(t), OwnersKept(t), SoundTables',
         Head(Tail(todo[t])) \in {"updateReceiver", "addToGoal", "refund"} => SeenOf(t)'
  PROVE  Funded'
<1>1. /\ Busy(t) /\ Holds(t) /\ At(t) = statement /\ raced' = raced /\ stored' = stored
      /\ Continue(t, Tail(todo[t]), seen[t], result[t])
  BY DEF Changed, Runs, Healthy, At, Holds, Proceed
<1>2. Follows(call[t], todo[t])
  BY <1>1, TheProgramFollows DEF Orderly, Staged
<1>3. /\ Tail(todo[t]) # <<>>
      /\ Head(Tail(todo[t])) \in {"updateReceiver", "addToGoal", "increment", "setActive",
                                  "commit", "refund"}
  BY <1>1, <1>2 DEF Follows, At
<1>4. Elsewhere(t) /\ At(t)' = Head(Tail(todo[t]))
  BY <1>1, <1>3, MovesOn
<1>5. SeenOf(t)'
  <2>1. CASE At(t)' \in {"increment", "setActive", "commit"}
    BY <2>1 DEF SeenOf, Granted, Sees, SeesReceiver
  <2>2. CASE At(t)' \in {"updateReceiver", "addToGoal", "refund"}
    BY <1>4, <2>2
  <2>3. QED
    BY <1>3, <1>4, <2>1, <2>2
<1>6. At(t)' # "add"
  BY <1>3, <1>4
<1>7. QED
  BY <1>1, <1>4, <1>5, <1>6, FundedKept DEF Orderly

-------------------------------------------------------------------------------
(* Writes that keep the money of every account *)

LEMMA GoalsLeft ==
  ASSUME Funded, NEW t, stored' = stored, working'.goals = working.goals
  PROVE  SoundTables' /\ OwnersKept(t)
BY DEF Funded, SoundTables, OwnersKept

LEMMA BalancedAtRest ==
  ASSUME NEW t \in Tasks, ~Halfway(t), ~Halfway(t)',
         \A a \in Accounts \ raced :
            ~OpeningAccounts[a].deleted /\ ~working'.accounts[a].deleted /\ ~working'.doomed =>
               /\ ~working.accounts[a].deleted /\ ~working.doomed
               /\ Total(working', a) = Total(working, a)
  PROVE  Balanced(t)
<1>1. \A a \in Accounts : Owed(t, a)' = Owed(t, a)
  BY DEF Owed, Owes
<1>2. QED
  BY <1>1 DEF Balanced

LEMMA TotalSame ==
  ASSUME NEW S, NEW T \in TablesOf(S), NEW R, NEW U \in TablesOf(R), NEW a \in Accounts,
         U.goals = T.goals, U.statements[a] = T.statements[a],
         U.accounts[a].balance = T.accounts[a].balance
  PROVE  Total(U, a) = Total(T, a)
BY DEF Total

LEMMA SetColumnFunded ==
  ASSUME Orderly, Funded, Orderly', NEW t \in Tasks,
         NEW statement \in {"setFrozen", "setActive", "remove"}, NEW columns,
         \A r \in AccountRow : /\ Overwritten(r, columns).balance = r.balance
                               /\ r.deleted => Overwritten(r, columns).deleted,
         SetColumn(t, statement, columns)
  PROVE  Funded'
<1> DEFINE a == call[t].acc
           row == Overwritten(working.accounts[a], columns)
           written == [working EXCEPT !.accounts[a] = row]
<1>1. /\ Busy(t) /\ At(t) = statement /\ Changed(t, statement) /\ ~working.doomed
      /\ stored' = stored /\ Continue(t, Tail(todo[t]), seen[t], result[t])
  BY DEF SetColumn, Changed, Runs, Healthy, At, Proceed
<1>2. call[t] \in Call /\ Follows(call[t], todo[t])
  BY <1>1, SeenRows, TheProgramFollows DEF Orderly, Staged
<1>3. /\ a \in Accounts /\ working \in TablesOf(DOMAIN answers) /\ working.accounts[a] \in AccountRow
      /\ working' \in TablesOf(DOMAIN answers)'
  BY <1>2 DEF Call, Orderly, Typed, TablesOf
<1>4. working' = working \/ working' = Marked(t, written)
  BY DEF SetColumn
<1>5. /\ row.balance = working.accounts[a].balance /\ (working.accounts[a].deleted => row.deleted)
      /\ row \in AccountRow \/ working' = working
  <2>1. working' = Marked(t, written) => working'.accounts[a] = row
    BY <1>3 DEF Marked, TablesOf
  <2>2. working'.accounts[a] \in AccountRow
    BY <1>3 DEF TablesOf
  <2>3. QED
    BY <1>3, <1>4, <2>1, <2>2
<1> HIDE DEF row, a
<1>6. /\ working'.goals = working.goals /\ working'.statements = working.statements
      /\ \A b \in Accounts : /\ b # a => working'.accounts[b] = working.accounts[b]
                             /\ working'.accounts[b].balance = working.accounts[b].balance
                             /\ working.accounts[b].deleted => working'.accounts[b].deleted
  <2>1. CASE working' = working
    BY <2>1
  <2>2. CASE working' = Marked(t, written) /\ row \in AccountRow
    <3>1. /\ written.accounts[a] = row /\ \A b \in Accounts : b # a => written.accounts[b] = working.accounts[b]
          /\ written.goals = working.goals /\ written.statements = working.statements
      BY <1>3, PutInAccounts
    <3>2. written \in TablesOf(DOMAIN answers)
      BY <1>3, <2>2, PutAccount
    <3> HIDE DEF written
    <3>3. SameMoney(working', written)
      BY <2>2, <3>2, SameMoneyMarked
    <3>4. QED
      BY <1>5, <3>1, <3>3 DEF SameMoney
  <2>3. QED
    BY <1>4, <1>5, <2>1, <2>2
<1>7. Head(Tail(todo[t])) \in {"setActive", "commit"} /\ Tail(todo[t]) # <<>>
  BY <1>1, <1>2 DEF Follows, At
<1>8. ~Halfway(t) /\ ~Halfway(t)'
  <2>1. At(t)' = Head(Tail(todo[t]))
    BY <1>1, <1>7, MovesOn
  <2>2. QED
    BY <1>1, <1>7, <2>1 DEF Halfway
<1>9. Balanced(t)
  <2>1. \A b \in Accounts : Total(working', b) = Total(working, b)
    BY <1>3, <1>6, TotalSame
  <2>2. QED
    BY <1>1, <1>6, <1>8, <2>1, BalancedAtRest
<1>10. Local(t)
  BY <1>6 DEF Local, Touched, a
<1>11. SoundTables' /\ OwnersKept(t)
  BY <1>1, <1>6, GoalsLeft
<1>12. QED
  BY <1>1, <1>7, <1>9, <1>10, <1>11, WriteOn

LEMMA ColumnsFunded ==
  ASSUME Orderly, Funded, Orderly', NEW t \in Tasks, SetFrozen(t) \/ SetActive(t) \/ Deleted(t)
  PROVE  Funded'
<1>1. CASE SetFrozen(t)
  <2> DEFINE columns == [frozen |-> call[t].op = "freeze"]
  <2>1. \A r \in AccountRow : /\ Overwritten(r, columns).balance = r.balance
                              /\ r.deleted => Overwritten(r, columns).deleted
    BY DEF Overwritten, AccountRow
  <2>2. SetColumn(t, "setFrozen", columns)
    BY <1>1 DEF SetFrozen
  <2> HIDE DEF columns
  <2>3. QED
    BY <2>1, <2>2, SetColumnFunded
<1>2. CASE SetActive(t)
  <2> DEFINE columns == [active |-> FALSE]
  <2>1. \A r \in AccountRow : /\ Overwritten(r, columns).balance = r.balance
                              /\ r.deleted => Overwritten(r, columns).deleted
    BY DEF Overwritten, AccountRow
  <2>2. SetColumn(t, "setActive", columns)
    BY <1>2 DEF SetActive
  <2> HIDE DEF columns
  <2>3. QED
    BY <2>1, <2>2, SetColumnFunded
<1>3. CASE Deleted(t)
  <2> DEFINE columns == [deleted |-> TRUE, active |-> FALSE]
  <2>1. \A r \in AccountRow : /\ Overwritten(r, columns).balance = r.balance
                              /\ r.deleted => Overwritten(r, columns).deleted
    BY DEF Overwritten, AccountRow
  <2>2. SetColumn(t, "remove", columns)
    BY <1>3 DEF Deleted
  <2> HIDE DEF columns
  <2>3. QED
    BY <2>1, <2>2, SetColumnFunded
<1>4. QED
  BY <1>1, <1>2, <1>3

\* A new account is none of those at the opening; a new goal holds nothing.
LEMMA AddFunded ==
  ASSUME Orderly, Funded, Orderly', NEW t \in Tasks, Add(t)
  PROVE  Funded'
<1> DEFINE c == call[t]
           new == NewAccount(c.value)
           goal == CreateGoal(c.acc, c.value).writes.goal
<1>1. /\ Busy(t) /\ At(t) = "add" /\ Changed(t, "add") /\ ~working.doomed /\ stored' = stored
      /\ Continue(t, Tail(todo[t]), seen[t], result[t])
  BY DEF Add, Changed, Runs, Healthy, At, Proceed
<1>2. /\ Follows(c, todo[t]) /\ c \in Call /\ c \in Calls /\ ~RefusedAtOnce(c)
      /\ working \in TablesOf(DOMAIN answers) /\ working' \in TablesOf(DOMAIN answers)'
  BY <1>1, TheProgramFollows, SeenRows DEF Orderly, Staged, Typed
<1>3. c.op \in {"register", "createGoal"} /\ c.value \in Int /\ c.acc \in Accounts /\ c.goal \in Goals
  BY <1>1, <1>2 DEF Follows, At, Call
<1>4. Head(Tail(todo[t])) = "commit" /\ Tail(todo[t]) # <<>>
  BY <1>1, <1>2 DEF Follows, At
<1>5. ~Halfway(t) /\ ~Halfway(t)'
  <2>1. At(t)' = Head(Tail(todo[t]))
    BY <1>1, <1>4, MovesOn
  <2>2. QED
    BY <1>1, <1>4, <2>1 DEF Halfway
<1>6. NewIdOf(t) /\ SoundTables
  BY DEF Funded
<1>7. CASE c.op = "register"
  <2> DEFINE T == [working EXCEPT !.accounts[c.acc] = new]
  <2>1. working' = Marked(t, T)
    BY <1>7 DEF Add
  <2> HIDE DEF new
  <2>2. /\ \A b \in Accounts : b # c.acc => T.accounts[b] = working.accounts[b]
        /\ T.goals = working.goals /\ T.statements = working.statements
    BY <1>2, <1>3, PutInAccounts
  <2>3. SameMoney(working', T)
    BY <1>2, <2>1 DEF SameMoney, Marked, TablesOf
  <2> HIDE DEF T
  <2>4. /\ \A b \in Accounts : b # c.acc => working'.accounts[b] = working.accounts[b]
        /\ working'.goals = working.goals /\ working'.statements = working.statements
    BY <2>2, <2>3 DEF SameMoney
  <2>5. OpeningAccounts[c.acc].deleted
    BY <1>1, <1>6, <1>7 DEF NewIdOf
  <2>6. Balanced(t)
    <3>1. ASSUME NEW b \in Accounts, b # c.acc PROVE Total(working', b) = Total(working, b)
      BY <1>2, <2>4, <3>1, TotalSame
    <3>2. QED
      BY <1>1, <1>5, <2>4, <2>5, <3>1, BalancedAtRest
  <2>7. Local(t)
    BY <1>7, <2>4 DEF Local, Touched
  <2>8. SoundTables' /\ OwnersKept(t)
    BY <1>1, <2>4, GoalsLeft
  <2>9. QED
    BY <1>1, <1>4, <2>6, <2>7, <2>8, WriteOn
<1>8. CASE c.op = "createGoal"
  <2> DEFINE T == [working EXCEPT !.goals[c.goal] = goal]
  <2>1. working' = Marked(t, T)
    BY <1>8 DEF Add
  <2>2. c.value > 0 /\ c.acc # 0
    <3>1. ~(c.value <= 0)
      BY <1>2, <1>8 DEF RefusedAtOnce
    <3>2. c.acc # 0
      BY <1>3, AsyncAssumption
    <3>3. QED
      BY <1>3, <3>1, <3>2
  <2>3. goal = [exists |-> TRUE, owner |-> c.acc, target |-> c.value, current |-> 0,
                completed |-> FALSE]
    BY <1>3, <2>2 DEF CreateGoal, Done, NoWrites
  <2> HIDE DEF goal
  <2>4. /\ T.goals[c.goal] = goal /\ \A x \in Goals : x # c.goal => T.goals[x] = working.goals[x]
        /\ T.accounts = working.accounts /\ T.statements = working.statements
    BY <1>2, <1>3 DEF TablesOf
  <2>5. SameMoney(working', T)
    BY <1>2, <2>1 DEF SameMoney, Marked, TablesOf
  <2> HIDE DEF T
  <2>6. /\ working'.goals[c.goal] = goal
        /\ \A x \in Goals : x # c.goal => working'.goals[x] = working.goals[x]
        /\ working'.accounts = working.accounts /\ working'.statements = working.statements
    BY <2>4, <2>5 DEF SameMoney
  <2>7. working.goals[c.goal] = NoGoal
    BY <1>1, <1>3, <1>6, <1>8 DEF NewIdOf, SoundTables, SoundGoal
  <2>8. Balanced(t)
    <3>1. ASSUME NEW b \in Accounts PROVE Total(working', b) = Total(working, b)
      <4>1. Held(working'.goals[c.goal], b) = 0 /\ Held(working.goals[c.goal], b) = 0
        BY <2>3, <2>6, <2>7 DEF Held, NoGoal
      <4>2. Total(working', b) = Total(working, b) + Held(working'.goals[c.goal], b)
                                                   - Held(working.goals[c.goal], b)
        BY <1>2, <1>3, <2>6, TotalSaves
      <4>3. Total(working, b) \in Int
        BY <1>2, TotalInt
      <4>4. QED
        BY <4>1, <4>2, <4>3
    <3>2. QED
      BY <1>1, <1>5, <2>6, <3>1, BalancedAtRest
  <2>9. Local(t)
    BY <2>6 DEF Local
  <2>10. OwnersKept(t)
    BY <1>8, <2>3, <2>6 DEF OwnersKept
  <2>11. SoundTables'
    <3>1. ASSUME NEW g \in Goals
          PROVE  /\ SoundGoal(stored'.goals[g]) /\ SoundGoal(working'.goals[g])
                 /\ stored'.goals[g].owner \in {0, working'.goals[g].owner}
      <4>1. CASE g = c.goal
        <5>1. SoundGoal(goal)
          BY <2>2, <2>3 DEF SoundGoal
        <5>2. stored.goals[g].owner = 0 /\ SoundGoal(stored.goals[g])
          BY <1>6, <2>7, <4>1 DEF SoundTables, NoGoal
        <5>3. QED
          BY <1>1, <2>6, <4>1, <5>1, <5>2
      <4>2. CASE g # c.goal
        BY <1>1, <1>6, <2>6, <4>2 DEF SoundTables
      <4>3. QED
        BY <4>1, <4>2
    <3>2. QED
      BY <3>1 DEF SoundTables
  <2>12. QED
    BY <1>1, <1>4, <2>8, <2>9, <2>10, <2>11, WriteOn
<1>9. QED
  BY <1>3, <1>7, <1>8

-------------------------------------------------------------------------------
(* Writes of a goal *)

\* A goal that has not raced belongs to the account that uses it.
LEMMA OwnGoal ==
  ASSUME Orderly, Funded, NEW t \in Tasks, Busy(t), call[t].op \in GoalUsers,
         working.goals[call[t].goal].exists
  PROVE  LET owner == working.goals[call[t].goal].owner IN
         owner # 0 /\ (owner = call[t].acc \/ {owner, call[t].acc} \subseteq raced)
<1> DEFINE c == call[t]
           row == working.goals[c.goal]
<1>1. c.goal \in Goals
  BY SeenRows DEF Call
<1>2. SoundGoal(row) /\ OwnGoalOf(t)
  BY <1>1 DEF Funded, SoundTables
<1>3. row.owner # 0
  BY <1>2 DEF SoundGoal, NoGoal
<1>4. row.owner \in GoalOwners(c.goal)
  BY <1>3 DEF GoalOwners
<1>5. QED
  BY <1>2, <1>3, <1>4 DEF OwnGoalOf

LEMMA GoalWritten ==
  ASSUME Orderly, Funded, Orderly', NEW t \in Tasks, NEW statement, Changed(t, statement),
         statement \in {"addToGoal", "dropGoal"}, call[t].op \in GoalUsers,
         working'.accounts = working.accounts, working'.statements = working.statements,
         \A x \in Goals : x # call[t].goal => working'.goals[x] = working.goals[x],
         LET old == working.goals[call[t].goal]
             new == working'.goals[call[t].goal]
         IN  /\ new.owner = old.owner
             /\ new.exists => old.exists
             /\ SoundGoal(new)
             /\ \A a \in Accounts \ raced : a = call[t].acc =>
                  Held(new, a) + Owed(t, a)' = Held(old, a) + Owed(t, a),
         Head(Tail(todo[t])) \in {"updateReceiver", "addToGoal", "refund"} => SeenOf(t)'
  PROVE  Funded'
<1> DEFINE c == call[t]
           g == c.goal
           old == working.goals[g]
           new == working'.goals[g]
<1>1. /\ Busy(t) /\ Busy(t)' /\ ~working.doomed /\ stored' = stored /\ call' = call
  <2>1. /\ Busy(t) /\ At(t) = statement /\ ~working.doomed /\ stored' = stored
        /\ Continue(t, Tail(todo[t]), seen[t], result[t])
    BY DEF Changed, Runs, Healthy, At, Proceed
  <2>2. Tail(todo[t]) # <<>>
    BY <2>1, TheProgramFollows DEF Follows, At, Orderly, Staged
  <2>3. QED
    BY <2>1, <2>2, MovesOn DEF Elsewhere
<1>2. /\ g \in Goals /\ working \in TablesOf(DOMAIN answers) /\ working' \in TablesOf(DOMAIN answers)'
  BY <1>1, SeenRows DEF Call, Orderly, Typed
<1>3. SoundTables
  BY DEF Funded
<1>4. /\ new.owner = old.owner /\ (new.exists => old.exists) /\ SoundGoal(new)
      /\ \A a \in Accounts \ raced : a = c.acc =>
            Held(new, a) + Owed(t, a)' = Held(old, a) + Owed(t, a)
  OBVIOUS
<1>5. ASSUME NEW a \in Accounts \ raced
      PROVE  Held(new, a) + Owed(t, a)' = Held(old, a) + Owed(t, a)
  <2>1. CASE a = c.acc
    BY <1>4, <2>1
  <2>2. CASE a # c.acc
    <3>1. Owed(t, a) = 0 /\ Owed(t, a)' = 0
      BY <1>1, <2>2 DEF Owed, Owes
    <3>2. old.exists => old.owner # a
      BY <1>1, <2>2, OwnGoal
    <3>3. Held(old, a) = 0 /\ Held(new, a) = 0
      BY <1>4, <3>2 DEF Held
    <3>4. QED
      BY <3>1, <3>3
  <2>3. QED
    BY <2>1, <2>2
<1>6. Balanced(t)
  <2>1. ASSUME NEW a \in Accounts \ raced, ~working'.accounts[a].deleted
        PROVE  /\ ~working.accounts[a].deleted /\ ~working.doomed
               /\ Total(working', a) + Owed(t, a)' = Total(working, a) + Owed(t, a)
    <3>1. /\ Held(new, a) \in Int /\ Held(old, a) \in Int
          /\ Total(working', a) = Total(working, a) + Held(new, a) - Held(old, a)
      BY <1>2, TotalSaves
    <3>2. Total(working, a) \in Int
      BY <1>2, TotalInt
    <3>3. Owed(t, a) \in Int /\ Owed(t, a)' \in Int
      <4>1. Owed(t, a) \in Int
        BY <1>1, OwedInt
      <4>2. seen'[t] \in Rows /\ call'[t] \in Call
        <5>1. NoRows \in Rows /\ call[t] \in Call
          BY <1>1, SeenRows
        <5>2. NoRows' = NoRows /\ Rows' = Rows
          BY DEF NoRows, Rows
        <5>3. QED
          BY <1>1, <5>1, <5>2 DEF Orderly, Typed
      <4>3. Owed(t, a)' \in Int
        BY <4>2 DEF Owed, Missing, Rows, GoalRow, Call
      <4>4. QED
        BY <4>1, <4>3
    <3>4. Held(new, a) + Owed(t, a)' = Held(old, a) + Owed(t, a)
      BY <1>5
    <3> HIDE DEF new, old
    <3>5. QED
      BY <1>1, <2>1, <3>1, <3>2, <3>3, <3>4
  <2>2. QED
    BY <2>1 DEF Balanced
<1>7. Local(t) /\ OwnersKept(t)
  BY <1>4 DEF Local, OwnersKept
<1>8. SoundTables'
  BY <1>1, <1>3, <1>4 DEF SoundTables
<1>9. QED
  BY <1>6, <1>7, <1>8, WriteOn

LEMMA AddToGoalFunded ==
  ASSUME Orderly, Funded, Orderly', NEW t \in Tasks, AddToGoal(t)
  PROVE  Funded'
<1> DEFINE c == call[t]
           g == c.goal
           old == working.goals[g]
           grown == Contribution(old, c.value)
           row == [old EXCEPT !.current = grown.current, !.completed = grown.completed]
<1>1. /\ Busy(t) /\ Holds(t) /\ At(t) = "addToGoal" /\ Changed(t, "addToGoal")
      /\ Continue(t, Tail(todo[t]), seen[t], result[t])
  BY DEF AddToGoal, Changed, Runs, Healthy, At, Holds, Proceed
<1>2. /\ Follows(c, todo[t]) /\ c \in Call /\ ~RefusedAtOnce(c)
      /\ working \in TablesOf(DOMAIN answers)
  BY <1>1, TheProgramFollows, SeenRows DEF Orderly, Staged, Typed
<1>3. /\ c.op = "contribute" /\ c.value \in Int /\ g \in Goals /\ c.acc \in Accounts
      /\ old \in OwnedGoal
      /\ Tail(todo[t]) # <<>> /\ Head(Tail(todo[t])) = "commit"
  BY <1>1, <1>2 DEF Follows, At, Call, TablesOf
<1>4. c.value > 0
  BY <1>2, <1>3 DEF RefusedAtOnce
<1>5. /\ row.current = old.current + c.value /\ row.owner = old.owner /\ row.exists = old.exists
      /\ old.current \in Int
  <2>1. grown.current = old.current + c.value
    BY DEF Contribution
  <2> HIDE DEF grown
  <2>2. QED
    BY <1>3, <2>1 DEF OwnedGoal
<1>6. \/ working' = working /\ ~old.exists
      \/ working' = [working EXCEPT !.goals[g] = row] /\ old.exists
  <2>1. \/ working' = working /\ ~old.exists
        \/ /\ working' = [working EXCEPT !.goals[g].current = grown.current,
                                         !.goals[g].completed = grown.completed]
           /\ old.exists
    BY DEF AddToGoal
  <2> HIDE DEF grown
  <2>2. [working EXCEPT !.goals[g].current = grown.current, !.goals[g].completed = grown.completed]
          = [working EXCEPT !.goals[g] = row]
    BY <1>2, <1>3 DEF TablesOf
  <2>3. QED
    BY <2>1, <2>2
<1> HIDE DEF row
<1>7. /\ working'.accounts = working.accounts /\ working'.statements = working.statements
      /\ \A x \in Goals : x # g => working'.goals[x] = working.goals[x]
      /\ working'.goals[g] = IF old.exists THEN row ELSE old
  BY <1>2, <1>3, <1>6 DEF TablesOf
<1>8. SoundGoal(old) /\ Sees(t)
  BY <1>1, <1>3 DEF Funded, SoundTables, SeenOf
<1> DEFINE new == working'.goals[g]
<1>9. new.owner = old.owner /\ (new.exists => old.exists)
  BY <1>5, <1>7
<1>10. SoundGoal(new)
  <2>1. CASE ~old.exists
    BY <1>7, <1>8, <2>1
  <2>2. CASE old.exists
    <3>1. old.owner # 0
      BY <1>8, <2>2 DEF SoundGoal, NoGoal
    <3>2. old.current >= 0
      BY <1>8 DEF SoundGoal
    <3>3. new.owner # 0 /\ new.current = old.current + c.value
      BY <1>5, <1>7, <2>2, <3>1
    <3> HIDE DEF new, old
    <3>4. QED
      BY <1>3, <1>4, <1>5, <3>2, <3>3 DEF SoundGoal
  <2>3. QED
    BY <2>1, <2>2
<1>11. ASSUME NEW a \in Accounts \ raced, a = c.acc
       PROVE  Held(new, a) + Owed(t, a)' = Held(old, a) + Owed(t, a)
  <2>1. old.exists
    BY <1>1, <1>3, <1>8, <1>11 DEF Sees
  <2>2. old.owner = c.acc
    BY <1>1, <1>3, <1>11, <2>1, OwnGoal DEF GoalUsers
  <2>3. Held(old, a) = old.current /\ Held(new, a) = old.current + c.value
    BY <1>5, <1>7, <1>11, <2>1, <2>2 DEF Held
  <2>4. Owed(t, a) = c.value
    BY <1>1, <1>3, <1>11 DEF Owed, Owes, Halfway, Missing
  <2>5. Owed(t, a)' = 0
    <3>1. At(t)' = "commit"
      BY <1>1, <1>3, MovesOn
    <3>2. QED
      BY <3>1 DEF Owed, Owes, Halfway
  <2>6. QED
    BY <1>3, <1>5, <2>3, <2>4, <2>5
<1> HIDE DEF new, old
<1>12. QED
  BY <1>1, <1>3, <1>7, <1>9, <1>10, <1>11, GoalWritten DEF GoalUsers, new, old

LEMMA DropsNothing ==
  ASSUME NEW r, r = NoGoal
  PROVE  [r EXCEPT !.exists = FALSE] = NoGoal
<1> DEFINE w == [r EXCEPT !.exists = FALSE]
<1>1. w = [NoGoal EXCEPT !.exists = FALSE]
  OBVIOUS
<1> HIDE DEF w
<1>2. w = NoGoal
  BY <1>1 DEF NoGoal
<1>3. QED
  BY <1>2 DEF w

LEMMA DropGoalFunded ==
  ASSUME Orderly, Funded, Orderly', NEW t \in Tasks, DropGoal(t)
  PROVE  Funded'
<1> DEFINE c == call[t]
           g == c.goal
           old == working.goals[g]
           row == [old EXCEPT !.exists = FALSE]
           T == [working EXCEPT !.goals[g] = row]
           next == Head(Tail(todo[t]))
<1>1. /\ Busy(t) /\ Holds(t) /\ At(t) = "dropGoal" /\ Changed(t, "dropGoal")
      /\ Continue(t, Tail(todo[t]), seen[t], result[t])
  BY DEF DropGoal, Changed, Runs, Healthy, At, Holds, Proceed
<1>2. /\ Follows(c, todo[t]) /\ c \in Call /\ working \in TablesOf(DOMAIN answers)
  BY <1>1, TheProgramFollows, SeenRows DEF Orderly, Staged, Typed
<1>3. /\ c.op = "deleteGoal" /\ g \in Goals /\ c.acc \in Accounts /\ old \in OwnedGoal
      /\ Tail(todo[t]) # <<>> /\ next \in {"refund", "commit"}
  BY <1>1, <1>2 DEF Follows, At, Call, TablesOf
<1>4. row.owner = old.owner /\ row.exists = FALSE /\ row.current = old.current
      /\ old.current \in Int
  BY <1>3 DEF OwnedGoal
<1>5. old = NoGoal => row = NoGoal
  BY DropsNothing
<1>6. working' = Marked(t, T)
  BY DEF DropGoal
<1> HIDE DEF row
<1>7. /\ T.goals[g] = row /\ \A x \in Goals : x # g => T.goals[x] = working.goals[x]
      /\ T.accounts = working.accounts /\ T.statements = working.statements
  BY <1>2, <1>3 DEF TablesOf
<1>8. SameMoney(working', T)
  BY <1>2, <1>6 DEF SameMoney, Marked, TablesOf
<1> HIDE DEF T
<1>9. /\ working'.goals[g] = row /\ \A x \in Goals : x # g => working'.goals[x] = working.goals[x]
      /\ working'.accounts = working.accounts /\ working'.statements = working.statements
  BY <1>7, <1>8 DEF SameMoney
<1>10. SoundGoal(old) /\ Sees(t) /\ Granted(t)
  BY <1>1, <1>3 DEF Funded, SoundTables, SeenOf
<1>11. SoundGoal(row)
  BY <1>5, <1>4, <1>10 DEF SoundGoal
<1>12. Elsewhere(t) /\ call' = call /\ seen'[t] = seen[t] /\ At(t)' = next /\ Holds(t)'
  <2>1. Elsewhere(t) /\ seen'[t] = seen[t] /\ At(t)' = next /\ Busy(t)'
    BY <1>1, <1>3, MovesOn
  <2>2. QED
    BY <1>3, <2>1 DEF Elsewhere, Holds, At
<1>13. /\ seen[t].goal.exists /\ (next = "refund" <=> seen[t].goal.current > 0)
  BY <1>1, <1>10 DEF Granted
<1>14. ASSUME NEW a \in Accounts \ raced, a = c.acc
       PROVE  Held(row, a) + Owed(t, a)' = Held(old, a) + Owed(t, a)
  <2>1. seen[t].goal = old
    BY <1>1, <1>10, <1>14 DEF Sees
  <2>2. old.exists
    BY <1>13, <2>1
  <2>3. old.owner = c.acc
    BY <1>1, <1>3, <1>14, <2>2, OwnGoal DEF GoalUsers
  <2>4. Held(old, a) = old.current /\ Held(row, a) = 0
    BY <1>4, <1>14, <2>2, <2>3 DEF Held
  <2>5. Owed(t, a) = 0
    BY <1>1 DEF Owed, Owes, Halfway
  <2>6. Owed(t, a)' = old.current
    <3>1. CASE next = "refund"
      <4>1. Owes(t, a)'
        BY <1>12, <1>14, <3>1 DEF Owes, Halfway
      <4>2. Missing(t)' = old.current
        BY <1>3, <1>12, <2>1 DEF Missing
      <4>3. QED
        BY <4>1, <4>2 DEF Owed
    <3>2. CASE next = "commit"
      <4>1. ~Owes(t, a)'
        BY <1>12, <3>2 DEF Owes, Halfway
      <4>2. old.current = 0
        <5>1. ~(old.current > 0)
          BY <1>13, <2>1, <3>2
        <5>2. old.current >= 0
          BY <1>10 DEF SoundGoal
        <5> HIDE DEF old
        <5>3. QED
          BY <1>4, <5>1, <5>2
      <4>3. QED
        BY <4>1, <4>2 DEF Owed
    <3>3. QED
      BY <1>3, <3>1, <3>2
  <2>7. QED
    BY <1>4, <2>4, <2>5, <2>6
<1>15. SeenOf(t)'
  <2>1. Granted(t)'
    BY <1>3, <1>12, <1>13 DEF Granted
  <2>2. Sees(t)' /\ SeesReceiver(t)'
    BY <1>3, <1>12 DEF Sees, SeesReceiver
  <2>3. QED
    BY <2>1, <2>2 DEF SeenOf
<1>16. row.exists => old.exists
  BY <1>4
<1>17. c.op \in GoalUsers
  BY <1>3 DEF GoalUsers
<1> HIDE DEF old, next
<1>18. QED
  BY <1>1, <1>4, <1>9, <1>11, <1>14, <1>15, <1>16, <1>17, GoalWritten DEF old

-------------------------------------------------------------------------------
(* Writes of an account that move money *)

LEMMA UpdateWrites ==
  ASSUME Orderly, NEW t \in Tasks, Busy(t), At(t) = "update"
  PROVE  Writes(t).account \in AccountWrites /\ AtMostOne(Writes(t).entries)
<1>1. /\ Follows(call[t], todo[t]) /\ seen[t] \in Rows /\ call[t] \in Call /\ call[t] \in Calls
      /\ ~RefusedAtOnce(call[t])
  BY TheProgramFollows, SeenRows DEF Orderly, Staged
<1>2. CASE call[t].op = "deleteGoal"
  BY <1>1, <1>2, RefundSensible DEF Writes
<1>3. CASE call[t].op # "deleteGoal"
  <2>1. call[t].op \notin {"createGoal", "register", "deleteGoal"}
    BY <1>1, <1>3 DEF Follows, At, AccountOps
  <2>2. QED
    BY <1>1, <2>1, VerdictSensible DEF Writes, Sensible
<1>4. QED
  BY <1>2, <1>3

\* What an update leaves of the tables; on a row that is gone, they are as they were.
Updated(t) ==
    LET a == call[t].acc
        w == Writes(t)
    IN  /\ working'.doomed = working.doomed
        /\ working'.accounts[a] = Overwritten(working.accounts[a], w.account)
        /\ call[t].op = "transfer" \/ w.entries = <<>> =>
             working'.statements[a] = working.statements[a]
        /\ \A e \in Transaction : call[t].op # "transfer" /\ w.entries = <<e>> =>
             working'.statements[a] = working.statements[a] \o <<Row(t, e)>>
OnlyItsAccount(t) ==
    /\ working'.goals = working.goals
    /\ \A b \in Accounts : b # call[t].acc =>
         working'.accounts[b] = working.accounts[b] /\ working'.statements[b] = working.statements[b]

LEMMA UpdateLeaves ==
  ASSUME Orderly, NEW t \in Tasks, UpdateAccountRow(t)
  PROVE  /\ OnlyItsAccount(t)
         /\ \/ Updated(t) /\ ~working.accounts[call[t].acc].deleted
            \/ SameMoney(working', working) /\ working'.doomed
<1> DEFINE a == call[t].acc
           w == Writes(t)
           row == Overwritten(working.accounts[a], w.account)
           written == [working EXCEPT !.accounts[a] = row]
           posted == Posted(t, written, a, w.entries)
<1>1. Busy(t) /\ At(t) = "update"
  BY DEF UpdateAccountRow, Changed, Runs, Healthy, At
<1>2. a \in Accounts /\ working \in TablesOf(DOMAIN answers) /\ working.accounts[a] \in AccountRow
  BY <1>1, SeenRows DEF Call, Orderly, Typed, TablesOf
<1>3. w.account \in AccountWrites /\ AtMostOne(w.entries)
  BY <1>1, UpdateWrites
<1>4. \/ working' = [working EXCEPT !.doomed = TRUE]
      \/ /\ ~working.accounts[a].deleted
         /\ working' = Marked(t, IF call[t].op = "transfer" THEN written ELSE posted)
  BY Zenon DEF UpdateAccountRow
<1> HIDE DEF w
<1>5. row \in AccountRow
  BY <1>2, <1>3, OverwrittenRow
<1> HIDE DEF row
<1>6. /\ written \in TablesOf(DOMAIN answers)
      /\ written.accounts[a] = row /\ \A b \in Accounts : b # a => written.accounts[b] = working.accounts[b]
      /\ written.goals = working.goals /\ written.statements = working.statements
      /\ written.doomed = working.doomed
  BY <1>2, <1>5, PutAccount, PutInAccounts
<1> HIDE DEF written
<1>7. /\ posted \in TablesOf(DOMAIN answers)
      /\ w.entries = <<>> => posted.statements[a] = written.statements[a]
      /\ \A e \in Transaction : w.entries = <<e>> =>
            posted.statements[a] = written.statements[a] \o <<Row(t, e)>>
      /\ \A b \in Accounts : b # a => posted.statements[b] = written.statements[b]
      /\ posted.accounts = written.accounts /\ posted.goals = written.goals
      /\ posted.doomed = written.doomed
  <2>1. w.entries = <<>> \/ \E e \in Transaction : w.entries = <<e>>
    BY <1>3 DEF AtMostOne
  <2>2. posted \in TablesOf(DOMAIN answers)
    BY <1>2, <1>3, <1>6, PostedTables
  <2>3. Entered(t, posted, written, a, w.entries)
    BY <1>2, <1>6, <2>1, PostedEntry
  <2> HIDE DEF posted
  <2>4. QED
    BY <2>2, <2>3 DEF Entered
<1> HIDE DEF posted
<1>8. CASE working' = [working EXCEPT !.doomed = TRUE]
  <2>1. SameMoney(working', working) /\ working'.doomed
    BY <1>2, <1>8 DEF SameMoney, TablesOf
  <2>2. QED
    BY <2>1 DEF SameMoney, OnlyItsAccount
<1>9. CASE /\ ~working.accounts[a].deleted
           /\ working' = Marked(t, IF call[t].op = "transfer" THEN written ELSE posted)
  <2> DEFINE T == IF call[t].op = "transfer" THEN written ELSE posted
  <2>1. T \in TablesOf(DOMAIN answers)
    BY <1>6, <1>7
  <2>2. /\ T.accounts = written.accounts /\ T.goals = written.goals /\ T.doomed = written.doomed
        /\ \A b \in Accounts : b # a => T.statements[b] = written.statements[b]
        /\ call[t].op = "transfer" \/ w.entries = <<>> => T.statements[a] = written.statements[a]
        /\ \A e \in Transaction : call[t].op # "transfer" /\ w.entries = <<e>> =>
              T.statements[a] = written.statements[a] \o <<Row(t, e)>>
    BY <1>7
  <2>3. working' = Marked(t, T)
    BY <1>9
  <2> HIDE DEF T
  <2>4. SameMoney(working', T) /\ working'.doomed = T.doomed
    BY <2>1, <2>3, SameMoneyMarked
  <2>5. OnlyItsAccount(t)
    BY <1>6, <2>2, <2>4 DEF OnlyItsAccount, SameMoney
  <2>6. Updated(t)
    BY <1>6, <2>2, <2>4 DEF Updated, SameMoney, row, w
  <2>7. QED
    BY <1>9, <2>5, <2>6
<1>10. QED
  BY <1>4, <1>8, <1>9

\* The amount a call takes from a row, and has not yet added to another.
LEMMA UpdatePays ==
  ASSUME Orderly, Orderly', NEW t \in Tasks, Busy(t), At(t) = "update", call[t].op # "deleteGoal",
         Verdict(call[t], seen[t]).ok, Updated(t), OnlyItsAccount(t),
         NEW a, a = call[t].acc, seen[t].account = working.accounts[a]
  PROVE  Total(working', a) =
            Total(working, a) - (IF call[t].op \in {"transfer", "contribute"} THEN call[t].value ELSE 0)
<1> DEFINE w == Writes(t)
           c == call[t]
<1>1. /\ a \in Accounts /\ c.value \in Int
      /\ working \in TablesOf(DOMAIN answers) /\ working' \in TablesOf(DOMAIN answers)'
  BY SeenRows DEF Call, Orderly, Typed
<1>2. PICK d \in Int, s \in Int :
        /\ Brings(t, w, d, s)
        /\ c.op \in {"transfer", "contribute"} => d = -c.value
        /\ c.op = "contribute" => s = 0
        /\ c.op \notin {"transfer", "contribute"} => d = s
  BY GrantedBrings
<1>3. working.accounts[a] \in AccountRow /\ working.accounts[a].balance \in Int
      /\ Total(working, a) \in Int
  BY <1>1, TotalInt
<1> HIDE DEF w
<1>4. working'.accounts[a].balance = working.accounts[a].balance + d
  BY <1>2, <1>3, OverwrittenPays DEF Updated, Brings, w
<1>5. Total(working', a) = Total(working, a) + d - (IF c.op = "transfer" THEN 0 ELSE s)
  <2>1. CASE c.op = "transfer"
    <3>1. working'.statements[a] = working.statements[a] /\ working'.goals = working.goals
      BY <2>1 DEF Updated, OnlyItsAccount
    <3>2. QED
      BY <1>1, <1>2, <1>3, <1>4, <2>1, <3>1, TotalPays
  <2>2. CASE c.op # "transfer" /\ w.entries = <<>> /\ s = 0
    <3>1. working'.statements[a] = working.statements[a] /\ working'.goals = working.goals
      BY <2>2 DEF Updated, OnlyItsAccount, w
    <3>2. QED
      <4>1. Total(working', a) = Total(working, a) + working'.accounts[a].balance
                                     - working.accounts[a].balance
        BY <1>1, <3>1, TotalPays
      <4>2. QED
        BY <1>2, <1>3, <1>4, <2>2, <4>1
  <2>3. CASE c.op # "transfer" /\ \E e \in Transaction : w.entries = <<e>> /\ s = Signed(Row(t, e))
    <3>1. PICK e \in Transaction : w.entries = <<e>> /\ s = Signed(Row(t, e))
      BY <2>3
    <3>2. /\ working'.statements[a] = working.statements[a] \o <<Row(t, e)>>
          /\ working'.goals = working.goals
      BY <2>3, <3>1 DEF Updated, OnlyItsAccount, w
    <3>3. Row(t, e) \in EntryRow
      BY RowSigned
    <3>4. Total(working', a) = Total(working, a) + working'.accounts[a].balance
                                   - working.accounts[a].balance - Signed(Row(t, e))
      BY <1>1, <3>2, <3>3, TotalEnters
    <3>5. QED
      BY <1>2, <1>3, <1>4, <2>3, <3>1, <3>4
  <2>4. QED
    BY <1>2, <2>1, <2>2, <2>3 DEF Brings
<1> HIDE DEF c
<1>6. QED
  BY <1>1, <1>2, <1>3, <1>5 DEF c

\* Deleting a goal pays its savings back, if the account is still there.
LEMMA RefundPays ==
  ASSUME Orderly, Orderly', NEW t \in Tasks, Busy(t), At(t) = "update", call[t].op = "deleteGoal",
         Granted(t), Updated(t), OnlyItsAccount(t),
         NEW a, a = call[t].acc, seen[t].account = working.accounts[a], ~working.accounts[a].deleted
  PROVE  Total(working', a) = Total(working, a) + seen[t].goal.current
<1> DEFINE w == Writes(t)
           r == seen[t].account
           row == [r EXCEPT !.balance = @ + seen[t].goal.current]
<1>1. /\ a \in Accounts /\ seen[t] \in Rows
      /\ working \in TablesOf(DOMAIN answers) /\ working' \in TablesOf(DOMAIN answers)'
  BY SeenRows DEF Call, Orderly, Typed
<1>2. seen[t].goal.exists /\ seen[t].goal.current > 0 /\ seen[t].goal.current \in Int
      /\ r \in AccountRow /\ r.balance \in Int
  BY <1>1 DEF Granted, Rows, GoalRow, AccountRow
<1>3. w = [UpdateAccount(row) EXCEPT !.drops = TRUE]
  <2>1. Verdict(call[t], seen[t]) = DeleteGoal(seen[t].goal, r)
    BY DEF Verdict, Decision
  <2>2. Verdict(call[t], seen[t]) = Done([UpdateAccount(row) EXCEPT !.drops = TRUE])
    BY <1>2, <2>1 DEF DeleteGoal
  <2>3. QED
    BY <2>2 DEF Done, Writes
<1>4. row \in AccountRow /\ row.balance = r.balance + seen[t].goal.current
  BY <1>2 DEF AccountRow
<1> HIDE DEF w, row
<1>5. w.account \in AllColumns /\ w.account.balance = row.balance /\ w.entries = <<>>
  BY <1>3, <1>4, UpdateAccountIs, AccountColumnsOf
<1>6. working'.accounts[a].balance = working.accounts[a].balance + seen[t].goal.current
  BY <1>2, <1>4, <1>5, OverwrittenPays DEF Updated, w
<1>7. working'.statements[a] = working.statements[a] /\ working'.goals = working.goals
  BY <1>5 DEF Updated, OnlyItsAccount, w
<1>8. Total(working', a) = Total(working, a) + working'.accounts[a].balance
                               - working.accounts[a].balance
  BY <1>1, <1>7, TotalPays
<1>9. Total(working, a) \in Int
  BY <1>1, TotalInt
<1>10. QED
  BY <1>2, <1>6, <1>8, <1>9

LEMMA UpdateAccountRowFunded ==
  ASSUME Orderly, Funded, Orderly', NEW t \in Tasks, UpdateAccountRow(t)
  PROVE  Funded'
<1> DEFINE c == call[t]
           next == Head(Tail(todo[t]))
<1>1. /\ Busy(t) /\ Holds(t) /\ At(t) = "update" /\ Changed(t, "update") /\ ~working.doomed
      /\ raced' = raced /\ stored' = stored
      /\ Continue(t, Tail(todo[t]), seen[t], result[t])
  BY DEF UpdateAccountRow, Changed, Runs, Healthy, At, Holds, Proceed
<1>2. /\ Follows(c, todo[t]) /\ seen[t] \in Rows /\ c \in Call /\ ~RefusedAtOnce(c)
      /\ working \in TablesOf(DOMAIN answers) /\ working' \in TablesOf(DOMAIN answers)'
  BY <1>1, TheProgramFollows, SeenRows DEF Orderly, Staged, Typed
<1>3. /\ c.acc \in Accounts /\ c.value \in Int /\ seen[t].goal.current \in Int
      /\ Tail(todo[t]) # <<>>
      /\ c.op = "transfer" => next = "updateReceiver" /\ c.acc # c.to /\ c.to \in Accounts
      /\ c.op = "contribute" => next = "addToGoal"
      /\ c.op \notin {"transfer", "contribute"} => next \in {"increment", "commit"}
  <2>1. c.acc \in Accounts /\ c.to \in Accounts /\ c.value \in Int /\ seen[t].goal.current \in Int
    BY <1>2 DEF Call, Rows, GoalRow
  <2>2. /\ Tail(todo[t]) # <<>>
        /\ c.op = "transfer" => next = "updateReceiver"
        /\ c.op = "contribute" => next = "addToGoal"
        /\ c.op \notin {"transfer", "contribute"} => next \in {"increment", "commit"}
    BY <1>1, <1>2 DEF Follows, At
  <2>3. c.op = "transfer" => c.acc # c.to
    BY <1>2 DEF RefusedAtOnce
  <2>4. QED
    BY <2>1, <2>2, <2>3
<1> HIDE DEF next
<1>4. /\ OnlyItsAccount(t)
      /\ \/ Updated(t) /\ ~working.accounts[c.acc].deleted
         \/ SameMoney(working', working) /\ working'.doomed
  BY UpdateLeaves
<1>5. Granted(t) /\ Sees(t) /\ SeesReceiver(t)
  BY <1>1 DEF Funded, SeenOf
<1>6. Elsewhere(t) /\ call' = call /\ seen'[t] = seen[t] /\ At(t)' = next
  BY <1>1, <1>3, MovesOn DEF Elsewhere, next
<1>7. Holds(t)'
  <2>1. Busy(t)'
    BY <1>1, <1>3, MovesOn
  <2>2. At(t)' # "lock"
    BY <1>3, <1>6
  <2>3. QED
    BY <2>1, <2>2 DEF Holds, At
<1>8. SeenOf(t)'
  <2>1. Granted(t)'
    BY <1>3, <1>6 DEF Granted
  <2>2. Sees(t)'
    <3>1. SUFFICES ASSUME c.acc \notin raced, next = "addToGoal", c.op = "contribute"
                   PROVE  working'.goals[c.goal].exists
      BY <1>1, <1>3, <1>6 DEF Sees
    <3>2. working.goals[c.goal].exists
      BY <1>1, <1>5, <3>1 DEF Sees
    <3>3. QED
      BY <1>4, <3>2 DEF OnlyItsAccount
  <2>3. SeesReceiver(t)'
    <3>1. SUFFICES ASSUME c.op = "transfer", c.to \notin raced
                   PROVE  seen[t].receiver = working'.accounts[c.to]
      BY <1>1, <1>6 DEF SeesReceiver
    <3>2. seen[t].receiver = working.accounts[c.to]
      BY <1>1, <1>5, <3>1 DEF SeesReceiver
    <3>3. QED
      BY <1>3, <1>4, <3>1, <3>2 DEF OnlyItsAccount
  <2>4. QED
    BY <2>1, <2>2, <2>3 DEF SeenOf
<1>9. ASSUME NEW a \in Accounts
      PROVE  /\ a # c.acc => Owed(t, a) = 0 /\ Owed(t, a)' = 0
             /\ a = c.acc /\ c.op \in {"transfer", "contribute"} =>
                  Owed(t, a) = 0 /\ Owed(t, a)' = c.value
             /\ a = c.acc /\ c.op = "deleteGoal" =>
                  Owed(t, a) = seen[t].goal.current /\ Owed(t, a)' = 0
             /\ c.op \notin {"transfer", "contribute", "deleteGoal"} =>
                  Owed(t, a) = 0 /\ Owed(t, a)' = 0
  <2>1. /\ Owes(t, a) <=> c.op = "deleteGoal" /\ a = c.acc
        /\ Owes(t, a)' <=> c.op \in {"transfer", "contribute"} /\ a = c.acc
    BY <1>1, <1>3, <1>6, <1>7 DEF Owes, Halfway
  <2>2. /\ c.op = "deleteGoal" => Missing(t) = seen[t].goal.current
        /\ c.op \in {"transfer", "contribute"} => Missing(t)' = c.value
    BY <1>6 DEF Missing
  <2>3. QED
    BY <2>1, <2>2 DEF Owed
<1>10. ASSUME NEW a \in Accounts \ raced, ~working'.accounts[a].deleted, ~working'.doomed
       PROVE  /\ ~working.accounts[a].deleted
              /\ Total(working', a) + Owed(t, a)' = Total(working, a) + Owed(t, a)
  <2>1. Updated(t) /\ ~working.accounts[c.acc].deleted /\ Total(working, a) \in Int
    BY <1>2, <1>4, <1>10, TotalInt
  <2>2. CASE a # c.acc
    <3>1. working'.accounts[a] = working.accounts[a] /\ Total(working', a) = Total(working, a)
      BY <1>2, <1>4, <2>2, TotalSame DEF OnlyItsAccount
    <3>2. Owed(t, a) = 0 /\ Owed(t, a)' = 0
      BY <1>9, <2>2
    <3>3. QED
      BY <1>10, <3>1, <3>2
  <2>3. CASE a = c.acc
    <3>1. seen[t].account = working.accounts[a]
      BY <1>1, <1>5, <1>10, <2>3 DEF Sees
    <3>2. CASE c.op = "deleteGoal"
      <4>1. Total(working', a) = Total(working, a) + seen[t].goal.current
        BY <1>1, <1>4, <1>5, <2>1, <2>3, <3>1, <3>2, RefundPays
      <4>2. Owed(t, a) = seen[t].goal.current /\ Owed(t, a)' = 0
        BY <1>9, <2>3, <3>2
      <4>3. QED
        BY <1>3, <2>1, <2>3, <4>1, <4>2
    <3>3. CASE c.op # "deleteGoal"
      <4>1. Total(working', a) =
              Total(working, a) - (IF c.op \in {"transfer", "contribute"} THEN c.value ELSE 0)
        BY <1>1, <1>4, <1>5, <2>1, <2>3, <3>1, <3>3, UpdatePays DEF Granted
      <4>2. /\ c.op \in {"transfer", "contribute"} => Owed(t, a) = 0 /\ Owed(t, a)' = c.value
            /\ c.op \notin {"transfer", "contribute"} => Owed(t, a) = 0 /\ Owed(t, a)' = 0
        BY <1>9, <2>3, <3>3
      <4>3. QED
        BY <1>3, <2>1, <2>3, <4>1, <4>2
    <3>4. QED
      BY <3>2, <3>3
  <2>4. QED
    BY <2>2, <2>3
<1>11. Balanced(t)
  BY <1>1, <1>10 DEF Balanced
<1>12. Local(t)
  BY <1>4 DEF Local, Touched, OnlyItsAccount
<1>13. SoundTables' /\ OwnersKept(t)
  BY <1>1, <1>4, GoalsLeft DEF OnlyItsAccount
<1>14. QED
  BY <1>1, <1>8, <1>11, <1>12, <1>13, WriteOn

\* The second half of a transfer: the receiver's row and both entries.
Credited(t) ==
    LET a == call[t].acc
        b == call[t].to
        columns == AccountColumns([seen[t].receiver EXCEPT
                       !.balance = EntryFor(seen[t].receiver, "TRANSFER_IN", call[t].value).balance])
    IN  /\ working'.goals = working.goals
        /\ \A x \in Accounts : /\ x # b => working'.accounts[x] = working.accounts[x]
                               /\ x \notin {a, b} => working'.statements[x] = working.statements[x]
        /\ working'.accounts[b] = Overwritten(working.accounts[b], columns)
        /\ working'.statements[a] = working.statements[a]
              \o <<Row(t, EntryFor(seen[t].account, "TRANSFER_OUT", call[t].value))>>
        /\ working'.statements[b] = working.statements[b]
              \o <<Row(t, EntryFor(seen[t].receiver, "TRANSFER_IN", call[t].value))>>

LEMMA CreditLeaves ==
  ASSUME Orderly, NEW t \in Tasks, UpdateReceiver(t), call[t].acc # call[t].to
  PROVE  \/ Credited(t) /\ ~working.accounts[call[t].to].deleted
         \/ SameMoney(working', working) /\ working'.doomed
<1> DEFINE a == call[t].acc
           b == call[t].to
           out == EntryFor(seen[t].account, "TRANSFER_OUT", call[t].value)
           in == EntryFor(seen[t].receiver, "TRANSFER_IN", call[t].value)
           columns == AccountColumns([seen[t].receiver EXCEPT !.balance = in.balance])
           row == Overwritten(working.accounts[b], columns)
           written == [working EXCEPT !.accounts[b] = row]
           half == Posted(t, written, a, <<out>>)
           whole == Posted(t, half, b, <<in>>)
<1>1. Busy(t)
  BY DEF UpdateReceiver, Changed, Runs, Healthy
<1>2. seen[t] \in Rows /\ call[t] \in Call
  BY <1>1, SeenRows
<1>3. /\ a \in Accounts /\ b \in Accounts /\ working \in TablesOf(DOMAIN answers)
      /\ working.accounts[b] \in AccountRow
  BY <1>2 DEF Call, Orderly, Typed, TablesOf
<1>4. out \in Transaction /\ in \in Transaction
  BY <1>2 DEF EntryFor, Transaction, TransactionType, Rows, AccountRow, Call
<1>5. columns \in AccountWrites
  <2>1. [seen[t].receiver EXCEPT !.balance = in.balance] \in AccountRow
    BY <1>2, <1>4 DEF Rows, AccountRow, Transaction
  <2>2. QED
    BY <2>1, AccountColumnsOf DEF AccountWrites
<1>6. \/ working' = [working EXCEPT !.doomed = TRUE]
      \/ working' = whole /\ ~working.accounts[b].deleted
  BY Zenon DEF UpdateReceiver
<1> HIDE DEF out, in, columns
<1>7. row \in AccountRow
  BY <1>3, <1>5, OverwrittenRow
<1> HIDE DEF row
<1>8. /\ written \in TablesOf(DOMAIN answers)
      /\ written.accounts[b] = row /\ \A x \in Accounts : x # b => written.accounts[x] = working.accounts[x]
      /\ written.goals = working.goals /\ written.statements = working.statements
  BY <1>3, <1>7, PutAccount, PutInAccounts
<1> HIDE DEF written
<1>9. AtMostOne(<<out>>) /\ AtMostOne(<<in>>)
  BY <1>4 DEF AtMostOne
<1>10. half \in TablesOf(DOMAIN answers) /\ Entered(t, half, written, a, <<out>>)
  BY <1>3, <1>4, <1>8, <1>9, PostedTables, PostedEntry
<1> HIDE DEF half
<1>11. Entered(t, whole, half, b, <<in>>)
  BY <1>3, <1>4, <1>10, PostedEntry
<1> HIDE DEF whole
<1>12. /\ half.statements[a] = written.statements[a] \o <<Row(t, out)>>
       /\ \A x \in Accounts : x # a => half.statements[x] = written.statements[x]
       /\ half.accounts = written.accounts /\ half.goals = written.goals
  BY <1>4, <1>10 DEF Entered
<1>13. /\ whole.statements[b] = half.statements[b] \o <<Row(t, in)>>
       /\ \A x \in Accounts : x # b => whole.statements[x] = half.statements[x]
       /\ whole.accounts = half.accounts /\ whole.goals = half.goals
  BY <1>4, <1>11 DEF Entered
<1>14. CASE working' = [working EXCEPT !.doomed = TRUE]
  BY <1>3, <1>14 DEF SameMoney, TablesOf
<1>15. CASE working' = whole /\ ~working.accounts[b].deleted
  <2>1. /\ working'.goals = working.goals /\ working'.accounts[b] = row
        /\ \A x \in Accounts : /\ x # b => working'.accounts[x] = working.accounts[x]
                               /\ x \notin {a, b} => working'.statements[x] = working.statements[x]
    BY <1>8, <1>12, <1>13, <1>15
  <2>2. working'.statements[a] = working.statements[a] \o <<Row(t, out)>>
    BY <1>3, <1>8, <1>12, <1>13, <1>15
  <2>3. working'.statements[b] = working.statements[b] \o <<Row(t, in)>>
    BY <1>3, <1>8, <1>12, <1>13, <1>15
  <2>4. Credited(t)
    BY <2>1, <2>2, <2>3 DEF Credited, row, columns, out, in
  <2>5. QED
    BY <1>15, <2>4
<1>16. QED
  BY <1>6, <1>14, <1>15

LEMMA UpdateReceiverFunded ==
  ASSUME Orderly, Funded, Orderly', NEW t \in Tasks, UpdateReceiver(t)
  PROVE  Funded'
<1> DEFINE c == call[t]
           a == c.acc
           b == c.to
           out == EntryFor(seen[t].account, "TRANSFER_OUT", c.value)
           in == EntryFor(seen[t].receiver, "TRANSFER_IN", c.value)
<1>1. /\ Busy(t) /\ Holds(t) /\ At(t) = "updateReceiver" /\ Changed(t, "updateReceiver")
      /\ ~working.doomed /\ raced' = raced /\ stored' = stored
      /\ Continue(t, Tail(todo[t]), seen[t], result[t])
  BY DEF UpdateReceiver, Changed, Runs, Healthy, At, Holds, Proceed
<1>2. /\ Follows(c, todo[t]) /\ seen[t] \in Rows /\ c \in Call /\ ~RefusedAtOnce(c)
      /\ working \in TablesOf(DOMAIN answers) /\ working' \in TablesOf(DOMAIN answers)'
  BY <1>1, TheProgramFollows, SeenRows DEF Orderly, Staged, Typed
<1>3. /\ a \in Accounts /\ b \in Accounts /\ c.value \in Int /\ c.op = "transfer" /\ a # b
      /\ Tail(todo[t]) # <<>> /\ Head(Tail(todo[t])) = "commit"
  BY <1>1, <1>2 DEF Follows, At, Call, RefusedAtOnce
<1>4. \/ Credited(t) /\ ~working.accounts[b].deleted
      \/ SameMoney(working', working) /\ working'.doomed
  BY <1>3, CreditLeaves
<1>5. /\ out \in Transaction /\ in \in Transaction /\ in.balance = seen[t].receiver.balance + c.value
      /\ seen[t].receiver \in AccountRow
  BY <1>2 DEF EntryFor, Transaction, TransactionType, Rows, AccountRow, Call
<1>6. /\ Row(t, out) \in EntryRow /\ Signed(Row(t, out)) = -c.value
      /\ Row(t, in) \in EntryRow /\ Signed(Row(t, in)) = c.value
  <2>1. /\ out.type = "TRANSFER_OUT" /\ out.amount = c.value
        /\ in.type = "TRANSFER_IN" /\ in.amount = c.value
    BY DEF EntryFor
  <2> HIDE DEF out, in
  <2>2. QED
    BY <1>3, <1>5, <2>1, RowSigned
<1>7. SeesReceiver(t) /\ At(t)' = "commit"
  BY <1>1, <1>3, MovesOn DEF Funded, SeenOf
<1>8. ASSUME NEW x \in Accounts
      PROVE  /\ x # a => Owed(t, x) = 0
             /\ x = a => Owed(t, x) = c.value
             /\ Owed(t, x)' = 0
  <2>1. Owes(t, x) <=> x = a
    BY <1>1 DEF Owes, Halfway
  <2>2. ~Owes(t, x)'
    BY <1>7 DEF Owes, Halfway
  <2>3. Missing(t) = c.value
    BY <1>3 DEF Missing
  <2>4. QED
    BY <2>1, <2>2, <2>3 DEF Owed
<1> HIDE DEF out, in
<1>9. ASSUME NEW x \in Accounts \ raced, Credited(t)
      PROVE  Total(working', x) + Owed(t, x)' = Total(working, x) + Owed(t, x)
  <2>1. Total(working, x) \in Int /\ working.accounts[x].balance \in Int
        /\ working'.goals = working.goals
    BY <1>2, <1>9, TotalInt DEF Credited
  <2>2. CASE x \notin {a, b}
    <3>1. Total(working', x) = Total(working, x)
      BY <1>2, <1>9, <2>2, TotalSame DEF Credited
    <3>2. QED
      BY <1>8, <2>1, <2>2, <3>1
  <2>3. CASE x = a
    <3>1. /\ working'.accounts[x] = working.accounts[x]
          /\ working'.statements[x] = working.statements[x] \o <<Row(t, out)>>
      BY <1>3, <1>9, <2>3 DEF Credited, out
    <3>2. Total(working', x) = Total(working, x) + working'.accounts[x].balance
                                   - working.accounts[x].balance - Signed(Row(t, out))
      BY <1>2, <1>6, <2>1, <3>1, TotalEnters
    <3>3. Total(working', x) = Total(working, x) + c.value
      BY <1>3, <1>6, <2>1, <3>1, <3>2
    <3>4. Owed(t, x) = c.value /\ Owed(t, x)' = 0
      BY <1>8, <2>3
    <3>5. QED
      BY <1>3, <2>1, <3>3, <3>4
  <2>4. CASE x = b
    <3> DEFINE columns == AccountColumns([seen[t].receiver EXCEPT !.balance = in.balance])
    <3>1. /\ working'.accounts[x] = Overwritten(working.accounts[x], columns)
          /\ working'.statements[x] = working.statements[x] \o <<Row(t, in)>>
      BY <1>3, <1>9, <2>4 DEF Credited, in
    <3>2. columns \in AllColumns /\ columns.balance = in.balance
      <4> DEFINE row == [seen[t].receiver EXCEPT !.balance = in.balance]
      <4>1. row \in AccountRow /\ row.balance = in.balance
        BY <1>5 DEF AccountRow, Transaction
      <4>2. columns = AccountColumns(row)
        OBVIOUS
      <4> HIDE DEF row, columns
      <4>3. QED
        BY <4>1, <4>2, AccountColumnsOf
    <3> HIDE DEF columns
    <3>3. working.accounts[x] \in AccountRow
      BY <1>2, TotalInt
    <3>4. seen[t].receiver = working.accounts[x]
      BY <1>1, <1>3, <1>7, <2>4 DEF SeesReceiver
    <3>5. working'.accounts[x].balance = working.accounts[x].balance + c.value
      BY <1>5, <3>1, <3>2, <3>3, <3>4, OverwrittenPays
    <3>6. Total(working', x) = Total(working, x) + working'.accounts[x].balance
                                   - working.accounts[x].balance - Signed(Row(t, in))
      BY <1>2, <1>6, <2>1, <3>1, TotalEnters
    <3>7. Owed(t, x) = 0 /\ Owed(t, x)' = 0
      BY <1>3, <1>8, <2>4
    <3>8. QED
      BY <1>3, <1>6, <2>1, <3>5, <3>6, <3>7
  <2>5. QED
    BY <2>2, <2>3, <2>4
<1>10. Balanced(t)
  <2>1. ASSUME NEW x \in Accounts, ~working'.accounts[x].deleted, Credited(t),
               ~working.accounts[b].deleted
        PROVE  ~working.accounts[x].deleted
    BY <2>1 DEF Credited
  <2>2. QED
    BY <1>1, <1>4, <1>9, <2>1 DEF Balanced
<1>11. Local(t)
  BY <1>3, <1>4 DEF Local, Touched, Credited, SameMoney
<1>12. SoundTables' /\ OwnersKept(t)
  BY <1>1, <1>4, GoalsLeft DEF Credited, SameMoney
<1>13. QED
  BY <1>1, <1>3, <1>10, <1>11, <1>12, WriteOn

-------------------------------------------------------------------------------
(* Commits and rollbacks *)

\* Money that nobody owes is what was there at the opening.
LEMMA NothingOwed ==
  ASSUME Orderly, Funded, NEW t \in Tasks, Holds(t), ~Halfway(t), ~working.doomed,
         NEW a \in Accounts \ raced, ~OpeningAccounts[a].deleted
  PROVE  working.accounts[a].deleted \/ Total(working, a) = Total(OpeningTables, a)
<1>1. WorkingMoney(a) /\ Apart
  BY DEF Funded
<1>2. \A u \in Tasks : ~Owes(u, a)
  BY <1>1, OthersOweNothing DEF Owes
<1>3. QED
  BY <1>1, <1>2 DEF WorkingMoney

\* The session's tables are the committed ones, and nobody owes them anything.
LEMMA Settled ==
  ASSUME NEW a, ~OpeningAccounts[a].deleted, SameMoney(working', stored'),
         stored'.accounts[a].deleted \/ Total(stored', a) = Total(OpeningTables, a),
         \A u \in Tasks : ~Owes(u, a)'
  PROVE  WorkingMoney(a)' /\ StoredMoney(a)'
<1>1. /\ Total(OpeningTables, a)' = Total(OpeningTables, a)
      /\ Total(working, a)' = Total(stored', a) /\ Total(stored, a)' = Total(stored', a)
  BY DEF Total, OpeningTables, SameMoney
<1>2. StoredMoney(a)'
  BY <1>1 DEF StoredMoney
<1>3. WorkingMoney(a)'
  BY <1>1 DEF WorkingMoney, SameMoney
<1>4. QED
  BY <1>2, <1>3

LEMMA SettleFunded ==
  ASSUME Orderly, Funded, NEW t \in Tasks, Holds(t), ~Halfway(t), Elsewhere(t), raced' = raced,
         ~working.doomed, SameMoney(working', working), SameMoney(stored', working),
         Busy(t)' => At(t)' \notin Delicate
  PROVE  Funded'
<1>1. ~Halfway(t)' /\ SeenOf(t)' /\ (Busy(t)' => At(t)' # "add")
  <2>1. ~Halfway(t)'
    BY DEF Halfway, Holds, Delicate
  <2>2. SeenOf(t)'
    <3>1. SUFFICES ASSUME Holds(t)' PROVE Granted(t)' /\ Sees(t)' /\ SeesReceiver(t)'
      BY DEF SeenOf
    <3>2. At(t)' \notin Delicate
      BY <3>1 DEF Holds
    <3>3. QED
      BY <3>2 DEF Granted, Sees, SeesReceiver, Delicate
  <2>3. QED
    BY <2>1, <2>2 DEF Delicate
<1>2. Local(t) /\ OwnersKept(t)
  BY DEF Local, OwnersKept, SameMoney
<1>3. /\ Apart' /\ OneMaker'
      /\ \A u \in Tasks : OwnGoalOf(u)' /\ NewIdOf(u)' /\ SeenOf(u)'
  BY <1>1, <1>2, RestKept
<1>4. SoundTables'
  BY DEF Funded, SoundTables, SameMoney
<1>5. ASSUME NEW a \in Accounts \ raced, ~OpeningAccounts[a].deleted
      PROVE  WorkingMoney(a)' /\ StoredMoney(a)'
  <2>1. stored'.accounts[a].deleted \/ Total(stored', a) = Total(OpeningTables, a)
    <3>1. Total(stored', a) = Total(working, a) /\ stored'.accounts[a] = working.accounts[a]
      BY DEF Total, SameMoney
    <3>2. QED
      BY <1>5, <3>1, NothingOwed
  <2>2. \A u \in Tasks : ~Owes(u, a)'
    <3>1. \A u \in Tasks : u # t => ~Owes(u, a)'
      BY <1>5, OthersOweNothing, OthersSame DEF Funded
    <3>2. QED
      BY <1>1, <3>1 DEF Owes
  <2>3. SameMoney(working', stored')
    BY DEF SameMoney
  <2>4. QED
    BY <1>5, <2>1, <2>2, <2>3, Settled
<1>6. QED
  BY <1>3, <1>4, <1>5 DEF Funded

LEMMA CommitFunded ==
  ASSUME Orderly, Funded, Orderly', NEW t \in Tasks, Commit(t)
  PROVE  Funded'
<1>1. /\ Busy(t) /\ Holds(t) /\ At(t) \in CommitsIn /\ ~working.doomed /\ raced' = raced
      /\ stored' = working /\ working' = working
      /\ Continue(t, Tail(todo[t]), seen[t], result[t])
  BY DEF Commit, Runs, Healthy, At, Holds, CommitsIn, Proceed
<1>2. Follows(call[t], todo[t])
  BY <1>1, TheProgramFollows DEF Orderly, Staged
<1>3. Tail(todo[t]) \in {<<>>, <<"log">>, <<"complete", "store">>}
  BY <1>1, <1>2 DEF Follows, At, CommitsIn
<1>4. Tail(todo[t]) # <<>> => Head(Tail(todo[t])) \in {"log", "complete"}
  <2>1. Head(<<"log">>) = "log"
    BY One
  <2>2. Head(<<"complete", "store">>) = "complete"
    BY Two
  <2> DEFINE rest == Tail(todo[t])
  <2> HIDE DEF rest
  <2>3. rest \in {<<>>, <<"log">>, <<"complete", "store">>}
    BY <1>3 DEF rest
  <2>4. rest # <<>> => Head(rest) \in {"log", "complete"}
    BY <2>1, <2>2, <2>3
  <2>5. QED
    BY <2>4 DEF rest
<1>5. Elsewhere(t) /\ (Busy(t)' => At(t)' \notin Delicate)
  BY <1>1, <1>4, MovesOn DEF Delicate
<1>6. ~Halfway(t)
  BY <1>1 DEF Halfway, CommitsIn
<1>7. SameMoney(working', working) /\ SameMoney(stored', working)
  BY <1>1 DEF SameMoney
<1>8. QED
  BY <1>1, <1>5, <1>6, <1>7, SettleFunded

LEMMA LoggedMoney ==
  ASSUME Orderly, NEW t
  PROVE  SameMoney(Logged(t), working)
<1>1. working \in TablesOf(DOMAIN answers)
  BY DEF Orderly, Typed
<1>2. QED
  BY <1>1 DEF SameMoney, Logged, TablesOf

LEMMA LogFunded ==
  ASSUME Orderly, Funded, Orderly', NEW t \in Tasks, Log(t)
  PROVE  Funded'
<1>1. /\ Busy(t) /\ Holds(t) /\ At(t) = "log" /\ ~working.doomed /\ raced' = raced
      /\ working' = Logged(t) /\ stored' = Logged(t)
      /\ Continue(t, Tail(todo[t]), seen[t], result[t])
  BY DEF Log, Runs, Healthy, At, Holds, Proceed
<1>2. Follows(call[t], todo[t])
  BY <1>1, TheProgramFollows DEF Orderly, Staged
<1>3. Tail(todo[t]) = <<>>
  BY <1>1, <1>2 DEF Follows, At
<1>4. Elsewhere(t) /\ ~Busy(t)'
  <2>1. Continue(t, <<>>, seen[t], result[t])
    BY <1>1, <1>3
  <2>2. QED
    BY <1>1, <2>1, MovesOn
<1>5. ~Halfway(t)
  BY <1>1 DEF Halfway
<1>6. SameMoney(working', working) /\ SameMoney(stored', working)
  BY <1>1, LoggedMoney
<1>7. QED
  BY <1>1, <1>4, <1>5, <1>6, SettleFunded

\* Whoever rolls back, the session's tables are the committed ones again; all the accounts of
\* the other holders have raced.
LEMMA RollbackFunded ==
  ASSUME Orderly, Funded, NEW t \in Tasks, Holds(t), Elsewhere(t),
         raced' = raced \cup Bystanders(t), SameMoney(working', stored'),
         \/ stored' = stored
         \/ SameMoney(stored', working) /\ ~working.doomed /\ ~Halfway(t),
         Busy(t)' => At(t)' \notin Delicate
  PROVE  Funded'
<1>1. Busy(t) /\ call' = call /\ \A u \in Tasks : Busy(u)' => Busy(u)
  BY OthersSame DEF Elsewhere, Holds
<1>2. /\ Apart /\ OneMaker /\ SoundTables
      /\ \A u \in Tasks : OwnGoalOf(u) /\ NewIdOf(u) /\ SeenOf(u)
  BY DEF Funded
<1>3. ASSUME NEW g \in Goals
      PROVE  /\ working'.goals[g].owner \in {0, working.goals[g].owner}
             /\ SoundGoal(working'.goals[g]) /\ stored'.goals[g] = working'.goals[g]
  BY <1>2 DEF SoundTables, SameMoney
<1>4. \A g \in Goals : GoalOwners(g)' \subseteq GoalOwners(g)
  BY <1>1, <1>3, OwnersShrink DEF OwnersKept
<1>5. Apart' /\ OneMaker' /\ \A u \in Tasks : OwnGoalOf(u)'
  BY <1>1, <1>2, <1>4, FewerTasks
<1>6. ASSUME NEW u \in Tasks PROVE NewIdOf(u)'
  <2>1. NewIdOf(u) /\ (Busy(u)' => Busy(u))
    BY <1>1, <1>2
  <2>2. ASSUME Busy(u)', call[u].op = "createGoal", At(u)' = "add"
        PROVE  working'.goals[call[u].goal].owner = 0
    <3>1. u # t
      BY <2>2 DEF Delicate
    <3>2. At(u) = "add"
      BY <2>2, <3>1, OthersSame
    <3>3. working.goals[call[u].goal].owner = 0
      BY <2>1, <2>2, <3>2 DEF NewIdOf
    <3>4. call[u].goal \in Goals
      BY <2>1, <2>2, SeenRows DEF Call
    <3>5. QED
      BY <1>3, <3>3, <3>4
  <2>3. QED
    BY <1>1, <2>1, <2>2 DEF NewIdOf
<1>7. ASSUME NEW u \in Tasks, u # t, Holds(u) PROVE Touched(call[u]) \subseteq raced'
  BY <1>7 DEF Bystanders, Others
<1>8. ASSUME NEW u \in Tasks PROVE SeenOf(u)'
  <2>1. SUFFICES ASSUME Holds(u)' PROVE Granted(u)' /\ Sees(u)' /\ SeesReceiver(u)'
    BY DEF SeenOf
  <2>2. CASE u = t
    <3>1. At(t)' \notin Delicate
      BY <2>1, <2>2 DEF Holds
    <3>2. QED
      BY <2>2, <3>1 DEF Granted, Sees, SeesReceiver, Delicate
  <2>3. CASE u # t
    <3>1. Holds(u) /\ Granted(u) /\ Granted(u)'
      BY <1>2, <2>1, <2>3, OthersSame DEF SeenOf
    <3>2. Touched(call[u]) \subseteq raced'
      BY <1>7, <2>3, <3>1
    <3>3. Sees(u)' /\ SeesReceiver(u)'
      BY <1>1, <3>2 DEF Sees, SeesReceiver, Touched
    <3>4. QED
      BY <3>1, <3>3
  <2>4. QED
    BY <2>2, <2>3
<1>9. SoundTables'
  BY <1>3 DEF SoundTables
<1>10. ASSUME NEW a \in Accounts \ raced', ~OpeningAccounts[a].deleted
       PROVE  WorkingMoney(a)' /\ StoredMoney(a)'
  <2>1. a \in Accounts \ raced
    OBVIOUS
  <2>2. stored'.accounts[a].deleted \/ Total(stored', a) = Total(OpeningTables, a)
    <3>1. CASE stored' = stored
      BY <1>10, <2>1, <3>1 DEF Funded, StoredMoney
    <3>2. CASE SameMoney(stored', working) /\ ~working.doomed /\ ~Halfway(t)
      <4>1. Total(stored', a) = Total(working, a) /\ stored'.accounts[a] = working.accounts[a]
        BY <3>2 DEF Total, SameMoney
      <4>2. QED
        BY <1>10, <2>1, <3>2, <4>1, NothingOwed
    <3>3. QED
      BY <3>1, <3>2
  <2>3. ASSUME NEW u \in Tasks PROVE ~Owes(u, a)'
    <3>1. CASE u = t
      BY <3>1 DEF Owes, Halfway, Holds, Delicate
    <3>2. CASE u # t
      BY <1>2, <2>1, <3>2, OthersOweNothing, OthersSame
    <3>3. QED
      BY <3>1, <3>2
  <2>4. QED
    BY <1>10, <2>2, <2>3, Settled
<1>11. QED
  BY <1>5, <1>6, <1>8, <1>9, <1>10 DEF Funded

LEMMA InsertKeyFunded ==
  ASSUME Orderly, Funded, Orderly', NEW t \in Tasks, InsertKey(t)
  PROVE  Funded'
<1> DEFINE k == call[t].key
           row == [status |-> "pending", result |-> "none", born |-> clock]
<1>1. /\ Busy(t) /\ Holds(t) /\ At(t) = "insert" /\ Healthy(t, "insert") /\ stored' = stored
      /\ working \in TablesOf(DOMAIN answers)
  BY DEF InsertKey, Healthy, Holds, At, Orderly, Typed
<1>2. CASE /\ raced' = raced /\ working' = [working EXCEPT !.keys[k] = row]
           /\ Proceed(t)
  <2>1. Follows(call[t], todo[t])
    BY <1>1, TheProgramFollows DEF Orderly, Staged
  <2>2. Head(Tail(todo[t])) \notin Delicate
    BY <1>1, <2>1 DEF Follows, At, Delicate
  <2> HIDE DEF row
  <2>3. SameMoney(working', working)
    BY <1>1, <1>2 DEF SameMoney, TablesOf
  <2>4. Runs(t, "insert")
    BY <1>1, <1>2 DEF Runs
  <2>5. Continue(t, Tail(todo[t]), seen[t], result[t])
    BY <1>2 DEF Proceed
  <2>6. QED
    BY <1>1, <2>2, <2>3, <2>4, <2>5, PassOn
<1>3. CASE /\ working' = stored /\ raced' = raced \cup Bystanders(t)
           /\ Continue(t, <<"reclaim">>, seen[t], "none")
  <2>1. Elsewhere(t) /\ At(t)' = "reclaim"
    BY <1>1, <1>3, MovesOn, One
  <2>2. At(t)' \notin Delicate
    BY <2>1 DEF Delicate
  <2>3. SameMoney(working', stored')
    BY <1>1, <1>3 DEF SameMoney
  <2>4. QED
    BY <1>1, <1>3, <2>1, <2>2, <2>3, RollbackFunded
<1>4. QED
  BY <1>2, <1>3 DEF InsertKey

LEMMA FailFunded ==
  ASSUME Orderly, Funded, Orderly', NEW t \in Tasks, NEW cause \in Causes(t), Fail(t, cause)
  PROVE  Funded'
<1>1. Busy(t) /\ Holds(t)
  BY DEF Fail, Holds
<1>2. \A say : Finish(t, say) => Elsewhere(t) /\ ~Busy(t)'
  <2>1. \A say : Finish(t, say) => Continue(t, <<>>, NoRows, say)
    BY DEF Continue
  <2>2. QED
    BY <1>1, <2>1, MovesOn
<1>3. Elsewhere(t) /\ ~Busy(t)'
  BY <1>2 DEF Fail
<1>4. CASE Discard(t, cause)
  <2>1. \/ stored' = stored
        \/ /\ cause = "fault" /\ Head(todo[t]) \in CommitsIn \cup {"log"}
           /\ stored' = working \/ stored' = Logged(t)
    BY <1>4 DEF Discard
  <2>2. \/ stored' = stored
        \/ SameMoney(stored', working) /\ ~working.doomed /\ ~Halfway(t)
    <3>1. CASE /\ cause = "fault" /\ Head(todo[t]) \in CommitsIn \cup {"log"}
               /\ stored' = working \/ stored' = Logged(t)
      <4>1. ~working.doomed
        BY <3>1 DEF Causes
      <4>2. ~Halfway(t)
        BY <3>1 DEF Halfway, At, CommitsIn
      <4>3. SameMoney(stored', working)
        BY <3>1, LoggedMoney DEF SameMoney
      <4>4. QED
        BY <4>1, <4>2, <4>3
    <3>2. QED
      BY <2>1, <3>1
  <2>3. SameMoney(working', stored') /\ raced' = raced \cup Bystanders(t)
    BY <1>4 DEF Discard, SameMoney
  <2>4. QED
    BY <1>1, <1>3, <2>2, <2>3, RollbackFunded
<1>5. CASE cause = "refused" /\ UNCHANGED <<stored, working, raced>>
  <2>1. PICK u \in Tasks : u # t /\ Holds(u)
    BY <1>5 DEF Causes, Others
  <2>2. Torn(call[t]) \subseteq raced
    BY <1>1, <2>1, Lone DEF Funded
  <2>3. ASSUME NEW a \in Accounts \ raced PROVE Owed(t, a)' = Owed(t, a)
    <3>1. ~Owes(t, a)
      BY <2>2, HalfwayTorn DEF Owes
    <3>2. ~Owes(t, a)'
      BY <1>3 DEF Owes, Halfway, Holds
    <3>3. QED
      BY <3>1, <3>2 DEF Owed
  <2>4. SeenOf(t)'
    BY <1>3 DEF SeenOf, Holds
  <2>5. SameMoney(working', working) /\ (working.doomed => working'.doomed)
    BY <1>5 DEF SameMoney
  <2>6. QED
    BY <1>1, <1>3, <1>5, <2>3, <2>4, <2>5, StillKept DEF Orderly
<1>6. QED
  BY <1>4, <1>5 DEF Fail

-------------------------------------------------------------------------------
(* Steps that await no statement of the session *)

LEMMA ContributionsStart ==
  ASSUME NEW c \in Calls, c.op = "contribute"
  PROVE  Head(Program(c)) = "account"
<1> DEFINE L == IF LockOf(c) # {} THEN <<"lock">> ELSE <<>>
           C == IF c.key # NoKey THEN <<"claim", "insert">> ELSE <<>>
           E == IF c.key # NoKey THEN <<"complete", "store">> ELSE <<>>
           P == Programs[c.op]
<1>1. Program(c) = ((L \o C) \o P) \o E
  BY DEF Program
<1>2. c.key = NoKey /\ LockOf(c) = {}
  BY CallsAssumption DEF LockOf, Movements
<1>3. L = <<>> /\ C = <<>> /\ E = <<>>
  BY <1>2
<1>4. P = <<"account", "goal", "update", "addToGoal", "commit">>
  BY DEF Programs, ContributeToGoal
<1> HIDE DEF L, C, E, P
<1>5. Program(c) = <<"account", "goal", "update", "addToGoal", "commit">>
  BY <1>1, <1>3, <1>4
<1>6. QED
  BY <1>5, Five

\* The tables are as they were, and so is what each task owes them.
LEMMA MoneySame ==
  ASSUME stored' = stored, working' = working, NEW a,
         \A u \in Tasks : (Owes(u, a)' <=> Owes(u, a)) /\ (Owes(u, a) => Missing(u)' = Missing(u)),
         WorkingMoney(a), StoredMoney(a)
  PROVE  WorkingMoney(a)' /\ StoredMoney(a)'
<1>1. /\ Total(OpeningTables, a)' = Total(OpeningTables, a)
      /\ Total(working, a)' = Total(working, a) /\ Total(stored, a)' = Total(stored, a)
  BY DEF Total, OpeningTables
<1>2. StoredMoney(a)'
  BY <1>1 DEF StoredMoney
<1>3. WorkingMoney(a)'
  <2>1. CASE working.accounts[a].deleted \/ working.doomed
    BY <2>1 DEF WorkingMoney
  <2>2. CASE ~(working.accounts[a].deleted \/ working.doomed)
    <3>1. ASSUME NEW u \in Tasks, Owes(u, a)'
          PROVE  (Total(working, a) + Missing(u) = Total(OpeningTables, a))'
      BY <1>1, <2>2, <3>1 DEF WorkingMoney
    <3>2. ASSUME \A u \in Tasks : ~Owes(u, a)'
          PROVE  (Total(working, a) = Total(OpeningTables, a))'
      BY <1>1, <2>2, <3>2 DEF WorkingMoney
    <3>3. QED
      BY <3>1, <3>2 DEF WorkingMoney
  <2>3. QED
    BY <2>1, <2>2
<1>4. QED
  BY <1>2, <1>3

LEMMA LockFunded ==
  ASSUME Orderly, Funded, Orderly', NEW t \in Tasks, Lock(t)
  PROVE  Funded'
<1> DEFINE rest == Tail(todo[t])
<1>1. /\ Busy(t) /\ At(t) = "lock" /\ ~Holds(t) /\ Continue(t, rest, seen[t], result[t])
      /\ stored' = stored /\ working' = working /\ raced' = raced
  BY DEF Lock, At, Proceed, Holds
<1>2. Follows(call[t], todo[t])
  BY <1>1, TheProgramFollows DEF Orderly, Staged
<1>3. rest # <<>> /\ call[t].op \in Movements /\ Head(rest) \in {"claim", "account"}
  BY <1>1, <1>2 DEF Follows, At
<1> HIDE DEF rest
<1>4. Elsewhere(t) /\ call' = call /\ At(t)' = Head(rest)
  BY <1>1, <1>3, MovesOn DEF Elsewhere
<1>5. /\ Apart /\ OneMaker /\ SoundTables
      /\ \A u \in Tasks : OwnGoalOf(u) /\ NewIdOf(u) /\ SeenOf(u)
  BY DEF Funded
<1>6. \A u \in Tasks : Busy(u)' => Busy(u)
  BY <1>1, <1>4, OthersSame
<1>7. OwnersKept(t)
  BY <1>1 DEF OwnersKept
<1>8. \A g \in Goals : GoalOwners(g)' \subseteq GoalOwners(g)
  BY <1>1, <1>4, <1>6, <1>7, OwnersShrink
<1>9. Apart' /\ OneMaker' /\ \A u \in Tasks : OwnGoalOf(u)'
  BY <1>1, <1>4, <1>5, <1>6, <1>8, FewerTasks
<1>10. ASSUME NEW u \in Tasks PROVE NewIdOf(u)' /\ SeenOf(u)'
  <2>1. CASE u = t
    <3>1. NewIdOf(t)'
      BY <1>3, <1>4 DEF NewIdOf, Movements
    <3>2. Granted(t)' /\ Sees(t)' /\ SeesReceiver(t)'
      BY <1>3, <1>4 DEF Granted, Sees, SeesReceiver
    <3>3. QED
      BY <2>1, <3>1, <3>2 DEF SeenOf
  <2>2. CASE u # t
    <3>1. /\ Busy(u)' <=> Busy(u)
          /\ Holds(u)' <=> Holds(u)
          /\ At(u)' = At(u) /\ (Granted(u)' <=> Granted(u)) /\ seen'[u] = seen[u]
      BY <1>4, <2>2, OthersSame DEF Elsewhere
    <3>2. NewIdOf(u)'
      BY <1>1, <1>4, <1>5, <3>1 DEF NewIdOf
    <3>3. (Sees(u)' <=> Sees(u)) /\ (SeesReceiver(u)' <=> SeesReceiver(u))
      BY <1>1, <1>4, <3>1 DEF Sees, SeesReceiver
    <3>4. QED
      BY <1>5, <3>1, <3>2, <3>3 DEF SeenOf
  <2>3. QED
    BY <2>1, <2>2
<1>11. SoundTables'
  BY <1>1, <1>5 DEF SoundTables
<1>12. ASSUME NEW a \in Accounts \ raced, ~OpeningAccounts[a].deleted
       PROVE  WorkingMoney(a)' /\ StoredMoney(a)'
  <2>1. WorkingMoney(a) /\ StoredMoney(a)
    BY <1>12 DEF Funded
  <2>2. ~Owes(t, a) /\ ~Owes(t, a)'
    BY <1>1, <1>3, <1>4 DEF Owes, Halfway, Movements
  <2>3. \A u \in Tasks : (Owes(u, a)' <=> Owes(u, a)) /\ (Owes(u, a) => Missing(u)' = Missing(u))
    BY <1>4, <2>2, OthersSame
  <2>4. QED
    BY <1>1, <2>1, <2>3, MoneySame
<1>13. QED
  BY <1>1, <1>9, <1>10, <1>11, <1>12 DEF Funded

\* Where the accounts that a new call shares with the others have gone.
LEMMA SubmitRaces ==
  ASSUME NEW t \in Tasks, NEW c \in Calls, Submit(t, c)
  PROVE  /\ raced \subseteq raced' /\ Mixed(c) \subseteq raced'
         /\ \A u \in Tasks : Busy(u) /\ ~Serialized(call[u], c) =>
              /\ Touched(c) \cap Touched(call[u]) \subseteq raced'
              /\ Torn(c) \subseteq raced' /\ Torn(call[u]) \subseteq raced'
<1> DEFINE met == {u \in Tasks : Busy(u) /\ ~Serialized(call[u], c)}
           crossed(u) == (Touched(c) \cap Touched(call[u])) \cup Torn(call[u])
           all == UNION {crossed(u) : u \in met}
           torn == IF met = {} THEN {} ELSE Torn(c)
<1>1. raced' = raced \cup Mixed(c) \cup torn \cup all
  BY DEF Submit
<1>2. \A u \in met : crossed(u) \subseteq all /\ torn = Torn(c)
  OBVIOUS
<1> HIDE DEF all, torn
<1>3. ASSUME NEW u \in Tasks, Busy(u), ~Serialized(call[u], c)
      PROVE  /\ Touched(c) \cap Touched(call[u]) \subseteq raced'
             /\ Torn(c) \subseteq raced' /\ Torn(call[u]) \subseteq raced'
  <2>1. u \in met
    BY <1>3
  <2>2. crossed(u) \subseteq raced' /\ Torn(c) \subseteq raced'
    BY <1>1, <1>2, <2>1
  <2>3. QED
    BY <2>2
<1>4. QED
  BY <1>1, <1>3

LEMMA SubmitFunded ==
  ASSUME Orderly, Funded, Orderly', NEW t \in Tasks, NEW c \in Calls, Submit(t, c)
  PROVE  Funded'
<1>1. Grows(t, c) /\ Fresh(c)
  BY SubmitGrows DEF Submit
<1>2. /\ \A u \in Tasks : u # t => /\ todo'[u] = todo[u] /\ call'[u] = call[u]
                                   /\ (Busy(u)' <=> Busy(u)) /\ At(u)' = At(u)
      /\ Busy(t)' => /\ todo'[t] = Program(c) /\ call'[t] = c /\ At(t)' = Head(Program(c))
      /\ Program(c) \in Tails(c) /\ Program(c) # <<>>
      /\ Head(Program(c)) \in {"lock", "account", "goal", "add", "isLocked", "admin"}
  BY <1>1, TasksAfter DEF At
<1>3. /\ ~Busy(t) /\ stored' = stored /\ working' = working /\ seen' = seen /\ c \in Call
  BY <1>1, CallsAssumption DEF Grows, Arrives, locals
<1>4. /\ Apart /\ OneMaker /\ SoundTables
      /\ \A u \in Tasks : OwnGoalOf(u) /\ NewIdOf(u) /\ SeenOf(u)
  BY DEF Funded
<1>5. /\ raced \subseteq raced' /\ Mixed(c) \subseteq raced'
      /\ \A u \in Tasks : Busy(u) /\ ~Serialized(call[u], c) =>
           /\ Touched(c) \cap Touched(call[u]) \subseteq raced'
           /\ Torn(c) \subseteq raced' /\ Torn(call[u]) \subseteq raced'
  BY SubmitRaces
<1>6. ASSUME NEW v \in Tasks, NEW u \in Tasks, v # u, Busy(v)', Busy(u)',
             ~Serialized(call'[v], call'[u])
      PROVE  (Touched(call'[v]) \cap Touched(call'[u])) \cup Torn(call'[v]) \subseteq raced'
  <2>1. \A d, e : Serialized(d, e) <=> Serialized(e, d)
    BY DEF Serialized
  <2>2. CASE v # t /\ u # t
    <3>1. (Touched(call[v]) \cap Touched(call[u])) \cup Torn(call[v]) \subseteq raced
      BY <1>2, <1>4, <1>6, <2>2 DEF Apart
    <3>2. QED
      BY <1>2, <1>5, <2>2, <3>1
  <2>3. CASE v = t
    <3>1. /\ Busy(u) /\ call'[u] = call[u] /\ call'[v] = c
          /\ ~Serialized(call[u], c)
      BY <1>2, <1>6, <2>1, <2>3
    <3>2. QED
      BY <1>5, <3>1
  <2>4. CASE u = t
    <3>1. Busy(v) /\ call'[v] = call[v] /\ call'[u] = c /\ ~Serialized(call[v], c)
      BY <1>2, <1>6, <2>4
    <3>2. QED
      BY <1>5, <3>1
  <2>5. QED
    BY <2>2, <2>3, <2>4
<1>7. Apart'
  BY <1>6 DEF Apart
<1>8. OneMaker'
  <2>1. ASSUME NEW v \in Tasks, NEW u \in Tasks, v # u, Busy(v)', Busy(u)',
               call'[v].op = "createGoal", call'[u].op = "createGoal"
        PROVE  call'[v].goal # call'[u].goal
    <3>1. ASSUME NEW w \in Tasks, Busy(w), call[w].op = "createGoal", c.op = "createGoal"
          PROVE  call[w].goal # c.goal
      BY <1>1, <3>1 DEF Fresh, Uses, GoalCalls
    <3>2. CASE v # t /\ u # t
      BY <1>2, <1>4, <2>1, <3>2 DEF OneMaker
    <3>3. CASE v = t
      BY <1>2, <2>1, <3>1, <3>3
    <3>4. CASE u = t
      BY <1>2, <2>1, <3>1, <3>4
    <3>5. QED
      BY <3>2, <3>3, <3>4
  <2>2. QED
    BY <2>1 DEF OneMaker
<1>9. ASSUME NEW g \in Goals, Busy(t)' /\ c.op = "createGoal" => c.goal # g
      PROVE  GoalOwners(g)' = GoalOwners(g)
  <2> DEFINE Makers == {u \in Tasks : Uses(u, g) /\ call[u].op = "createGoal"}
             Later == {u \in Tasks : Uses(u, g)' /\ call'[u].op = "createGoal"}
  <2>1. t \notin Makers /\ t \notin Later
    BY <1>2, <1>3, <1>9 DEF Uses
  <2>2. \A u \in Tasks : u # t => (u \in Makers <=> u \in Later) /\ call'[u] = call[u]
    BY <1>2 DEF Uses
  <2>3. GoalOwners(g)' = ({working.goals[g].owner} \ {0}) \cup {call'[u].acc : u \in Later}
    BY <1>3 DEF GoalOwners
  <2>4. GoalOwners(g) = ({working.goals[g].owner} \ {0}) \cup {call[u].acc : u \in Makers}
    BY DEF GoalOwners
  <2>5. Makers \subseteq Tasks /\ Later \subseteq Tasks
    OBVIOUS
  <2> HIDE DEF Makers, Later
  <2>6. Makers = Later /\ \A u \in Makers : call'[u] = call[u]
    BY <2>1, <2>2, <2>5
  <2>7. {call'[u].acc : u \in Later} = {call[u].acc : u \in Makers}
    BY <2>6
  <2>8. QED
    BY <2>3, <2>4, <2>7
<1>10. ASSUME NEW u \in Tasks PROVE OwnGoalOf(u)'
  <2>1. SUFFICES ASSUME Busy(u)', call'[u].op \in GoalUsers PROVE OwnGoalOf(u)'
    BY DEF OwnGoalOf
  <2>2. ASSUME NEW g \in Goals, g = call'[u].goal,
               \/ GoalOwners(g)' \subseteq {call'[u].acc}
               \/ GoalOwners(g)' \cup {call'[u].acc} \subseteq raced'
        PROVE  OwnGoalOf(u)'
    BY <2>2 DEF OwnGoalOf, GoalOwners, Uses
  <2>3. CASE u = t
    <3>1. call'[u] = c /\ c.op \in GoalUsers /\ c.goal \in Goals
      BY <1>2, <1>3, <2>1, <2>3 DEF Call
    <3>2. GoalOwners(c.goal)' = GoalOwners(c.goal)
      BY <1>9, <3>1 DEF GoalUsers
    <3>3. \/ GoalOwners(c.goal) \subseteq {c.acc}
          \/ GoalOwners(c.goal) \cup {c.acc} \subseteq raced'
      BY <1>5, <3>1 DEF Mixed, GoalUsers, GoalCalls
    <3>4. QED
      BY <2>2, <3>1, <3>2, <3>3
  <2>4. CASE u # t
    <3>1. Busy(u) /\ call'[u] = call[u] /\ call[u].op \in GoalUsers
      BY <1>2, <2>1, <2>4
    <3>2. PICK g \in Goals : g = call[u].goal
      BY <3>1, SeenRows DEF Call
    <3>3. Uses(u, g)
      BY <3>1, <3>2 DEF Uses, GoalUsers, GoalCalls
    <3>4. c.op = "createGoal" => c.goal # g
      BY <1>1, <3>3 DEF Fresh
    <3>5. GoalOwners(g)' = GoalOwners(g)
      BY <1>9, <3>4
    <3>6. GoalOwners(g) \subseteq {call[u].acc} \/ GoalOwners(g) \cup {call[u].acc} \subseteq raced
      BY <1>4, <3>1, <3>2 DEF OwnGoalOf
    <3>7. QED
      BY <1>5, <2>2, <3>1, <3>2, <3>5, <3>6
  <2>5. QED
    BY <2>3, <2>4
<1>11. ASSUME NEW u \in Tasks PROVE NewIdOf(u)'
  <2>1. CASE u = t
    <3>1. /\ c.op = "register" => OpeningAccounts[c.acc].deleted
          /\ c.op = "createGoal" => working.goals[c.goal].owner = 0
      BY <1>1 DEF Fresh
    <3>2. QED
      BY <1>2, <1>3, <2>1, <3>1 DEF NewIdOf
  <2>2. CASE u # t
    BY <1>2, <1>3, <1>4, <2>2 DEF NewIdOf
  <2>3. QED
    BY <2>1, <2>2
<1>12. ASSUME Busy(t)'
       PROVE  /\ At(t)' \in {"lock", "account", "goal", "add", "isLocked", "admin"}
              /\ At(t)' = "goal" => call'[t].op # "contribute"
  <2>1. c.op = "contribute" => Head(Program(c)) = "account"
    BY ContributionsStart
  <2>2. QED
    BY <1>2, <1>12, <2>1
<1>13. ASSUME NEW u \in Tasks PROVE SeenOf(u)'
  <2>1. SUFFICES ASSUME Holds(u)' PROVE Granted(u)' /\ Sees(u)' /\ SeesReceiver(u)'
    BY DEF SeenOf
  <2>2. CASE u = t
    <3>1. Busy(t)'
      BY <2>1, <2>2 DEF Holds
    <3>2. /\ At(t)' \in {"lock", "account", "goal", "add", "isLocked", "admin"}
          /\ At(t)' = "goal" => call'[t].op # "contribute"
      BY <1>12, <3>1
    <3>3. QED
      BY <2>2, <3>2 DEF Granted, Sees, SeesReceiver
  <2>3. CASE u # t
    <3>1. /\ Busy(u) /\ At(u)' = At(u) /\ call'[u] = call[u] /\ todo'[u] = todo[u]
          /\ Holds(u)
      BY <1>2, <2>1, <2>3 DEF Holds
    <3>2. Granted(u) /\ Sees(u) /\ SeesReceiver(u)
      BY <1>4, <3>1 DEF SeenOf
    <3>3. Granted(u)'
      BY <1>3, <3>1, <3>2 DEF Granted
    <3>4. Sees(u)' /\ SeesReceiver(u)'
      BY <1>3, <1>5, <3>1, <3>2 DEF Sees, SeesReceiver
    <3>5. QED
      BY <3>3, <3>4
  <2>4. QED
    BY <2>2, <2>3
<1>14. SoundTables'
  BY <1>3, <1>4 DEF SoundTables
<1>15. ASSUME NEW a \in Accounts \ raced', ~OpeningAccounts[a].deleted
       PROVE  WorkingMoney(a)' /\ StoredMoney(a)'
  <2>1. WorkingMoney(a) /\ StoredMoney(a)
    BY <1>5, <1>15 DEF Funded
  <2>2. ~Owes(t, a) /\ ~Owes(t, a)'
    <3>1. ~Owes(t, a)
      BY <1>3 DEF Owes, Halfway, Holds
    <3>2. ~Halfway(t)'
      BY <1>12 DEF Halfway, Holds
    <3>3. QED
      BY <3>1, <3>2 DEF Owes
  <2>3. ASSUME NEW u \in Tasks
        PROVE  (Owes(u, a)' <=> Owes(u, a)) /\ (Owes(u, a) => Missing(u)' = Missing(u))
    <3>1. CASE u = t
      BY <2>2, <3>1
    <3>2. CASE u # t
      <4>1. /\ Busy(u)' <=> Busy(u)
            /\ At(u)' = At(u) /\ call'[u] = call[u] /\ todo'[u] = todo[u]
        BY <1>2, <3>2
      <4>2. Holds(u)' <=> Holds(u)
        BY <4>1 DEF Holds
      <4>3. Halfway(u)' <=> Halfway(u)
        BY <4>1, <4>2 DEF Halfway
      <4>4. QED
        BY <1>3, <4>1, <4>3 DEF Owes, Missing
    <3>3. QED
      BY <3>1, <3>2
  <2>4. QED
    BY <1>3, <2>1, <2>3, MoneySame
<1>16. QED
  BY <1>7, <1>8, <1>10, <1>11, <1>13, <1>14, <1>15 DEF Funded

\* With the process all tasks end, and the session's tables are the committed ones.
LEMMA CrashFunded ==
  ASSUME Orderly, Funded, Crash
  PROVE  Funded'
<1>1. /\ stored' = stored /\ working' = stored /\ raced' = raced /\ call' = call
      /\ todo' = [t \in Tasks |-> <<>>]
  BY DEF Crash, history
<1>2. \A t \in Tasks : ~Busy(t)'
  BY <1>1 DEF Busy
<1>3. /\ Apart' /\ OneMaker'
      /\ \A t \in Tasks : OwnGoalOf(t)' /\ NewIdOf(t)' /\ SeenOf(t)'
  BY <1>2 DEF Apart, OneMaker, OwnGoalOf, NewIdOf, SeenOf, Holds
<1>4. SoundTables'
  BY <1>1 DEF Funded, SoundTables
<1>5. ASSUME NEW a \in Accounts \ raced, ~OpeningAccounts[a].deleted
      PROVE  WorkingMoney(a)' /\ StoredMoney(a)'
  <2>1. StoredMoney(a)
    BY <1>5 DEF Funded
  <2>2. stored'.accounts[a].deleted \/ Total(stored', a) = Total(OpeningTables, a)
    BY <1>1, <2>1 DEF StoredMoney, Total
  <2>3. \A u \in Tasks : ~Owes(u, a)'
    BY <1>2 DEF Owes, Halfway, Holds
  <2>4. SameMoney(working', stored')
    BY <1>1 DEF SameMoney
  <2>5. QED
    BY <1>5, <2>2, <2>3, <2>4, Settled
<1>6. QED
  BY <1>1, <1>3, <1>4, <1>5 DEF Funded

LEMMA ClockFunded ==
  ASSUME Funded, UNCHANGED <<stored, working, todo, locals, history>>
  PROVE  Funded'
<1>1. /\ stored' = stored /\ working' = working /\ todo' = todo /\ call' = call
      /\ seen' = seen /\ raced' = raced
  BY DEF locals, history
<1>2. /\ Apart /\ OneMaker /\ SoundTables
      /\ \A t \in Tasks : OwnGoalOf(t) /\ NewIdOf(t) /\ SeenOf(t)
  BY DEF Funded
<1>3. Apart' /\ OneMaker' /\ SoundTables'
  BY <1>1, <1>2 DEF Apart, OneMaker, SoundTables, Busy
<1>4. ASSUME NEW t \in Tasks PROVE OwnGoalOf(t)' /\ NewIdOf(t)' /\ SeenOf(t)'
  <2>1. OwnGoalOf(t)' <=> OwnGoalOf(t)
    BY <1>1 DEF OwnGoalOf, GoalOwners, Uses, Busy
  <2>2. OwnGoalOf(t)' /\ NewIdOf(t)'
    BY <1>1, <1>2, <2>1 DEF NewIdOf, Busy, At
  <2>3. SeenOf(t)'
    BY <1>1, <1>2 DEF SeenOf, Holds, Busy, At, Granted, Sees, SeesReceiver
  <2>4. QED
    BY <2>2, <2>3
<1>5. ASSUME NEW a \in Accounts \ raced, ~OpeningAccounts[a].deleted
      PROVE  WorkingMoney(a)' /\ StoredMoney(a)'
  <2>1. \A u \in Tasks : (Owes(u, a)' <=> Owes(u, a)) /\ Missing(u)' = Missing(u)
    BY <1>1 DEF Owes, Halfway, Holds, Busy, At, Missing
  <2>2. WorkingMoney(a) /\ StoredMoney(a)
    BY <1>5 DEF Funded
  <2>3. QED
    BY <1>1, <2>1, <2>2, MoneySame
<1>6. QED
  BY <1>1, <1>3, <1>4, <1>5 DEF Funded

LEMMA InitFunded ==
  ASSUME Init
  PROVE  Funded
<1>1. stored = OpeningTables /\ working = OpeningTables /\ \A t \in Tasks : ~Busy(t)
  BY DEF Init, Busy
<1>2. SoundTables
  BY <1>1, AsyncAssumption DEF SoundTables, OpeningTables
<1>3. \A a : WorkingMoney(a) /\ StoredMoney(a)
  BY <1>1 DEF WorkingMoney, StoredMoney, Owes, Halfway, Holds
<1>4. QED
  BY <1>1, <1>2, <1>3
  DEF Funded, Apart, OneMaker, OwnGoalOf, NewIdOf, SeenOf, Holds

LEMMA StatementFunded ==
  ASSUME Orderly, Funded, Orderly', NEW t \in Tasks, Statement(t)
  PROVE  Funded'
<1>1. CASE GetKey(t) \/ InsertKey(t) \/ GetKeyAgain(t) \/ CompleteKey(t)
  BY <1>1, GetKeyFunded, InsertKeyFunded, GetKeyAgainFunded, CompleteKeyFunded
<1>2. CASE GetAccount(t) \/ GetReceiver(t) \/ GetAdmin(t) \/ GetGoal(t) \/ GetRefunded(t)
  BY <1>2, GetAccountFunded, GetReceiverFunded, GetAdminFunded, GetGoalFunded, GetRefundedFunded
<1>3. CASE UpdateAccountRow(t) \/ UpdateReceiver(t) \/ SetFrozen(t) \/ SetActive(t) \/ Deleted(t)
  BY <1>3, UpdateAccountRowFunded, UpdateReceiverFunded, ColumnsFunded
<1>4. CASE Increment(t) \/ SetPassword(t) \/ Add(t) \/ AddToGoal(t) \/ DropGoal(t)
  BY <1>4, IncrementFunded, SetPasswordFunded, AddFunded, AddToGoalFunded, DropGoalFunded
<1>5. CASE IsLocked(t) \/ GetAttempt(t) \/ RecordFailure(t) \/ ResetAttempts(t)
  BY <1>5, IsLockedFunded, GetAttemptFunded, RecordFailureFunded, ResetAttemptsFunded
<1>6. CASE Commit(t) \/ Log(t)
  BY <1>6, CommitFunded, LogFunded
<1>7. QED
  BY <1>1, <1>2, <1>3, <1>4, <1>5, <1>6 DEF Statement

LEMMA NextFunded ==
  ASSUME Orderly, Funded, Orderly', [Next]_vars
  PROVE  Funded'
<1>1. ASSUME NEW t \in Tasks, NEW c \in Calls, Submit(t, c) PROVE Funded'
  BY <1>1, SubmitFunded
<1>2. ASSUME NEW t \in Tasks, Lock(t) PROVE Funded'
  BY <1>2, LockFunded
<1>3. ASSUME NEW t \in Tasks, Statement(t) PROVE Funded'
  BY <1>3, StatementFunded
<1>4. ASSUME NEW t \in Tasks, NEW cause \in Causes(t), Fail(t, cause) PROVE Funded'
  BY <1>4, FailFunded
<1>5. CASE Crash
  BY <1>5, CrashFunded
<1>6. CASE Tick
  BY <1>6, ClockFunded DEF Tick
<1>7. CASE Closing \/ UNCHANGED vars
  <2>1. UNCHANGED <<stored, working, todo, locals, history>>
    BY <1>7 DEF Closing, vars
  <2>2. QED
    BY <2>1, ClockFunded
<1>8. QED
  BY <1>1, <1>2, <1>3, <1>4, <1>5, <1>6, <1>7 DEF Next

-------------------------------------------------------------------------------
(* The money of the accounts *)

\* Nothing has come in over a statement without rows.
LEMMA NothingIn ==
  MoneyIn(<<>>) = 0
<1> DEFINE f == [i \in DOMAIN <<>> |-> Signed(<<>>[i])]
<1>1. DOMAIN <<>> = {} /\ IsFiniteSet({})
  BY FS_EmptySet
<1>2. \A x \in {} : f[x] \in Int
  OBVIOUS
<1> HIDE DEF f
<1>3. SumOver(f, {}) = 0
  BY <1>1, <1>2, SumUnfold
<1>4. QED
  BY <1>1, <1>3 DEF MoneyIn, f

\* Whichever tasks share the session and however they interleave, through storage failures,
\* rollbacks and crashes: the balance and the savings of an account that no call of another
\* lock has met are what it had and what its committed statement brought in (the services
\* of services_pkg over one AsyncSession).
THEOREM MoneyStays == Spec => []MoneyIsKept
<1>1. Init => Funded
  BY InitFunded
<1>2. Orderly /\ Funded /\ Orderly' /\ [Next]_vars => Funded'
  BY NextFunded
<1>3. Orderly /\ Funded => MoneyIsKept
  <2>1. SUFFICES ASSUME Orderly, Funded, NEW a \in Accounts \ raced,
                        ~stored.accounts[a].deleted, ~OpeningAccounts[a].deleted
                 PROVE  stored.accounts[a].balance + Saved(stored.goals, a)
                          = OpeningAccounts[a].balance + Saved(OpeningGoals, a)
                              + MoneyIn(stored.statements[a])
    BY DEF MoneyIsKept
  <2>2. Total(stored, a) = Total(OpeningTables, a)
    BY <2>1 DEF Funded, StoredMoney
  <2>3. /\ stored.accounts[a].balance \in Int /\ Saved(stored.goals, a) \in Int
        /\ MoneyIn(stored.statements[a]) \in Int
    BY TotalInt, <2>1 DEF Orderly, Typed
  <2>4. OpeningAccounts[a].balance \in Int /\ Saved(OpeningGoals, a) \in Int
    <3>1. OpeningAccounts[a] \in AccountRow
      BY AsyncAssumption
    <3>2. OpeningGoals \in [Goals -> OwnedGoal]
      BY AsyncAssumption DEF GoalRow, OwnedGoal
    <3>3. QED
      BY <3>1, <3>2, SavedInt DEF AccountRow
  <2>5. /\ OpeningTables.accounts[a] = OpeningAccounts[a]
        /\ OpeningTables.goals = OpeningGoals /\ OpeningTables.statements[a] = <<>>
    BY DEF OpeningTables
  <2>6. Total(OpeningTables, a) = OpeningAccounts[a].balance + Saved(OpeningGoals, a) - 0
    BY <2>5, NothingIn DEF Total
  <2>7. QED
    BY <2>2, <2>3, <2>4, <2>6 DEF Total
<1>4. QED
  BY <1>1, <1>2, <1>3, InvariantHolds, PTL DEF Spec
===============================================================================
