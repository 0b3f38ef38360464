---------------------------- MODULE Access_proofs ----------------------------
(***************************************************************************)
(* Access for any number of threads, accounts, requests and failures.      *)
(* Sound is inductive whatever overlaps; Factored, Versioned and Rotated   *)
(* rest on it, each for one kind of request.  Numbered, Naive and Counted  *)
(* follow a row of the login attempts through the threads' sessions, and   *)
(* Tallied relates its count to the wrong passwords.                       *)
(***************************************************************************)
EXTENDS Access, FiniteSetTheorems, TLAPS

-------------------------------------------------------------------------------
(* The inductive invariants *)

\* What a thread's stage says of its request.
Staged ==
    \A t \in Threads :
        /\ pc[t] \in {"check", "record", "commit", "reset"} => call[t].op = "login"
        /\ pc[t] = "verify" => call[t].op = "refresh"
        /\ pc[t] = "mint" => call[t].op \in {"login", "refresh"}
        /\ pc[t] \in {"verify", "mint"} /\ call[t].op = "refresh" =>
               call[t].token \in DOMAIN refresh
        /\ pc[t] \in {"change", "requery", "store"} =>
               /\ call[t].op \in {"password"} \cup FactorOps
               /\ call[t].sub = Admin => call[t].door = "v1"
               /\ call[t].op \in FactorOps => call[t].sub = Admin

\* Two requests about one thing have overlapped.
Overlapping(t, u) ==
    t # u /\ pc[t] # "idle" /\ pc[u] # "idle" /\ Matter(call[t]) = Matter(call[u])
Lone == \A t, u \in Threads : Overlapping(t, u) => Matter(call[t]) \in overlapped

Sound == TypeOK /\ Staged /\ Lone

\* The secret a request is about to enable has been shown a code for, and what it has
\* read of the flag still holds.
Factored ==
    <<Admin, "factor">> \notin overlapped =>
        /\ totp.enabled => totp.secret \in proven
        /\ \A t \in Threads : pc[t] \in {"requery", "store"} /\ call[t].op = "verify" =>
               held[t].secret \in proven
        /\ \A t \in Threads : pc[t] = "store" /\ call[t].op \in FactorOps =>
               held[t].seen = totp.enabled

\* No token is ahead of its subject's version, and a change of the password raises it.
Ahead(s) == \A token \in access : token.sub = s => token.version <= versions[s]
Raising(t) == pc[t] = "store" /\ call[t].op = "password" /\ call[t].sub \in Customers
Versioned ==
    \A s \in Subjects : <<s, "password">> \notin overlapped =>
        /\ Ahead(s)
        /\ \A t \in Threads : Raising(t) /\ call[t].sub = s =>
               held[t].version = versions[s] + 1

\* A refresh token whose exchange was stored is revoked, and one that v2 is exchanging is
\* not, unless two requests with it have overlapped.
Exchanging(t) == pc[t] = "mint" /\ Revokes(call[t])
Rotated ==
    /\ \A i \in DOMAIN spent :
           /\ spent[i].token \in DOMAIN refresh
           /\ spent[i].stored => refresh[spent[i].token].revoked
    /\ \A t \in Threads : Exchanging(t) =>
           ~refresh[call[t].token].revoked \/ <<call[t].token, "v2">> \in overlapped
    /\ RefreshedOnce

\* The ids of the rows, and the rows the sessions are about to delete.
Numbered ==
    /\ \A s \in Subjects : attempts[s].id <= lastId
    /\ \A s, u \in Subjects : ~menu.naive /\ s # u /\ attempts[s].id # 0 =>
           attempts[s].id # attempts[u].id
    /\ \A s \in Subjects : attempts[s].count # 0 => attempts[s].id # 0
    /\ \A t \in Threads : \A d \in dying[t] :
           /\ d.id \in 1 .. lastId /\ d.count >= MaxAttempts /\ d.until <= clock
           /\ menu.naive => d.until # 0

\* On SQLite a row at the limit has a time, and no failure is recorded on a row that its
\* session is about to delete.
RowHasTime(k) == attempts[k].count >= MaxAttempts => attempts[k].until # 0
DraftHasTime(t) ==
    pc[t] = "commit" =>
        IF draft[t].new THEN draft[t].count = 1
        ELSE /\ ~Dying(t, draft[t].id)
             /\ draft[t].count >= MaxAttempts => draft[t].timed /\ draft[t].until # 0
Naive ==
    menu.naive => (\A k \in Subjects : RowHasTime(k)) /\ (\A t \in Threads : DraftHasTime(t))

\* A subject whose logins have not overlapped: a session that is about to delete its row
\* has it as it is, and what a login under way has decided still stands.
Row(k) ==
    /\ attempts[k].count <= MaxAttempts
    /\ ~menu.naive => (attempts[k].until # 0 <=> attempts[k].count >= MaxAttempts)
    /\ ~menu.naive => \A t \in Threads : \A d \in dying[t] :
           d.id = attempts[k].id => attempts[k].count = 0 \/ d = attempts[k]
Recording(t, k) == attempts[k].count < MaxAttempts \/ Dying(t, attempts[k].id)
Inserting(t, k) == attempts[k].count = 0 /\ draft[t].count = 1 /\ draft[t].until = 0
Updating(t, k) ==
    /\ draft[t].id = attempts[k].id
    /\ Dying(t, draft[t].id) => draft[t].count < MaxAttempts
    /\ ~Dying(t, draft[t].id) /\ attempts[k].count # 0 =>
           /\ attempts[k].count < MaxAttempts
           /\ draft[t].count = attempts[k].count + 1
           /\ ~menu.naive => /\ draft[t].until # 0 <=> draft[t].count >= MaxAttempts
                             /\ draft[t].timed <=> draft[t].until # 0
Committing(t, k) == IF draft[t].new THEN Inserting(t, k) ELSE Updating(t, k)
Resetting(t, k) ==
    ~menu.naive => attempts[k].count < MaxAttempts \/ clock >= attempts[k].until
Standing(t, k) ==
    /\ pc[t] = "record" => Recording(t, k)
    /\ pc[t] = "commit" => Committing(t, k)
    /\ pc[t] = "reset" => Resetting(t, k)
Counted ==
    \A k \in Subjects : <<k, "login">> \notin overlapped =>
        /\ Row(k)
        /\ \A t \in Threads : call[t].sub = k => Standing(t, k)

\* What the wrong passwords of such a subject are to its row.  Only its own login has the
\* row marked, and the row is there until that login commits.
Deciding(t, k) == call[t].sub = k /\ pc[t] \in {"record", "commit", "reset"}
Marked(k) ==
    \A t \in Threads : attempts[k].count # 0 /\ Dying(t, attempts[k].id) => Deciding(t, k)
Present(k) ==
    \A t \in Threads : call[t].sub = k /\ pc[t] = "commit" /\ ~draft[t].new =>
        attempts[k].count # 0
Tally(k) ==
    /\ attempts[k].count <= wrong[k]
    /\ k \in told => attempts[k].count \in {0, MaxAttempts}
    /\ ~menu.naive /\ CanLogIn(k) =>
           /\ attempts[k].count = wrong[k] - Lost(k)
           /\ k \in told <=> attempts[k].count = MaxAttempts
           /\ Marked(k) /\ Present(k)
Tallied == \A k \in Subjects : <<k, "login">> \notin overlapped => Tally(k)

-------------------------------------------------------------------------------
(* The steps *)

\* What a request is when a thread takes it.
Begins(t, c, stage) ==
    /\ Begin(t, c, stage)
    /\ \/ stage = "check" /\ c.op = "login"
       \/ stage = "verify" /\ c.op = "refresh" /\ c.token \in DOMAIN refresh
       \/ /\ stage = "change" /\ c.op \in {"password"} \cup FactorOps
          /\ c.sub = Admin => c.door = "v1"
          /\ c.op \in FactorOps => c.sub = Admin

LEMMA CallType ==
    ASSUME NEW c \in Call
    PROVE  /\ c.sub \in Subjects /\ c.token \in Nat
           /\ c.op \in {"login", "refresh", "password"} \cup FactorOps /\ c.code \in Secrets
           /\ \A s \in Subjects : [c EXCEPT !.sub = s] \in Call
           /\ \A s \in Subjects : /\ [c EXCEPT !.sub = s].sub = s
                                  /\ [c EXCEPT !.sub = s].op = c.op
                                  /\ [c EXCEPT !.sub = s].door = c.door
  BY AccessAssumption DEF Call, FactorOps

\* Every step takes a request, moves one thread, lets a minute pass or changes nothing.
LEMMA NextCases ==
    ASSUME TypeOK, [Next]_vars
    PROVE  \/ \E t \in Threads, c \in Call, stage \in {"check", "verify", "change"} :
                  Begins(t, c, stage)
           \/ \E t \in Threads : Step(t)
           \/ Tick
           \/ UNCHANGED vars
<1>1. \A c \in menu.calls : c \in Call
  BY AccessAssumption DEF TypeOK
<1>2. ASSUME NEW t \in Threads, NEW c \in menu.calls, SubmitLogin(t, c)
      PROVE  Begins(t, c, "check")
  BY <1>2 DEF SubmitLogin, Begins
<1>3. ASSUME NEW t \in Threads, NEW c \in menu.calls, SubmitRefresh(t, c)
      PROVE  Begins(t, c, "verify")
  BY <1>3 DEF SubmitRefresh, Begins
<1>4. ASSUME NEW t \in Threads, NEW c \in menu.calls, NEW token \in access,
             SubmitChange(t, c, token)
      PROVE  \E d \in Call : Begins(t, d, "change")
  <2>1. token.sub \in Customers /\ token.sub \in Subjects /\ token.sub # Admin
    BY <1>4, AccessAssumption DEF SubmitChange, CurrentCustomer, Subjects
  <2>2. [c EXCEPT !.sub = token.sub] \in Call
    BY <1>1, <2>1, CallType
  <2>3. [c EXCEPT !.sub = token.sub].sub = token.sub /\ [c EXCEPT !.sub = token.sub].op = c.op
    BY <1>1, <2>1, CallType
  <2>4. c.op = "password" /\ Begin(t, [c EXCEPT !.sub = token.sub], "change")
    BY <1>4 DEF SubmitChange
  <2>5. Begins(t, [c EXCEPT !.sub = token.sub], "change")
    BY <2>1, <2>3, <2>4 DEF Begins, FactorOps
  <2>6. QED
    BY <2>2, <2>5
<1>5. ASSUME NEW t \in Threads, NEW c \in menu.calls, NEW token \in access,
             SubmitAdminChange(t, c, token)
      PROVE  \E d \in Call : Begins(t, d, "change")
  <2>1. Admin \in Subjects
    BY DEF Subjects
  <2>2. [c EXCEPT !.sub = Admin] \in Call
    BY <1>1, <2>1, CallType
  <2>3. /\ [c EXCEPT !.sub = Admin].sub = Admin /\ [c EXCEPT !.sub = Admin].op = c.op
        /\ [c EXCEPT !.sub = Admin].door = c.door
    BY <1>1, <2>1, CallType
  <2>4. /\ c.op \in {"password"} \cup FactorOps /\ c.door = "v1"
        /\ Begin(t, [c EXCEPT !.sub = Admin], "change")
    BY <1>5 DEF SubmitAdminChange
  <2>5. Begins(t, [c EXCEPT !.sub = Admin], "change")
    BY <2>3, <2>4 DEF Begins
  <2>6. QED
    BY <2>2, <2>5
<1>6. CASE UNCHANGED vars
  BY <1>6
<1>7. CASE Next
  BY <1>1, <1>2, <1>3, <1>4, <1>5, <1>7, Zenon DEF Next, Closing
<1>8. QED
  BY <1>6, <1>7

-------------------------------------------------------------------------------
(* Types *)

LEMMA InitType == Init => TypeOK
<1> SUFFICES ASSUME Init PROVE TypeOK
  OBVIOUS
<1>1. NoCall \in Call /\ NothingHeld \in Held
  BY AccessAssumption DEF NoCall, Call, NothingHeld, Held, Subjects, Passwords, Secrets
<1>2. Drafted([id |-> 0, count |-> 0, until |-> 0], 0, 0) \in Draft
  BY DEF Drafted, Draft
<1>3. lastId \in Nat
  <2>1. lastId = Cardinality(menu.old) /\ IsFiniteSet(menu.old)
    BY AccessAssumption DEF Init
  <2>2. QED
    BY <2>1, FS_CardinalityType
<1>4. attempts \in [Subjects -> AttemptRow]
  <2>1. PICK old \in SUBSET menu.old, ids \in Bijection(menu.old, 1 .. lastId) :
          attempts = [s \in Subjects |->
               IF s \in old THEN [id |-> ids[s], count |-> MaxAttempts, until |-> 1]
               ELSE [id |-> 0, count |-> 0, until |-> 0]]
    BY DEF Init
  <2>2. \A s \in old : ids[s] \in Nat
    BY <1>3 DEF Bijection, Injection
  <2>3. QED
    BY <2>1, <2>2, AccessAssumption DEF AttemptRow
<1>5. wrong \in [Subjects -> Nat]
  BY <1>4 DEF Init, AttemptRow
<1>6. QED
  BY <1>1, <1>2, <1>3, <1>4, <1>5 DEF Init, TypeOK, Secrets

LEMMA RowType ==
    ASSUME NEW row \in AttemptRow
    PROVE  /\ row.id \in Nat /\ row.count \in Nat /\ row.until \in Nat
           /\ row = [id |-> row.id, count |-> row.count, until |-> row.until]
           /\ Absent(row) = [id |-> row.id, count |-> 0, until |-> 0]
           /\ Absent(row) \in AttemptRow
<1>1. PICK i, c, u \in Nat : row = [id |-> i, count |-> c, until |-> u]
  BY Zenon DEF AttemptRow
<1>2. row.id = i /\ row.count = c /\ row.until = u
  BY <1>1
<1>3. Absent(row) = [id |-> i, count |-> 0, until |-> 0]
  <2>1. [row EXCEPT !.count = 0] = [id |-> i, count |-> 0, until |-> u]
    BY <1>1
  <2>2. Absent(row) = [[row EXCEPT !.count = 0] EXCEPT !.until = 0]
    BY <1>1 DEF Absent
  <2>3. QED
    BY <2>1, <2>2
<1>4. Absent(row) \in AttemptRow
  BY <1>3 DEF AttemptRow
<1>5. QED
  BY <1>1, <1>2, <1>3, <1>4

LEMMA DraftType ==
    ASSUME NEW d \in Draft
    PROVE  /\ d.id \in Nat /\ d.count \in Nat /\ d.until \in Nat
           /\ d.new \in BOOLEAN /\ d.timed \in BOOLEAN
  BY DEF Draft

\* A thread finds the row of a key in the table, or the one it is about to delete there.
LEMMA SeenCases ==
    ASSUME TypeOK, NEW t \in Threads, NEW k \in Subjects
    PROVE  /\ Seen(t, k) \in AttemptRow
           /\ \/ /\ Seen(t, k) = attempts[k]
                 /\ attempts[k].count = 0 \/ ~Dying(t, attempts[k].id)
              \/ /\ attempts[k].count # 0 /\ Seen(t, k) \in dying[t]
                 /\ Seen(t, k).id = attempts[k].id
<1>1. CASE attempts[k].count # 0 /\ Dying(t, attempts[k].id)
  <2>1. PICK d \in dying[t] : d.id = attempts[k].id
    BY <1>1 DEF Dying
  <2>2. Seen(t, k) \in dying[t] /\ Seen(t, k).id = attempts[k].id
    BY <1>1, <2>1 DEF Seen
  <2>3. QED
    BY <1>1, <2>2 DEF TypeOK
<1>2. CASE ~(attempts[k].count # 0 /\ Dying(t, attempts[k].id))
  BY <1>2 DEF Seen, TypeOK
<1>3. QED
  BY <1>1, <1>2

LEMMA RecordType ==
    ASSUME TypeOK, NEW row \in AttemptRow
    PROVE  RecordFailure(row) \in Draft
  BY RowType, AccessAssumption DEF RecordFailure, Drafted, Draft, TypeOK

\* Deleting rows leaves rows.
LEMMA DeletingType ==
    ASSUME NEW t \in Threads, NEW rows \in [Subjects -> AttemptRow]
    PROVE  /\ Deleting(t, rows) \in [Subjects -> AttemptRow]
           /\ \A k \in Subjects :
                 /\ Deleting(t, rows)[k].id = rows[k].id
                 /\ Dying(t, rows[k].id) => Deleting(t, rows)[k] = Absent(rows[k])
                 /\ ~Dying(t, rows[k].id) => Deleting(t, rows)[k] = rows[k]
  BY RowType DEF Deleting

\* Counting guesses keeps counts.
LEMMA GuessedType ==
    ASSUME wrong \in [Subjects -> Nat], NEW k \in Subjects, NEW locks,
           Guessed(k, locks) \/ GuessedRight(k)
    PROVE  wrong' \in [Subjects -> Nat]
  BY DEF Guessed, GuessedRight

LEMMA CommitsType ==
    ASSUME TypeOK, NEW t \in Threads, CommitsDeletes(t)
    PROVE  /\ attempts' \in [Subjects -> AttemptRow] /\ lastId' \in Nat
           /\ dying' \in [Threads -> SUBSET AttemptRow]
  BY DeletingType DEF TypeOK, CommitsDeletes

\* The row a recorded failure leaves, and its id.
LEMMA WrittenType ==
    ASSUME TypeOK, NEW t \in Threads, NEW k \in Subjects, NEW id \in Nat
    PROVE  WrittenRow(attempts[k], draft[t], id) \in AttemptRow
  BY RowType, DraftType DEF WrittenRow, AttemptRow, TypeOK

LEMMA NewIdType == TypeOK => NewIds \subseteq Nat \ {0}
  BY DEF TypeOK, NewIds

LEMMA WriteFailureType ==
    ASSUME TypeOK, NEW t \in Threads, NEW k \in Subjects, WriteFailure(t, k)
    PROVE  attempts' \in [Subjects -> AttemptRow] /\ lastId' \in Nat
<1> DEFINE Written(id) == [attempts EXCEPT ![k] = WrittenRow(@, draft[t], id)]
<1>1. ASSUME NEW id \in Nat PROVE Written(id) \in [Subjects -> AttemptRow]
  BY WrittenType DEF TypeOK
<1>2. attempts \in [Subjects -> AttemptRow] /\ attempts[k].id \in Nat /\ lastId \in Nat
  BY RowType DEF TypeOK
<1> HIDE DEF Written
<1>3. \/ attempts' = Deleting(t, attempts) /\ lastId' = lastId
      \/ attempts' = Deleting(t, Written(attempts[k].id)) /\ lastId' = lastId
      \/ \E id \in NewIds : /\ attempts' = Deleting(t, Written(id))
                            /\ lastId' = IF id > lastId THEN id ELSE lastId
  BY DEF WriteFailure, Written
<1>4. QED
  BY <1>1, <1>2, <1>3, NewIdType, DeletingType

LEMMA StatusType == \A c \in Call : \A say : Status(c, say) \in Nat
  BY DEF Status, AdminStatus, AdminStatusV2, LoginStatus, LoginStatusV2
LEMMA CodeStatusType == \A c \in Call : CodeStatus(c) \in Nat
  BY DEF CodeStatus

\* The tokens a pair holds speak for a subject or for nobody.
LEMMA PairType ==
    ASSUME TypeOK, Staged, NEW t \in Threads, pc[t] = "mint"
    PROVE  /\ PairSubject(call[t]) \in Subjects \cup {NoOne}
           /\ PairRole(call[t]) \in {"customer", "admin"}
<1>1. call[t] \in Call /\ call[t].sub \in Subjects
  BY CallType DEF TypeOK
<1>2. CASE call[t].op = "login"
  BY <1>1, <1>2 DEF PairSubject, PairRole
<1>3. CASE call[t].op = "refresh"
  <2>1. refresh[call[t].token] \in RefreshRow
    BY <1>3 DEF Staged, TypeOK
  <2>2. /\ refresh[call[t].token].sub \in Subjects \cup {NoOne}
        /\ refresh[call[t].token].role \in {"customer", "admin"}
    BY <2>1 DEF RefreshRow
  <2>3. QED
    BY <1>3, <2>2 DEF PairSubject, PairRole, RefreshSubject, RefreshSubjectV2
<1>4. QED
  BY <1>2, <1>3 DEF Staged

\* Every step of a thread answers it or moves it on.
PcNames == {"idle", "check", "record", "commit", "reset", "verify", "mint", "change",
            "requery", "store"}
Talks == reply \in [Threads -> Nat] /\ pc \in [Threads -> PcNames]
LEMMA AnswerType ==
    ASSUME TypeOK, NEW t \in Threads, NEW s \in Nat, Answer(t, s)
    PROVE  Talks'
  BY DEF TypeOK, Answer, Goto, Talks, PcNames
LEMMA GotoType ==
    ASSUME TypeOK, NEW t \in Threads, NEW stage \in PcNames, Goto(t, stage), UNCHANGED reply
    PROVE  Talks'
  BY DEF TypeOK, Goto, Talks, PcNames

\* The rows with which a new pair is stored: the token it is exchanged for is revoked.
LEMMA RevokedRows ==
    ASSUME TypeOK, Staged, NEW t \in Threads, pc[t] = "mint"
    PROVE  /\ Revoked(call[t]) \in Seq(RefreshRow) /\ Len(Revoked(call[t])) = Len(refresh)
           /\ \A id \in DOMAIN refresh :
                 Revoked(call[t])[id].revoked =
                     IF Revokes(call[t]) /\ id = call[t].token THEN TRUE
                     ELSE refresh[id].revoked
<1>1. refresh \in Seq(RefreshRow)
  BY DEF TypeOK
<1>2. CASE ~Revokes(call[t])
  BY <1>1, <1>2 DEF Revoked
<1>3. CASE Revokes(call[t])
  <2>1. PICK new : new = [refresh[call[t].token] EXCEPT !.revoked = TRUE]
    OBVIOUS
  <2>2. call[t].token \in DOMAIN refresh
    BY <1>3 DEF Staged, Revokes
  <2>3. new \in RefreshRow /\ new.revoked = TRUE
    <3>1. refresh[call[t].token] \in RefreshRow
      BY <1>1, <2>2
    <3>2. QED
      BY <2>1, <3>1 DEF RefreshRow
  <2>4. Revoked(call[t]) = [refresh EXCEPT ![call[t].token] = new]
    BY <1>3, <2>1 DEF Revoked
  <2>5. /\ Revoked(call[t]) \in Seq(RefreshRow) /\ Len(Revoked(call[t])) = Len(refresh)
        /\ \A id \in DOMAIN refresh :
              Revoked(call[t])[id] = IF id = call[t].token THEN new ELSE refresh[id]
    BY <1>1, <2>2, <2>3, <2>4
  <2>6. QED
    BY <1>3, <2>3, <2>5
<1>4. QED
  BY <1>2, <1>3

LEMMA AppendKeeps ==
    ASSUME NEW S, NEW q \in Seq(S), NEW e \in S
    PROVE  Append(q, e) \in Seq(S)
  OBVIOUS

LEMMA StepType ==
    ASSUME TypeOK, Staged, NEW t \in Threads, Step(t)
    PROVE  TypeOK'
<1> USE DEF TypeOK, accounts, tables, session, bounds, guesses, history
<1>0. /\ call[t] \in Call /\ call[t].sub \in Subjects /\ call[t].token \in Nat
      /\ call[t].code \in Secrets
  BY CallType
<1>1. ASSUME Talks'
      PROVE  /\ reply' \in [Threads -> Nat]
             /\ pc' \in [Threads -> {"idle", "check", "record", "commit", "reset", "verify",
                                    "mint", "change", "requery", "store"}]
  BY <1>1 DEF Talks, PcNames
<1>2. CASE Check(t)
  <2>1. Seen(t, call[t].sub) \in AttemptRow
    BY <1>0, SeenCases
  <2>2. dying' \in [Threads -> SUBSET AttemptRow]
    <3>1. dying[t] \cup {Seen(t, call[t].sub)} \in SUBSET AttemptRow
      BY <2>1
    <3>2. dying' \in {dying, [dying EXCEPT ![t] = @ \cup {Seen(t, call[t].sub)}]}
      BY <1>2 DEF Check
    <3>3. QED
      BY <3>1, <3>2
  <2>3. Talks'
    <3>1. \A say : Status(call[t], say) \in Nat
      BY <1>0, StatusType
    <3>2. CASE poisoned[t]
      <4>1. Answer(t, 500)
        BY <1>2, <3>2 DEF Check
      <4>2. QED
        BY <4>1, AnswerType
    <3>3. CASE ~poisoned[t]
      <4>1. \/ \E say : Answer(t, Status(call[t], say))
            \/ Goto(t, "reset") /\ UNCHANGED reply
            \/ Goto(t, "record") /\ UNCHANGED reply
        <5>1. CASE Locked(Seen(t, call[t].sub))
          BY <1>2, <3>3, <5>1 DEF Check
        <5>2. CASE ~Locked(Seen(t, call[t].sub)) /\ ~Known(call[t].sub)
          BY <1>2, <3>3, <5>2 DEF Check
        <5>3. CASE ~Locked(Seen(t, call[t].sub)) /\ Known(call[t].sub) /\ Barred(call[t].sub)
          BY <1>2, <3>3, <5>3 DEF Check
        <5>4. CASE ~Locked(Seen(t, call[t].sub)) /\ Known(call[t].sub) /\ ~Barred(call[t].sub)
          BY <1>2, <3>3, <5>4 DEF Check
        <5>5. QED
          BY <5>1, <5>2, <5>3, <5>4
      <4>2. QED
        BY <3>1, <4>1, AnswerType, GotoType DEF PcNames
    <3>4. QED
      BY <3>2, <3>3
  <2>4. QED
    BY <1>1, <1>2, <2>2, <2>3 DEF Check
<1>3. CASE Record(t)
  <2>1. RecordFailure(Seen(t, call[t].sub)) \in Draft
    BY <1>0, SeenCases, RecordType
  <2>2. Talks'
    <3>1. Answer(t, 500) \/ (Goto(t, "commit") /\ UNCHANGED reply)
      BY <1>3 DEF Record
    <3>2. QED
      BY <3>1, AnswerType, GotoType DEF PcNames
  <2>3. draft' \in [Threads -> Draft]
    BY <1>3, <2>1 DEF Record
  <2>4. QED
    BY <1>1, <1>3, <2>2, <2>3 DEF Record
<1>4. CASE CommitFailure(t)
  <2>1. Status(call[t], Says(draft[t])) \in Nat
    BY <1>0, StatusType
  <2>2. Talks'
    <3>1. Answer(t, 500) \/ Answer(t, Status(call[t], Says(draft[t])))
      BY <1>4 DEF CommitFailure
    <3>2. QED
      BY <2>1, <3>1, AnswerType
  <2>3. attempts' \in [Subjects -> AttemptRow] /\ lastId' \in Nat
    BY <1>0, <1>4, WriteFailureType DEF CommitFailure
  <2>4. wrong' \in [Subjects -> Nat]
    <3>1. wrong' = wrong \/ \E locks : Guessed(call[t].sub, locks)
      BY <1>4 DEF CommitFailure
    <3>2. QED
      BY <1>0, <3>1, GuessedType
  <2>5. dying' \in [Threads -> SUBSET AttemptRow] /\ poisoned' \in [Threads -> BOOLEAN]
    BY <1>4 DEF CommitFailure
  <2>6. QED
    BY <1>1, <1>4, <2>2, <2>3, <2>4, <2>5 DEF CommitFailure
<1>5. CASE Reset(t)
  <2>1. CodeStatus(call[t]) \in Nat
    BY <1>0, CodeStatusType
  <2>2. Talks'
    <3>1. (Goto(t, "mint") /\ UNCHANGED reply) \/ Answer(t, CodeStatus(call[t]))
      BY <1>5 DEF Reset
    <3>2. QED
      BY <2>1, <3>1, AnswerType, GotoType DEF PcNames
  <2>3. attempts' \in [Subjects -> AttemptRow]
    <3>1. Deleting(t, attempts) \in [Subjects -> AttemptRow]
      BY DeletingType
    <3>2. Absent(Deleting(t, attempts)[call[t].sub]) \in AttemptRow
      BY <1>0, <3>1, RowType
    <3>3. QED
      BY <1>5, <3>1, <3>2 DEF Reset
  <2>4. wrong' \in [Subjects -> Nat]
    <3>1. GuessedRight(call[t].sub)
      BY <1>5 DEF Reset
    <3>2. QED
      BY <1>0, <3>1, GuessedType
  <2>5. dying' \in [Threads -> SUBSET AttemptRow]
    BY <1>5 DEF Reset
  <2>6. QED
    BY <1>1, <1>5, <2>2, <2>3, <2>4, <2>5 DEF Reset
<1>6. CASE Verify(t)
  <2>1. Answer(t, 500) \/ Answer(t, 401) \/ (Goto(t, "mint") /\ UNCHANGED reply)
    BY <1>6 DEF Verify
  <2>2. Talks'
    BY <2>1, AnswerType, GotoType DEF PcNames
  <2>3. QED
    BY <1>1, <1>6, <2>2 DEF Verify
<1>7. CASE Mint(t)
  <2> DEFINE sub == PairSubject(call[t])
             row == [sub |-> sub, role |-> PairRole(call[t]),
                     exp |-> clock + RefreshMinutes, revoked |-> FALSE]
  <2>1. /\ sub \in Subjects \cup {NoOne} /\ PairRole(call[t]) \in {"customer", "admin"}
        /\ clock + RefreshMinutes \in Nat /\ clock + AccessMinutes \in Nat
    <3>1. pc[t] = "mint"
      BY <1>7 DEF Mint
    <3>2. sub \in Subjects \cup {NoOne} /\ PairRole(call[t]) \in {"customer", "admin"}
      BY <3>1, PairType
    <3>3. RefreshMinutes \in Nat /\ AccessMinutes \in Nat
      BY AccessAssumption
    <3>4. QED
      BY <3>2, <3>3
  <2>2. row \in RefreshRow
    BY <2>1 DEF RefreshRow
  <2>3. AccessToken(sub, PairRole(call[t])) \in AccessRow
    BY <2>1 DEF AccessToken, AccessRow
  <2> HIDE DEF row, sub
  <2>4. Revoked(call[t]) \in Seq(RefreshRow)
    BY <1>7, RevokedRows DEF Mint
  <2>5. spent' \in Seq([token : Nat, stored : BOOLEAN]) /\ access' \subseteq AccessRow
    <3>1. PICK stored \in BOOLEAN : spent' = Exchanged(call[t], stored)
      BY <1>7 DEF Mint
    <3>2. PICK e \in [token : Nat, stored : BOOLEAN] :
            e = [token |-> call[t].token, stored |-> stored]
      BY <1>0
    <3>3. spent' \in Seq([token : Nat, stored : BOOLEAN])
      <4>1. spent' = spent \/ spent' = Append(spent, e)
        BY <3>1, <3>2 DEF Exchanged
      <4>2. Append(spent, e) \in Seq([token : Nat, stored : BOOLEAN])
        BY AppendKeeps
      <4>3. QED
        BY <4>1, <4>2
    <3>4. access' \subseteq AccessRow
      BY <1>7, <2>3 DEF Mint, sub
    <3>5. QED
      BY <3>3, <3>4
  <2>6. refresh' \in Seq(RefreshRow)
    <3>1. refresh' \in {refresh, Append(Revoked(call[t]), row)}
      BY <1>7 DEF Mint, row, sub
    <3>2. Append(Revoked(call[t]), row) \in Seq(RefreshRow)
      BY <2>2, <2>4
    <3>3. QED
      BY <3>1, <3>2
  <2>7. /\ attempts' \in [Subjects -> AttemptRow] /\ lastId' \in Nat
        /\ dying' \in [Threads -> SUBSET AttemptRow]
    BY <1>7, CommitsType DEF Mint
  <2>8. poisoned' \in [Threads -> BOOLEAN] /\ faults' \in Nat
    <3>1. \/ poisoned' = poisoned /\ faults' = faults
          \/ poisoned' = [poisoned EXCEPT ![t] = TRUE] /\ faults' = faults + 1
      BY <1>7 DEF Mint
    <3>2. poisoned' \in [Threads -> BOOLEAN]
      BY <3>1
    <3>3. faults' \in Nat
      BY <3>1
    <3>4. QED
      BY <3>2, <3>3
  <2>9. Talks'
    BY <1>7, AnswerType DEF Mint
  <2>10. QED
    BY <1>1, <1>7, <2>5, <2>6, <2>7, <2>8, <2>9 DEF Mint
<1>8. CASE ReadChange(t)
  <2>1. /\ [NothingHeld EXCEPT !.secret = call[t].code] \in Held
        /\ [NothingHeld EXCEPT !.secret = totp.secret] \in Held
    BY <1>0 DEF NothingHeld, Held
  <2>2. held' \in [Threads -> Held]
    <3>1. \/ held' = held
          \/ held' = [held EXCEPT ![t] = [NothingHeld EXCEPT !.secret = call[t].code]]
          \/ held' = [held EXCEPT ![t] = [NothingHeld EXCEPT !.secret = totp.secret]]
      BY <1>8 DEF ReadChange
    <3>2. QED
      BY <2>1, <3>1
  <2>3. ChangeStatus(call[t]) \in Nat
    BY DEF ChangeStatus, CodeRight
  <2>4. Talks'
    <3>1. \/ Answer(t, 500) \/ Answer(t, ChangeStatus(call[t]))
          \/ Goto(t, "requery") /\ UNCHANGED reply
      BY <1>8 DEF ReadChange
    <3>2. QED
      BY <2>3, <3>1, AnswerType, GotoType DEF PcNames
  <2>5. QED
    BY <1>1, <1>8, <2>2, <2>4 DEF ReadChange
<1>9. CASE Requery(t)
  <2>1. PICK v \in Nat :
          held' = [held EXCEPT ![t] = [held[t] EXCEPT !.seen = totp.enabled, !.version = v]]
    <3>1. CASE call[t].sub \in Customers
      <4>1. versions[call[t].sub] + 1 \in Nat
        BY <1>0
      <4>2. QED
        BY <1>9, <3>1, <4>1 DEF Requery
    <3>2. CASE call[t].sub \notin Customers
      BY <1>9, <3>2 DEF Requery
    <3>3. QED
      BY <3>1, <3>2
  <2>2. held[t] \in Held
    OBVIOUS
  <2>3. totp.enabled \in BOOLEAN
    OBVIOUS
  <2>4. [held[t] EXCEPT !.seen = totp.enabled, !.version = v] \in Held
    BY <2>2, <2>3, Zenon DEF Held
  <2>5. held' \in [Threads -> Held]
    BY <2>1, <2>4
  <2>6. Talks'
    <3>1. Goto(t, "store") /\ UNCHANGED reply
      BY <1>9 DEF Requery
    <3>2. QED
      BY <3>1, GotoType DEF PcNames
  <2>7. QED
    BY <1>1, <1>9, <2>5, <2>6 DEF Requery
<1>10. CASE Store(t)
  <2>0. held[t].version \in Nat /\ held[t].secret \in Secrets
    BY DEF Held
  <2>1. /\ passwords' \in [Subjects -> {0, 1}] /\ versions' \in [Subjects -> Nat]
        /\ totp' \in [secret : Secrets, enabled : BOOLEAN]
    <3>1. CASE UNCHANGED accounts
      BY <3>1
    <3>2. CASE StorePassword(t)
      <4>1. PICK s \in Subjects : passwords' = [passwords EXCEPT ![s] = 1 - @]
        BY <1>0, <3>2
           DEF StorePassword, SetAdminPassword, SetPasswordV1, SetPassword, Subjects
      <4>2. passwords[s] \in {0, 1}
        OBVIOUS
      <4>3. 1 - passwords[s] \in {0, 1}
        BY <4>2
      <4>4. passwords' \in [Subjects -> {0, 1}]
        BY <4>1, <4>3
      <4>5. versions' \in {versions, [versions EXCEPT ![call[t].sub] = held[t].version]}
        BY <3>2 DEF StorePassword, SetAdminPassword, SetPasswordV1, SetPassword
      <4>6. versions' \in [Subjects -> Nat]
        BY <2>0, <4>5
      <4>7. totp' = totp
        BY <3>2 DEF StorePassword
      <4>8. QED
        BY <4>4, <4>6, <4>7
    <3>3. CASE StoreFactor(t)
      <4>1. /\ passwords' = passwords /\ versions' = versions
            /\ totp' = [secret |-> Factor(call[t].op, held[t].secret).secret,
                        enabled |-> IF Factor(call[t].op, held[t].secret).enabled # held[t].seen
                                    THEN Factor(call[t].op, held[t].secret).enabled
                                    ELSE totp.enabled]
        BY <3>3 DEF StoreFactor
      <4>2. /\ Factor(call[t].op, held[t].secret).secret \in Secrets
            /\ Factor(call[t].op, held[t].secret).enabled \in BOOLEAN
        BY <2>0 DEF Factor, TotpSetup, TotpVerify, TotpDisable, Secrets
      <4>3. totp.enabled \in BOOLEAN
        OBVIOUS
      <4>4. totp' \in [secret : Secrets, enabled : BOOLEAN]
        BY <4>1, <4>2, <4>3, Zenon
      <4>5. QED
        BY <4>1, <4>4
    <3>4. QED
      BY <1>10, <3>1, <3>2, <3>3 DEF Store
  <2>2. /\ attempts' \in [Subjects -> AttemptRow] /\ lastId' \in Nat
        /\ dying' \in [Threads -> SUBSET AttemptRow]
    BY <1>10, CommitsType DEF Store
  <2>3. poisoned' \in [Threads -> BOOLEAN] /\ held' \in [Threads -> Held]
    <3>1. NothingHeld \in Held
      BY DEF NothingHeld, Held, Secrets
    <3>2. held' = [held EXCEPT ![t] = NothingHeld]
      BY <1>10 DEF Store
    <3>3. poisoned' \in {poisoned, [poisoned EXCEPT ![t] = TRUE]}
      BY <1>10 DEF Store
    <3>4. QED
      BY <3>1, <3>2, <3>3
  <2>4. Answer(t, 200) \/ Answer(t, 500)
    BY <1>10 DEF Store
  <2>5. Talks'
    BY <2>4, AnswerType
  <2>6. QED
    BY <1>1, <1>10, <2>1, <2>2, <2>3, <2>5 DEF Store
<1>11. QED
  BY <1>2, <1>3, <1>4, <1>5, <1>6, <1>7, <1>8, <1>9, <1>10 DEF Step

-------------------------------------------------------------------------------
(* What a step of a thread leaves alone, and where it takes the thread *)

Frame(t) ==
    /\ call' = call /\ overlapped' = overlapped /\ menu' = menu /\ clock' = clock
    /\ \A u \in Threads \ {t} :
           /\ pc'[u] = pc[u] /\ reply'[u] = reply[u] /\ draft'[u] = draft[u]
           /\ dying'[u] = dying[u] /\ held'[u] = held[u]
Moves(t) ==
    \/ pc[t] = "check" /\ pc'[t] \in {"idle", "record", "reset"}
    \/ pc[t] = "record" /\ pc'[t] \in {"idle", "commit"}
    \/ pc[t] = "commit" /\ pc'[t] = "idle"
    \/ pc[t] = "reset" /\ pc'[t] \in {"idle", "mint"}
    \/ pc[t] = "verify" /\ pc'[t] \in {"idle", "mint"}
    \/ pc[t] = "mint" /\ pc'[t] = "idle"
    \/ pc[t] = "change" /\ pc'[t] \in {"idle", "requery"}
    \/ pc[t] = "requery" /\ pc'[t] = "store"
    \/ pc[t] = "store" /\ pc'[t] = "idle"
Talk(t, stages) ==
    \/ \E s : Answer(t, s)
    \/ \E stage \in stages : Goto(t, stage) /\ UNCHANGED reply

LEMMA TalkMoves ==
    ASSUME TypeOK, NEW t \in Threads, NEW stages, Talk(t, stages)
    PROVE  /\ pc'[t] \in {"idle"} \cup stages
           /\ \A u \in Threads \ {t} : pc'[u] = pc[u] /\ reply'[u] = reply[u]
  BY DEF TypeOK, Talk, Answer, Goto

LEMMA StepMoves ==
    ASSUME TypeOK, NEW t \in Threads, Step(t)
    PROVE  Frame(t) /\ Moves(t) /\ pc[t] # "idle"
<1> USE DEF accounts, tables, session, bounds, guesses, history
<1>1. CASE Check(t)
  <2>1. Talk(t, {"record", "reset"})
    <3>1. CASE poisoned[t]
      BY <1>1, <3>1 DEF Check, Talk
    <3>2. CASE ~poisoned[t] /\ Locked(Seen(t, call[t].sub))
      BY <1>1, <3>2 DEF Check, Talk
    <3>3. CASE ~poisoned[t] /\ ~Locked(Seen(t, call[t].sub)) /\ ~Known(call[t].sub)
      BY <1>1, <3>3 DEF Check, Talk
    <3>4. CASE /\ ~poisoned[t] /\ ~Locked(Seen(t, call[t].sub)) /\ Known(call[t].sub)
               /\ Barred(call[t].sub)
      BY <1>1, <3>4 DEF Check, Talk
    <3>5. CASE /\ ~poisoned[t] /\ ~Locked(Seen(t, call[t].sub)) /\ Known(call[t].sub)
               /\ ~Barred(call[t].sub)
      BY <1>1, <3>5 DEF Check, Talk
    <3>6. QED
      BY <3>1, <3>2, <3>3, <3>4, <3>5
  <2>2. /\ pc'[t] \in {"idle"} \cup {"record", "reset"}
        /\ \A u \in Threads \ {t} : pc'[u] = pc[u] /\ reply'[u] = reply[u]
    BY <2>1, TalkMoves
  <2>3. \A u \in Threads \ {t} : draft'[u] = draft[u] /\ held'[u] = held[u]
    BY <1>1 DEF Check, TypeOK
  <2>4. \A u \in Threads \ {t} : dying'[u] = dying[u]
    BY <1>1 DEF Check, CommitsDeletes, TypeOK
  <2>5. /\ call' = call /\ overlapped' = overlapped /\ menu' = menu /\ clock' = clock
        /\ pc[t] = "check"
    BY <1>1 DEF Check
  <2>6. QED
    BY <2>2, <2>3, <2>4, <2>5 DEF Frame, Moves
<1>2. CASE Record(t)
  <2>1. Talk(t, {"commit"})
    BY <1>2 DEF Record, Talk
  <2>2. /\ pc'[t] \in {"idle"} \cup {"commit"}
        /\ \A u \in Threads \ {t} : pc'[u] = pc[u] /\ reply'[u] = reply[u]
    BY <2>1, TalkMoves
  <2>3. \A u \in Threads \ {t} : draft'[u] = draft[u] /\ held'[u] = held[u]
    BY <1>2 DEF Record, TypeOK
  <2>4. \A u \in Threads \ {t} : dying'[u] = dying[u]
    BY <1>2 DEF Record, CommitsDeletes, TypeOK
  <2>5. /\ call' = call /\ overlapped' = overlapped /\ menu' = menu /\ clock' = clock
        /\ pc[t] = "record"
    BY <1>2 DEF Record
  <2>6. QED
    BY <2>2, <2>3, <2>4, <2>5 DEF Frame, Moves
<1>3. CASE CommitFailure(t)
  <2>1. Talk(t, {})
    BY <1>3 DEF CommitFailure, Talk
  <2>2. /\ pc'[t] \in {"idle"} \cup {}
        /\ \A u \in Threads \ {t} : pc'[u] = pc[u] /\ reply'[u] = reply[u]
    BY <2>1, TalkMoves
  <2>3. \A u \in Threads \ {t} : draft'[u] = draft[u] /\ held'[u] = held[u]
    BY <1>3 DEF CommitFailure, TypeOK
  <2>4. \A u \in Threads \ {t} : dying'[u] = dying[u]
    BY <1>3 DEF CommitFailure, CommitsDeletes, TypeOK
  <2>5. /\ call' = call /\ overlapped' = overlapped /\ menu' = menu /\ clock' = clock
        /\ pc[t] = "commit"
    BY <1>3 DEF CommitFailure
  <2>6. QED
    BY <2>2, <2>3, <2>4, <2>5 DEF Frame, Moves
<1>4. CASE Reset(t)
  <2>1. Talk(t, {"mint"})
    BY <1>4 DEF Reset, Talk
  <2>2. /\ pc'[t] \in {"idle"} \cup {"mint"}
        /\ \A u \in Threads \ {t} : pc'[u] = pc[u] /\ reply'[u] = reply[u]
    BY <2>1, TalkMoves
  <2>3. \A u \in Threads \ {t} : draft'[u] = draft[u] /\ held'[u] = held[u]
    BY <1>4 DEF Reset, TypeOK
  <2>4. \A u \in Threads \ {t} : dying'[u] = dying[u]
    BY <1>4 DEF Reset, CommitsDeletes, TypeOK
  <2>5. /\ call' = call /\ overlapped' = overlapped /\ menu' = menu /\ clock' = clock
        /\ pc[t] = "reset"
    BY <1>4 DEF Reset
  <2>6. QED
    BY <2>2, <2>3, <2>4, <2>5 DEF Frame, Moves
<1>5. CASE Verify(t)
  <2>1. Talk(t, {"mint"})
    BY <1>5 DEF Verify, Talk
  <2>2. /\ pc'[t] \in {"idle"} \cup {"mint"}
        /\ \A u \in Threads \ {t} : pc'[u] = pc[u] /\ reply'[u] = reply[u]
    BY <2>1, TalkMoves
  <2>3. \A u \in Threads \ {t} : draft'[u] = draft[u] /\ held'[u] = held[u]
    BY <1>5 DEF Verify, TypeOK
  <2>4. \A u \in Threads \ {t} : dying'[u] = dying[u]
    BY <1>5 DEF Verify, CommitsDeletes, TypeOK
  <2>5. /\ call' = call /\ overlapped' = overlapped /\ menu' = menu /\ clock' = clock
        /\ pc[t] = "verify"
    BY <1>5 DEF Verify
  <2>6. QED
    BY <2>2, <2>3, <2>4, <2>5 DEF Frame, Moves
<1>6. CASE Mint(t)
  <2>1. Talk(t, {})
    BY <1>6 DEF Mint, Talk
  <2>2. /\ pc'[t] \in {"idle"} \cup {}
        /\ \A u \in Threads \ {t} : pc'[u] = pc[u] /\ reply'[u] = reply[u]
    BY <2>1, TalkMoves
  <2>3. \A u \in Threads \ {t} : draft'[u] = draft[u] /\ held'[u] = held[u]
    BY <1>6 DEF Mint, TypeOK
  <2>4. \A u \in Threads \ {t} : dying'[u] = dying[u]
    BY <1>6 DEF Mint, CommitsDeletes, TypeOK
  <2>5. /\ call' = call /\ overlapped' = overlapped /\ menu' = menu /\ clock' = clock
        /\ pc[t] = "mint"
    BY <1>6 DEF Mint
  <2>6. QED
    BY <2>2, <2>3, <2>4, <2>5 DEF Frame, Moves
<1>7. CASE ReadChange(t)
  <2>1. Talk(t, {"requery"})
    BY <1>7 DEF ReadChange, Talk
  <2>2. /\ pc'[t] \in {"idle"} \cup {"requery"}
        /\ \A u \in Threads \ {t} : pc'[u] = pc[u] /\ reply'[u] = reply[u]
    BY <2>1, TalkMoves
  <2>3. \A u \in Threads \ {t} : draft'[u] = draft[u] /\ held'[u] = held[u]
    BY <1>7 DEF ReadChange, TypeOK
  <2>4. \A u \in Threads \ {t} : dying'[u] = dying[u]
    BY <1>7 DEF ReadChange, CommitsDeletes, TypeOK
  <2>5. /\ call' = call /\ overlapped' = overlapped /\ menu' = menu /\ clock' = clock
        /\ pc[t] = "change"
    BY <1>7 DEF ReadChange
  <2>6. QED
    BY <2>2, <2>3, <2>4, <2>5 DEF Frame, Moves
<1>8. CASE Requery(t)
  <2>1. Talk(t, {"store"})
    BY <1>8 DEF Requery, Talk
  <2>2. /\ pc'[t] = "store" 
        /\ \A u \in Threads \ {t} : pc'[u] = pc[u] /\ reply'[u] = reply[u]
    BY <1>8 DEF Requery, Goto, TypeOK
  <2>3. \A u \in Threads \ {t} : draft'[u] = draft[u] /\ held'[u] = held[u]
    BY <1>8 DEF Requery, TypeOK
  <2>4. \A u \in Threads \ {t} : dying'[u] = dying[u]
    BY <1>8 DEF Requery, CommitsDeletes, TypeOK
  <2>5. /\ call' = call /\ overlapped' = overlapped /\ menu' = menu /\ clock' = clock
        /\ pc[t] = "requery"
    BY <1>8 DEF Requery
  <2>6. QED
    BY <2>2, <2>3, <2>4, <2>5 DEF Frame, Moves
<1>9. CASE Store(t)
  <2>1. Talk(t, {})
    BY <1>9 DEF Store, Talk
  <2>2. /\ pc'[t] \in {"idle"} \cup {}
        /\ \A u \in Threads \ {t} : pc'[u] = pc[u] /\ reply'[u] = reply[u]
    BY <2>1, TalkMoves
  <2>3. \A u \in Threads \ {t} : draft'[u] = draft[u] /\ held'[u] = held[u]
    BY <1>9 DEF Store, TypeOK
  <2>4. \A u \in Threads \ {t} : dying'[u] = dying[u]
    BY <1>9 DEF Store, CommitsDeletes, TypeOK
  <2>5. /\ call' = call /\ overlapped' = overlapped /\ menu' = menu /\ clock' = clock
        /\ pc[t] = "store"
    BY <1>9 DEF Store
  <2>6. QED
    BY <2>2, <2>3, <2>4, <2>5 DEF Frame, Moves
<1>10. QED
  BY <1>1, <1>2, <1>3, <1>4, <1>5, <1>6, <1>7, <1>8, <1>9 DEF Step

LEMMA RefreshGrows ==
    ASSUME TypeOK, NEW t \in Threads, Step(t)
    PROVE  DOMAIN refresh \subseteq DOMAIN refresh'
<1>1. CASE Mint(t)
  <2>1. Revoked(call[t]) = refresh \/ Revoked(call[t]) =
          [refresh EXCEPT ![call[t].token] = [@ EXCEPT !.revoked = TRUE]]
    BY DEF Revoked
  <2>2. DOMAIN Revoked(call[t]) = DOMAIN refresh
    BY <2>1
  <2>3. refresh \in Seq(RefreshRow)
    BY DEF TypeOK
  <2>4. Len(Revoked(call[t])) = Len(refresh) /\ Revoked(call[t]) \in Seq(Range(Revoked(call[t])))
    BY <2>1, <2>3 DEF Range
  <2>5. \E row : refresh' \in {refresh, Append(Revoked(call[t]), row)}
    BY <1>1 DEF Mint
  <2>6. QED
    BY <2>3, <2>4, <2>5
<1>2. CASE ~Mint(t)
  BY <1>2 DEF Step, Check, Record, CommitFailure, Reset, Verify, ReadChange, Requery, Store
<1>3. QED
  BY <1>1, <1>2

\* Taking a request changes nothing but the thread and the bounds.
LEMMA BeginFrame ==
    ASSUME TypeOK, NEW t \in Threads, NEW c, NEW stage, Begin(t, c, stage)
    PROVE  /\ pc[t] = "idle" /\ pc' = [pc EXCEPT ![t] = stage]
           /\ call' = [call EXCEPT ![t] = c] /\ reply' = [reply EXCEPT ![t] = 0]
           /\ overlapped' = WithOverlap(c) /\ overlapped \subseteq overlapped'
           /\ clock' = clock /\ passwords' = passwords /\ versions' = versions /\ totp' = totp
           /\ attempts' = attempts /\ lastId' = lastId /\ refresh' = refresh
           /\ access' = access /\ draft' = draft /\ dying' = dying /\ held' = held
           /\ poisoned' = poisoned /\ menu' = menu /\ faults' = faults /\ guesses' = guesses
           /\ spent' = spent /\ proven' = proven
  BY DEF Begin, Goto, WithOverlap, accounts, tables, session

LEMMA BeginType ==
    ASSUME TypeOK, NEW t \in Threads, NEW c \in Call,
           NEW stage \in {"check", "verify", "change"}, Begins(t, c, stage)
    PROVE  TypeOK'
<1>1. Begin(t, c, stage)
  BY DEF Begins
<1>2. /\ pc' = [pc EXCEPT ![t] = stage] /\ call' = [call EXCEPT ![t] = c]
      /\ reply' = [reply EXCEPT ![t] = 0]
  BY <1>1, BeginFrame
<1>3. /\ pc' \in [Threads -> {"idle", "check", "record", "commit", "reset", "verify", "mint",
                             "change", "requery", "store"}]
      /\ call' \in [Threads -> Call] /\ reply' \in [Threads -> Nat]
  BY <1>2 DEF TypeOK
<1>4. /\ clock' = clock /\ passwords' = passwords /\ versions' = versions /\ totp' = totp
      /\ attempts' = attempts /\ lastId' = lastId /\ refresh' = refresh
      /\ access' = access /\ draft' = draft /\ dying' = dying /\ held' = held
      /\ poisoned' = poisoned /\ menu' = menu /\ faults' = faults /\ guesses' = guesses
      /\ spent' = spent
  BY <1>1, BeginFrame
<1>5. QED
  BY <1>3, <1>4 DEF TypeOK, guesses

-------------------------------------------------------------------------------
(* Sound *)

LEMMA BeginStaged ==
    ASSUME TypeOK, Staged, NEW t \in Threads, NEW c \in Call,
           NEW stage \in {"check", "verify", "change"}, Begins(t, c, stage)
    PROVE  Staged'
<1>1. /\ pc' = [pc EXCEPT ![t] = stage] /\ call' = [call EXCEPT ![t] = c]
      /\ refresh' = refresh
  BY BeginFrame DEF Begins
<1>2. pc'[t] = stage /\ call'[t] = c
  BY <1>1 DEF TypeOK
<1>3. \A u \in Threads \ {t} : pc'[u] = pc[u] /\ call'[u] = call[u]
  BY <1>1 DEF TypeOK
<1>4. QED
  BY <1>1, <1>2, <1>3 DEF Staged, Begins

LEMMA StepStaged ==
    ASSUME TypeOK, Staged, NEW t \in Threads, Step(t)
    PROVE  Staged'
<1>1. Frame(t) /\ Moves(t) /\ DOMAIN refresh \subseteq DOMAIN refresh'
  BY StepMoves, RefreshGrows
<1>2. call' = call /\ \A u \in Threads \ {t} : pc'[u] = pc[u]
  BY <1>1 DEF Frame
<1>3. QED
  BY <1>1, <1>2 DEF Staged, Moves

LEMMA BeginLone ==
    ASSUME TypeOK, Lone, NEW t \in Threads, NEW c \in Call,
           NEW stage \in {"check", "verify", "change"}, Begins(t, c, stage)
    PROVE  Lone'
<1>1. /\ pc[t] = "idle" /\ pc' = [pc EXCEPT ![t] = stage] /\ call' = [call EXCEPT ![t] = c]
      /\ overlapped' = WithOverlap(c) /\ overlapped \subseteq overlapped'
  BY BeginFrame DEF Begins
<1>2. pc'[t] = stage /\ call'[t] = c
  BY <1>1 DEF TypeOK
<1>3. \A u \in Threads \ {t} : pc'[u] = pc[u] /\ call'[u] = call[u]
  BY <1>1 DEF TypeOK
<1>4. ASSUME NEW u \in Threads \ {t}, pc[u] # "idle", Matter(call[u]) = Matter(c)
      PROVE  Matter(c) \in overlapped'
  BY <1>1, <1>4 DEF WithOverlap
<1>5. ASSUME NEW u \in Threads, NEW v \in Threads, Overlapping(u, v)'
      PROVE  Matter(call'[u]) \in overlapped'
  <2>1. CASE u = t
    BY <1>2, <1>3, <1>4, <1>5, <2>1 DEF Overlapping
  <2>2. CASE v = t /\ u # t
    BY <1>2, <1>3, <1>4, <1>5, <2>2 DEF Overlapping
  <2>3. CASE u # t /\ v # t
    BY <1>1, <1>3, <1>5, <2>3 DEF Overlapping, Lone
  <2>4. QED
    BY <2>1, <2>2, <2>3
<1>6. QED
  BY <1>5 DEF Lone

LEMMA StepLone ==
    ASSUME TypeOK, Lone, NEW t \in Threads, Step(t)
    PROVE  Lone'
<1>1. Frame(t) /\ Moves(t) /\ pc[t] # "idle"
  BY StepMoves
<1>2. /\ call' = call /\ overlapped' = overlapped
      /\ \A u \in Threads : pc'[u] # "idle" => pc[u] # "idle"
  BY <1>1 DEF Frame
<1>3. QED
  BY <1>2 DEF Lone, Overlapping

LEMMA StillUnchanged == Tick \/ UNCHANGED vars =>
    /\ passwords' = passwords /\ versions' = versions /\ totp' = totp
    /\ attempts' = attempts /\ lastId' = lastId /\ refresh' = refresh /\ access' = access
    /\ pc' = pc /\ call' = call /\ draft' = draft /\ dying' = dying /\ held' = held
    /\ poisoned' = poisoned /\ reply' = reply /\ menu' = menu /\ faults' = faults
    /\ guesses' = guesses /\ overlapped' = overlapped /\ spent' = spent /\ proven' = proven
    /\ clock' = clock \/ clock' = clock + 1
  BY DEF Tick, vars, accounts, tables, session, bounds, guesses, history

LEMMA StillSound == Sound /\ (Tick \/ UNCHANGED vars) => Sound'
<1> SUFFICES ASSUME Sound, Tick \/ UNCHANGED vars PROVE Sound'
  OBVIOUS
<1>1. TypeOK'
  BY StillUnchanged DEF Sound, TypeOK, guesses
<1>2. Staged' /\ Lone'
  BY StillUnchanged DEF Sound, Staged, Lone, Overlapping
<1>3. QED
  BY <1>1, <1>2 DEF Sound

LEMMA InitSound == Init => Sound
  BY InitType DEF Init, Sound, Staged, Lone, Overlapping

LEMMA SoundStep == Sound /\ [Next]_vars => Sound'
<1> SUFFICES ASSUME Sound, [Next]_vars PROVE Sound'
  OBVIOUS
<1>1. TypeOK /\ Staged /\ Lone
  BY DEF Sound
<1>2. ASSUME NEW t \in Threads, NEW c \in Call, NEW stage \in {"check", "verify", "change"},
             Begins(t, c, stage)
      PROVE  Sound'
  BY <1>1, <1>2, BeginType, BeginStaged, BeginLone, Zenon DEF Sound
<1>3. ASSUME NEW t \in Threads, Step(t) PROVE Sound'
  BY <1>1, <1>3, StepType, StepStaged, StepLone, Zenon DEF Sound
<1>4. CASE Tick \/ UNCHANGED vars
  BY <1>4, StillSound
<1>5. QED
  BY <1>1, <1>2, <1>3, <1>4, NextCases, Zenon

\* The invariant of every interleaving: types, what a stage says of its request, and which
\* requests have overlapped.
THEOREM AlwaysSound == Spec => []Sound
  BY InitSound, SoundStep, PTL DEF Spec

\* Rows, tokens and what a session holds keep their types: a token speaks for a subject of
\* the bank or, after v1's refresh, for nobody, and never for a role taken for a name.
THEOREM TypesAreKept == Spec => []TypeOK
<1>1. Sound => TypeOK
  BY DEF Sound
<1>2. QED
  BY <1>1, AlwaysSound, PTL

-------------------------------------------------------------------------------
(* The second factor *)

LEMMA CredentialFrame ==
    ASSUME NEW t \in Threads, Step(t), ~ReadChange(t), ~Requery(t), ~Store(t)
    PROVE  /\ passwords' = passwords /\ versions' = versions /\ totp' = totp
           /\ held' = held /\ proven' = proven
           /\ pc[t] \in {"check", "record", "commit", "reset", "verify", "mint"}
  BY DEF Step, Check, Record, CommitFailure, Reset, Verify, Mint, accounts, session, guesses, history

\* Two changes of the second factor under way at once overlap.
LEMMA FactorAlone ==
    ASSUME Sound, <<Admin, "factor">> \notin overlapped, NEW t \in Threads, NEW u \in Threads,
           pc[t] \in {"change", "requery", "store"}, call[t].op \in FactorOps,
           pc[u] \in {"change", "requery", "store"}, call[u].op \in FactorOps
    PROVE  t = u
<1>1. call[t].sub = Admin /\ call[u].sub = Admin
  BY DEF Sound, Staged
<1>2. Matter(call[t]) = <<Admin, "factor">> /\ Matter(call[u]) = <<Admin, "factor">>
  BY <1>1 DEF Matter, Kind, FactorOps
<1>3. t # u => Overlapping(t, u)
  BY <1>2 DEF Overlapping
<1>4. QED
  BY <1>2, <1>3 DEF Sound, Lone

LEMMA InitFactored == Init => Factored
  BY DEF Init, Factored

LEMMA StepFactored ==
    ASSUME Sound, Factored, NEW t \in Threads, Step(t)
    PROVE  Factored'
<1>0. TypeOK /\ Staged /\ Frame(t) /\ Moves(t)
  BY StepMoves DEF Sound
<1>1. /\ overlapped' = overlapped /\ call' = call
      /\ \A u \in Threads \ {t} : pc'[u] = pc[u] /\ held'[u] = held[u]
  BY <1>0 DEF Frame
<1>2. SUFFICES ASSUME <<Admin, "factor">> \notin overlapped
               PROVE  /\ totp'.enabled => totp'.secret \in proven'
                      /\ \A u \in Threads :
                            pc'[u] \in {"requery", "store"} /\ call[u].op = "verify" =>
                               held'[u].secret \in proven'
                      /\ \A u \in Threads : pc'[u] = "store" /\ call[u].op \in FactorOps =>
                               held'[u].seen = totp'.enabled
  BY <1>1 DEF Factored
<1>3. /\ totp.enabled => totp.secret \in proven
      /\ \A u \in Threads : pc[u] \in {"requery", "store"} /\ call[u].op = "verify" =>
             held[u].secret \in proven
      /\ \A u \in Threads : pc[u] = "store" /\ call[u].op \in FactorOps =>
             held[u].seen = totp.enabled
  BY <1>2 DEF Factored
<1>4. CASE ReadChange(t)
  <2>1. totp' = totp /\ proven \subseteq proven' /\ pc[t] = "change"
    BY <1>4 DEF ReadChange, accounts
  <2>2. ASSUME pc'[t] = "requery", call[t].op = "verify"
        PROVE  held'[t].secret \in proven'
    <3>1. ChangeStatus(call[t]) = 200
      BY <1>0, <1>4, <2>2 DEF ReadChange, Answer, Goto, TypeOK
    <3>2. call[t].code = totp.secret
      BY <2>2, <3>1 DEF ChangeStatus, CodeRight
    <3>3. /\ held' = [held EXCEPT ![t] = [NothingHeld EXCEPT !.secret = totp.secret]]
          /\ proven' = proven \cup {call[t].code}
      BY <1>0, <1>4, <2>2 DEF ReadChange, Answer, Goto, TypeOK
    <3>4. held'[t].secret = totp.secret
      BY <1>0, <3>3 DEF TypeOK, NothingHeld
    <3>5. QED
      BY <3>2, <3>3, <3>4
  <2>3. pc'[t] # "store"
    BY <1>0, <2>1 DEF Moves
  <2>4. QED
    BY <1>1, <1>3, <2>1, <2>2, <2>3
<1>5. CASE Requery(t)
  <2>1. totp' = totp /\ proven' = proven /\ pc[t] = "requery"
    BY <1>5 DEF Requery, accounts, guesses, history
  <2>2. held'[t].secret = held[t].secret /\ held'[t].seen = totp.enabled
    <3>1. held[t] \in Held
      BY <1>0 DEF TypeOK
    <3>2. \E v : held' = [held EXCEPT ![t] = [held[t] EXCEPT !.seen = totp.enabled, !.version = v]]
      BY <1>5 DEF Requery
    <3>3. QED
      BY <1>0, <3>1, <3>2 DEF TypeOK, Held
  <2>3. QED
    BY <1>1, <1>3, <2>1, <2>2
<1>6. CASE Store(t)
  <2>1. proven' = proven /\ pc[t] = "store" /\ pc'[t] = "idle"
    BY <1>0, <1>6 DEF Store, Moves, history
  <2>2. CASE totp' = totp
    BY <1>1, <1>3, <2>1, <2>2
  <2>3. CASE StoreFactor(t)
    <3>1. /\ call[t].op \in FactorOps
          /\ totp' = [secret |-> Factor(call[t].op, held[t].secret).secret,
                      enabled |-> IF Factor(call[t].op, held[t].secret).enabled # held[t].seen
                                  THEN Factor(call[t].op, held[t].secret).enabled
                                  ELSE totp.enabled]
      BY <2>3 DEF StoreFactor
    <3>2. held[t].seen = totp.enabled
      BY <1>3, <2>1, <3>1
    <3>3. totp'.enabled => totp'.secret \in proven
      <4>1. CASE call[t].op = "verify"
        BY <1>3, <2>1, <3>1, <4>1 DEF Factor, TotpSetup, TotpVerify, TotpDisable
      <4>2. CASE call[t].op # "verify"
        <5>1. Factor(call[t].op, held[t].secret).enabled = FALSE
          BY <4>2 DEF Factor, TotpSetup, TotpDisable
        <5>2. totp'.enabled = FALSE
          BY <3>1, <3>2, <5>1
        <5>3. QED
          BY <5>2
      <4>3. QED
        BY <4>1, <4>2
    <3>4. \A u \in Threads \ {t} : ~(pc[u] = "store" /\ call[u].op \in FactorOps)
      BY <1>2, <2>1, <3>1, FactorAlone
    <3>5. QED
      BY <1>1, <1>3, <2>1, <3>3, <3>4
  <2>4. QED
    BY <1>6, <2>2, <2>3 DEF Store, StorePassword, accounts
<1>7. CASE ~ReadChange(t) /\ ~Requery(t) /\ ~Store(t)
  <2>1. /\ totp' = totp /\ held' = held /\ proven' = proven
        /\ pc[t] \in {"check", "record", "commit", "reset", "verify", "mint"}
    BY <1>7, CredentialFrame
  <2>2. pc'[t] \notin {"requery", "store"}
    BY <1>0, <2>1 DEF Moves
  <2>3. QED
    BY <1>1, <1>3, <2>1, <2>2
<1>8. QED
  BY <1>4, <1>5, <1>6, <1>7

LEMMA FactoredStep == Sound /\ Factored /\ [Next]_vars => Factored'
<1> SUFFICES ASSUME Sound, Factored, [Next]_vars PROVE Factored'
  OBVIOUS
<1>1. ASSUME NEW t \in Threads, NEW c \in Call, NEW stage \in {"check", "verify", "change"},
             Begins(t, c, stage)
      PROVE  Factored'
  <2>1. /\ pc' = [pc EXCEPT ![t] = stage] /\ call' = [call EXCEPT ![t] = c]
        /\ overlapped \subseteq overlapped' /\ totp' = totp /\ held' = held /\ proven' = proven
    BY <1>1, BeginFrame DEF Begins, Sound
  <2>2. /\ pc'[t] \notin {"requery", "store"}
        /\ \A u \in Threads \ {t} : pc'[u] = pc[u] /\ call'[u] = call[u]
    BY <2>1 DEF Sound, TypeOK
  <2>3. QED
    BY <2>1, <2>2 DEF Factored
<1>2. ASSUME NEW t \in Threads, Step(t) PROVE Factored'
  BY <1>2, StepFactored
<1>3. CASE Tick \/ UNCHANGED vars
  BY <1>3, StillUnchanged DEF Factored
<1>4. QED
  BY <1>1, <1>2, <1>3, NextCases, Zenon DEF Sound

\* The second factor is never on with a secret nobody has shown a code for, unless two
\* changes of it overlapped: setup turns it off, verify turns it on with the secret it has
\* checked, and what either has read is still there when it writes.
THEOREM EnabledIsProven == Spec => []EnabledSecretIsProven
<1>1. Factored => EnabledSecretIsProven
  BY DEF Factored, EnabledSecretIsProven
<1>2. QED
  BY <1>1, InitSound, SoundStep, InitFactored, FactoredStep, PTL DEF Spec

-------------------------------------------------------------------------------
(* Token versions *)

LEMMA PasswordAlone ==
    ASSUME Sound, NEW t \in Threads, NEW u \in Threads, t # u, Raising(t), Raising(u),
           call[t].sub = call[u].sub
    PROVE  <<call[t].sub, "password">> \in overlapped
<1>1. Matter(call[t]) = <<call[t].sub, "password">> /\ Matter(call[u]) = Matter(call[t])
  BY DEF Raising, Matter, Kind, FactorOps
<1>2. Overlapping(t, u)
  BY <1>1 DEF Overlapping, Raising
<1>3. QED
  BY <1>1, <1>2 DEF Sound, Lone

\* A new version is one more than the one the request has read.
LEMMA StoreVersions ==
    ASSUME Sound, NEW t \in Threads, Store(t), <<call[t].sub, "password">> \notin overlapped,
           Versioned
    PROVE  \/ versions' = versions
           \/ /\ Raising(t)
              /\ versions' = [versions EXCEPT ![call[t].sub] = versions[call[t].sub] + 1]
<1>1. pc[t] = "store" /\ call[t].sub \in Subjects
  BY CallType DEF Store, Sound, TypeOK
<1>2. CASE versions' = versions
  BY <1>2
<1>3. CASE StorePassword(t) /\ versions' # versions
  <2>1. /\ call[t].op = "password" /\ call[t].door = "v2"
        /\ versions' = [versions EXCEPT ![call[t].sub] = held[t].version]
    BY <1>3 DEF StorePassword, SetAdminPassword, SetPasswordV1, SetPassword
  <2>2. call[t].sub # Admin
    BY <1>1, <2>1 DEF Sound, Staged
  <2>3. Raising(t)
    BY <1>1, <2>1, <2>2 DEF Raising, Subjects
  <2>4. held[t].version = versions[call[t].sub] + 1
    BY <1>1, <2>3 DEF Versioned
  <2>5. QED
    BY <2>1, <2>3, <2>4
<1>4. QED
  BY <1>2, <1>3 DEF Store, StoreFactor, accounts

LEMMA InitVersioned == Init => Versioned
  BY DEF Init, Versioned, Ahead, Raising

LEMMA StepVersioned ==
    ASSUME Sound, Versioned, NEW t \in Threads, Step(t)
    PROVE  Versioned'
<1>0. TypeOK /\ Staged /\ Frame(t) /\ Moves(t)
  BY StepMoves DEF Sound
<1>1. /\ overlapped' = overlapped /\ call' = call
      /\ \A u \in Threads \ {t} : pc'[u] = pc[u] /\ held'[u] = held[u]
  BY <1>0 DEF Frame
<1>2. SUFFICES ASSUME NEW s \in Subjects, <<s, "password">> \notin overlapped
               PROVE  /\ \A token \in access' : token.sub = s => token.version <= versions'[s]
                      /\ \A u \in Threads :
                            /\ pc'[u] = "store" /\ call[u].op = "password"
                            /\ call[u].sub \in Customers /\ call[u].sub = s
                            => held'[u].version = versions'[s] + 1
  BY <1>1 DEF Versioned, Ahead, Raising
<1>3. /\ \A token \in access : token.sub = s => token.version <= versions[s]
      /\ \A u \in Threads :
            /\ pc[u] = "store" /\ call[u].op = "password"
            /\ call[u].sub \in Customers /\ call[u].sub = s
            => held[u].version = versions[s] + 1
      /\ versions[s] \in Nat /\ \A token \in access : token.version \in Nat
  BY <1>0, <1>2 DEF Versioned, Ahead, Raising, TypeOK, AccessRow
<1>4. CASE Mint(t)
  <2>1. /\ versions' = versions /\ pc'[t] # "store"
        /\ access' = access \cup {AccessToken(PairSubject(call[t]), PairRole(call[t]))}
    BY <1>0, <1>4 DEF Mint, Moves, accounts
  <2>2. LET token == AccessToken(PairSubject(call[t]), PairRole(call[t]))
        IN  token.sub = s => token.version <= versions[s]
    BY <1>2, <1>3 DEF AccessToken
  <2>3. QED
    BY <1>1, <1>3, <2>1, <2>2
<1>5. CASE Requery(t)
  <2>1. /\ versions' = versions /\ access' = access
        /\ held' = [held EXCEPT ![t] = [@ EXCEPT !.seen = totp.enabled,
                     !.version = IF call[t].sub \in Customers THEN versions[call[t].sub] + 1
                                 ELSE 0]]
    BY <1>5 DEF Requery, accounts
  <2>2. held'[t].version = IF call[t].sub \in Customers THEN versions[call[t].sub] + 1 ELSE 0
    <3>1. held[t] \in Held /\ held \in [Threads -> Held]
      BY <1>0 DEF TypeOK
    <3>2. QED
      BY <2>1, <3>1 DEF Held
  <2>3. QED
    BY <1>1, <1>3, <2>1, <2>2
<1>6. CASE Store(t)
  <2>1. access' = access /\ pc'[t] = "idle" /\ pc[t] = "store"
    BY <1>0, <1>6 DEF Store, Moves
  <2>2. CASE versions'[s] = versions[s]
    BY <1>1, <1>3, <2>1, <2>2
  <2>3. CASE versions'[s] # versions[s]
    <3>1. call[t].sub = s
      BY <1>0, <1>2, <1>6, <2>3
         DEF Store, StorePassword, StoreFactor, SetAdminPassword, SetPasswordV1, SetPassword,
             accounts, TypeOK
    <3>2. Raising(t) /\ versions' = [versions EXCEPT ![s] = versions[s] + 1]
      BY <1>2, <1>6, <2>3, <3>1, StoreVersions
    <3>3. versions'[s] = versions[s] + 1
      BY <1>0, <3>2 DEF TypeOK
    <3>4. ASSUME NEW u \in Threads \ {t}, pc[u] = "store", call[u].op = "password",
                 call[u].sub \in Customers, call[u].sub = s
          PROVE  FALSE
      BY <1>2, <3>1, <3>2, <3>4, PasswordAlone DEF Raising
    <3>5. QED
      BY <1>1, <1>3, <2>1, <3>3, <3>4
  <2>4. QED
    BY <2>2, <2>3
<1>7. CASE ~Mint(t) /\ ~Requery(t) /\ ~Store(t)
  <2>1. versions' = versions /\ access' = access
    BY <1>7 DEF Step, Check, Record, CommitFailure, Reset, Verify, ReadChange, accounts
  <2>2. pc'[t] # "store"
    <3>1. pc[t] # "requery"
      BY <1>7 DEF Step, Check, Record, CommitFailure, Reset, Verify, ReadChange
    <3>2. QED
      BY <1>0, <3>1 DEF Moves
  <2>3. QED
    BY <1>1, <1>3, <2>1, <2>2
<1>8. QED
  BY <1>4, <1>5, <1>6, <1>7

LEMMA VersionedStep == Sound /\ Versioned /\ [Next]_vars => Versioned'
<1> SUFFICES ASSUME Sound, Versioned, [Next]_vars PROVE Versioned'
  OBVIOUS
<1>1. ASSUME NEW t \in Threads, NEW c \in Call, NEW stage \in {"check", "verify", "change"},
             Begins(t, c, stage)
      PROVE  Versioned'
  <2>1. /\ pc' = [pc EXCEPT ![t] = stage] /\ call' = [call EXCEPT ![t] = c]
        /\ overlapped \subseteq overlapped' /\ versions' = versions /\ held' = held
        /\ access' = access
    BY <1>1, BeginFrame DEF Begins, Sound
  <2>2. /\ pc'[t] # "store"
        /\ \A u \in Threads \ {t} : pc'[u] = pc[u] /\ call'[u] = call[u]
    BY <2>1 DEF Sound, TypeOK
  <2>3. QED
    BY <2>1, <2>2 DEF Versioned, Ahead, Raising
<1>2. ASSUME NEW t \in Threads, Step(t) PROVE Versioned'
  BY <1>2, StepVersioned
<1>3. CASE Tick \/ UNCHANGED vars
  BY <1>3, StillUnchanged DEF Versioned, Ahead, Raising
<1>4. QED
  BY <1>1, <1>2, <1>3, NextCases, Zenon DEF Sound

\* The step that stores a password is that of the thread that changes it.
LEMMA StoreSteps ==
    ASSUME TypeOK, [Next]_vars, NEW t \in Threads, pc[t] = "store", pc'[t] # pc[t]
    PROVE  Store(t)
<1>1. ASSUME NEW u \in Threads, NEW c \in Call, NEW stage \in {"check", "verify", "change"},
             Begins(u, c, stage)
      PROVE  FALSE
  BY <1>1, BeginFrame DEF Begins, TypeOK
<1>2. ASSUME NEW u \in Threads, Step(u) PROVE Store(t)
  <2>1. u = t
    BY <1>2, StepMoves DEF Frame
  <2>2. QED
    BY <1>2, <2>1 DEF Step, Check, Record, CommitFailure, Reset, Verify, Mint, ReadChange, Requery
<1>3. CASE Tick \/ UNCHANGED vars
  BY <1>3, StillUnchanged
<1>4. QED
  BY <1>1, <1>2, <1>3, NextCases, Zenon

LEMMA EndsStep ==
    ASSUME Sound, Versioned, [Next]_vars, NEW t \in Threads,
           pc[t] = "store", passwords' # passwords, pc'[t] # pc[t], call[t].door = "v2",
           <<call[t].sub, "password">> \notin overlapped
    PROVE  Ends(call[t].sub)
<1> DEFINE s == call[t].sub
<1>1. Store(t) /\ s \in Subjects
  BY StoreSteps, CallType DEF Sound, TypeOK
<1>2. StorePassword(t)
  BY <1>1 DEF Store, StoreFactor, accounts
<1>3. call[t].op = "password" /\ call[t].sub # Admin
  BY <1>2 DEF StorePassword, Sound, Staged
<1>4. versions' = [versions EXCEPT ![s] = held[t].version]
  BY <1>2, <1>3 DEF StorePassword, SetPassword
<1>5. Raising(t)
  BY <1>1, <1>3 DEF Raising, Subjects
<1>6. held[t].version = versions[s] + 1 /\ Ahead(s)
  BY <1>1, <1>5 DEF Versioned
<1>7. versions'[s] = versions[s] + 1 /\ versions[s] \in Nat
  BY <1>1, <1>4, <1>6 DEF Sound, TypeOK
<1>8. ASSUME NEW token \in access, token.sub = s PROVE ~(CurrentCustomer(token))'
  <2>1. token.version <= versions[s] /\ token.version \in Nat
    BY <1>6, <1>8 DEF Ahead, Sound, TypeOK, AccessRow
  <2>2. token.version # versions'[s]
    BY <1>7, <2>1
  <2>3. QED
    BY <1>1, <1>8, <2>2 DEF CurrentCustomer, Current
<1>9. QED
  BY <1>8 DEF Ends

\* After a change of the password through v2 no access token handed out before it is
\* accepted, whatever logins and refreshes overlap it, unless another change of the same
\* password does.  Refresh tokens are not revoked, and mint tokens of the new version.
THEOREM AccessTokensEnd == Spec => PasswordEndsAccess
<1>1. Sound /\ Versioned /\ [Next]_vars =>
        [\A t \in Threads : pc[t] = "store" /\ passwords' # passwords /\ pc'[t] # pc[t]
            /\ call[t].door = "v2" /\ <<call[t].sub, "password">> \notin overlapped
        => Ends(call[t].sub)]_vars
  BY EndsStep
<1>2. QED
  BY <1>1, InitSound, SoundStep, InitVersioned, VersionedStep, PTL
     DEF Spec, PasswordEndsAccess

-------------------------------------------------------------------------------
(* Refresh tokens *)

LEMMA InitRotated == Init => Rotated
  BY DEF Init, Rotated, RefreshedOnce, Exchanging

\* Two exchanges of one token under way at once overlap.
LEMMA ExchangesAlone ==
    ASSUME Sound, NEW t \in Threads, NEW u \in Threads, t # u, Exchanging(t), Exchanging(u),
           call[t].token = call[u].token
    PROVE  <<call[t].token, "v2">> \in overlapped
<1>1. Matter(call[t]) = <<call[t].token, "v2">> /\ Matter(call[u]) = Matter(call[t])
  BY DEF Exchanging, Revokes, Matter
<1>2. Overlapping(t, u)
  BY <1>1 DEF Overlapping, Exchanging
<1>3. QED
  BY <1>1, <1>2 DEF Sound, Lone

\* The rows a new pair leaves: one is revoked, and only the token it was exchanged for.
LEMMA MintRevokes ==
    ASSUME Sound, NEW t \in Threads, Mint(t), NEW id \in DOMAIN refresh
    PROVE  /\ id \in DOMAIN refresh' /\ refresh[id].revoked \in BOOLEAN
           /\ \/ refresh'[id].revoked = refresh[id].revoked
              \/ Revokes(call[t]) /\ id = call[t].token /\ refresh'[id].revoked = TRUE
           /\ refresh' # refresh /\ Revokes(call[t]) /\ id = call[t].token =>
                  refresh'[id].revoked = TRUE
<1>1. TypeOK /\ Staged
  BY DEF Sound
<1>2. refresh \in Seq(RefreshRow) /\ refresh[id] \in RefreshRow
  BY <1>1 DEF TypeOK
<1>3. refresh[id].revoked \in BOOLEAN
  BY <1>2 DEF RefreshRow
<1>4. PICK row : refresh' = refresh \/ refresh' = Append(Revoked(call[t]), row)
  BY DEF Mint
<1>5. CASE refresh' = refresh
  BY <1>3, <1>5
<1>6. CASE refresh' = Append(Revoked(call[t]), row)
  <2>1. /\ Revoked(call[t]) \in Seq(RefreshRow) /\ Len(Revoked(call[t])) = Len(refresh)
        /\ Revoked(call[t])[id].revoked =
              IF Revokes(call[t]) /\ id = call[t].token THEN TRUE ELSE refresh[id].revoked
    BY <1>1, RevokedRows DEF Mint
  <2>2. id \in DOMAIN refresh' /\ refresh'[id] = Revoked(call[t])[id]
    BY <1>2, <1>6, <2>1
  <2>3. QED
    BY <1>3, <2>1, <2>2
<1>7. QED
  BY <1>4, <1>5, <1>6

\* What an exchange adds to the history.
LEMMA MintSpends ==
    ASSUME Sound, NEW t \in Threads, Mint(t)
    PROVE  \/ spent' = spent /\ ~Revokes(call[t])
           \/ /\ Revokes(call[t]) /\ DOMAIN spent' = 1 .. (Len(spent) + 1)
              /\ DOMAIN spent = 1 .. Len(spent) /\ Len(spent) \in Nat
              /\ \A i \in DOMAIN spent : spent'[i] = spent[i]
              /\ spent'[Len(spent) + 1].token = call[t].token
              /\ spent'[Len(spent) + 1].stored => refresh' # refresh
<1>1. spent \in Seq([token : Nat, stored : BOOLEAN]) /\ refresh \in Seq(RefreshRow)
  BY DEF Sound, TypeOK
<1>2. PICK stored \in BOOLEAN :
        spent' = Exchanged(call[t], stored) /\ (stored => refresh' # refresh)
  <2>1. CASE spent' = Exchanged(call[t], FALSE)
    BY <2>1
  <2>2. ASSUME NEW row, refresh' = Append(Revoked(call[t]), row) PROVE refresh' # refresh
    <3>1. Revoked(call[t]) \in Seq(RefreshRow) /\ Len(Revoked(call[t])) = Len(refresh)
      BY RevokedRows DEF Mint, Sound
    <3>2. Len(refresh') = Len(refresh) + 1
      BY <2>2, <3>1
    <3>3. QED
      BY <1>1, <3>2
  <2>3. QED
    BY <2>1, <2>2 DEF Mint
<1>3. CASE ~Revokes(call[t])
  BY <1>2, <1>3 DEF Exchanged
<1>4. CASE Revokes(call[t])
  <2>1. PICK e : e = [token |-> call[t].token, stored |-> stored]
    OBVIOUS
  <2>2. spent' = Append(spent, e) /\ e.token = call[t].token /\ e.stored = stored
    BY <1>2, <1>4, <2>1 DEF Exchanged
  <2>3. /\ DOMAIN spent' = 1 .. (Len(spent) + 1) /\ DOMAIN spent = 1 .. Len(spent)
        /\ Len(spent) \in Nat /\ spent'[Len(spent) + 1] = e
        /\ \A i \in DOMAIN spent : spent'[i] = spent[i]
    BY <1>1, <2>2
  <2>4. QED
    BY <1>2, <1>4, <2>2, <2>3
<1>5. QED
  BY <1>3, <1>4

LEMMA MintRotated ==
    ASSUME Sound, Rotated, NEW t \in Threads, Mint(t)
    PROVE  Rotated'
<1>0. /\ Staged /\ pc[t] = "mint" /\ pc'[t] = "idle" /\ call' = call
      /\ overlapped' = overlapped /\ \A u \in Threads \ {t} : pc'[u] = pc[u]
  BY StepMoves DEF Sound, Step, Mint, Moves, Frame
<1>1. ASSUME NEW u \in Threads, Exchanging(u)
      PROVE  call[u].token \in DOMAIN refresh
  BY <1>0, <1>1 DEF Exchanging, Revokes, Staged
<1>2. ASSUME NEW u \in Threads, Exchanging(u)'
      PROVE  ~refresh'[call'[u].token].revoked \/ <<call'[u].token, "v2">> \in overlapped'
  <2>1. u # t /\ Exchanging(u) /\ call'[u] = call[u]
    BY <1>0, <1>2 DEF Exchanging
  <2>2. PICK id \in DOMAIN refresh : id = call[u].token
    BY <1>1, <2>1
  <2>3. ~refresh[id].revoked \/ <<id, "v2">> \in overlapped
    BY <2>1, <2>2 DEF Rotated
  <2>4. CASE Revokes(call[t]) /\ call[t].token = id
    <3>1. Exchanging(t) /\ call[t].token = call[u].token
      BY <1>0, <2>2, <2>4 DEF Exchanging
    <3>2. <<call[t].token, "v2">> \in overlapped
      BY <2>1, <3>1, ExchangesAlone
    <3>3. QED
      BY <1>0, <2>1, <2>2, <2>4, <3>2
  <2>5. CASE ~(Revokes(call[t]) /\ call[t].token = id)
    <3>1. refresh'[id].revoked = refresh[id].revoked
      BY <2>2, <2>5, MintRevokes
    <3>2. QED
      BY <1>0, <2>1, <2>2, <2>3, <3>1
  <2>6. QED
    BY <2>4, <2>5
<1>3. ASSUME NEW i \in DOMAIN spent
      PROVE  /\ spent[i].token \in DOMAIN refresh'
             /\ spent[i].stored => refresh'[spent[i].token].revoked
  <2>1. PICK id \in DOMAIN refresh : id = spent[i].token
    BY DEF Rotated
  <2>2. spent[i].stored => refresh[id].revoked
    BY <2>1 DEF Rotated
  <2>3. id \in DOMAIN refresh' /\ (refresh[id].revoked => refresh'[id].revoked)
    BY MintRevokes
  <2>4. QED
    BY <2>1, <2>2, <2>3
<1>4. CASE spent' = spent
  BY <1>0, <1>2, <1>3, <1>4 DEF Rotated, RefreshedOnce
<1>5. CASE spent' # spent
  <2>1. /\ Revokes(call[t]) /\ DOMAIN spent' = 1 .. (Len(spent) + 1)
        /\ DOMAIN spent = 1 .. Len(spent) /\ Len(spent) \in Nat
        /\ \A i \in DOMAIN spent : spent'[i] = spent[i]
        /\ spent'[Len(spent) + 1].token = call[t].token
        /\ spent'[Len(spent) + 1].stored => refresh' # refresh
    BY <1>5, MintSpends
  <2>2. Exchanging(t)
    BY <1>0, <2>1 DEF Exchanging
  <2>3. PICK id \in DOMAIN refresh : id = call[t].token
    BY <1>1, <2>2
  <2>4. ~refresh[id].revoked \/ <<id, "v2">> \in overlapped
    BY <2>2, <2>3 DEF Rotated
  <2>5. id \in DOMAIN refresh' /\ (refresh' # refresh => refresh'[id].revoked)
    BY <2>1, <2>3, MintRevokes
  <2>6. ASSUME NEW i \in DOMAIN spent'
        PROVE  /\ spent'[i].token \in DOMAIN refresh'
               /\ spent'[i].stored => refresh'[spent'[i].token].revoked
    <3>1. CASE i \in DOMAIN spent
      BY <1>3, <2>1, <3>1
    <3>2. CASE i = Len(spent) + 1
      BY <2>1, <2>3, <2>5, <3>2
    <3>3. QED
      BY <2>1, <3>1, <3>2
  <2>7. ASSUME NEW i \in DOMAIN spent', NEW j \in DOMAIN spent', i < j,
               spent'[i].token = spent'[j].token
        PROVE  ~spent'[i].stored \/ <<spent'[i].token, "v2">> \in overlapped'
    <3>1. i \in DOMAIN spent /\ spent'[i] = spent[i]
      BY <2>1, <2>7
    <3>2. CASE j \in DOMAIN spent
      <4>1. spent'[j] = spent[j]
        BY <2>1, <3>2
      <4>2. QED
        BY <1>0, <2>7, <3>1, <3>2, <4>1 DEF Rotated, RefreshedOnce
    <3>3. CASE j = Len(spent) + 1
      <4>1. spent[i].token = id
        BY <2>1, <2>3, <2>7, <3>1, <3>3
      <4>2. spent[i].stored => refresh[id].revoked
        BY <3>1, <4>1 DEF Rotated
      <4>3. QED
        BY <1>0, <2>4, <3>1, <4>1, <4>2
    <3>4. QED
      BY <2>1, <3>2, <3>3
  <2>8. QED
    BY <1>2, <2>6, <2>7 DEF Rotated, RefreshedOnce
<1>6. QED
  BY <1>4, <1>5

\* The other steps store nothing, but a thread may find its token good and exchange it.
LEMMA OtherRotated ==
    ASSUME Sound, Rotated, NEW t \in Threads, Step(t), ~Mint(t)
    PROVE  Rotated'
<1>0. TypeOK /\ Staged /\ Frame(t) /\ Moves(t)
  BY StepMoves DEF Sound
<1>1. /\ call' = call /\ overlapped' = overlapped /\ \A u \in Threads \ {t} : pc'[u] = pc[u]
  BY <1>0 DEF Frame
<1>2. refresh' = refresh /\ spent' = spent /\ pc[t] # "mint"
  BY DEF Step, Check, Record, CommitFailure, Reset, Verify, ReadChange, Requery, Store,
         bounds, guesses, history
<1>3. ASSUME NEW u \in Threads, Exchanging(u)'
      PROVE  ~refresh[call[u].token].revoked \/ <<call[u].token, "v2">> \in overlapped
  <2>1. CASE u # t
    BY <1>1, <1>3, <2>1 DEF Exchanging, Rotated
  <2>2. CASE u = t
    <3>1. pc'[t] = "mint" /\ call[t].op = "refresh"
      BY <1>1, <1>3, <2>2 DEF Exchanging, Revokes
    <3>2. pc[t] = "verify"
      BY <1>0, <3>1 DEF Moves, Staged
    <3>3. Verify(t)
      BY <3>2 DEF Step, Check, Record, CommitFailure, Reset, Mint, ReadChange, Requery, Store
    <3>4. VerifyRefresh(call[t].token)
      BY <1>0, <3>1, <3>2, <3>3 DEF Verify, Answer, Goto, TypeOK
    <3>5. QED
      BY <2>2, <3>4 DEF VerifyRefresh
  <2>3. QED
    BY <2>1, <2>2
<1>4. QED
  BY <1>1, <1>2, <1>3 DEF Rotated, RefreshedOnce

LEMMA RotatedStep == Sound /\ Rotated /\ [Next]_vars => Rotated'
<1> SUFFICES ASSUME Sound, Rotated, [Next]_vars PROVE Rotated'
  OBVIOUS
<1>1. ASSUME refresh' = refresh, spent' = spent, overlapped \subseteq overlapped',
             \A u \in Threads : Exchanging(u)' => Exchanging(u) /\ call'[u] = call[u]
      PROVE  Rotated'
  BY <1>1 DEF Rotated, RefreshedOnce
<1>2. ASSUME NEW t \in Threads, NEW c \in Call, NEW stage \in {"check", "verify", "change"},
             Begins(t, c, stage)
      PROVE  Rotated'
  <2>1. /\ pc' = [pc EXCEPT ![t] = stage] /\ call' = [call EXCEPT ![t] = c] /\ pc[t] = "idle"
        /\ refresh' = refresh /\ spent' = spent /\ overlapped \subseteq overlapped'
    BY <1>2, BeginFrame DEF Begins, Sound
  <2>2. /\ pc'[t] # "mint"
        /\ \A u \in Threads \ {t} : pc'[u] = pc[u] /\ call'[u] = call[u]
    BY <2>1 DEF Sound, TypeOK
  <2>3. \A u \in Threads : Exchanging(u)' => Exchanging(u) /\ call'[u] = call[u]
    BY <2>2 DEF Exchanging
  <2>4. QED
    BY <1>1, <2>1, <2>3
<1>3. ASSUME NEW t \in Threads, Step(t) PROVE Rotated'
  BY <1>3, MintRotated, OtherRotated
<1>4. CASE Tick \/ UNCHANGED vars
  BY <1>1, <1>4, StillUnchanged DEF Exchanging
<1>5. QED
  BY <1>2, <1>3, <1>4, NextCases, Zenon DEF Sound

\* v2 exchanges a refresh token again only if the database refused to store what the first
\* exchange made, or two requests with the token overlapped: never one request after
\* another, however many threads serve them.
THEOREM RefreshesAreOnce == Spec => []RefreshedOnce
<1>1. Rotated => RefreshedOnce
  BY DEF Rotated
<1>2. QED
  BY <1>1, InitSound, SoundStep, InitRotated, RotatedStep, PTL DEF Spec

-------------------------------------------------------------------------------
(* Rows of login attempts that can only be deleted *)

\* The rows stay as they are or go.
LessRows ==
    /\ lastId' = lastId /\ menu' = menu /\ (clock' = clock \/ clock' = clock + 1)
    /\ overlapped \subseteq overlapped'
    /\ \A s \in Subjects : attempts'[s] \in {attempts[s], Absent(attempts[s])}
LessDying == \A u \in Threads : dying'[u] \subseteq dying[u]
\* A thread that is between its check and its answer has not moved.
SameLogin(u) ==
    pc'[u] \in {"record", "commit", "reset"} =>
        /\ pc'[u] = pc[u] /\ call'[u] = call[u] /\ draft'[u] = draft[u] /\ dying'[u] = dying[u]
Less ==
    /\ LessRows /\ LessDying
    /\ \A u \in Threads : SameLogin(u)

LEMMA LimitIsPositive == MaxAttempts \in Nat /\ MaxAttempts > 1
  BY AccessAssumption

\* Every commit of a session: the rows it has marked go.
LEMMA CommitsLess ==
    ASSUME TypeOK, NEW t \in Threads, CommitsDeletes(t)
    PROVE  /\ lastId' = lastId /\ LessDying
           /\ \A k \in Subjects : attempts'[k] \in {attempts[k], Absent(attempts[k])}
<1>1. \A k \in Subjects : attempts'[k] \in {attempts[k], Absent(attempts[k])}
  BY DeletingType DEF CommitsDeletes, TypeOK
<1>2. LessDying
  BY DEF CommitsDeletes, LessDying, TypeOK
<1>3. QED
  BY <1>1, <1>2 DEF CommitsDeletes

\* The steps of a thread other than the check, the failure and its commit.
LEMMA StepLess ==
    ASSUME Sound, NEW t \in Threads, Step(t), ~Check(t), ~Record(t), ~CommitFailure(t)
    PROVE  Less
<1>0. TypeOK /\ Frame(t) /\ Moves(t)
  BY StepMoves DEF Sound
<1>1. /\ menu' = menu /\ clock' = clock /\ overlapped' = overlapped
      /\ \A u \in Threads \ {t} : SameLogin(u)
  BY <1>0 DEF Frame, SameLogin
<1>2. SameLogin(t)
  <2>1. pc[t] \notin {"check", "record", "commit"}
    BY DEF Step, Check, Record, CommitFailure, Reset, Verify, Mint, ReadChange, Requery, Store
  <2>2. pc'[t] \notin {"record", "commit", "reset"}
    BY <1>0, <2>1 DEF Moves
  <2>3. QED
    BY <2>2 DEF SameLogin
<1>3. ASSUME /\ lastId' = lastId /\ LessDying
             /\ \A k \in Subjects : attempts'[k] \in {attempts[k], Absent(attempts[k])}
      PROVE  Less
  BY <1>1, <1>2, <1>3 DEF Less, LessRows
<1>4. CASE Reset(t)
  <2> DEFINE k == call[t].sub
  <2>1. k \in Subjects /\ attempts \in [Subjects -> AttemptRow]
    BY <1>0, CallType DEF TypeOK
  <2>2. /\ attempts' = [Deleting(t, attempts) EXCEPT ![k] = Absent(Deleting(t, attempts)[k])]
        /\ lastId' = lastId /\ dying' = [dying EXCEPT ![t] = {}]
    BY <1>4 DEF Reset
  <2>3. Deleting(t, attempts) \in [Subjects -> AttemptRow]
    BY <2>1, DeletingType
  <2>4. \A s \in Subjects : Deleting(t, attempts)[s] \in {attempts[s], Absent(attempts[s])}
    BY <2>1, DeletingType
  <2>5. Absent(Deleting(t, attempts)[k]) = Absent(attempts[k])
    <3>1. Absent(Absent(attempts[k])) = Absent(attempts[k])
      BY <2>1, RowType
    <3>2. QED
      BY <2>1, <2>4, <3>1
  <2>6. attempts'[k] = Absent(attempts[k])
    BY <2>1, <2>2, <2>3, <2>5
  <2>7. \A s \in Subjects \ {k} : attempts'[s] = Deleting(t, attempts)[s]
    BY <2>1, <2>2, <2>3
  <2>8. \A s \in Subjects : attempts'[s] \in {attempts[s], Absent(attempts[s])}
    BY <2>4, <2>6, <2>7
  <2>9. LessDying
    BY <1>0, <2>2 DEF LessDying, TypeOK
  <2>10. QED
    BY <1>3, <2>2, <2>8, <2>9
<1>5. CASE CommitsDeletes(t)
  BY <1>0, <1>3, <1>5, CommitsLess
<1>6. CASE /\ attempts' = attempts /\ lastId' = lastId
           /\ dying' \in {dying, [dying EXCEPT ![t] = {}]}
  <2>1. LessDying
    BY <1>0, <1>6 DEF LessDying, TypeOK
  <2>2. QED
    BY <1>3, <1>6, <2>1
<1>7. CASE Mint(t)
  BY <1>5, <1>6, <1>7 DEF Mint, tables
<1>8. CASE Store(t)
  BY <1>5, <1>6, <1>8 DEF Store, tables
<1>9. CASE Verify(t) \/ ReadChange(t) \/ Requery(t)
  BY <1>6, <1>9 DEF Verify, ReadChange, Requery, tables, session
<1>10. QED
  BY <1>4, <1>7, <1>8, <1>9 DEF Step

LEMMA BeginLess ==
    ASSUME Sound, NEW t \in Threads, NEW c \in Call, NEW stage \in {"check", "verify", "change"},
           Begins(t, c, stage)
    PROVE  Less
<1>1. /\ pc' = [pc EXCEPT ![t] = stage] /\ call' = [call EXCEPT ![t] = c]
      /\ overlapped \subseteq overlapped' /\ attempts' = attempts /\ lastId' = lastId
      /\ draft' = draft /\ dying' = dying /\ menu' = menu /\ clock' = clock
  BY BeginFrame DEF Begins, Sound
<1>2. \A u \in Threads : SameLogin(u)
  BY <1>1 DEF SameLogin, Sound, TypeOK
<1>3. QED
  BY <1>1, <1>2 DEF Less, LessRows, LessDying

LEMMA StillLess == Tick \/ UNCHANGED vars => Less
  BY StillUnchanged DEF Less, LessRows, LessDying, SameLogin

\* A commit of a failure that the database refuses changes no row.
LEMMA RefusedLess ==
    ASSUME Sound, NEW t \in Threads, CommitFailure(t), CommitRefused(t)
    PROVE  Less
<1>0. TypeOK /\ Frame(t) /\ Moves(t)
  BY StepMoves DEF Sound, Step
<1>1. /\ menu' = menu /\ clock' = clock /\ overlapped' = overlapped
      /\ \A u \in Threads \ {t} : SameLogin(u)
  BY <1>0 DEF Frame, SameLogin
<1>2. SameLogin(t)
  BY <1>0 DEF SameLogin, CommitFailure, Moves
<1>3. /\ attempts' = attempts /\ lastId' = lastId
      /\ dying' = [dying EXCEPT ![t] = {}]
  BY DEF CommitFailure, tables
<1>4. LessDying
  BY <1>0, <1>3 DEF LessDying, TypeOK
<1>5. QED
  BY <1>1, <1>2, <1>3, <1>4 DEF Less, LessRows

-------------------------------------------------------------------------------
(* The commit of a failure *)

Gives(t, k) ==
    /\ ~draft[t].new /\ Dying(t, draft[t].id) /\ lastId' = lastId
    /\ attempts'[k] \in {attempts[k], Absent(attempts[k])}
    /\ draft[t].id = attempts[k].id => attempts'[k] = Absent(attempts[k])
Updates(t, k) ==
    /\ ~draft[t].new /\ ~Dying(t, draft[t].id) /\ lastId' = lastId
    /\ attempts[k].count # 0 /\ attempts[k].id = draft[t].id
    /\ attempts'[k] = [id |-> attempts[k].id, count |-> draft[t].count,
                       until |-> IF draft[t].timed THEN draft[t].until ELSE attempts[k].until]
Inserts(t, k, id) ==
    LET row == [id |-> id, count |-> draft[t].count, until |-> draft[t].until] IN
    /\ draft[t].new /\ attempts[k].count = 0 /\ lastId' = IF id > lastId THEN id ELSE lastId
    /\ attempts'[k] = IF Dying(t, id) THEN Absent(row) ELSE row

Remains(t, s) ==
    /\ attempts'[s] \in {attempts[s], Absent(attempts[s])}
    /\ ~Dying(t, attempts[s].id) => attempts'[s] = attempts[s]

\* What the commit of a failure of k does to the row of k, and to the others.
Writes(t, k) ==
    /\ Gives(t, k) \/ Updates(t, k) \/ \E id \in NewIds : Inserts(t, k, id)
    /\ \A s \in Subjects \ {k} : Remains(t, s)
    /\ LessDying /\ dying'[t] = {} /\ pc'[t] = "idle"
    /\ menu' = menu /\ clock' = clock /\ overlapped' = overlapped
    /\ \A u \in Threads \ {t} : SameLogin(u)

LEMMA WriteSteps ==
    ASSUME Sound, NEW t \in Threads, CommitFailure(t), ~CommitRefused(t)
    PROVE  \E k \in Subjects : k = call[t].sub /\ Writes(t, k)
<1> DEFINE k == call[t].sub
           Written(id) == [attempts EXCEPT ![k] = WrittenRow(@, draft[t], id)]
<1>0. TypeOK /\ Frame(t) /\ pc'[t] = "idle"
  BY StepMoves DEF Sound, Step, Moves, CommitFailure
<1>1. /\ k \in Subjects /\ attempts \in [Subjects -> AttemptRow] /\ draft[t] \in Draft
      /\ attempts[k].id \in Nat
  BY <1>0, CallType, RowType DEF TypeOK
<1>2. WriteFailure(t, k) /\ dying' = [dying EXCEPT ![t] = {}]
  BY DEF CommitFailure
<1>3. /\ menu' = menu /\ clock' = clock /\ overlapped' = overlapped
      /\ \A u \in Threads \ {t} : SameLogin(u)
  BY <1>0 DEF Frame, SameLogin
<1>4. LessDying /\ dying'[t] = {}
  BY <1>0, <1>2 DEF LessDying, TypeOK
<1>5. ASSUME NEW id \in Nat
      PROVE  /\ Written(id) \in [Subjects -> AttemptRow]
             /\ Written(id)[k] = WrittenRow(attempts[k], draft[t], id)
             /\ \A s \in Subjects \ {k} : Written(id)[s] = attempts[s]
  BY <1>0, <1>1, WrittenType
<1>6. ASSUME NEW rows \in [Subjects -> AttemptRow], attempts' = Deleting(t, rows),
             \A s \in Subjects \ {k} : rows[s] = attempts[s]
      PROVE  \A s \in Subjects \ {k} : Remains(t, s)
  <2>1. ASSUME NEW s \in Subjects \ {k} PROVE Remains(t, s)
    BY <1>6, DeletingType DEF Remains
  <2>2. QED
    BY <2>1
<1> HIDE DEF Written
<1>7. CASE Gone(t) /\ attempts' = Deleting(t, attempts) /\ UNCHANGED lastId
  <2>1. \A s \in Subjects \ {k} : Remains(t, s)
    BY <1>1, <1>6, <1>7
  <2>2. attempts'[k] \in {attempts[k], Absent(attempts[k])}
    BY <1>1, <1>7, DeletingType
  <2>3. draft[t].id = attempts[k].id => attempts'[k] = Absent(attempts[k])
    BY <1>1, <1>7, DeletingType DEF Gone
  <2>4. Gives(t, k)
    BY <1>7, <2>2, <2>3 DEF Gives, Gone
  <2>5. QED
    BY <1>0, <1>1, <1>3, <1>4, <2>1, <2>4 DEF Writes
<1>8. CASE /\ ~Gone(t) /\ ~draft[t].new /\ UNCHANGED lastId
            /\ attempts' = Deleting(t, Written(attempts[k].id))
  <2>1. /\ Written(attempts[k].id) \in [Subjects -> AttemptRow]
        /\ Written(attempts[k].id)[k] = WrittenRow(attempts[k], draft[t], attempts[k].id)
        /\ \A s \in Subjects \ {k} : Written(attempts[k].id)[s] = attempts[s]
    BY <1>1, <1>5
  <2>2. \A s \in Subjects \ {k} : Remains(t, s)
    BY <1>6, <1>8, <2>1
  <2>3. attempts[k].count # 0 /\ attempts[k].id = draft[t].id /\ ~Dying(t, draft[t].id)
    BY <1>8 DEF CommitRefused, Gone
  <2>4. WrittenRow(attempts[k], draft[t], attempts[k].id) =
           [id |-> attempts[k].id, count |-> draft[t].count,
            until |-> IF draft[t].timed THEN draft[t].until ELSE attempts[k].until]
    BY <1>1, <1>8, DraftType DEF WrittenRow
  <2>5. attempts'[k] = Written(attempts[k].id)[k]
    BY <1>1, <1>8, <2>1, <2>3, <2>4, DeletingType
  <2>6. Updates(t, k)
    BY <1>8, <2>1, <2>3, <2>4, <2>5 DEF Updates
  <2>7. QED
    BY <1>0, <1>1, <1>3, <1>4, <2>2, <2>6 DEF Writes
<1>9. CASE \E id \in NewIds : /\ draft[t].new
                               /\ attempts' = Deleting(t, Written(id))
                               /\ lastId' = IF id > lastId THEN id ELSE lastId
  <2>1. PICK id \in NewIds : /\ draft[t].new
                             /\ attempts' = Deleting(t, Written(id))
                             /\ lastId' = IF id > lastId THEN id ELSE lastId
    BY <1>9
  <2>2. /\ Written(id) \in [Subjects -> AttemptRow]
        /\ Written(id)[k] = WrittenRow(attempts[k], draft[t], id)
        /\ \A s \in Subjects \ {k} : Written(id)[s] = attempts[s]
    BY <1>0, <1>5, NewIdType
  <2>3. \A s \in Subjects \ {k} : Remains(t, s)
    BY <1>6, <2>1, <2>2
  <2>4. attempts[k].count = 0
    BY <2>1 DEF CommitRefused
  <2>5. WrittenRow(attempts[k], draft[t], id) =
           [id |-> id, count |-> draft[t].count, until |-> draft[t].until]
    BY <1>1, <2>1, DraftType DEF WrittenRow
  <2>6. Written(id)[k].id = id
    BY <2>2, <2>5
  <2>7. attempts'[k] = IF Dying(t, id) THEN Absent(Written(id)[k]) ELSE Written(id)[k]
    BY <1>1, <2>1, <2>2, <2>6, DeletingType
  <2>8. Inserts(t, k, id)
    BY <2>1, <2>2, <2>4, <2>5, <2>7 DEF Inserts
  <2>9. QED
    BY <1>0, <1>1, <1>3, <1>4, <2>3, <2>8 DEF Writes
<1>10. QED
  BY <1>2, <1>7, <1>8, <1>9 DEF WriteFailure, Written

\* A request's step is a check, the recording of a failure, its commit, or deletes at most.
LEMMA LoginCases ==
    ASSUME Sound, [Next]_vars
    PROVE  \/ Less
           \/ \E t \in Threads : Check(t) \/ Record(t)
           \/ \E t \in Threads : \E k \in Subjects :
                 CommitFailure(t) /\ k = call[t].sub /\ Writes(t, k)
<1>1. ASSUME NEW t \in Threads, NEW c \in Call, NEW stage \in {"check", "verify", "change"},
             Begins(t, c, stage)
      PROVE  Less
  BY <1>1, BeginLess
<1>2. ASSUME NEW t \in Threads, CommitFailure(t), ~CommitRefused(t)
      PROVE  \E k \in Subjects : CommitFailure(t) /\ k = call[t].sub /\ Writes(t, k)
  BY <1>2, WriteSteps, Zenon
<1>3. QED
  BY <1>1, <1>2, NextCases, StepLess, StillLess, RefusedLess, Zenon DEF Sound

-------------------------------------------------------------------------------
(* The ids of the rows *)

LEMMA InitNumbered == Init => Numbered /\ Naive
<1> SUFFICES ASSUME Init PROVE Numbered /\ Naive
  OBVIOUS
<1>1. PICK old \in SUBSET menu.old, ids \in Bijection(menu.old, 1 .. lastId) :
        attempts = [s \in Subjects |->
             IF s \in old THEN [id |-> ids[s], count |-> MaxAttempts, until |-> 1]
             ELSE [id |-> 0, count |-> 0, until |-> 0]]
  BY DEF Init
<1>2. lastId \in Nat
  BY InitType DEF TypeOK
<1>3. /\ \A s \in menu.old : ids[s] \in 1 .. lastId
      /\ \A s, u \in menu.old : ids[s] = ids[u] => s = u
  BY DEF Bijection, Injection, IsInjective
<1>4. \A s \in Subjects : attempts[s] =
        IF s \in old THEN [id |-> ids[s], count |-> MaxAttempts, until |-> 1]
        ELSE [id |-> 0, count |-> 0, until |-> 0]
  BY <1>1
<1>5. Numbered
  <2>1. \A s \in old : ids[s] \in 1 .. lastId
    BY <1>3
  <2>2. \A s \in Subjects : /\ s \in old => attempts[s].id = ids[s]
                            /\ s \notin old => attempts[s].id = 0 /\ attempts[s].count = 0
    <3>1. ASSUME NEW s \in Subjects, s \in old PROVE attempts[s].id = ids[s]
      <4>1. attempts[s] = [id |-> ids[s], count |-> MaxAttempts, until |-> 1]
        BY <1>4, <3>1
      <4>2. QED
        BY <4>1
    <3>2. ASSUME NEW s \in Subjects, s \notin old
          PROVE  attempts[s].id = 0 /\ attempts[s].count = 0
      <4>1. attempts[s] = [id |-> 0, count |-> 0, until |-> 0]
        BY <1>4, <3>2
      <4>2. QED
        BY <4>1
    <3>3. QED
      BY <3>1, <3>2
  <2>3. \A t \in Threads : dying[t] = {}
    BY DEF Init
  <2>4. \A s \in Subjects : attempts[s].id <= lastId
    BY <1>2, <2>1, <2>2
  <2>5. \A s, u \in Subjects : s # u /\ attempts[s].id # 0 => attempts[s].id # attempts[u].id
    BY <1>2, <1>3, <2>1, <2>2
  <2>6. \A s \in Subjects : attempts[s].count # 0 => attempts[s].id # 0
    BY <2>1, <2>2
  <2>7. QED
    BY <2>3, <2>4, <2>5, <2>6 DEF Numbered
<1>6. Naive
  BY <1>4, LimitIsPositive DEF Init, Naive, RowHasTime, DraftHasTime
<1>7. QED
  BY <1>5, <1>6

\* The ids and the ages of the rows sessions are about to delete stay true.
OldRow(d) == /\ d.id \in 1 .. lastId /\ d.count >= MaxAttempts /\ d.until <= clock
             /\ menu.naive => d.until # 0
LEMMA OldRowStays ==
    ASSUME TypeOK, TypeOK', menu' = menu, clock' = clock \/ clock' = clock + 1,
           lastId <= lastId', NEW d \in AttemptRow, OldRow(d)
    PROVE  OldRow(d)'
  BY RowType DEF OldRow, TypeOK

LEMMA LessNumbered ==
    ASSUME TypeOK, TypeOK', Numbered, LessRows, LessDying
    PROVE  Numbered'
<1>1. /\ lastId' = lastId /\ menu' = menu /\ (clock' = clock \/ clock' = clock + 1)
      /\ lastId \in Nat
  BY DEF LessRows, TypeOK
<1>2. ASSUME NEW s \in Subjects
      PROVE  attempts'[s].id = attempts[s].id /\ (attempts'[s].count # 0 => attempts[s].count # 0)
  <2>1. /\ attempts[s] \in AttemptRow /\ attempts'[s] \in {attempts[s], Absent(attempts[s])}
    BY DEF LessRows, TypeOK
  <2>2. QED
    BY <2>1, RowType
<1>3. ASSUME NEW t \in Threads, NEW d \in dying'[t] PROVE OldRow(d)'
  <2>1. d \in dying[t] /\ d \in AttemptRow
    BY DEF LessDying, TypeOK
  <2>2. OldRow(d)
    BY <2>1 DEF Numbered, OldRow
  <2>3. QED
    BY <1>1, <2>1, <2>2, OldRowStays
<1>4. /\ \A s \in Subjects : attempts'[s].id <= lastId'
      /\ \A s, u \in Subjects : ~menu'.naive /\ s # u /\ attempts'[s].id # 0 =>
             attempts'[s].id # attempts'[u].id
      /\ \A s \in Subjects : attempts'[s].count # 0 => attempts'[s].id # 0
  BY <1>1, <1>2 DEF Numbered
<1>5. QED
  BY <1>3, <1>4 DEF Numbered, OldRow

\* What a thread finds to have run out is at the limit and past its time.
LEMMA SeenExpired ==
    ASSUME TypeOK, Numbered, Naive, NEW t \in Threads, NEW k \in Subjects, Expired(Seen(t, k))
    PROVE  /\ OldRow(Seen(t, k)) /\ attempts[k].count # 0
           /\ Seen(t, k).id = attempts[k].id
<1>1. Seen(t, k) \in AttemptRow /\ attempts[k] \in AttemptRow /\ clock \in Nat
      /\ lastId \in Nat
  BY SeenCases DEF TypeOK
<1>2. Seen(t, k).count >= MaxAttempts /\ ~Locked(Seen(t, k))
  BY DEF Expired
<1>3. CASE Seen(t, k) = attempts[k]
  <2>1. attempts[k].count # 0
    BY <1>1, <1>2, <1>3, RowType, LimitIsPositive
  <2>2. attempts[k].id \in 1 .. lastId
    BY <1>1, <2>1, RowType DEF Numbered
  <2>3. attempts[k].until <= clock
    BY <1>1, <1>2, <1>3, RowType DEF Locked
  <2>4. menu.naive => attempts[k].until # 0
    BY <1>2, <1>3 DEF Naive, RowHasTime
  <2>5. QED
    BY <1>2, <1>3, <2>1, <2>2, <2>3, <2>4 DEF OldRow
<1>4. CASE attempts[k].count # 0 /\ Seen(t, k) \in dying[t] /\ Seen(t, k).id = attempts[k].id
  BY <1>4 DEF Numbered, OldRow
<1>5. QED
  BY <1>3, <1>4, SeenCases

LEMMA CheckNumbered ==
    ASSUME TypeOK, TypeOK', Numbered, Naive, NEW t \in Threads, Check(t)
    PROVE  Numbered'
<1> DEFINE row == Seen(t, call[t].sub)
<1>1. /\ lastId' = lastId /\ menu' = menu /\ clock' = clock /\ attempts' = attempts
      /\ lastId \in Nat /\ call[t].sub \in Subjects
  BY CallType DEF Check, tables, bounds, TypeOK
<1>2. ASSUME NEW u \in Threads, NEW d \in dying'[u] PROVE OldRow(d)'
  <2>1. d \in AttemptRow
    BY DEF TypeOK
  <2>2. OldRow(d)
    <3>1. CASE d \in dying[u]
      BY <3>1 DEF Numbered, OldRow
    <3>2. CASE d \notin dying[u]
      <4>1. d = row /\ Expired(row)
        BY <1>2, <3>2 DEF Check, TypeOK
      <4>2. QED
        BY <1>1, <4>1, SeenExpired
    <3>3. QED
      BY <3>1, <3>2
  <2>3. QED
    BY <1>1, <2>1, <2>2, OldRowStays
<1>3. QED
  BY <1>1, <1>2 DEF Numbered, OldRow

LEMMA NewIdFacts ==
    ASSUME TypeOK, NEW id \in NewIds
    PROVE  id \in Nat \ {0} /\ id <= lastId + 1 /\ (~menu.naive => id = lastId + 1)
  BY DEF TypeOK, NewIds

LEMMA WritesNumbered ==
    ASSUME TypeOK, TypeOK', Numbered, NEW t \in Threads, NEW k \in Subjects, Writes(t, k)
    PROVE  Numbered'
<1>1. /\ menu' = menu /\ clock' = clock /\ LessDying /\ lastId \in Nat /\ lastId' \in Nat
  BY DEF Writes, TypeOK
<1>2. /\ \A s \in Subjects : attempts[s] \in AttemptRow /\ attempts[s].id <= lastId
      /\ \A s, u \in Subjects : ~menu.naive /\ s # u /\ attempts[s].id # 0 =>
             attempts[s].id # attempts[u].id
      /\ \A s \in Subjects : attempts[s].count # 0 => attempts[s].id # 0
      /\ \A s \in Subjects : attempts[s].id \in Nat
  BY RowType DEF Numbered, TypeOK
<1>3. ASSUME NEW s \in Subjects \ {k}
      PROVE  attempts'[s].id = attempts[s].id /\ (attempts'[s].count # 0 => attempts[s].count # 0)
  <2>1. attempts'[s] \in {attempts[s], Absent(attempts[s])}
    BY DEF Writes, Remains
  <2>2. QED
    BY <1>2, <2>1, RowType
<1> DEFINE Placed ==
      /\ lastId <= lastId' /\ attempts'[k].id <= lastId'
      /\ attempts'[k].count # 0 => attempts'[k].id # 0
      /\ \/ attempts'[k].id = attempts[k].id
         \/ ~menu.naive => attempts'[k].id = lastId + 1
<1>4. Placed
  <2>1. CASE Gives(t, k)
    <3>1. attempts'[k] \in {attempts[k], Absent(attempts[k])} /\ lastId' = lastId
      BY <2>1 DEF Gives
    <3>2. QED
      BY <1>1, <1>2, <3>1, RowType
  <2>2. CASE Updates(t, k)
    BY <1>1, <1>2, <2>2 DEF Updates
  <2>3. ASSUME NEW id \in NewIds, Inserts(t, k, id) PROVE Placed
    <3>1. /\ id \in Nat \ {0} /\ lastId' = IF id > lastId THEN id ELSE lastId
          /\ ~menu.naive => id = lastId + 1
      BY <2>3, NewIdFacts DEF Inserts
    <3>2. attempts'[k].id = id
      <4>1. draft[t] \in Draft
        BY DEF TypeOK
      <4>2. [id |-> id, count |-> draft[t].count, until |-> draft[t].until] \in AttemptRow
        BY <3>1, <4>1, DraftType DEF AttemptRow
      <4>3. QED
        BY <2>3, <4>2, RowType DEF Inserts
    <3>3. QED
      BY <1>1, <3>1, <3>2
  <2>4. QED
    BY <2>1, <2>2, <2>3 DEF Writes
<1>5. ASSUME NEW u \in Threads, NEW d \in dying'[u] PROVE OldRow(d)'
  <2>1. d \in dying[u] /\ d \in AttemptRow
    BY <1>1 DEF LessDying, TypeOK
  <2>2. OldRow(d)
    BY <2>1 DEF Numbered, OldRow
  <2>3. QED
    BY <1>1, <1>4, <2>1, <2>2, OldRowStays
<1>6. /\ \A s \in Subjects : attempts'[s].id <= lastId'
      /\ \A s \in Subjects : attempts'[s].count # 0 => attempts'[s].id # 0
  BY <1>1, <1>2, <1>3, <1>4
<1>7. ASSUME NEW s \in Subjects, NEW u \in Subjects, ~menu.naive, s # u, attempts'[s].id # 0
      PROVE  attempts'[s].id # attempts'[u].id
  BY <1>1, <1>2, <1>3, <1>4, <1>7
<1>8. QED
  BY <1>1, <1>5, <1>6, <1>7 DEF Numbered, OldRow

-------------------------------------------------------------------------------
(* SQLite's naive times *)

LEMMA SameDraft ==
    ASSUME NEW t \in Threads, SameLogin(t), DraftHasTime(t)
    PROVE  DraftHasTime(t)'
  BY DEF SameLogin, DraftHasTime, Dying

LEMMA LessRowTime ==
    ASSUME TypeOK, NEW k \in Subjects, RowHasTime(k),
           attempts'[k] \in {attempts[k], Absent(attempts[k])}
    PROVE  RowHasTime(k)'
<1>1. attempts[k] \in AttemptRow
  BY DEF TypeOK
<1>2. Absent(attempts[k]).count = 0
  BY <1>1, RowType
<1>3. QED
  BY <1>2, LimitIsPositive DEF RowHasTime

\* record_failure on SQLite: it fails unless the row has no time, and then the session is
\* not about to delete the row.
LEMMA RecordTime ==
    ASSUME TypeOK, Numbered, menu.naive, NEW t \in Threads, Record(t), RowHasTime(call[t].sub)
    PROVE  DraftHasTime(t)'
<1> DEFINE k == call[t].sub
           row == Seen(t, k)
<1>1. k \in Subjects /\ row \in AttemptRow /\ clock + LockoutMinutes \in Nat \ {0}
  <2>1. k \in Subjects /\ clock \in Nat
    BY CallType DEF TypeOK
  <2>2. LockoutMinutes \in Nat \ {0}
    BY AccessAssumption
  <2>3. QED
    BY <2>1, <2>2, SeenCases
<1>2. SUFFICES ASSUME pc'[t] = "commit"
               PROVE  IF draft'[t].new THEN draft'[t].count = 1
                      ELSE /\ ~ \E d \in dying'[t] : d.id = draft'[t].id
                           /\ draft'[t].count >= MaxAttempts =>
                                  draft'[t].timed /\ draft'[t].until # 0
  BY DEF DraftHasTime, Dying
<1>3. /\ Comparable(row) /\ draft' = [draft EXCEPT ![t] = RecordFailure(row)]
      /\ dying' = dying
  BY <1>2 DEF Record, Answer, Goto, TypeOK, session
<1>4. row.until = 0 /\ draft'[t] = RecordFailure(row)
  BY <1>3 DEF Comparable, TypeOK
<1>5. row.count = 0 \/ (row = attempts[k] /\ ~Dying(t, attempts[k].id))
  <2>1. row \notin dying[t]
    BY <1>4 DEF Numbered
  <2>2. QED
    BY <1>1, <2>1, SeenCases
<1>6. CASE row.count = 0
  <2>1. draft'[t] = Drafted(row, 1, 0)
    BY <1>4, <1>6 DEF RecordFailure
  <2>2. draft'[t].new = (row.count = 0) /\ draft'[t].count = 1
    BY <2>1 DEF Drafted
  <2>3. QED
    BY <1>6, <2>2
<1>7. CASE row.count # 0
  <2>1. draft'[t] = Drafted(row, row.count + 1,
                            IF row.count + 1 >= MaxAttempts THEN clock + LockoutMinutes ELSE 0)
    BY <1>4, <1>7 DEF RecordFailure
  <2>2. /\ draft'[t].id = row.id /\ draft'[t].count = row.count + 1
        /\ draft'[t].until = IF row.count + 1 >= MaxAttempts THEN clock + LockoutMinutes ELSE 0
        /\ draft'[t].timed = (draft'[t].until # row.until) /\ draft'[t].new = (row.count = 0)
    BY <2>1 DEF Drafted
  <2>3. ~ \E d \in dying'[t] : d.id = draft'[t].id
    BY <1>3, <1>5, <1>7, <2>2 DEF Dying
  <2>4. draft'[t].new = FALSE
    BY <1>7, <2>2
  <2>5. draft'[t].count >= MaxAttempts => draft'[t].timed /\ draft'[t].until # 0
    BY <1>1, <1>4, <2>2
  <2>6. QED
    BY <2>3, <2>4, <2>5
<1>8. QED
  BY <1>6, <1>7

LEMMA WritesTime ==
    ASSUME TypeOK, NEW t \in Threads, NEW k \in Subjects, pc[t] = "commit", Writes(t, k),
           DraftHasTime(t), RowHasTime(k)
    PROVE  RowHasTime(k)'
<1>1. attempts[k] \in AttemptRow /\ draft[t] \in Draft
  BY DEF TypeOK
<1>2. ~Gives(t, k)
  BY DEF Gives, DraftHasTime
<1>3. CASE Updates(t, k)
  BY <1>1, <1>3, DraftType DEF Updates, DraftHasTime, RowHasTime
<1>4. ASSUME NEW id \in NewIds, Inserts(t, k, id) PROVE RowHasTime(k)'
  <2> DEFINE row == [id |-> id, count |-> draft[t].count, until |-> draft[t].until]
  <2>1. row \in AttemptRow /\ row.count = 1
    BY <1>1, <1>4, DraftType, NewIdFacts DEF Inserts, DraftHasTime, AttemptRow
  <2>2. attempts'[k] \in {row, Absent(row)}
    BY <1>4 DEF Inserts
  <2>3. attempts'[k].count \in {0, 1}
    BY <2>1, <2>2, RowType
  <2>4. QED
    BY <2>3, LimitIsPositive DEF RowHasTime
<1>5. QED
  BY <1>2, <1>3, <1>4 DEF Writes

LEMMA NaiveStep == Sound /\ Numbered /\ Naive /\ [Next]_vars => Naive'
<1> SUFFICES ASSUME Sound, Numbered, Naive, [Next]_vars PROVE Naive'
  OBVIOUS
<1>0. TypeOK
  BY DEF Sound
<1>1. CASE Less
  <2>1. /\ menu' = menu
        /\ \A s \in Subjects : attempts'[s] \in {attempts[s], Absent(attempts[s])}
        /\ \A u \in Threads : SameLogin(u)
    BY <1>1 DEF Less, LessRows
  <2>2. QED
    BY <1>0, <2>1, LessRowTime, SameDraft DEF Naive
<1>2. ASSUME NEW t \in Threads, Check(t) PROVE Naive'
  <2>1. menu' = menu /\ attempts' = attempts /\ Frame(t) /\ pc'[t] # "commit"
    BY <1>0, <1>2, StepMoves DEF Check, Step, Moves, tables, bounds
  <2>2. \A s \in Subjects : RowHasTime(s) => RowHasTime(s)'
    BY <2>1 DEF RowHasTime
  <2>3. \A u \in Threads : DraftHasTime(u) => DraftHasTime(u)'
    BY <2>1 DEF DraftHasTime, Frame, Dying
  <2>4. QED
    BY <2>1, <2>2, <2>3 DEF Naive
<1>3. ASSUME NEW t \in Threads, Record(t) PROVE Naive'
  <2>1. menu' = menu /\ attempts' = attempts /\ Frame(t) /\ call[t].sub \in Subjects
    BY <1>0, <1>3, StepMoves, CallType DEF Record, Step, tables, bounds, TypeOK
  <2>2. \A s \in Subjects : RowHasTime(s) => RowHasTime(s)'
    BY <2>1 DEF RowHasTime
  <2>3. \A u \in Threads \ {t} : DraftHasTime(u) => DraftHasTime(u)'
    BY <2>1 DEF DraftHasTime, Frame, Dying
  <2>4. ASSUME menu.naive PROVE DraftHasTime(t)'
    BY <1>0, <1>3, <2>1, <2>4, RecordTime DEF Naive
  <2>5. QED
    BY <2>1, <2>2, <2>3, <2>4 DEF Naive
<1>4. ASSUME NEW t \in Threads, NEW k \in Subjects, CommitFailure(t), Writes(t, k)
      PROVE  Naive'
  <2>1. /\ menu' = menu /\ pc[t] = "commit" /\ pc'[t] = "idle"
        /\ \A s \in Subjects \ {k} : attempts'[s] \in {attempts[s], Absent(attempts[s])}
        /\ \A u \in Threads \ {t} : SameLogin(u)
    BY <1>4 DEF Writes, Remains, CommitFailure
  <2>2. DraftHasTime(t)'
    BY <2>1 DEF DraftHasTime
  <2>3. menu.naive => RowHasTime(k)'
    BY <1>0, <1>4, <2>1, WritesTime DEF Naive
  <2>4. QED
    BY <1>0, <2>1, <2>2, <2>3, LessRowTime, SameDraft DEF Naive
<1>5. QED
  BY <1>1, <1>2, <1>3, <1>4, LoginCases, Zenon

LEMMA NumberedStep == Sound /\ Numbered /\ Naive /\ [Next]_vars => Numbered'
<1> SUFFICES ASSUME Sound, Numbered, Naive, [Next]_vars PROVE Numbered'
  OBVIOUS
<1>0. TypeOK /\ TypeOK'
  BY SoundStep DEF Sound
<1>1. CASE Less
  BY <1>0, <1>1, LessNumbered DEF Less
<1>2. ASSUME NEW t \in Threads, Record(t) PROVE Numbered'
  BY <1>2 DEF Record, Numbered, tables, bounds
<1>3. ASSUME NEW t \in Threads, Check(t) PROVE Numbered'
  BY <1>0, <1>3, CheckNumbered
<1>4. ASSUME NEW t \in Threads, NEW k \in Subjects, Writes(t, k) PROVE Numbered'
  BY <1>0, <1>4, WritesNumbered
<1>5. QED
  BY <1>1, <1>2, <1>3, <1>4, LoginCases, Zenon

-------------------------------------------------------------------------------
(* The row of a subject whose logins do not overlap *)

LEMMA InitCounted == Init => Counted
<1> SUFFICES ASSUME Init, NEW k \in Subjects
             PROVE  Row(k) /\ \A t \in Threads : Standing(t, k)
  BY DEF Counted
<1>1. PICK old \in SUBSET menu.old, ids \in Bijection(menu.old, 1 .. lastId) :
        attempts = [s \in Subjects |->
             IF s \in old THEN [id |-> ids[s], count |-> MaxAttempts, until |-> 1]
             ELSE [id |-> 0, count |-> 0, until |-> 0]]
  BY DEF Init
<1>2. attempts[k].count \in {0, MaxAttempts} /\ (attempts[k].until # 0 <=> attempts[k].count # 0)
  <2>1. CASE k \in old
    <3>1. attempts[k] = [id |-> ids[k], count |-> MaxAttempts, until |-> 1]
      BY <1>1, <2>1
    <3>2. QED
      BY <3>1, LimitIsPositive
  <2>2. CASE k \notin old
    <3>1. attempts[k] = [id |-> 0, count |-> 0, until |-> 0]
      BY <1>1, <2>2
    <3>2. QED
      BY <3>1
  <2>3. QED
    BY <2>1, <2>2
<1>3. \A t \in Threads : dying[t] = {} /\ pc[t] = "idle"
  BY DEF Init
<1>4. Row(k)
  BY <1>2, <1>3, LimitIsPositive DEF Row
<1>5. QED
  BY <1>3, <1>4 DEF Standing

LEMMA LessRow ==
    ASSUME TypeOK, NEW k \in Subjects, attempts'[k] \in {attempts[k], Absent(attempts[k])},
           LessDying, menu' = menu, Row(k)
    PROVE  Row(k)'
<1>1. /\ attempts[k].id \in Nat /\ attempts[k].count \in Nat /\ attempts[k].until \in Nat
      /\ Absent(attempts[k]) = [id |-> attempts[k].id, count |-> 0, until |-> 0]
  BY RowType DEF TypeOK
<1>2. \/ attempts'[k] = attempts[k]
      \/ attempts'[k].id = attempts[k].id /\ attempts'[k].count = 0 /\ attempts'[k].until = 0
  BY <1>1
<1>3. ASSUME ~menu.naive, NEW t \in Threads, NEW d \in dying'[t], d.id = attempts'[k].id
      PROVE  attempts'[k].count = 0 \/ d = attempts'[k]
  <2>1. d \in dying[t] /\ d.id = attempts[k].id
    BY <1>2, <1>3 DEF LessDying
  <2>2. attempts[k].count = 0 \/ d = attempts[k]
    BY <1>3, <2>1 DEF Row
  <2>3. QED
    BY <1>2, <2>2
<1>4. attempts'[k].count <= MaxAttempts
      /\ (~menu.naive => (attempts'[k].until # 0 <=> attempts'[k].count >= MaxAttempts))
  BY <1>1, <1>2, LimitIsPositive DEF Row
<1>5. QED
  BY <1>2, <1>3, <1>4 DEF Row

LEMMA LessStanding ==
    ASSUME TypeOK, NEW k \in Subjects, attempts'[k] \in {attempts[k], Absent(attempts[k])},
           menu' = menu, clock' = clock \/ clock' = clock + 1,
           NEW u \in Threads, SameLogin(u), Standing(u, k)
    PROVE  Standing(u, k)'
<1>1. /\ attempts[k].id \in Nat /\ attempts[k].count \in Nat /\ attempts[k].until \in Nat
      /\ Absent(attempts[k]) = [id |-> attempts[k].id, count |-> 0, until |-> 0]
      /\ clock \in Nat
  BY RowType DEF TypeOK
<1>2. \/ attempts'[k] = attempts[k]
      \/ attempts'[k].id = attempts[k].id /\ attempts'[k].count = 0 /\ attempts'[k].until = 0
  BY <1>1
<1>3. ASSUME pc'[u] = "record" PROVE Recording(u, k)'
  BY <1>1, <1>2, <1>3, LimitIsPositive DEF SameLogin, Standing, Recording, Dying
<1>4. ASSUME pc'[u] = "commit" PROVE Committing(u, k)'
  <2>1. Committing(u, k) /\ draft'[u] = draft[u] /\ dying'[u] = dying[u]
    BY <1>4 DEF SameLogin, Standing
  <2>2. CASE draft[u].new
    <3>1. Inserting(u, k)
      BY <2>1, <2>2 DEF Committing
    <3>2. Inserting(u, k)'
      BY <1>2, <2>1, <3>1 DEF Inserting
    <3>3. QED
      BY <2>1, <2>2, <3>2 DEF Committing
  <2>3. CASE ~draft[u].new
    <3>1. Updating(u, k)
      BY <2>1, <2>3 DEF Committing
    <3>2. Updating(u, k)'
      BY <1>2, <2>1, <3>1 DEF Updating, Dying
    <3>3. QED
      BY <2>1, <2>3, <3>2 DEF Committing
  <2>4. QED
    BY <2>2, <2>3
<1>5. ASSUME pc'[u] = "reset" PROVE Resetting(u, k)'
  BY <1>1, <1>2, <1>5, LimitIsPositive DEF SameLogin, Standing, Resetting
<1>6. QED
  BY <1>3, <1>4, <1>5 DEF Standing

\* What a check that goes on has found.
LEMMA CheckGoes ==
    ASSUME NEW t \in Threads, Check(t), TypeOK, pc'[t] # "idle"
    PROVE  ~poisoned[t] /\ ~Locked(Seen(t, call[t].sub))
  BY DEF Check, Answer, Goto, TypeOK

LEMMA CheckRow ==
    ASSUME TypeOK, Numbered, Naive, NEW t \in Threads, Check(t), NEW k \in Subjects, Row(k)
    PROVE  Row(k)'
<1> DEFINE s == call[t].sub
           row == Seen(t, s)
<1>1. /\ attempts' = attempts /\ menu' = menu /\ s \in Subjects
      /\ attempts[k].id \in Nat
  BY CallType, RowType DEF Check, tables, bounds, TypeOK
<1>2. ASSUME ~menu.naive, NEW u \in Threads, NEW d \in dying'[u], d.id = attempts[k].id
      PROVE  attempts[k].count = 0 \/ d = attempts[k]
  <2>1. CASE d \in dying[u]
    BY <1>2, <2>1 DEF Row
  <2>2. CASE d \notin dying[u]
    <3>1. u = t /\ d = row /\ Expired(row)
      BY <1>2, <2>2 DEF Check, TypeOK
    <3>2. OldRow(row) /\ row.id = attempts[s].id /\ lastId \in Nat
      BY <1>1, <3>1, SeenExpired DEF TypeOK
    <3>3. s = k
      BY <1>1, <1>2, <3>1, <3>2 DEF OldRow, Numbered
    <3>4. row = attempts[k]
      BY <1>1, <2>2, <3>1, <3>3, SeenCases
    <3>5. QED
      BY <3>1, <3>4
  <2>3. QED
    BY <2>1, <2>2
<1>3. QED
  BY <1>1, <1>2 DEF Row

\* What a check decides of a key whose logins do not overlap.
LEMMA CheckStanding ==
    ASSUME TypeOK, Numbered, Naive, NEW t \in Threads, Check(t), Row(call[t].sub)
    PROVE  \E k \in Subjects : k = call[t].sub /\ Standing(t, k)'
<1> DEFINE s == call[t].sub
           row == Seen(t, s)
<1>1. /\ attempts' = attempts /\ menu' = menu /\ clock' = clock /\ s \in Subjects
      /\ Frame(t) /\ pc'[t] \in {"idle", "record", "reset"}
  BY StepMoves, CallType DEF Check, tables, bounds, TypeOK, Step, Moves
<1>2. /\ row \in AttemptRow /\ attempts[s] \in AttemptRow
      /\ \/ /\ row = attempts[s]
            /\ attempts[s].count = 0 \/ ~Dying(t, attempts[s].id)
         \/ /\ attempts[s].count # 0 /\ row \in dying[t] /\ row.id = attempts[s].id
  BY <1>1, SeenCases DEF TypeOK
<1>3. /\ row.count \in Nat /\ row.until \in Nat /\ clock \in Nat
      /\ attempts[s].count \in Nat /\ attempts[s].until \in Nat
  BY <1>2, RowType DEF TypeOK
<1>4. ASSUME pc'[t] = "record"
      PROVE  attempts[s].count < MaxAttempts \/ \E d \in dying'[t] : d.id = attempts[s].id
  <2>1. ~poisoned[t] /\ ~Locked(row)
    BY <1>4, CheckGoes
  <2>2. CASE row.count >= MaxAttempts
    <3>1. Expired(row)
      BY <2>1, <2>2 DEF Expired
    <3>2. row \in dying'[t]
      BY <2>1, <3>1 DEF Check, TypeOK
    <3>3. QED
      BY <1>2, <3>2
  <2>3. CASE row = attempts[s] /\ row.count < MaxAttempts
    BY <2>3
  <2>4. CASE row \in dying[t] /\ row.id = attempts[s].id
    <3>1. row \in dying'[t]
      BY <2>4 DEF Check, TypeOK
    <3>2. QED
      BY <2>4, <3>1
  <2>5. QED
    BY <1>2, <1>3, <2>2, <2>3, <2>4, LimitIsPositive
<1>5. ASSUME pc'[t] = "reset", ~menu.naive
      PROVE  attempts[s].count < MaxAttempts \/ clock >= attempts[s].until
  <2>1. ~Locked(row)
    BY <1>5, CheckGoes
  <2>2. row = attempts[s]
    BY <1>1, <1>2, <1>5 DEF Row
  <2>3. QED
    BY <1>3, <2>1, <2>2, LimitIsPositive DEF Locked
<1>6. PICK k \in Subjects : k = s
  BY <1>1
<1>7. Standing(t, k)'
  BY <1>1, <1>4, <1>5, <1>6 DEF Standing, Recording, Resetting, Dying
<1>8. QED
  BY <1>6, <1>7

LEMMA CheckCounted ==
    ASSUME Sound, Numbered, Naive, Counted, NEW t \in Threads, Check(t)
    PROVE  Counted'
<1>0. TypeOK /\ Frame(t) /\ attempts' = attempts /\ call' = call
  BY StepMoves DEF Sound, Step, Check, tables
<1>1. SUFFICES ASSUME NEW k \in Subjects, <<k, "login">> \notin overlapped,
                      Row(k), \A u \in Threads : call[u].sub = k => Standing(u, k)
               PROVE  /\ Row(k)'
                      /\ \A u \in Threads : call'[u].sub = k => Standing(u, k)'
  BY <1>0 DEF Counted, Frame
<1>2. Row(k)'
  BY <1>0, <1>1, CheckRow
<1>3. ASSUME NEW u \in Threads \ {t}, call'[u].sub = k PROVE Standing(u, k)'
  <2>1. SameLogin(u) /\ menu' = menu /\ clock' = clock
    BY <1>0 DEF Frame, SameLogin
  <2>2. Standing(u, k)
    BY <1>0, <1>1, <1>3
  <2>3. QED
    BY <1>0, <2>1, <2>2, LessStanding
<1>4. ASSUME call'[t].sub = k PROVE Standing(t, k)'
  <2>1. k = call[t].sub
    BY <1>0, <1>4
  <2>2. \E j \in Subjects : j = call[t].sub /\ Standing(t, j)'
    BY <1>0, <1>1, <2>1, CheckStanding
  <2>3. QED
    BY <2>1, <2>2
<1>5. QED
  BY <1>2, <1>3, <1>4

\* record_failure: the count of the row goes up by one, or starts again at one for a row
\* that the session is about to delete.
LEMMA RecordStanding ==
    ASSUME TypeOK, Numbered, NEW t \in Threads, Record(t), NEW k \in Subjects,
           k = call[t].sub, Row(k), Recording(t, k)
    PROVE  Standing(t, k)'
<1> DEFINE row == Seen(t, k)
<1>1. /\ attempts' = attempts /\ menu' = menu /\ clock' = clock /\ dying' = dying
      /\ pc'[t] \in {"idle", "commit"}
  BY StepMoves DEF Record, tables, bounds, session, Step, Moves
<1>2. /\ row \in AttemptRow /\ attempts[k] \in AttemptRow
      /\ \/ /\ row = attempts[k]
            /\ attempts[k].count = 0 \/ ~Dying(t, attempts[k].id)
         \/ /\ attempts[k].count # 0 /\ row \in dying[t] /\ row.id = attempts[k].id
  BY SeenCases DEF TypeOK
<1>3. /\ row.count \in Nat /\ row.until \in Nat /\ clock \in Nat
      /\ attempts[k].count \in Nat /\ attempts[k].until \in Nat
      /\ clock + LockoutMinutes \in Nat \ {0}
  <2>1. LockoutMinutes \in Nat \ {0}
    BY AccessAssumption
  <2>2. QED
    BY <1>2, <2>1, RowType DEF TypeOK
<1>4. SUFFICES ASSUME pc'[t] = "commit" PROVE Committing(t, k)'
  BY <1>1 DEF Standing
<1>5. Comparable(row) /\ draft'[t] = RecordFailure(row)
  BY <1>4 DEF Record, Answer, Goto, TypeOK
<1>6. CASE row.count = 0
  <2>1. draft'[t] = Drafted(row, 1, 0)
    BY <1>5, <1>6 DEF RecordFailure
  <2>2. draft'[t].new = (row.count = 0) /\ draft'[t].count = 1 /\ draft'[t].until = 0
    BY <2>1 DEF Drafted
  <2>3. row = attempts[k]
    BY <1>2, <1>6, LimitIsPositive DEF Numbered
  <2>4. QED
    BY <1>1, <1>6, <2>2, <2>3 DEF Committing, Inserting
<1>7. CASE row.count # 0 /\ row = attempts[k] /\ ~Dying(t, attempts[k].id)
  <2>1. attempts[k].count < MaxAttempts
    BY <1>7 DEF Recording
  <2>2. row.until = 0
    BY <1>3, <1>5, <1>7, <2>1, LimitIsPositive DEF Row, Comparable
  <2>3. draft'[t] = Drafted(row, row.count + 1,
                            IF row.count + 1 >= MaxAttempts THEN clock + LockoutMinutes ELSE 0)
    BY <1>5, <1>7, <2>2 DEF RecordFailure
  <2>4. /\ draft'[t].new = (row.count = 0) /\ draft'[t].id = row.id
        /\ draft'[t].count = row.count + 1
        /\ draft'[t].until = IF row.count + 1 >= MaxAttempts THEN clock + LockoutMinutes ELSE 0
        /\ draft'[t].timed = (draft'[t].until # row.until)
    BY <2>3 DEF Drafted
  <2>5. /\ draft'[t].until # 0 <=> draft'[t].count >= MaxAttempts
        /\ draft'[t].timed <=> draft'[t].until # 0
    BY <1>3, <2>2, <2>4
  <2>6. ~draft'[t].new /\ draft'[t].id = attempts[k].id /\ draft'[t].count = attempts[k].count + 1
    BY <1>7, <2>4
  <2>7. ~ \E d \in dying'[t] : d.id = draft'[t].id
    BY <1>1, <1>7, <2>6 DEF Dying
  <2>8. Updating(t, k)'
    BY <1>1, <2>1, <2>5, <2>6, <2>7 DEF Updating, Dying
  <2>9. QED
    BY <2>6, <2>8 DEF Committing
<1>8. CASE row.count # 0 /\ attempts[k].count # 0 /\ row \in dying[t] /\ row.id = attempts[k].id
  <2>1. row.count >= MaxAttempts /\ row.until <= clock /\ (menu.naive => row.until # 0)
    BY <1>8 DEF Numbered
  <2>2. ~menu.naive
    BY <1>5, <2>1 DEF Comparable
  <2>3. row = attempts[k]
    BY <1>8, <2>2 DEF Row
  <2>4. row.until # 0 /\ clock >= row.until
    BY <1>3, <2>1, <2>2, <2>3 DEF Row
  <2>5. draft'[t] = Drafted(row, 1, 0)
    BY <1>5, <1>8, <2>4, LimitIsPositive DEF RecordFailure
  <2>6. draft'[t].new = (row.count = 0) /\ draft'[t].id = row.id /\ draft'[t].count = 1
    BY <2>5 DEF Drafted
  <2>7. \E d \in dying'[t] : d.id = draft'[t].id
    BY <1>1, <1>8, <2>6
  <2>8. Updating(t, k)'
    BY <1>1, <1>8, <2>6, <2>7, LimitIsPositive DEF Updating, Dying
  <2>9. QED
    BY <1>8, <2>6, <2>8 DEF Committing
<1>9. QED
  BY <1>2, <1>6, <1>7, <1>8

LEMMA RecordCounted ==
    ASSUME Sound, Numbered, Counted, NEW t \in Threads, Record(t)
    PROVE  Counted'
<1>0. /\ TypeOK /\ Frame(t) /\ attempts' = attempts /\ call' = call
      /\ dying' = dying /\ pc[t] = "record"
  BY StepMoves DEF Sound, Step, Record, tables, session
<1>1. SUFFICES ASSUME NEW k \in Subjects, <<k, "login">> \notin overlapped,
                      Row(k), \A u \in Threads : call[u].sub = k => Standing(u, k)
               PROVE  /\ Row(k)'
                      /\ \A u \in Threads : call'[u].sub = k => Standing(u, k)'
  BY <1>0 DEF Counted, Frame
<1>2. Row(k)'
  BY <1>0, <1>1 DEF Row, Frame
<1>3. ASSUME NEW u \in Threads \ {t}, call'[u].sub = k PROVE Standing(u, k)'
  <2>1. SameLogin(u) /\ menu' = menu /\ clock' = clock
    BY <1>0 DEF Frame, SameLogin
  <2>2. Standing(u, k)
    BY <1>0, <1>1, <1>3
  <2>3. QED
    BY <1>0, <2>1, <2>2, LessStanding
<1>4. ASSUME call'[t].sub = k PROVE Standing(t, k)'
  <2>1. k = call[t].sub /\ Recording(t, k)
    BY <1>0, <1>1, <1>4 DEF Standing
  <2>2. QED
    BY <1>0, <1>1, <2>1, RecordStanding
<1>5. QED
  BY <1>2, <1>3, <1>4

\* The commit of a failure leaves the row with one more wrong password, gives it up or
\* makes it anew.
LEMMA WritesRow ==
    ASSUME TypeOK, Numbered, NEW t \in Threads, NEW k \in Subjects, Writes(t, k),
           Row(k), Committing(t, k)
    PROVE  Row(k)'
<1>1. /\ attempts[k] \in AttemptRow /\ attempts[k].id \in Nat /\ attempts[k].count \in Nat
      /\ attempts[k].until \in Nat /\ lastId \in Nat
      /\ Absent(attempts[k]) = [id |-> attempts[k].id, count |-> 0, until |-> 0]
  BY RowType DEF TypeOK
<1>2. draft[t] \in Draft /\ draft[t].count \in Nat /\ draft[t].until \in Nat
  BY DraftType DEF TypeOK
<1>3. menu' = menu /\ LessDying
  BY DEF Writes
<1>4. ASSUME attempts'[k].count = 0, attempts'[k].until = 0
      PROVE  Row(k)'
  BY <1>3, <1>4, LimitIsPositive DEF Row
<1>5. CASE Gives(t, k)
  <2>1. draft[t].id = attempts[k].id
    BY <1>5 DEF Gives, Committing, Updating
  <2>2. attempts'[k] = Absent(attempts[k])
    BY <1>5, <2>1 DEF Gives
  <2>3. QED
    BY <1>1, <1>4, <2>2
<1>6. CASE Updates(t, k)
  <2>1. /\ attempts[k].count < MaxAttempts /\ draft[t].count = attempts[k].count + 1
        /\ attempts[k].count # 0
        /\ ~menu.naive => /\ draft[t].until # 0 <=> draft[t].count >= MaxAttempts
                          /\ draft[t].timed <=> draft[t].until # 0
    BY <1>6 DEF Updates, Committing, Updating, Gives
  <2>2. /\ attempts'[k].id = attempts[k].id /\ attempts'[k].count = draft[t].count
        /\ attempts'[k].until = IF draft[t].timed THEN draft[t].until ELSE attempts[k].until
    BY <1>6 DEF Updates
  <2>3. attempts'[k].count <= MaxAttempts
    BY <1>1, <2>1, <2>2, LimitIsPositive
  <2>4. ~menu.naive => (attempts'[k].until # 0 <=> attempts'[k].count >= MaxAttempts)
    BY <1>1, <1>2, <2>1, <2>2, LimitIsPositive DEF Row
  <2>5. ASSUME ~menu.naive, NEW u \in Threads, NEW d \in dying'[u], d.id = attempts'[k].id
        PROVE  FALSE
    <3>1. d \in dying[u] /\ d.id = attempts[k].id
      BY <1>3, <2>2, <2>5 DEF LessDying
    <3>2. d = attempts[k] /\ d.count >= MaxAttempts
      BY <2>1, <2>5, <3>1 DEF Row, Numbered
    <3>3. QED
      BY <1>1, <2>1, <3>2, LimitIsPositive
  <2>6. QED
    BY <1>3, <2>3, <2>4, <2>5 DEF Row
<1>7. ASSUME NEW id \in NewIds, Inserts(t, k, id) PROVE Row(k)'
  <2> DEFINE row == [id |-> id, count |-> draft[t].count, until |-> draft[t].until]
  <2>1. attempts[k].count = 0 /\ draft[t].count = 1 /\ draft[t].until = 0
    BY <1>7 DEF Inserts, Committing, Inserting
  <2>2. id \in Nat \ {0} /\ (~menu.naive => id = lastId + 1)
    BY <1>7, NewIdFacts
  <2>3. row \in AttemptRow /\ row.id = id /\ row.count = 1 /\ row.until = 0
    BY <2>1, <2>2 DEF AttemptRow
  <2>4. CASE Dying(t, id)
    <3>1. attempts'[k] = Absent(row)
      BY <1>7, <2>4 DEF Inserts
    <3>2. QED
      BY <1>4, <2>3, <3>1, RowType
  <2>5. CASE ~Dying(t, id)
    <3>1. attempts'[k] = row
      BY <1>7, <2>5 DEF Inserts
    <3>2. attempts'[k].id = id /\ attempts'[k].count = 1 /\ attempts'[k].until = 0
      BY <2>3, <3>1
    <3>3. ASSUME ~menu.naive, NEW u \in Threads, NEW d \in dying'[u], d.id = attempts'[k].id
          PROVE  FALSE
      <4>1. d.id \in 1 .. lastId
        BY <1>3, <3>3 DEF LessDying, Numbered
      <4>2. QED
        BY <1>1, <2>2, <3>2, <3>3, <4>1
    <3>4. QED
      BY <1>3, <3>2, <3>3, LimitIsPositive DEF Row
  <2>6. QED
    BY <2>4, <2>5
<1>8. QED
  BY <1>5, <1>6, <1>7 DEF Writes

\* No other login for the key is under way.
LEMMA LoginAlone ==
    ASSUME Sound, NEW t \in Threads, NEW u \in Threads, t # u,
           pc[t] \in {"record", "commit", "reset"},
           call[u].sub = call[t].sub, <<call[t].sub, "login">> \notin overlapped
    PROVE  pc[u] \notin {"record", "commit", "reset"}
<1> SUFFICES ASSUME pc[u] \in {"record", "commit", "reset"} PROVE FALSE
  OBVIOUS
<1>1. call[t].op = "login" /\ call[u].op = "login"
  BY DEF Sound, Staged
<1>2. Overlapping(t, u) /\ Matter(call[t]) = <<call[t].sub, "login">>
  BY <1>1 DEF Overlapping, Matter, Kind, FactorOps
<1>3. QED
  BY <1>2 DEF Sound, Lone

LEMMA WritesCounted ==
    ASSUME Sound, Numbered, Counted, NEW t \in Threads, CommitFailure(t), NEW k \in Subjects,
           k = call[t].sub, Writes(t, k)
    PROVE  Counted'
<1>0. /\ TypeOK /\ call' = call /\ overlapped' = overlapped /\ pc[t] = "commit"
      /\ pc'[t] = "idle" /\ menu' = menu /\ clock' = clock /\ LessDying
      /\ \A u \in Threads \ {t} : SameLogin(u)
  BY DEF Sound, Writes, CommitFailure
<1>1. SUFFICES ASSUME NEW j \in Subjects, <<j, "login">> \notin overlapped,
                      Row(j), \A u \in Threads : call[u].sub = j => Standing(u, j)
               PROVE  /\ Row(j)'
                      /\ \A u \in Threads : call[u].sub = j => Standing(u, j)'
  BY <1>0 DEF Counted
<1>2. Standing(t, j)'
  BY <1>0 DEF Standing
<1>3. CASE j = k
  <2>1. Committing(t, k)
    BY <1>0, <1>1, <1>3 DEF Standing
  <2>2. Row(k)'
    BY <1>0, <1>1, <1>3, <2>1, WritesRow
  <2>3. ASSUME NEW u \in Threads \ {t}, call[u].sub = j PROVE Standing(u, j)'
    <3>1. pc[u] \notin {"record", "commit", "reset"}
      BY <1>0, <1>1, <1>3, <2>3, LoginAlone
    <3>2. pc'[u] \notin {"record", "commit", "reset"}
      BY <1>0, <3>1 DEF SameLogin
    <3>3. QED
      BY <3>2 DEF Standing
  <2>4. QED
    BY <1>2, <1>3, <2>2, <2>3
<1>4. CASE j # k
  <2>1. attempts'[j] \in {attempts[j], Absent(attempts[j])}
    BY <1>4 DEF Writes, Remains
  <2>2. Row(j)'
    BY <1>0, <1>1, <2>1, LessRow
  <2>3. ASSUME NEW u \in Threads \ {t}, call[u].sub = j PROVE Standing(u, j)'
    BY <1>0, <1>1, <2>1, <2>3, LessStanding
  <2>4. QED
    BY <1>2, <2>2, <2>3
<1>5. QED
  BY <1>3, <1>4

LEMMA LessCounted ==
    ASSUME TypeOK, Counted, Less
    PROVE  Counted'
<1>0. /\ menu' = menu /\ (clock' = clock \/ clock' = clock + 1) /\ overlapped \subseteq overlapped'
      /\ LessDying /\ \A u \in Threads : SameLogin(u)
      /\ \A s \in Subjects : attempts'[s] \in {attempts[s], Absent(attempts[s])}
  BY DEF Less, LessRows
<1>1. SUFFICES ASSUME NEW k \in Subjects, <<k, "login">> \notin overlapped'
               PROVE  /\ Row(k)'
                      /\ \A u \in Threads : call'[u].sub = k => Standing(u, k)'
  BY DEF Counted
<1>2. Row(k) /\ \A u \in Threads : call[u].sub = k => Standing(u, k)
  BY <1>0, <1>1 DEF Counted
<1>3. Row(k)'
  BY <1>0, <1>2, LessRow
<1>4. ASSUME NEW u \in Threads, call'[u].sub = k PROVE Standing(u, k)'
  <2>1. CASE pc'[u] \in {"record", "commit", "reset"}
    <3>1. call'[u] = call[u]
      BY <1>0, <2>1 DEF SameLogin
    <3>2. Standing(u, k)
      BY <1>2, <1>4, <3>1
    <3>3. QED
      BY <1>0, <3>2, LessStanding
  <2>2. CASE pc'[u] \notin {"record", "commit", "reset"}
    BY <2>2 DEF Standing
  <2>3. QED
    BY <2>1, <2>2
<1>5. QED
  BY <1>3, <1>4

LEMMA CountedStep == Sound /\ Numbered /\ Naive /\ Counted /\ [Next]_vars => Counted'
<1> SUFFICES ASSUME Sound, Numbered, Naive, Counted, [Next]_vars PROVE Counted'
  OBVIOUS
<1>1. CASE Less
  BY <1>1, LessCounted DEF Sound
<1>2. ASSUME NEW t \in Threads, Check(t) PROVE Counted'
  BY <1>2, CheckCounted
<1>3. ASSUME NEW t \in Threads, Record(t) PROVE Counted'
  BY <1>3, RecordCounted
<1>4. ASSUME NEW t \in Threads, NEW k \in Subjects, CommitFailure(t), k = call[t].sub,
             Writes(t, k)
      PROVE  Counted'
  BY <1>4, WritesCounted
<1>5. QED
  BY <1>1, <1>2, <1>3, <1>4, LoginCases, Zenon

-------------------------------------------------------------------------------
(* What the counts are to the wrong passwords *)

LEMMA InitTallied == Init => Tallied
<1> SUFFICES ASSUME Init, NEW k \in Subjects PROVE Tally(k)
  BY DEF Tallied
<1>1. PICK old \in SUBSET menu.old, ids \in Bijection(menu.old, 1 .. lastId) :
        /\ attempts = [s \in Subjects |->
               IF s \in old THEN [id |-> ids[s], count |-> MaxAttempts, until |-> 1]
               ELSE [id |-> 0, count |-> 0, until |-> 0]]
        /\ told = old
  BY DEF Init
<1>2. attempts[k].count = IF k \in told THEN MaxAttempts ELSE 0
  <2>1. CASE k \in old
    <3>1. attempts[k] = [id |-> ids[k], count |-> MaxAttempts, until |-> 1]
      BY <1>1, <2>1
    <3>2. QED
      BY <1>1, <2>1, <3>1
  <2>2. CASE k \notin old
    <3>1. attempts[k] = [id |-> 0, count |-> 0, until |-> 0]
      BY <1>1, <2>2
    <3>2. QED
      BY <1>1, <2>2, <3>1
  <2>3. QED
    BY <2>1, <2>2
<1>3. wrong[k] = attempts[k].count /\ lapsed = {}
  BY DEF Init
<1>4. \A t \in Threads : dying[t] = {} /\ pc[t] = "idle"
  BY DEF Init
<1>5. Marked(k) /\ Present(k)
  BY <1>4 DEF Marked, Present, Dying
<1>6. QED
  BY <1>2, <1>3, <1>5, LimitIsPositive DEF Tally, Lost

\* Nothing is answered to a wrong or a right password of the subject.
SameGuesses(k) ==
    /\ wrong'[k] = wrong[k]
    /\ k \in told' <=> k \in told
    /\ k \in lapsed' <=> k \in lapsed
SameRow(k) == attempts'[k].count = attempts[k].count /\ attempts'[k].id = attempts[k].id

\* A deletion that a commit makes of another request's rows cannot be of the row of a
\* subject who can log in, on PostgreSQL.
LEMMA TallyKept ==
    ASSUME TypeOK, NEW k \in Subjects, Tally(k), SameGuesses(k), menu' = menu,
           attempts'[k] \in {attempts[k], Absent(attempts[k])},
           ~menu.naive /\ CanLogIn(k) => SameRow(k) /\ Marked(k)' /\ Present(k)'
    PROVE  Tally(k)'
<1>1. /\ wrong[k] \in Nat /\ attempts[k].count \in Nat
      /\ Absent(attempts[k]).count = 0
  BY RowType DEF TypeOK
<1>2. attempts'[k].count \in {0, attempts[k].count}
  BY <1>1
<1>3. CanLogIn(k)' = CanLogIn(k) /\ Lost(k)' = Lost(k)
  BY DEF CanLogIn, Known, Barred, Lost, SameGuesses
<1>4. attempts'[k].count <= wrong'[k]
      /\ (k \in told' => attempts'[k].count \in {0, MaxAttempts})
  BY <1>1, <1>2 DEF Tally, SameGuesses
<1>5. ASSUME ~menu.naive, CanLogIn(k)
      PROVE  /\ attempts'[k].count = wrong'[k] - Lost(k)
             /\ k \in told' <=> attempts'[k].count = MaxAttempts
             /\ Marked(k)' /\ Present(k)'
  BY <1>5 DEF Tally, SameGuesses, SameRow
<1>6. QED
  BY <1>3, <1>4, <1>5 DEF Tally

\* The marks of the other threads, and of one that has none left.
LEMMA MarksKept ==
    ASSUME NEW k \in Subjects, Marked(k), SameRow(k), NEW t \in Threads,
           \A u \in Threads \ {t} : pc'[u] = pc[u] /\ call'[u] = call[u] /\ dying'[u] = dying[u],
           dying'[t] \subseteq dying[t],
           dying'[t] = {} \/ ~Deciding(t, k) \/ Deciding(t, k)'
    PROVE  Marked(k)'
<1>1. SUFFICES ASSUME NEW u \in Threads, attempts'[k].count # 0,
                      NEW d \in dying'[u], d.id = attempts'[k].id
               PROVE  Deciding(u, k)'
  BY DEF Marked, Dying
<1>2. d \in dying[u]
  BY <1>1
<1>3. Deciding(u, k)
  BY <1>1, <1>2 DEF Marked, Dying, SameRow
<1>4. CASE u # t
  BY <1>3, <1>4 DEF Deciding
<1>5. CASE u = t
  BY <1>1, <1>3, <1>5
<1>6. QED
  BY <1>4, <1>5

\* A thread commits what it has drafted, and the row is still there.
LEMMA PresentKept ==
    ASSUME NEW k \in Subjects, Present(k), SameRow(k), \A u \in Threads : SameLogin(u)
    PROVE  Present(k)'
  BY DEF Present, SameRow, SameLogin

\* A request taken, a minute and a stutter.
LEMMA QuietTallied ==
    ASSUME TypeOK, Less, NEW k \in Subjects, Tally(k), UNCHANGED <<attempts, guesses, dying>>,
           \A u \in Threads : Deciding(u, k) => Deciding(u, k)'
    PROVE  Tally(k)'
<1>1. SameGuesses(k) /\ SameRow(k) /\ menu' = menu /\ attempts'[k] = attempts[k]
  BY DEF SameGuesses, SameRow, guesses, Less, LessRows
<1>2. Marked(k) => Marked(k)'
  BY DEF Marked, Dying
<1>3. Present(k) => Present(k)'
  BY <1>1, PresentKept DEF Less
<1>4. QED
  BY <1>1, <1>2, <1>3, TallyKept DEF Tally

\* Whatever a thread commits that is not the end of the subject's own login.
LEMMA AsideTallied ==
    ASSUME Sound, NEW t \in Threads, Step(t), NEW k \in Subjects, Tally(k), SameGuesses(k),
           attempts'[k] \in {attempts[k], Absent(attempts[k])},
           \A u \in Threads : SameLogin(u), dying'[t] \subseteq dying[t],
           attempts'[k] # attempts[k] => ~Deciding(t, k) /\ Dying(t, attempts[k].id),
           ~Deciding(t, k) \/ dying'[t] = {}
    PROVE  Tally(k)'
<1>0. /\ TypeOK /\ Frame(t)
      /\ attempts[k].count \in Nat /\ Absent(attempts[k]).count = 0
      /\ Absent(attempts[k]).id = attempts[k].id
  BY StepMoves, RowType DEF Sound, TypeOK
<1>1. ASSUME ~menu.naive, CanLogIn(k) PROVE SameRow(k) /\ Marked(k)' /\ Present(k)'
  <2>1. Marked(k) /\ Present(k)
    BY <1>1 DEF Tally
  <2>2. SameRow(k)
    <3>1. CASE attempts'[k] = attempts[k]
      BY <3>1 DEF SameRow
    <3>2. CASE attempts'[k] # attempts[k]
      <4>1. attempts[k].count = 0
        BY <2>1, <3>2 DEF Marked
      <4>2. QED
        BY <1>0, <3>2, <4>1 DEF SameRow
    <3>3. QED
      BY <3>1, <3>2
  <2>3. \A u \in Threads \ {t} : pc'[u] = pc[u] /\ call'[u] = call[u] /\ dying'[u] = dying[u]
    BY <1>0 DEF Frame
  <2>4. Marked(k)'
    BY <2>1, <2>2, <2>3, MarksKept
  <2>5. Present(k)'
    BY <2>1, <2>2, PresentKept
  <2>6. QED
    BY <2>2, <2>4, <2>5
<1>2. menu' = menu
  BY <1>0 DEF Frame
<1>3. QED
  BY <1>0, <1>1, <1>2, TallyKept

\* A commit that is not a login's takes no row of a subject who can log in; the end of a
\* login that the database refuses takes none at all.
LEMMA OtherTallied ==
    ASSUME Sound, NEW t \in Threads, Step(t), ~Check(t), ~Record(t), ~Reset(t),
           CommitFailure(t) => CommitRefused(t), NEW k \in Subjects, Tally(k)
    PROVE  Tally(k)'
<1>1. TypeOK /\ Less
  BY StepLess, RefusedLess DEF Sound
<1>2. /\ attempts'[k] \in {attempts[k], Absent(attempts[k])} /\ dying'[t] \subseteq dying[t]
      /\ \A u \in Threads : SameLogin(u)
  BY <1>1 DEF Less, LessRows, LessDying
<1>3. SameGuesses(k)
  BY DEF Step, CommitFailure, Verify, Mint, ReadChange, Requery, Store, guesses, history,
         SameGuesses
<1>4. CASE CommitFailure(t)
  <2>1. attempts' = attempts /\ dying' = [dying EXCEPT ![t] = {}]
    BY <1>4 DEF CommitFailure, tables
  <2>2. dying'[t] = {}
    BY <1>1, <2>1 DEF TypeOK
  <2>3. QED
    BY <1>2, <1>3, <2>1, <2>2, AsideTallied
<1>5. CASE Verify(t) \/ Mint(t) \/ ReadChange(t) \/ Requery(t) \/ Store(t)
  <2>1. ~Deciding(t, k)
    BY <1>5 DEF Deciding, Verify, Mint, ReadChange, Requery, Store
  <2>2. attempts' = attempts \/ attempts' = Deleting(t, attempts)
    BY <1>5 DEF Verify, Mint, ReadChange, Requery, Store, CommitsDeletes, tables
  <2>3. attempts'[k] # attempts[k] => Dying(t, attempts[k].id)
    <3>1. attempts \in [Subjects -> AttemptRow]
      BY <1>1 DEF TypeOK
    <3>2. ~Dying(t, attempts[k].id) => Deleting(t, attempts)[k] = attempts[k]
      BY <3>1, DeletingType
    <3>3. QED
      BY <2>2, <3>2
  <2>4. QED
    BY <1>2, <1>3, <2>1, <2>3, AsideTallied
<1>6. QED
  BY <1>4, <1>5 DEF Step

\* A right password ends the count of its subject, and of nobody else.
LEMMA ResetTallied ==
    ASSUME Sound, NEW t \in Threads, Step(t), Reset(t), NEW k \in Subjects,
           <<k, "login">> \notin overlapped, Tally(k)
    PROVE  Tally(k)'
<1> DEFINE s == call[t].sub
<1>1. /\ TypeOK /\ Less /\ Frame(t) /\ s \in Subjects /\ pc[t] = "reset"
      /\ attempts \in [Subjects -> AttemptRow]
  BY StepLess, StepMoves, CallType DEF Sound, TypeOK, Reset, Check, Record, CommitFailure
<1>2. /\ attempts'[k] \in {attempts[k], Absent(attempts[k])} /\ dying'[t] \subseteq dying[t]
      /\ \A u \in Threads : SameLogin(u)
  BY <1>1 DEF Less, LessRows, LessDying
<1>3. Deleting(t, attempts) \in [Subjects -> AttemptRow]
  BY <1>1, DeletingType
<1>4. attempts' = [Deleting(t, attempts) EXCEPT ![s] = Absent(Deleting(t, attempts)[s])]
  BY DEF Reset
<1>5. GuessedRight(s) /\ wrong \in [Subjects -> Nat]
  BY <1>1 DEF Reset, TypeOK
<1>6. CASE k # s
  <2>1. attempts'[k] = Deleting(t, attempts)[k]
    BY <1>3, <1>4, <1>6
  <2>2. attempts'[k] # attempts[k] => Dying(t, attempts[k].id)
    BY <1>1, <2>1, DeletingType
  <2>3. SameGuesses(k)
    BY <1>5, <1>6 DEF GuessedRight, SameGuesses
  <2>4. ~Deciding(t, k)
    BY <1>6 DEF Deciding
  <2>5. QED
    BY <1>2, <2>2, <2>3, <2>4, AsideTallied
<1>7. CASE k = s
  <2>1. attempts'[k].count = 0
    <3>1. attempts'[k] = Absent(Deleting(t, attempts)[k])
      BY <1>1, <1>3, <1>4, <1>7
    <3>2. Deleting(t, attempts)[k] \in AttemptRow
      BY <1>3
    <3>3. QED
      BY <3>1, <3>2, RowType
  <2>2. wrong'[k] = 0 /\ k \notin told' /\ k \notin lapsed'
    BY <1>5, <1>7 DEF GuessedRight
  <2>3. Present(k)'
    <3>1. SUFFICES ASSUME NEW u \in Threads, call'[u].sub = k, pc'[u] = "commit" PROVE FALSE
      BY DEF Present
    <3>2. pc[u] = "commit" /\ call[u] = call'[u]
      BY <1>2, <3>1 DEF SameLogin
    <3>3. QED
      BY <1>1, <1>7, <3>1, <3>2, LoginAlone
  <2>4. Marked(k)'
    BY <2>1 DEF Marked
  <2>5. Lost(k)' = 0
    BY <2>2 DEF Lost
  <2>6. QED
    BY <2>1, <2>2, <2>3, <2>4, <2>5, LimitIsPositive DEF Tally
<1>8. QED
  BY <1>6, <1>7

\* A check marks no row but its own subject's, and then goes on if the subject can log in.
LEMMA CheckTallied ==
    ASSUME Sound, Numbered, Naive, NEW t \in Threads, Check(t), NEW k \in Subjects, Tally(k)
    PROVE  Tally(k)'
<1> DEFINE s == call[t].sub
           row == Seen(t, s)
<1>1. /\ TypeOK /\ Frame(t) /\ attempts' = attempts /\ draft' = draft /\ menu' = menu
      /\ s \in Subjects /\ pc[t] = "check" /\ pc'[t] # "commit"
  BY StepMoves, CallType DEF Sound, TypeOK, Check, Step, Moves, Frame, tables
<1>2. /\ \A u \in Threads \ {t} : pc'[u] = pc[u] /\ call'[u] = call[u] /\ dying'[u] = dying[u]
      /\ call' = call
  BY <1>1 DEF Frame
<1>3. SameGuesses(k) /\ SameRow(k)
  BY <1>1 DEF Check, guesses, history, SameGuesses, SameRow
<1>4. ASSUME ~menu.naive, CanLogIn(k), Marked(k) PROVE Marked(k)'
  <2>1. SUFFICES ASSUME NEW u \in Threads, attempts[k].count # 0,
                        NEW d \in dying'[u], d.id = attempts[k].id
                 PROVE  Deciding(u, k)'
    BY <1>1 DEF Marked, Dying
  <2>2. CASE d \in dying[u]
    <3>1. Deciding(u, k)
      BY <1>4, <2>1, <2>2 DEF Marked, Dying
    <3>2. u # t
      BY <1>1, <3>1 DEF Deciding
    <3>3. QED
      BY <1>2, <3>1, <3>2 DEF Deciding
  <2>3. CASE d \notin dying[u]
    <3>1. u = t /\ d = row /\ Expired(row) /\ ~poisoned[t]
      BY <1>1, <1>2, <2>1, <2>3 DEF Check, TypeOK
    <3>2. row.id = attempts[s].id /\ attempts[k].id # 0
      BY <1>1, <2>1, <3>1, SeenExpired DEF Numbered
    <3>3. s = k
      BY <1>1, <1>4, <2>1, <3>1, <3>2 DEF Numbered
    <3>4. Known(s) /\ ~Barred(s) /\ ~Locked(row)
      BY <1>4, <3>1, <3>3 DEF CanLogIn, Expired
    <3>5. Goto(t, IF call[t].guess = passwords[s] THEN "reset" ELSE "record")
      BY <3>1, <3>4 DEF Check
    <3>6. pc'[t] \in {"record", "reset"}
      BY <1>1, <3>5 DEF Goto, TypeOK
    <3>7. QED
      BY <1>2, <3>1, <3>3, <3>6 DEF Deciding
  <2>4. QED
    BY <2>2, <2>3
<1>5. Present(k) => Present(k)'
  BY <1>1, <1>2 DEF Present
<1>6. QED
  BY <1>1, <1>3, <1>4, <1>5, TallyKept DEF Tally

\* What is drafted for a row that is not new is drafted for one that is there.
LEMMA RecordTallied ==
    ASSUME Sound, NEW t \in Threads, Record(t), NEW k \in Subjects, Tally(k)
    PROVE  Tally(k)'
<1> DEFINE row == Seen(t, call[t].sub)
<1>1. /\ TypeOK /\ Frame(t) /\ attempts' = attempts /\ dying' = dying /\ menu' = menu
      /\ call[t].sub \in Subjects /\ pc[t] = "record"
  BY StepMoves, CallType DEF Sound, TypeOK, Record, Step, Frame, tables, session
<1>2. /\ \A u \in Threads \ {t} : /\ pc'[u] = pc[u] /\ call'[u] = call[u]
                                  /\ dying'[u] = dying[u] /\ draft'[u] = draft[u]
      /\ call' = call
  BY <1>1 DEF Frame
<1>3. SameGuesses(k) /\ SameRow(k)
  BY <1>1 DEF Record, guesses, history, SameGuesses, SameRow
<1>4. ASSUME ~menu.naive, Marked(k) PROVE Marked(k)'
  <2>1. Comparable(row)
    BY <1>4 DEF Comparable
  <2>2. Goto(t, "commit")
    BY <2>1 DEF Record
  <2>3. pc'[t] = "commit"
    BY <1>1, <2>2 DEF Goto, TypeOK
  <2>4. Deciding(t, k) => Deciding(t, k)'
    BY <1>2, <2>3 DEF Deciding
  <2>5. QED
    BY <1>1, <1>2, <1>3, <1>4, <2>4, MarksKept
<1>5. ASSUME Present(k) PROVE Present(k)'
  <2>1. SUFFICES ASSUME NEW u \in Threads, call[u].sub = k, pc'[u] = "commit", ~draft'[u].new
                 PROVE  attempts[k].count # 0
    BY <1>1, <1>2 DEF Present
  <2>2. CASE u # t
    BY <1>2, <1>5, <2>1, <2>2 DEF Present
  <2>3. CASE u = t
    <3>1. draft'[t] = RecordFailure(row)
      BY <1>1, <2>1, <2>3 DEF Record, Answer, Goto, TypeOK
    <3>2. draft'[t].new = (row.count = 0)
      BY <3>1 DEF RecordFailure, Drafted
    <3>3. row.count # 0
      BY <2>1, <2>3, <3>2
    <3>4. row = attempts[k] \/ attempts[k].count # 0
      BY <1>1, <2>1, <2>3, SeenCases
    <3>5. QED
      BY <3>3, <3>4
  <2>4. QED
    BY <2>2, <2>3
<1>6. QED
  BY <1>1, <1>3, <1>4, <1>5, TallyKept DEF Tally

\* The commit of a failure: the row goes up with the wrong passwords, begins with the
\* first, or goes with the lock that has run out.
LEMMA WritesTally ==
    ASSUME Sound, Numbered, NEW t \in Threads, NEW k \in Subjects, k = call[t].sub,
           CommitFailure(t), Writes(t, k), Guessed(k, Says(draft[t]) = "locked"),
           <<k, "login">> \notin overlapped, Row(k), Row(k)', Committing(t, k), Tally(k)
    PROVE  Tally(k)'
<1>1. /\ attempts[k] \in AttemptRow /\ attempts[k].id \in Nat /\ attempts[k].count \in Nat
      /\ lastId \in Nat /\ wrong[k] \in Nat
      /\ Absent(attempts[k]) = [id |-> attempts[k].id, count |-> 0, until |-> 0]
      /\ TypeOK /\ wrong \in [Subjects -> Nat] /\ pc[t] = "commit"
  BY RowType DEF Sound, TypeOK, CommitFailure
<1>2. draft[t] \in Draft /\ draft[t].count \in Nat
  BY <1>1, DraftType DEF TypeOK
<1>3. /\ menu' = menu /\ LessDying /\ dying'[t] = {} /\ pc'[t] = "idle"
      /\ \A u \in Threads \ {t} : SameLogin(u)
  BY DEF Writes
<1>4. /\ wrong'[k] = IF k \in told THEN 1 ELSE wrong[k] + 1
      /\ k \in lapsed' <=> k \in lapsed \/ k \in told
      /\ k \in told' <=> draft[t].count >= MaxAttempts
  BY <1>1 DEF Guessed, Says
<1>5. Present(k)'
  <2>1. SUFFICES ASSUME NEW u \in Threads, call'[u].sub = k, pc'[u] = "commit" PROVE FALSE
    BY DEF Present
  <2>2. u # t /\ pc[u] = "commit" /\ call[u] = call'[u]
    BY <1>3, <2>1 DEF SameLogin
  <2>3. QED
    BY <1>1, <2>1, <2>2, LoginAlone
<1>6. CanLogIn(k)' = CanLogIn(k) /\ Lost(k)' = IF k \in lapsed \/ k \in told THEN 1 ELSE 0
  BY <1>4 DEF CanLogIn, Known, Barred, Lost
<1>7. attempts[k].count <= wrong[k] /\ (k \in told => attempts[k].count \in {0, MaxAttempts})
  BY DEF Tally
<1>8. ASSUME ~menu.naive, CanLogIn(k)
      PROVE  /\ attempts[k].count = wrong[k] - Lost(k) /\ Marked(k) /\ Present(k)
             /\ k \in told <=> attempts[k].count = MaxAttempts
  BY <1>8 DEF Tally
<1>9. ASSUME attempts'[k].count <= wrong'[k],
             k \in told' => attempts'[k].count \in {0, MaxAttempts},
             ~menu.naive /\ CanLogIn(k) =>
                 /\ attempts'[k].count = wrong'[k] - IF k \in lapsed \/ k \in told THEN 1 ELSE 0
                 /\ k \in told' <=> attempts'[k].count = MaxAttempts
                 /\ Marked(k)'
      PROVE  Tally(k)'
  BY <1>3, <1>5, <1>6, <1>9 DEF Tally
<1>10. CASE Gives(t, k)
  <2>1. draft[t].id = attempts[k].id /\ draft[t].count < MaxAttempts /\ Dying(t, attempts[k].id)
        /\ ~draft[t].new
    BY <1>10 DEF Gives, Committing, Updating
  <2>2. attempts'[k].count = 0 /\ Marked(k)'
    BY <1>1, <1>10, <2>1 DEF Gives, Marked
  <2>3. ASSUME ~menu.naive, CanLogIn(k) PROVE k \in told
    <3>1. attempts[k].count # 0
      BY <1>1, <1>8, <2>1, <2>3 DEF Present
    <3>2. PICK d \in dying[t] : d.id = attempts[k].id
      BY <2>1 DEF Dying
    <3>3. d = attempts[k] /\ d.count >= MaxAttempts
      BY <2>3, <3>1, <3>2 DEF Row, Numbered
    <3>4. attempts[k].count = MaxAttempts
      BY <1>1, <3>3, LimitIsPositive DEF Row
    <3>5. QED
      BY <1>8, <2>3, <3>4
  <2>4. QED
    BY <1>1, <1>2, <1>4, <1>9, <2>1, <2>2, <2>3, LimitIsPositive
<1>11. CASE Updates(t, k)
  <2>1. /\ attempts[k].count < MaxAttempts /\ draft[t].count = attempts[k].count + 1
        /\ attempts[k].count # 0
    BY <1>11 DEF Updates, Committing, Updating
  <2>2. attempts'[k].id = attempts[k].id /\ attempts'[k].count = attempts[k].count + 1
    BY <1>11, <2>1 DEF Updates
  <2>3. k \notin told
    BY <1>1, <1>7, <2>1, LimitIsPositive
  <2>4. ASSUME ~menu.naive, CanLogIn(k) PROVE Marked(k)'
    <3>1. SUFFICES ASSUME NEW u \in Threads, NEW d \in dying'[u], d.id = attempts[k].id
                   PROVE  FALSE
      BY <2>2 DEF Marked, Dying
    <3>2. u # t /\ d \in dying[u]
      BY <1>3, <3>1 DEF LessDying
    <3>3. Deciding(u, k)
      BY <1>8, <2>1, <2>4, <3>1, <3>2 DEF Marked, Dying
    <3>4. QED
      BY <1>1, <3>2, <3>3, LoginAlone DEF Deciding
  <2>5. attempts'[k].count <= wrong'[k] /\ attempts'[k].count <= MaxAttempts
    BY <1>1, <1>4, <1>7, <2>1, <2>2, <2>3, LimitIsPositive
  <2>6. k \in told' <=> attempts'[k].count = MaxAttempts
    BY <1>1, <1>4, <2>1, <2>2, LimitIsPositive
  <2>7. ASSUME ~menu.naive, CanLogIn(k)
        PROVE  attempts'[k].count = wrong'[k] - IF k \in lapsed \/ k \in told THEN 1 ELSE 0
    BY <1>1, <1>4, <1>8, <2>2, <2>3, <2>7 DEF Lost
  <2>8. QED
    BY <1>9, <2>4, <2>5, <2>6, <2>7
<1>12. ASSUME NEW id \in NewIds, Inserts(t, k, id) PROVE Tally(k)'
  <2> DEFINE new == [id |-> id, count |-> draft[t].count, until |-> draft[t].until]
  <2>1. attempts[k].count = 0 /\ draft[t].count = 1 /\ draft[t].until = 0
    BY <1>12 DEF Inserts, Committing, Inserting
  <2>2. id \in Nat \ {0} /\ (~menu.naive => id = lastId + 1)
    BY <1>1, <1>12, NewIdFacts
  <2>3. new \in AttemptRow /\ new.id = id /\ new.count = 1
    BY <2>1, <2>2 DEF AttemptRow
  <2>4. attempts'[k] = IF Dying(t, id) THEN Absent(new) ELSE new
    BY <1>12 DEF Inserts
  <2>5. attempts'[k].count \in {0, 1} /\ attempts'[k].id = id
    BY <2>3, <2>4, RowType
  <2>6. k \notin told'
    BY <1>4, <2>1, LimitIsPositive
  <2>7. wrong'[k] \in Nat /\ wrong'[k] >= 1
    BY <1>1, <1>4
  <2>8. ASSUME ~menu.naive, NEW u \in Threads, NEW d \in dying[u] PROVE d.id # id
    BY <1>1, <2>2, <2>8 DEF Numbered
  <2>9. ASSUME ~menu.naive PROVE attempts'[k].count = 1 /\ Marked(k)'
    <3>1. ~Dying(t, id)
      BY <2>8, <2>9 DEF Dying
    <3>2. attempts'[k].count = 1
      BY <2>3, <2>4, <3>1
    <3>3. Marked(k)'
      BY <1>3, <2>5, <2>8, <2>9 DEF Marked, Dying, LessDying
    <3>4. QED
      BY <3>2, <3>3
  <2>10. ASSUME ~menu.naive, CanLogIn(k)
         PROVE  /\ k \notin told
                /\ wrong'[k] - (IF k \in lapsed \/ k \in told THEN 1 ELSE 0) = 1
    BY <1>1, <1>4, <1>8, <2>1, <2>10, LimitIsPositive DEF Lost
  <2>11. QED
    BY <1>1, <1>9, <2>5, <2>6, <2>7, <2>9, <2>10, LimitIsPositive
<1>13. QED
  BY <1>10, <1>11, <1>12 DEF Writes

LEMMA WritesTallied ==
    ASSUME Sound, Numbered, Counted, Counted', NEW t \in Threads, Step(t), CommitFailure(t),
           ~CommitRefused(t), NEW s \in Subjects, s = call[t].sub, Writes(t, s),
           NEW k \in Subjects, <<k, "login">> \notin overlapped, Tally(k)
    PROVE  Tally(k)'
<1>1. /\ TypeOK /\ overlapped' = overlapped /\ pc[t] = "commit" /\ pc'[t] = "idle"
      /\ dying'[t] = {} /\ wrong \in [Subjects -> Nat]
      /\ \A u \in Threads \ {t} : SameLogin(u)
  BY DEF Sound, TypeOK, CommitFailure, Writes
<1>2. Guessed(s, Says(draft[t]) = "locked")
  BY DEF CommitFailure
<1>3. CASE k = s
  <2>1. Row(k) /\ Row(k)' /\ Committing(t, k)
    BY <1>1, <1>3 DEF Counted, Standing
  <2>2. QED
    BY <1>2, <1>3, <2>1, WritesTally
<1>4. CASE k # s
  <2>1. /\ attempts'[k] \in {attempts[k], Absent(attempts[k])}
        /\ ~Dying(t, attempts[k].id) => attempts'[k] = attempts[k]
    BY <1>4 DEF Writes, Remains
  <2>2. SameGuesses(k)
    BY <1>1, <1>2, <1>4 DEF Guessed, SameGuesses
  <2>3. SameLogin(t)
    BY <1>1 DEF SameLogin
  <2>4. ~Deciding(t, k)
    BY <1>4 DEF Deciding
  <2>5. QED
    BY <1>1, <2>1, <2>2, <2>3, <2>4, AsideTallied
<1>5. QED
  BY <1>3, <1>4

LEMMA TalliedStep == Sound /\ Numbered /\ Naive /\ Counted /\ Tallied /\ [Next]_vars => Tallied'
<1> SUFFICES ASSUME Sound, Numbered, Naive, Counted, Tallied, [Next]_vars PROVE Tallied'
  OBVIOUS
<1>1. Counted' /\ TypeOK
  BY CountedStep DEF Sound
<1>2. ASSUME NEW t \in Threads, NEW c \in Call, NEW stage \in {"check", "verify", "change"},
             Begins(t, c, stage)
      PROVE  Tallied'
  <2>1. /\ pc[t] = "idle" /\ pc' = [pc EXCEPT ![t] = stage] /\ call' = [call EXCEPT ![t] = c]
        /\ overlapped \subseteq overlapped' /\ attempts' = attempts /\ guesses' = guesses
        /\ dying' = dying
    BY <1>1, <1>2, BeginFrame DEF Begins
  <2>2. Less
    BY <1>2, BeginLess
  <2>3. \A k \in Subjects, u \in Threads : Deciding(u, k) => Deciding(u, k)'
    BY <1>1, <2>1 DEF Deciding, TypeOK
  <2>4. QED
    BY <1>1, <2>1, <2>2, <2>3, QuietTallied DEF Tallied
<1>3. CASE Tick \/ UNCHANGED vars
  <2>1. Less
    BY <1>3, StillLess
  <2>2. \A k \in Subjects, u \in Threads : Deciding(u, k) => Deciding(u, k)'
    BY <1>3, StillUnchanged DEF Deciding
  <2>3. QED
    BY <1>1, <1>3, <2>1, <2>2, QuietTallied, StillUnchanged DEF Tallied
<1>4. ASSUME NEW t \in Threads, Step(t) PROVE Tallied'
  <2>1. overlapped' = overlapped
    BY <1>1, <1>4, StepMoves DEF Frame, Sound
  <2>2. SUFFICES ASSUME NEW k \in Subjects, <<k, "login">> \notin overlapped, Tally(k)
                 PROVE  Tally(k)'
    BY <2>1 DEF Tallied
  <2>3. CASE Check(t)
    BY <2>2, <2>3, CheckTallied
  <2>4. CASE Record(t)
    BY <2>2, <2>4, RecordTallied
  <2>5. CASE Reset(t)
    BY <1>4, <2>2, <2>5, ResetTallied
  <2>6. CASE CommitFailure(t) /\ ~CommitRefused(t)
    <3>1. PICK s \in Subjects : s = call[t].sub /\ Writes(t, s)
      BY <2>6, WriteSteps
    <3>2. QED
      BY <1>1, <1>4, <2>2, <2>6, <3>1, WritesTallied
  <2>7. CASE ~Check(t) /\ ~Record(t) /\ ~Reset(t) /\ (CommitFailure(t) => CommitRefused(t))
    BY <1>4, <2>2, <2>7, OtherTallied
  <2>8. QED
    BY <2>3, <2>4, <2>5, <2>6, <2>7
<1>5. QED
  BY <1>1, <1>2, <1>3, <1>4, NextCases, Zenon

\* The count of the row is the wrong passwords, less the one that the end of a lock costs.
LEMMA CountsGuesses == TypeOK /\ Counted /\ Tallied => GuessesAreCounted
<1> SUFFICES ASSUME Counted, Tallied, TypeOK, NEW k \in Subjects,
                    <<k, "login">> \notin overlapped
             PROVE  /\ attempts[k].count <= wrong[k]
                    /\ ~menu.naive /\ CanLogIn(k) =>
                           /\ attempts[k].count = wrong[k] - Lost(k)
                           /\ wrong[k] <= MaxAttempts + Lost(k)
                           /\ k \in told <=> wrong[k] = MaxAttempts + Lost(k)
  BY DEF GuessesAreCounted
<1>1. Row(k) /\ Tally(k)
  BY DEF Counted, Tallied
<1>2. attempts[k].count <= MaxAttempts /\ attempts[k].count \in Nat /\ wrong[k] \in Nat
      /\ Lost(k) \in {0, 1}
  BY <1>1, RowType DEF Row, TypeOK, Lost
<1>3. QED
  BY <1>1, <1>2, LimitIsPositive DEF Tally

\* However many threads log in, with whatever else they commit, a subject whose logins do
\* not overlap has on PostgreSQL each of its wrong passwords counted but the first after a
\* lock that has run out, and is told that it is locked with wrong password MaxAttempts, or
\* after a lock with the one after that; on either database it is never locked early.
THEOREM GuessesCount == Spec => []GuessesAreCounted
<1>1. Sound /\ Counted /\ Tallied => GuessesAreCounted
  BY CountsGuesses DEF Sound
<1>2. QED
  BY <1>1, InitSound, SoundStep, InitNumbered, NumberedStep, NaiveStep, InitCounted,
     CountedStep, InitTallied, TalliedStep, PTL DEF Spec

-------------------------------------------------------------------------------
(* Locks *)

\* A session has marked only rows whose time is over.
LEMMA LockedStays ==
    ASSUME TypeOK, Numbered, NEW k \in Subjects, Row(k), ~menu.naive, Locked(attempts[k]),
           NEW t \in Threads
    PROVE  ~Dying(t, attempts[k].id)
<1>1. SUFFICES ASSUME NEW d \in dying[t], d.id = attempts[k].id PROVE FALSE
  BY DEF Dying
<1>2. attempts[k].count # 0 /\ clock < attempts[k].until
  BY LimitIsPositive DEF Locked
<1>3. d = attempts[k] /\ d.until <= clock
  BY <1>1, <1>2 DEF Row, Numbered
<1>4. attempts[k].until \in Nat /\ clock \in Nat
  BY RowType DEF TypeOK
<1>5. QED
  BY <1>2, <1>3, <1>4

LEMMA LockedKept ==
    ASSUME Sound, Numbered, NEW k \in Subjects, Row(k), ~menu.naive, Locked(attempts[k]),
           \A u \in Threads : call[u].sub = k => Standing(u, k),
           NEW t \in Threads, Step(t)
    PROVE  attempts'[k] = attempts[k]
<1>0. /\ TypeOK /\ attempts \in [Subjects -> AttemptRow] /\ call[t].sub \in Subjects
      /\ attempts[k].count \in Nat /\ attempts[k].until \in Nat /\ clock \in Nat
  BY CallType, RowType DEF Sound, TypeOK
<1>1. ~Dying(t, attempts[k].id)
  BY <1>0, LockedStays
<1>2. attempts[k].count >= MaxAttempts /\ clock < attempts[k].until
  BY DEF Locked
<1>3. CASE attempts' = Deleting(t, attempts)
  BY <1>0, <1>1, <1>3, DeletingType
<1>4. CASE Reset(t)
  <2>1. call[t].sub # k
    <3>1. SUFFICES ASSUME call[t].sub = k PROVE FALSE
      OBVIOUS
    <3>2. Resetting(t, k)
      BY <1>4, <3>1 DEF Reset, Standing
    <3>3. QED
      BY <1>0, <1>2, <3>2, LimitIsPositive DEF Resetting
  <2>2. attempts' = [Deleting(t, attempts) EXCEPT ![call[t].sub] = Absent(@)]
    BY <1>4 DEF Reset
  <2>3. attempts'[k] = Deleting(t, attempts)[k]
    BY <1>0, <2>1, <2>2, DeletingType
  <2>4. QED
    BY <1>0, <1>1, <2>3, DeletingType
<1>5. CASE CommitFailure(t)
  <2>1. CASE CommitRefused(t)
    BY <1>5, <2>1 DEF CommitFailure, tables
  <2>2. CASE ~CommitRefused(t)
    <3>1. PICK j \in Subjects : j = call[t].sub /\ Writes(t, j)
      BY <1>5, <2>2, WriteSteps
    <3>2. CASE j = k
      <4>1. Committing(t, k)
        BY <1>5, <3>1, <3>2 DEF CommitFailure, Standing
      <4>2. ~Gives(t, k)
        BY <1>1, <4>1 DEF Gives, Committing, Updating
      <4>3. ~Updates(t, k)
        BY <1>0, <1>2, <4>1, LimitIsPositive DEF Updates, Committing, Updating
      <4>4. ~ \E id \in NewIds : Inserts(t, k, id)
        <5>1. attempts[k].count # 0
          BY <1>2, LimitIsPositive
        <5>2. QED
          BY <5>1 DEF Inserts
      <4>5. QED
        BY <3>1, <3>2, <4>2, <4>3, <4>4 DEF Writes
    <3>3. CASE j # k
      BY <1>1, <3>1, <3>3 DEF Writes, Remains
    <3>4. QED
      BY <3>2, <3>3
  <2>3. QED
    BY <2>1, <2>2
<1>6. CASE Check(t) \/ Record(t) \/ Verify(t) \/ ReadChange(t) \/ Requery(t)
  BY <1>6 DEF Check, Record, Verify, ReadChange, Requery, tables
<1>7. CASE Mint(t)
  BY <1>3, <1>7 DEF Mint, tables, CommitsDeletes
<1>8. CASE Store(t)
  BY <1>3, <1>8 DEF Store, tables, CommitsDeletes
<1>9. QED
  BY <1>4, <1>5, <1>6, <1>7, <1>8 DEF Step

\* On PostgreSQL a lock lasts until its time, whatever the sessions of the other threads
\* still have to delete and however late they do.
THEOREM LockLasts == Spec => LockHolds
<1>1. Sound /\ Numbered /\ Counted /\ [Next]_vars =>
        [\A k \in Subjects : ~menu.naive /\ Locked(attempts[k]) =>
           \/ clock' >= attempts[k].until \/ <<k, "login">> \in overlapped'
           \/ attempts'[k].count >= MaxAttempts /\ attempts'[k].until >= attempts[k].until]_vars
  <2> SUFFICES ASSUME Sound, Numbered, Counted, [Next]_vars, NEW k \in Subjects, ~menu.naive,
                      Locked(attempts[k]), <<k, "login">> \notin overlapped'
               PROVE  attempts'[k].count >= MaxAttempts /\ attempts'[k].until >= attempts[k].until
    OBVIOUS
  <2>1. TypeOK /\ attempts[k].until \in Nat /\ attempts[k].count >= MaxAttempts
    BY RowType DEF Sound, TypeOK, Locked
  <2>2. attempts'[k] = attempts[k]
    <3>1. ASSUME NEW t \in Threads, NEW c \in Call,
                 NEW stage \in {"check", "verify", "change"}, Begins(t, c, stage)
          PROVE  attempts' = attempts
      BY <2>1, <3>1, BeginFrame DEF Begins
    <3>2. ASSUME NEW t \in Threads, Step(t) PROVE attempts'[k] = attempts[k]
      <4>1. <<k, "login">> \notin overlapped
        BY <2>1, <3>2, StepMoves DEF Frame
      <4>2. Row(k) /\ \A u \in Threads : call[u].sub = k => Standing(u, k)
        BY <4>1 DEF Counted
      <4>3. QED
        BY <3>2, <4>2, LockedKept
    <3>3. QED
      BY <2>1, <3>1, <3>2, NextCases, StillUnchanged, Zenon
  <2>3. QED
    BY <2>1, <2>2
<1>2. QED
  BY <1>1, InitSound, SoundStep, InitNumbered, NumberedStep, NaiveStep, InitCounted,
     CountedStep, PTL DEF Spec, LockHolds

\* Who is told so: the check that finds a lock, and the failure that takes one.
LEMMA StatusLocked ==
    ASSUME NEW c \in Call
    PROVE  /\ Status(c, "unknown") # 429 /\ Status(c, "barred") # 429
           /\ Status(c, "wrong") # 429
<1>1. /\ LoginStatus("unknown") = 404 /\ LoginStatus("barred") = 401
      /\ LoginStatus("wrong") = 401
  BY DEF LoginStatus
<1>2. /\ LoginStatusV2("unknown") = 404 /\ LoginStatusV2("barred") = 401
      /\ LoginStatusV2("wrong") = 401
  BY DEF LoginStatusV2
<1>3. \A say \in {"unknown", "barred", "wrong"} :
        AdminStatus(say) = 401 /\ AdminStatusV2(say) = 401
  BY DEF AdminStatus, AdminStatusV2
<1>4. \A say : Status(c, say) \in {AdminStatus(say), AdminStatusV2(say), LoginStatus(say),
                                   LoginStatusV2(say)}
  BY DEF Status
<1>5. QED
  BY <1>1, <1>2, <1>3, <1>4

LEMMA ChecksLock ==
    ASSUME TypeOK, Numbered, NEW t \in Threads, Check(t), reply'[t] = 429, reply[t] # 429
    PROVE  /\ attempts'[call[t].sub].count >= MaxAttempts
           /\ attempts'[call[t].sub].until # 0
<1> DEFINE k == call[t].sub
           row == Seen(t, k)
<1>1. attempts' = attempts /\ k \in Subjects /\ call[t] \in Call /\ reply \in [Threads -> Nat]
  <2>1. attempts' = attempts
    BY DEF Check, tables
  <2>2. QED
    BY <2>1, CallType DEF TypeOK
<1>2. Locked(row)
  <2>1. CASE poisoned[t]
    <3>1. Answer(t, 500)
      BY <2>1 DEF Check
    <3>2. QED
      BY <1>1, <3>1 DEF Answer
  <2>2. CASE ~poisoned[t] /\ ~Locked(row) /\ ~Known(k)
    <3>0. Answer(t, Status(call[t], "unknown"))
      BY <2>2 DEF Check
    <3>1. \A say : Answer(t, say) => reply'[t] = say
      BY <1>1 DEF Answer
    <3>2. QED
      BY <1>1, <3>0, <3>1, StatusLocked
  <2>3. CASE ~poisoned[t] /\ ~Locked(row) /\ Known(k) /\ Barred(k)
    <3>0. Answer(t, Status(call[t], "barred"))
      BY <2>3 DEF Check
    <3>1. \A say : Answer(t, say) => reply'[t] = say
      BY <1>1 DEF Answer
    <3>2. QED
      BY <1>1, <3>0, <3>1, StatusLocked
  <2>4. CASE ~poisoned[t] /\ ~Locked(row) /\ Known(k) /\ ~Barred(k)
    BY <1>1, <2>4 DEF Check
  <2>5. QED
    BY <2>1, <2>2, <2>3, <2>4
<1>3. row \in AttemptRow /\ (row = attempts[k] \/ row \in dying[t])
  BY <1>1, SeenCases
<1>4. row \notin dying[t]
  <2>1. row.until \in Nat /\ clock \in Nat /\ clock < row.until
    BY <1>2, <1>3, RowType DEF Locked, TypeOK
  <2>2. QED
    BY <2>1 DEF Numbered
<1>5. QED
  BY <1>1, <1>2, <1>3, <1>4 DEF Locked

\* The failure that reaches the limit leaves a lock in the table.
LEMMA FailureLocks ==
    ASSUME Sound, Naive, Counted, NEW t \in Threads, CommitFailure(t), reply'[t] = 429,
           Claimed(call[t].sub)
    PROVE  /\ attempts'[call[t].sub].count >= MaxAttempts
           /\ attempts'[call[t].sub].until # 0
<1>1. /\ TypeOK /\ call[t] \in Call /\ reply \in [Threads -> Nat] /\ pc[t] = "commit"
      /\ attempts[call[t].sub].count \in Nat /\ attempts[call[t].sub].until \in Nat
      /\ call[t].sub \in Subjects
  BY CallType, RowType DEF Sound, TypeOK, CommitFailure
<1>2. ~CommitRefused(t)
  <2>1. CommitRefused(t) => reply'[t] = 500
    BY <1>1 DEF CommitFailure, Answer
  <2>2. QED
    BY <2>1
<1>3. reply'[t] = Status(call[t], Says(draft[t]))
  BY <1>1, <1>2 DEF CommitFailure, Answer
<1>4. draft[t].count >= MaxAttempts
  <2>1. Says(draft[t]) \in {"locked", "wrong"}
    BY DEF Says
  <2>2. Says(draft[t]) = "locked"
    BY <1>1, <1>3, <2>1, StatusLocked
  <2>3. QED
    BY <2>2 DEF Says
<1>5. PICK k \in Subjects : k = call[t].sub /\ Writes(t, k)
  BY <1>2, WriteSteps
<1>6. draft[t] \in Draft /\ draft[t].count \in Nat /\ draft[t].until \in Nat
      /\ draft[t].count # 1
  BY <1>1, <1>4, DraftType, LimitIsPositive DEF TypeOK
<1>7. CASE menu.naive
  <2>1. DraftHasTime(t)
    BY <1>7 DEF Naive
  <2>2. ~draft[t].new /\ ~Dying(t, draft[t].id) /\ draft[t].timed /\ draft[t].until # 0
    BY <1>1, <1>4, <1>6, <2>1 DEF DraftHasTime
  <2>3. Updates(t, k)
    BY <1>5, <2>2 DEF Writes, Gives, Inserts
  <2>4. attempts'[k].count = draft[t].count /\ attempts'[k].until = draft[t].until
    BY <2>2, <2>3 DEF Updates
  <2>5. QED
    BY <1>4, <1>5, <2>2, <2>4
<1>8. CASE ~menu.naive
  <2>1. Committing(t, k)
    BY <1>1, <1>5, <1>8 DEF Claimed, Counted, Standing
  <2>2. ~draft[t].new /\ ~Dying(t, draft[t].id)
    <3>1. ~draft[t].new
      BY <1>6, <2>1 DEF Committing, Inserting
    <3>2. Updating(t, k)
      BY <2>1, <3>1 DEF Committing
    <3>3. Dying(t, draft[t].id) => draft[t].count < MaxAttempts
      BY <3>2 DEF Updating
    <3>4. QED
      BY <1>4, <1>6, <3>1, <3>3, LimitIsPositive
  <2>3. Updates(t, k)
    BY <1>5, <2>2 DEF Writes, Gives, Inserts
  <2>4. /\ draft[t].until # 0 <=> draft[t].count >= MaxAttempts
        /\ draft[t].timed <=> draft[t].until # 0
    BY <1>8, <2>1, <2>2, <2>3 DEF Committing, Updating, Updates
  <2>5. attempts'[k].count = draft[t].count /\ attempts'[k].until = draft[t].until
    BY <1>4, <2>3, <2>4 DEF Updates
  <2>6. QED
    BY <1>4, <1>5, <2>4, <2>5
<1>9. QED
  BY <1>7, <1>8

\* No other step answers 429.
LEMMA OthersSay ==
    ASSUME TypeOK, NEW t \in Threads, Step(t), reply'[t] = 429, reply[t] # 429
    PROVE  Check(t) \/ CommitFailure(t)
<1>1. reply \in [Threads -> Nat]
  BY DEF TypeOK
<1>2. ASSUME NEW s, Answer(t, s), s # 429 PROVE FALSE
  BY <1>1, <1>2 DEF Answer
<1>3. ~Record(t)
  BY <1>2 DEF Record
<1>4. ~Reset(t)
  <2>1. CodeStatus(call[t]) # 429
    BY DEF CodeStatus
  <2>2. QED
    BY <1>2, <2>1 DEF Reset
<1>5. ~Verify(t)
  BY <1>2 DEF Verify
<1>6. ~Mint(t)
  <2>1. Mint(t) => Answer(t, 200)
    BY DEF Mint
  <2>2. QED
    BY <1>2, <2>1
<1>7. ~ReadChange(t)
  <2>1. ChangeStatus(call[t]) # 429
    BY DEF ChangeStatus, CodeRight
  <2>2. QED
    BY <1>2, <2>1 DEF ReadChange
<1>8. ~Requery(t)
  BY DEF Requery
<1>9. ~Store(t)
  BY <1>2 DEF Store
<1>10. QED
  BY <1>3, <1>4, <1>5, <1>6, <1>7, <1>8, <1>9 DEF Step

\* Nobody is told of a lock that the table does not hold, unless logins overlapped on
\* PostgreSQL.
THEOREM LocksAreTrue == Spec => LockedIsTrue
<1>1. Sound /\ Numbered /\ Naive /\ Counted /\ [Next]_vars =>
        [\A t \in Threads :
           reply'[t] = 429 /\ reply[t] # 429 /\ Claimed(call[t].sub) =>
               attempts'[call[t].sub].count >= MaxAttempts
               /\ attempts'[call[t].sub].until # 0]_vars
  <2> SUFFICES ASSUME Sound, Numbered, Naive, Counted, [Next]_vars, NEW t \in Threads,
                      reply'[t] = 429, reply[t] # 429, Claimed(call[t].sub)
               PROVE  /\ attempts'[call[t].sub].count >= MaxAttempts
                      /\ attempts'[call[t].sub].until # 0
    OBVIOUS
  <2>1. TypeOK /\ reply \in [Threads -> Nat]
    BY DEF Sound, TypeOK
  <2>2. ASSUME NEW u \in Threads, NEW c \in Call,
               NEW stage \in {"check", "verify", "change"}, Begins(u, c, stage)
        PROVE  FALSE
    <3>1. reply' = [reply EXCEPT ![u] = 0]
      BY <2>1, <2>2, BeginFrame DEF Begins
    <3>2. reply'[t] \in {0, reply[t]}
      BY <2>1, <3>1
    <3>3. QED
      BY <3>2
  <2>3. ~(Tick \/ UNCHANGED vars)
    BY StillUnchanged
  <2>4. PICK u \in Threads : Step(u)
    BY <2>1, <2>2, <2>3, NextCases
  <2>5. u = t
    BY <2>1, <2>4, StepMoves DEF Frame
  <2>6. Check(t) \/ CommitFailure(t)
    BY <2>1, <2>4, <2>5, OthersSay
  <2>7. QED
    BY <2>1, <2>6, ChecksLock, FailureLocks
<1>2. QED
  BY <1>1, InitSound, SoundStep, InitNumbered, NumberedStep, NaiveStep, InitCounted,
     CountedStep, PTL DEF Spec, LockedIsTrue
=============================================================================
