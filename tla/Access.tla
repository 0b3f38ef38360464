-------------------------------- MODULE Access --------------------------------
(***************************************************************************)
(* Logins and their lockout, access and refresh tokens, and the            *)
(* administrator's second factor, served by the threads of one API         *)
(* process.  Each thread keeps one database session: what a request leaves *)
(* uncommitted in it is committed by the thread's next commit.             *)
(***************************************************************************)
EXTENDS Integers, Sequences, FiniteSets, SequencesExt, Functions

CONSTANTS
    Threads,
    Customers,        \* account numbers
    OpeningCustomers, \* their rows: exists, active, frozen
    Admin,            \* the administrator's user name
    NoOne,            \* the empty subject
    MaxAttempts, LockoutMinutes, AccessMinutes, RefreshMinutes,   \* settings
    Menus,            \* the requests a behaviour takes its own from, whether its database
                      \* is SQLite (naive times, ids used again), the subjects whose lock
                      \* may have run out before its start; bound: how many requests
    MaxCalls, MaxClock, MaxFaults   \* bounds

Subjects == Customers \cup {Admin}
Passwords == 0 .. 2   \* 0 is the first, 2 is never anyone's
Secrets == 0 .. 2     \* TOTP secrets; 0 is none.  A code is right for one of them.
FactorOps == {"setup", "verify", "disable"}
Call == [op : {"login", "refresh", "password"} \cup FactorOps, door : {"v1", "v2"},
         sub : Subjects, guess : Passwords, code : Secrets, token : 0 .. MaxCalls]

\* The settings are those of the code: with a limit of one attempt the first failure
\* would be the last, and set no time.
ASSUME AccessAssumption ==
    /\ IsFiniteSet(Threads)
    /\ OpeningCustomers \in [Customers -> [exists : BOOLEAN, active : BOOLEAN, frozen : BOOLEAN]]
    /\ Admin \notin Customers /\ NoOne \notin Subjects
    /\ {MaxAttempts, LockoutMinutes, AccessMinutes, RefreshMinutes} \subseteq Nat \ {0}
    /\ MaxAttempts > 1
    /\ \A m \in Menus : /\ \A c \in m.calls : c \in Call
                        /\ m.naive \in BOOLEAN /\ m.most <= MaxCalls
                        /\ IsFiniteSet(m.old) /\ m.old \subseteq Subjects
    /\ {MaxCalls, MaxClock, MaxFaults} \subseteq Nat

VARIABLES
    clock,       \* minutes
    passwords,   \* the password of every subject
    versions,    \* token versions
    totp,        \* the administrator's secret and whether it is enabled
    attempts,    \* login attempts: a row with count 0 is absent, id names the row
    lastId,      \* the highest id a row has had
    refresh,     \* the refresh_tokens table
    access,      \* access tokens handed out
    pc, call,    \* a thread's stage and request
    draft,       \* the login attempt row the thread is about to write
    dying,       \* rows of attempts deleted in the thread's session, not committed, as
                 \* it has them
    held,        \* what a change of the password or the second factor has read
    poisoned,    \* the session awaits a rollback nobody issues
    reply,       \* the status answered
    menu, issued, faults,   \* bounds
    wrong,       \* history: wrong passwords answered since the last right one or, if that
                 \* came later, since the last lock ran out
    told,        \* history: subjects whose last wrong password was answered as locking
    lapsed,      \* history: subjects one of whose locks has run out since the last right one
    overlapped,  \* history: what requests that have overlapped were about
    spent,       \* history: the exchanges of refresh tokens by v2, whether they were stored
    proven       \* history: secrets a code has been verified against

accounts == <<passwords, versions, totp>>
session == <<draft, dying, held, poisoned>>
bounds == <<menu, issued, faults>>
guesses == <<wrong, told, lapsed>>
history == <<guesses, overlapped, spent, proven>>
tables == <<attempts, lastId>>
vars == <<clock, accounts, tables, refresh, access, pc, call, session, reply,
          bounds, history>>

-------------------------------------------------------------------------------
(* Login attempts *)

AttemptRow == [id : Nat, count : Nat, until : Nat]
Absent(row) == [row EXCEPT !.count = 0, !.until = 0]

Locked(row) == row.count >= MaxAttempts /\ row.until # 0 /\ clock < row.until
Expired(row) == row.count >= MaxAttempts /\ ~Locked(row)

\* record_failure on the row it re-queries.
Draft == [new : BOOLEAN, id : Nat, count : Nat, until : Nat, timed : BOOLEAN]
Drafted(row, count, until) == [new |-> row.count = 0, id |-> row.id, count |-> count,
                               until |-> until, timed |-> until # row.until]
ForgetfulFailure(row) == Drafted(row, 1, 0) \* mutant: the count starts again every time
RecordFailure(row) ==
    LET over == row.until # 0 /\ clock >= row.until
        count == IF over THEN 1 ELSE row.count + 1
    IN  IF row.count = 0 THEN Drafted(row, 1, 0)
        ELSE Drafted(row, count, IF count >= MaxAttempts THEN clock + LockoutMinutes
                                 ELSE IF over THEN 0 ELSE row.until)

\* Comparing the present time with one that lost its zone is an error.
Comparable(row) == ~menu.naive \/ row.until = 0

\* A row the session has marked is its object: a query that finds the row again returns
\* what the session has, not what the table has.
Dying(t, id) == \E d \in dying[t] : d.id = id
Seen(t, k) ==
    IF attempts[k].count # 0 /\ Dying(t, attempts[k].id)
    THEN CHOOSE d \in dying[t] : d.id = attempts[k].id ELSE attempts[k]

\* The commit of a thread's session deletes the rows the session has marked, by their id.
PurgeFull(t, rows) == \* mutant: whatever has reached the limit by now
    [k \in Subjects |-> IF dying[t] # {} /\ rows[k].count >= MaxAttempts
                        THEN Absent(rows[k]) ELSE rows[k]]
Deleting(t, rows) ==
    [k \in Subjects |-> IF Dying(t, rows[k].id) THEN Absent(rows[k]) ELSE rows[k]]

\* A new row's id: PostgreSQL's sequence never returns one again, SQLite takes the one
\* after the highest in the table.
NewIds ==
    IF ~menu.naive THEN {lastId + 1}
    ELSE {n \in 1 .. lastId + 1 :
             /\ \A k \in Subjects : attempts[k].count # 0 => attempts[k].id < n
             /\ n = 1 \/ \E k \in Subjects : attempts[k].count # 0 /\ attempts[k].id = n - 1}

\* A request of another kind whose commit finds the thread's session with deletes.
CommitsDeletes(t) ==
    /\ attempts' = Deleting(t, attempts) /\ UNCHANGED lastId
    /\ dying' = [dying EXCEPT ![t] = {}]

-------------------------------------------------------------------------------
(* Decisions *)

\* AuthService.customer_login and admin_login after the lock check.
Known(sub) == sub = Admin \/ OpeningCustomers[sub].exists
Barred(sub) == sub # Admin /\ (OpeningCustomers[sub].frozen \/ ~OpeningCustomers[sub].active)

\* The statuses of the routes; the answer to the failure that locks the account says so.
LoginStatus(say) == CASE say = "locked" -> 429 [] say = "unknown" -> 404 [] OTHER -> 401
LoginStatusV2(say) == CASE say = "locked" -> 429 [] say = "unknown" -> 404 [] OTHER -> 401
AdminStatus(say) == IF say = "locked" THEN 429 ELSE 401
AdminStatusV2(say) == IF say = "locked" THEN 429 ELSE 401
Status(c, say) ==
    IF c.sub = Admin THEN IF c.door = "v1" THEN AdminStatus(say) ELSE AdminStatusV2(say)
    ELSE IF c.door = "v1" THEN LoginStatus(say) ELSE LoginStatusV2(say)

\* The second factor of the v1 route; the v2 route has none.
CodeStatus(c) ==
    IF c.sub # Admin \/ c.door = "v2" \/ ~totp.enabled THEN 200
    ELSE IF c.code = 0 THEN 428
    ELSE IF c.code # totp.secret THEN 401 ELSE 200

\* create_token: an access token carries the subject's version; _get_token_version of
\* an unknown subject is 0.
AccessToken(sub, role) ==
    [sub |-> sub, role |-> role, exp |-> clock + AccessMinutes,
     version |-> IF sub \in Subjects THEN versions[sub] ELSE 0]

\* decode_token and _check_token_version, then what each dependency looks up.
Current(token) ==
    /\ clock < token.exp
    /\ token.version = IF token.sub \in Subjects THEN versions[token.sub] ELSE 0
CurrentCustomer(token) ==
    /\ token.role = "customer" /\ Current(token)
    /\ token.sub \in Customers /\ OpeningCustomers[token.sub].exists
CurrentAdmin(token) == token.role = "admin" /\ Current(token)

\* verify_refresh_token
AcceptRevoked(id) == id \in DOMAIN refresh /\ clock < refresh[id].exp   \* mutant
VerifyRefresh(id) ==
    id \in DOMAIN refresh /\ clock < refresh[id].exp /\ ~refresh[id].revoked

\* The subject of the pair the refresh routes make: v1 looks for a claim the verified
\* token does not return, finds none, and so revokes nothing either.
RefreshSubject(id) == NoOne
TheRole(id) == refresh[id].role   \* mutant: the wrong column
RefreshSubjectV2(id) == refresh[id].sub
Revokes(c) == c.op = "refresh" /\ c.door = "v2"
PairSubject(c) ==
    IF c.op = "login" THEN c.sub
    ELSE IF c.door = "v1" THEN RefreshSubject(c.token) ELSE RefreshSubjectV2(c.token)
PairRole(c) == IF c.op = "refresh" THEN refresh[c.token].role
               ELSE IF c.sub = Admin THEN "admin" ELSE "customer"

-------------------------------------------------------------------------------

Held == [version : Nat, secret : Secrets, enabled : BOOLEAN, seen : BOOLEAN]
NothingHeld == [version |-> 0, secret |-> 0, enabled |-> FALSE, seen |-> FALSE]
NoCall == [op |-> "login", door |-> "v2", sub |-> Admin, guess |-> 0, code |-> 0, token |-> 0]

Init ==
    /\ clock = 1
    /\ passwords = [s \in Subjects |-> 0] /\ versions = [s \in Subjects |-> 0]
    /\ totp = [secret |-> 0, enabled |-> FALSE]
    /\ menu \in Menus /\ issued = 0 /\ faults = 0
    /\ lastId = Cardinality(menu.old)
    /\ \E old \in SUBSET menu.old, ids \in Bijection(menu.old, 1 .. lastId) :
           /\ attempts = [s \in Subjects |->
                  IF s \in old THEN [id |-> ids[s], count |-> MaxAttempts, until |-> 1]
                  ELSE [id |-> 0, count |-> 0, until |-> 0]]
           /\ told = old
    /\ refresh = <<>> /\ access = {}
    /\ pc = [t \in Threads |-> "idle"]
    /\ call = [t \in Threads |-> NoCall]
    /\ draft = [t \in Threads |-> Drafted([id |-> 0, count |-> 0, until |-> 0], 0, 0)]
    /\ dying = [t \in Threads |-> {}]
    /\ held = [t \in Threads |-> NothingHeld]
    /\ poisoned = [t \in Threads |-> FALSE]
    /\ reply = [t \in Threads |-> 0]
    /\ wrong = [s \in Subjects |-> attempts[s].count] /\ lapsed = {}
    /\ overlapped = {} /\ spent = <<>> /\ proven = {}

Goto(t, stage) == pc' = [pc EXCEPT ![t] = stage]
Answer(t, status) == Goto(t, "idle") /\ reply' = [reply EXCEPT ![t] = status]

\* The overlap that the lockout, the token version, the second factor and the rotation of
\* a refresh token do not stand: two requests about one thing.
Kind(op) == IF op \in FactorOps THEN "factor" ELSE op
Matter(c) == IF c.op = "refresh" THEN <<c.token, c.door>> ELSE <<c.sub, Kind(c.op)>>
WithOverlap(c) ==
    IF \E u \in Threads : pc[u] # "idle" /\ Matter(call[u]) = Matter(c)
    THEN overlapped \cup {Matter(c)} ELSE overlapped

Begin(t, c, stage) ==
    /\ pc[t] = "idle" /\ issued < menu.most /\ issued' = issued + 1
    /\ call' = [call EXCEPT ![t] = c]
    /\ Goto(t, stage) /\ reply' = [reply EXCEPT ![t] = 0]
    /\ overlapped' = WithOverlap(c)
    /\ UNCHANGED <<clock, accounts, tables, refresh, access, session, menu, faults, guesses,
                   spent, proven>>

SubmitLogin(t, c) == c.op = "login" /\ Begin(t, c, "check")
SubmitRefresh(t, c) == c.op = "refresh" /\ c.token \in DOMAIN refresh /\ Begin(t, c, "verify")

\* Requests that carry an access token: its subject is whose password or factor changes.
SubmitChange(t, c, token) ==
    /\ c.op = "password" /\ CurrentCustomer(token)
    /\ Begin(t, [c EXCEPT !.sub = token.sub], "change")
\* The administrator's own changes have v1 routes only.
SubmitAdminChange(t, c, token) ==
    /\ c.op \in {"password"} \cup FactorOps /\ c.door = "v1"
    /\ CurrentAdmin(token) /\ token.sub = Admin
    /\ Begin(t, [c EXCEPT !.sub = Admin], "change")

\* is_locked, and the checks of the account and the password.
Check(t) ==
    LET c == call[t]
        row == Seen(t, c.sub)
    IN
    /\ pc[t] = "check"
    /\ dying' = IF ~poisoned[t] /\ Expired(row)
                THEN [dying EXCEPT ![t] = @ \cup {row}] ELSE dying
    /\ CASE poisoned[t] -> Answer(t, 500)
         [] ~poisoned[t] /\ Locked(row) -> Answer(t, Status(c, "locked"))
         [] ~poisoned[t] /\ ~Locked(row) /\ ~Known(c.sub) -> Answer(t, Status(c, "unknown"))
         [] ~poisoned[t] /\ ~Locked(row) /\ Known(c.sub) /\ Barred(c.sub) ->
                Answer(t, Status(c, "barred"))
         [] OTHER -> /\ Goto(t, IF c.guess = passwords[c.sub] THEN "reset" ELSE "record")
                     /\ reply' = reply
    /\ UNCHANGED <<clock, accounts, tables, refresh, access, call, draft, held, poisoned,
                   bounds, history>>

\* record_failure reads the row and changes it in the session.
Record(t) ==
    LET row == Seen(t, call[t].sub) IN
    /\ pc[t] = "record"
    /\ \/ ~Comparable(row) /\ Answer(t, 500) /\ UNCHANGED draft
       \/ /\ Comparable(row)
          /\ draft' = [draft EXCEPT ![t] = RecordFailure(row)]
          /\ Goto(t, "commit") /\ UNCHANGED reply
    /\ UNCHANGED <<clock, accounts, tables, refresh, access, call, dying, held, poisoned,
                   bounds, history>>

\* An insert that finds the key taken and an update that finds no row are errors of the
\* session; a row the session has deleted is not updated but deleted.
Gone(t) == ~draft[t].new /\ Dying(t, draft[t].id)
CommitRefused(t) ==
    LET row == attempts[call[t].sub]
        d == draft[t]
    IN  \/ d.new /\ row.count # 0
        \/ ~d.new /\ ~Gone(t) /\ (row.count = 0 \/ row.id # d.id)

\* What the service makes of the row it has just committed.
SaysTooSoon(d) == IF d.count >= MaxAttempts - 1 THEN "locked" ELSE "wrong" \* mutant
Says(d) == IF d.count >= MaxAttempts THEN "locked" ELSE "wrong"

WrittenRow(row, d, id) ==
    [id |-> id, count |-> d.count, until |-> IF d.new \/ d.timed THEN d.until ELSE row.until]
\* The insert or update comes before the deletes.
WriteFailure(t, k) ==
    \/ Gone(t) /\ attempts' = Deleting(t, attempts) /\ UNCHANGED lastId
    \/ /\ ~Gone(t) /\ ~draft[t].new
       /\ attempts' = Deleting(t, [attempts EXCEPT ![k] = WrittenRow(@, draft[t], @.id)])
       /\ UNCHANGED lastId
    \/ /\ draft[t].new
       /\ \E id \in NewIds :
              /\ attempts' = Deleting(t, [attempts EXCEPT ![k] = WrittenRow(@, draft[t], id)])
              /\ lastId' = IF id > lastId THEN id ELSE lastId

\* One more wrong password was answered; the first after a lock begins a new count.
Guessed(k, locks) ==
    /\ wrong' = [wrong EXCEPT ![k] = IF k \in told THEN 1 ELSE @ + 1]
    /\ lapsed' = IF k \in told THEN lapsed \cup {k} ELSE lapsed
    /\ told' = IF locks THEN told \cup {k} ELSE told \ {k}
GuessedRight(k) ==
    wrong' = [wrong EXCEPT ![k] = 0] /\ lapsed' = lapsed \ {k} /\ told' = told \ {k}

CommitFailure(t) ==
    LET k == call[t].sub
        d == draft[t]
    IN
    /\ pc[t] = "commit"
    /\ \/ /\ CommitRefused(t)
          /\ poisoned' = [poisoned EXCEPT ![t] = TRUE]
          /\ Answer(t, 500)
          /\ UNCHANGED <<tables, guesses>>
       \/ /\ ~CommitRefused(t)
          /\ WriteFailure(t, k)
          /\ Guessed(k, Says(d) = "locked")
          /\ Answer(t, Status(call[t], Says(d)))
          /\ UNCHANGED poisoned
    /\ dying' = [dying EXCEPT ![t] = {}]
    /\ UNCHANGED <<clock, accounts, refresh, access, call, draft, held, bounds, overlapped,
                   spent, proven>>

\* A right password deletes the key's row; then the v1 route asks for the second factor.
Reset(t) ==
    LET status == CodeStatus(call[t]) IN
    /\ pc[t] = "reset"
    /\ attempts' = [Deleting(t, attempts) EXCEPT ![call[t].sub] = Absent(@)]
    /\ GuessedRight(call[t].sub)
    /\ dying' = [dying EXCEPT ![t] = {}]
    /\ \/ status = 200 /\ Goto(t, "mint") /\ UNCHANGED reply
       \/ status # 200 /\ Answer(t, status)
    /\ UNCHANGED <<clock, accounts, lastId, refresh, access, call, draft, held, poisoned, bounds,
                   overlapped, spent, proven>>

Verify(t) ==
    /\ pc[t] = "verify"
    /\ \/ poisoned[t] /\ Answer(t, 500)
       \/ ~poisoned[t] /\ ~VerifyRefresh(call[t].token) /\ Answer(t, 401)
       \/ ~poisoned[t] /\ VerifyRefresh(call[t].token) /\ Goto(t, "mint") /\ UNCHANGED reply
    /\ UNCHANGED <<clock, accounts, tables, refresh, access, call, session, bounds,
                   history>>

\* create_token_pair: the refresh row's commit also commits the revocation of the old
\* one.  A database error is logged, and the pair handed out all the same.
Revoked(c) == IF Revokes(c) THEN [refresh EXCEPT ![c.token] =
                                     [@ EXCEPT !.revoked = TRUE]]
              ELSE refresh
Exchanged(c, stored) ==
    IF Revokes(c) THEN Append(spent, [token |-> c.token, stored |-> stored]) ELSE spent
Mint(t) ==
    LET c == call[t]
        sub == PairSubject(c)
        row == [sub |-> sub, role |-> PairRole(c), exp |-> clock + RefreshMinutes,
                revoked |-> FALSE]
    IN
    /\ pc[t] = "mint"
    /\ access' = access \cup {AccessToken(sub, PairRole(c))}
    /\ \/ /\ refresh' = Append(Revoked(c), row)
          /\ spent' = Exchanged(c, TRUE)
          /\ CommitsDeletes(t)
          /\ UNCHANGED <<poisoned, faults>>
       \/ /\ faults < MaxFaults /\ faults' = faults + 1
          /\ poisoned' = [poisoned EXCEPT ![t] = TRUE]
          /\ dying' = [dying EXCEPT ![t] = {}]
          /\ spent' = Exchanged(c, FALSE)
          /\ UNCHANGED <<refresh, tables>>
    /\ Answer(t, 200)
    /\ UNCHANGED <<clock, accounts, call, draft, held, menu, issued, guesses, overlapped,
                   proven>>

-------------------------------------------------------------------------------
(* Changes of the password and of the second factor *)

\* The row is read and the request refused on it.
AnyCode(c) == 200   \* mutant: a secret that is stored is taken for proven
CodeRight(c) == IF totp.secret # 0 /\ c.code = totp.secret THEN 200 ELSE 400
ChangeStatus(c) ==
    CASE c.op = "password" -> IF c.guess = passwords[c.sub] THEN 200 ELSE 400
      [] c.op = "setup" -> 200
      [] OTHER -> CodeRight(c)
ReadChange(t) ==
    LET c == call[t]
        status == IF poisoned[t] THEN 500 ELSE ChangeStatus(c)
    IN
    /\ pc[t] = "change"
    /\ \/ status # 200 /\ Answer(t, status)
          /\ UNCHANGED <<held, proven>>
       \/ status = 200 /\ Goto(t, "requery") /\ UNCHANGED reply
          /\ held' = [held EXCEPT ![t] = [NothingHeld EXCEPT
                         !.secret = IF c.op = "setup" THEN c.code ELSE totp.secret]]
          /\ proven' = IF c.op = "verify" THEN proven \cup {c.code} ELSE proven
    /\ UNCHANGED <<clock, accounts, tables, refresh, access, call, draft, dying, poisoned,
                   bounds, guesses, overlapped, spent>>

\* The three changes of the second factor, as columns of the administrator's row.
TotpSetup(secret) == [secret |-> secret, enabled |-> FALSE]
TotpVerify(secret) == [secret |-> secret, enabled |-> TRUE]
TotpDisable(secret) == [secret |-> 0, enabled |-> FALSE]
Factor(op, secret) == CASE op = "setup" -> TotpSetup(secret)
                        [] op = "verify" -> TotpVerify(secret)
                        [] OTHER -> TotpDisable(secret)

\* The repositories re-query the rows they write: the token version is read and raised.
Requery(t) ==
    /\ pc[t] = "requery"
    /\ held' = [held EXCEPT ![t] = [@ EXCEPT !.seen = totp.enabled,
                     !.version = IF call[t].sub \in Customers THEN versions[call[t].sub] + 1
                                 ELSE 0]]
    /\ Goto(t, "store")
    /\ UNCHANGED <<clock, accounts, tables, refresh, access, call, draft, dying, poisoned,
                   reply, bounds, history>>

\* AccountService.change_password: the new password and the version are one commit.  The
\* v1 route writes the account itself, and leaves the version alone.
PasswordWithoutVersion(s, version) == \* mutant of the service, and the v1 route
    passwords' = [passwords EXCEPT ![s] = 1 - @] /\ UNCHANGED versions
SetPassword(s, version) ==
    passwords' = [passwords EXCEPT ![s] = 1 - @] /\ versions' = [versions EXCEPT ![s] = version]
SetPasswordV1(s) == passwords' = [passwords EXCEPT ![s] = 1 - @] /\ UNCHANGED versions
\* change_admin_password: an administrator's tokens have no version to raise.
SetAdminPassword == passwords' = [passwords EXCEPT ![Admin] = 1 - @] /\ UNCHANGED versions

\* Two sessions that found no version row both insert one.
StoreRefused(t) ==
    /\ call[t].op = "password" /\ call[t].door = "v2"
    /\ held[t].version = 1 /\ versions[call[t].sub] # 0

StorePassword(t) ==
    /\ call[t].op = "password"
    /\ \/ call[t].sub = Admin /\ SetAdminPassword
       \/ call[t].sub # Admin /\ call[t].door = "v1" /\ SetPasswordV1(call[t].sub)
       \/ call[t].door = "v2" /\ SetPassword(call[t].sub, held[t].version)
    /\ UNCHANGED totp

\* update_totp: the ciphertext of the secret is always new, enabled only when it differs.
StoreFactor(t) ==
    LET columns == Factor(call[t].op, held[t].secret) IN
    /\ call[t].op \in FactorOps
    /\ totp' = [secret |-> columns.secret,
                enabled |-> IF columns.enabled # held[t].seen THEN columns.enabled
                            ELSE totp.enabled]
    /\ UNCHANGED <<passwords, versions>>

Store(t) ==
    /\ pc[t] = "store"
    /\ \/ /\ StoreRefused(t)
          /\ poisoned' = [poisoned EXCEPT ![t] = TRUE]
          /\ dying' = [dying EXCEPT ![t] = {}]
          /\ Answer(t, 500) /\ UNCHANGED <<accounts, tables>>
       \/ /\ ~StoreRefused(t)
          /\ StorePassword(t) \/ StoreFactor(t)
          /\ CommitsDeletes(t)
          /\ Answer(t, 200) /\ UNCHANGED poisoned
    /\ held' = [held EXCEPT ![t] = NothingHeld]
    /\ UNCHANGED <<clock, refresh, access, call, draft, bounds, history>>

Tick ==
    /\ clock < MaxClock /\ clock' = clock + 1
    /\ UNCHANGED <<accounts, tables, refresh, access, pc, call, session, reply, bounds,
                   history>>

Closing == issued = menu.most /\ (\A t \in Threads : pc[t] = "idle") /\ UNCHANGED vars

Step(t) ==
    \/ Check(t) \/ Record(t) \/ CommitFailure(t) \/ Reset(t)
    \/ Verify(t) \/ Mint(t)
    \/ ReadChange(t) \/ Requery(t) \/ Store(t)

Next ==
    \/ \E t \in Threads, c \in menu.calls : SubmitLogin(t, c) \/ SubmitRefresh(t, c)
    \/ \E t \in Threads, c \in menu.calls, token \in access :
           SubmitChange(t, c, token) \/ SubmitAdminChange(t, c, token)
    \/ \E t \in Threads : Step(t)
    \/ Tick
    \/ Closing

Spec == Init /\ [][Next]_vars

-------------------------------------------------------------------------------
(* Properties *)

RefreshRow == [sub : Subjects \cup {NoOne}, role : {"customer", "admin"}, exp : Nat,
               revoked : BOOLEAN]
AccessRow == [sub : Subjects \cup {NoOne}, role : {"customer", "admin"}, exp : Nat,
              version : Nat]
\* The types; a token speaks for a subject, or for nobody when the v1 refresh took the
\* role for one.
TypeOK ==
    /\ clock \in Nat
    /\ passwords \in [Subjects -> {0, 1}] /\ versions \in [Subjects -> Nat]
    /\ totp \in [secret : Secrets, enabled : BOOLEAN]
    /\ attempts \in [Subjects -> AttemptRow]
    /\ refresh \in Seq(RefreshRow) /\ access \subseteq AccessRow
    /\ pc \in [Threads -> {"idle", "check", "record", "commit", "reset", "verify", "mint",
                       "change", "requery", "store"}]
    /\ call \in [Threads -> Call] /\ draft \in [Threads -> Draft]
    /\ lastId \in Nat /\ dying \in [Threads -> SUBSET AttemptRow]
    /\ poisoned \in [Threads -> BOOLEAN] /\ held \in [Threads -> Held]
    /\ reply \in [Threads -> Nat]
    /\ menu \in Menus /\ faults \in Nat
    /\ wrong \in [Subjects -> Nat] /\ spent \in Seq([token : Nat, stored : BOOLEAN])

\* On PostgreSQL, unless two logins of one subject overlapped, a lock lasts until its
\* time: nothing that an earlier request left in its session to be deleted ends it, however
\* late the commit.  (SQLite gives the id of a deleted row to a later one, whose lock the
\* late delete then takes with it.)
LockHolds ==
    [][\A k \in Subjects : ~menu.naive /\ Locked(attempts[k]) =>
        \/ clock' >= attempts[k].until \/ <<k, "login">> \in overlapped'
        \/ attempts'[k].count >= MaxAttempts /\ attempts'[k].until >= attempts[k].until]_vars

CanLogIn(k) == Known(k) /\ ~Barred(k)
Lost(k) == IF k \in lapsed THEN 1 ELSE 0
\* Unless two logins of one subject overlapped, no account is locked before its time, and
\* on PostgreSQL every wrong password counts but one: the first after a lock that has run
\* out, which is counted on the row that the check of the lock has just marked, and goes
\* with it.  So the lock comes with wrong password MaxAttempts, or after a lock with the
\* one after that, and never later.  (On SQLite a delete committed late can take counts.)
GuessesAreCounted ==
    \A k \in Subjects : <<k, "login">> \notin overlapped =>
        /\ attempts[k].count <= wrong[k]
        /\ ~menu.naive /\ CanLogIn(k) =>
               /\ attempts[k].count = wrong[k] - Lost(k)
               /\ wrong[k] <= MaxAttempts + Lost(k)
               /\ k \in told <=> wrong[k] = MaxAttempts + Lost(k)

Claimed(s) == menu.naive \/ <<s, "login">> \notin overlapped
\* Whoever is told that an account is locked is told the truth, unless logins overlapped
\* on a database that keeps time zones.
LockedIsTrue ==
    [][\A t \in Threads :
        reply'[t] = 429 /\ reply[t] # 429 /\ Claimed(call[t].sub) =>
            attempts'[call[t].sub].count >= MaxAttempts
            /\ attempts'[call[t].sub].until # 0]_vars

\* v2 exchanges a refresh token once: again only after an exchange whose new token the
\* database refused, or when two requests with the token overlapped.
RefreshedOnce ==
    \A i, j \in DOMAIN spent :
        i < j /\ spent[i].token = spent[j].token =>
            ~spent[i].stored \/ <<spent[i].token, "v2">> \in overlapped

Ends(s) == \A token \in access : token.sub = s => ~(CurrentCustomer(token))'
\* No access token handed out before the service changed a password is accepted after
\* it, whether a login or a refresh made it and whatever overlapped the change, except
\* another change of the same password.  (The refresh tokens are left as they are, and
\* still exchanged for access tokens of the new version.)
PasswordEndsAccess ==
    [][\A t \in Threads : pc[t] = "store" /\ passwords' # passwords /\ pc'[t] # pc[t]
            /\ call[t].door = "v2" /\ <<call[t].sub, "password">> \notin overlapped
        => Ends(call[t].sub)]_vars

\* The second factor is never on with a secret that nobody has shown a code for, unless
\* two changes of it overlapped.
EnabledSecretIsProven ==
    totp.enabled => totp.secret \in proven \/ <<Admin, "factor">> \in overlapped
===============================================================================
