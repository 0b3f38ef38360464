------------------------ MODULE TransactionService_proofs ------------------------
(***************************************************************************)
(* Proofs about TransactionService for any number of threads, accounts,    *)
(* keys, requests, crashes and faults.                                     *)
(*                                                                         *)
(* Idempotency keys: whatever the number of worker processes, the primary  *)
(* key of the idempotency table and the joint commit of claim and movement *)
(* make a key move money at most once.  While no statement fails inside a  *)
(* transfer's savepoint, its record also tells whether it moved any.  The  *)
(* locks play no part in this argument.                                    *)
(***************************************************************************)
EXTENDS TransactionService, TLAPS

LEMMA NoRequestType == NoRequest \in Call
  BY ConstantsAssumption DEF NoRequest, Call, Ops

LEMMA RequestType == Request \subseteq Call
  BY ConstantsAssumption DEF Request, Call

LEMMA MergeType ==
    ASSUME NEW S, NEW mine \in S, NEW seen, NEW stored \in S
    PROVE  Merge(mine, seen, stored) \in S
  BY DEF Merge

LEMMA InitType == Init => TypeOK
  BY NoRequestType, ConstantsAssumption
     DEF Init, TypeOK, Records, Stages, Replies

LEMMA StepType == TypeOK /\ [Next]_vars => TypeOK'
<1> SUFFICES ASSUME TypeOK, [Next]_vars PROVE TypeOK'
  OBVIOUS
<1> USE DEF TypeOK, dbVars, boundVars, Goto, Answer, Stages, Replies, Records
<1>1. ASSUME NEW t \in Threads, NEW r \in Request, Submit(t, r) PROVE TypeOK'
  <2>1. r \in Call /\ issued' \in Nat
    BY <1>1, RequestType DEF Submit
  <2>2. CASE IsValid(r)
    BY <1>1, <2>1, <2>2 DEF Submit
  <2>3. CASE ~IsValid(r)
    BY <1>1, <2>1, <2>3 DEF Submit
  <2>4. QED
    BY <2>2, <2>3
<1>2. ASSUME NEW t \in Threads, Acquire(t) PROVE TypeOK'
  <2>1. PICK a \in Touched(t) \ held[t] :
          /\ held' = [held EXCEPT ![t] = @ \cup {a}]
          /\ pc' \in {[pc EXCEPT ![t] = "claim"], [pc EXCEPT ![t] = "lock"]}
    BY <1>2 DEF Acquire
  <2>2. a \in Accounts
    BY <2>1 DEF Touched, Call
  <2>3. QED
    BY <1>2, <2>1, <2>2 DEF Acquire
<1>3. ASSUME NEW t \in Threads, ClaimLookup(t) PROVE TypeOK'
  <2>1. pc' \in [Threads -> Stages]
    BY <1>3 DEF ClaimLookup
  <2>2. reply' \in [Threads -> Replies]
    BY <1>3 DEF ClaimLookup, Classify
  <2>3. QED
    BY <1>3, <2>1, <2>2 DEF ClaimLookup
<1>4. ASSUME NEW t \in Threads, ClaimInsert(t) PROVE TypeOK'
  <2>1. req[t].key \in Keys
    BY <1>4 DEF ClaimInsert, Keyed, Call
  <2>2. pc' \in [Threads -> Stages]
    BY <1>4 DEF ClaimInsert
  <2>3. \/ flushed' = [flushed EXCEPT ![t] = @ \cup {req[t].key}]
        \/ flushed' = [flushed EXCEPT ![t] = {}]
    BY <1>4 DEF ClaimInsert, DropClaims
  <2>4. flushed' \in [Threads -> SUBSET Keys]
    <3>1. flushed[t] \cup {req[t].key} \in SUBSET Keys
      BY <2>1
    <3>2. QED
      BY <2>3, <3>1
  <2>5. QED
    BY <1>4, <2>2, <2>4 DEF ClaimInsert
<1>5. ASSUME NEW t \in Threads, ClaimReread(t) PROVE TypeOK'
  BY <1>5 DEF ClaimReread, Classify
<1>6. ASSUME NEW t \in Threads, GetSender(t) PROVE TypeOK'
  BY <1>6 DEF GetSender, Call
<1>7. ASSUME NEW t \in Threads, GetReceiver(t) PROVE TypeOK'
  BY <1>7 DEF GetReceiver, Call
<1>8. ASSUME NEW t \in Threads, UpdateSender(t) PROVE TypeOK'
  BY <1>8 DEF UpdateSender, Call
<1>9. ASSUME NEW t \in Threads, UpdateReceiver(t) PROVE TypeOK'
  BY <1>9 DEF UpdateReceiver, Call
<1>10. ASSUME NEW t \in Threads, Commit(t) PROVE TypeOK'
  <2>1. ASSUME NEW a \in Accounts PROVE Written(t, a) \in Row /\ EntryFor(t, a) \in Entry
    <3>1. snap[t][a] \in Row /\ base[t][a] \in Row /\ rows[a] \in Row
      OBVIOUS
    <3>2. req[t].amount \in Int /\ req[t].acc \in Accounts /\ req[t].to \in Accounts
          /\ req[t].key \in Keys \cup {NoKey}
      BY DEF Call
    <3>3. NewBalance(t, a) \in Int
      <4>1. snap[t][a].balance \in Int
        BY <3>1 DEF Row
      <4>2. Delta(req[t], a) \in Int
        BY <3>2 DEF Delta, Deposits
      <4>3. QED
        BY <4>1, <4>2 DEF NewBalance
    <3>4. Written(t, a) \in Row
      <4>1. Merge(NewBalance(t, a), base[t][a].balance, rows[a].balance) \in Int
        BY <3>1, <3>3 DEF Merge, Row
      <4>2. /\ snap[t][a].active \in BOOLEAN /\ snap[t][a].frozen \in BOOLEAN
            /\ rows[a].active \in BOOLEAN /\ rows[a].frozen \in BOOLEAN
            /\ rows[a].deleted \in BOOLEAN
        BY <3>1 DEF Row
      <4>3. Merge(snap[t][a].active, base[t][a].active, rows[a].active) \in BOOLEAN
        BY <4>2, MergeType, Zenon
      <4>4. Merge(snap[t][a].frozen, base[t][a].frozen, rows[a].frozen) \in BOOLEAN
        BY <4>2, MergeType, Zenon
      <4>5. QED
        BY <4>1, <4>2, <4>3, <4>4 DEF Written, Row
    <3>5. EntryType(req[t], a) \in EntryTypes
      BY DEF EntryType, EntryTypes
    <3>6. EntryFor(t, a) \in Entry
      BY <3>2, <3>3, <3>5 DEF EntryFor, Entry
    <3>7. QED
      BY <3>4, <3>6
  <2>2. rows' \in [Accounts -> Row]
    BY <1>10, <2>1 DEF Commit
  <2>3. txns' \in [Accounts -> Seq(Entry)]
    BY <1>10, <2>1 DEF Commit
  <2>4. /\ clock' \in Nat
        /\ flushed' \in [Threads -> SUBSET Keys]
        /\ idem' \in [Keys -> Records]
    BY <1>10 DEF Commit, WithClaims, DropClaims
  <2>5. pc' \in [Threads -> Stages] /\ reply' \in [Threads -> Replies]
    BY <1>10 DEF Commit
  <2>6. QED
    BY <1>10, <2>2, <2>3, <2>4, <2>5 DEF Commit
<1>11. ASSUME NEW t \in Threads, Complete(t) PROVE TypeOK'
  BY <1>11 DEF Complete
<1>12. ASSUME NEW t \in Threads, RefuseRequest(t) PROVE TypeOK'
  BY <1>12 DEF RefuseRequest, Keyed, WithClaims, DropClaims
<1>13. ASSUME NEW t \in Threads, Release(t) PROVE TypeOK'
  BY <1>13, ConstantsAssumption DEF Release
<1>14. ASSUME NEW t \in Threads, NEW a \in Replies, EndCall(t, a),
              flushed' \in [Threads -> SUBSET Keys],
              poisoned' \in [Threads -> BOOLEAN], faults' \in Nat
       PROVE TypeOK'
  BY <1>14 DEF EndCall
<1>15. ASSUME NEW t \in Threads, NEW a \in Replies, Abandon(t, a),
              poisoned' \in [Threads -> BOOLEAN], faults' \in Nat
       PROVE TypeOK'
  <2>1. flushed' \in [Threads -> SUBSET Keys] /\ EndCall(t, a)
    BY <1>15 DEF Abandon, DropClaims
  <2>2. QED
    BY <1>14, <1>15, <2>1
<1>16. ASSUME NEW t \in Threads, Fails(t) PROVE TypeOK'
  <2>1. ClaimStorageError(t) => TypeOK'
    BY <1>15 DEF ClaimStorageError, Fault
  <2>2. TransferAborts(t) => TypeOK'
    BY <1>15 DEF TransferAborts, Fault
  <2>3. CompleteSwallows(t) => TypeOK'
    BY <1>15 DEF CompleteSwallows, Fault
  <2>4. DatabaseError(t) => TypeOK'
    BY <1>15 DEF DatabaseError, Fault
  <2>5. SavepointError(t) => TypeOK'
    <3>1. ASSUME SavepointError(t)
          PROVE  EndCall(t, "error") /\ UNCHANGED <<flushed, poisoned>>
      BY <3>1 DEF SavepointError
    <3>2. SavepointError(t) => faults' \in Nat
      BY DEF SavepointError, Fault
    <3>3. QED
      BY <1>14, <3>1, <3>2
  <2>6. QED
    BY <1>16, <2>1, <2>2, <2>3, <2>4, <2>5 DEF Fails
<1>17. ASSUME NEW t \in Threads, PoisonedCall(t) PROVE TypeOK'
  BY <1>15, <1>17 DEF PoisonedCall
<1>18. ASSUME NEW w \in Workers, Crash(w) PROVE TypeOK'
  BY <1>18, ConstantsAssumption DEF Crash
<1>19. CASE Finished \/ UNCHANGED vars
  BY <1>19 DEF Finished, vars, callVars
<1>20. QED
  BY <1>1, <1>2, <1>3, <1>4, <1>5, <1>6, <1>7, <1>8, <1>9, <1>10, <1>11, <1>12,
     <1>13, <1>16, <1>17, <1>18, <1>19 DEF Next, Advance

\* Type correctness: rows, records, statements and per-thread state keep their shapes.
THEOREM TypeCorrect == Spec => []TypeOK
<1>1. QED
  BY InitType, StepType, PTL DEF Spec

-------------------------------------------------------------------------------
(* Locks *)

LEMMA InitLocks == Init => MutualExclusion
  BY DEF Init, MutualExclusion

\* Only Acquire adds a lock, and only one that no thread of the process holds.
LEMMA StepLocks == TypeOK /\ MutualExclusion /\ [Next]_vars => MutualExclusion'
<1> SUFFICES ASSUME TypeOK, MutualExclusion, [Next]_vars PROVE MutualExclusion'
  OBVIOUS
<1>1. ASSUME NEW t \in Threads, Acquire(t) PROVE MutualExclusion'
  <2>1. PICK a \in Accounts : LockFree(t, a) /\ held' = [held EXCEPT ![t] = @ \cup {a}]
    BY <1>1 DEF Acquire, TypeOK, Touched, Call
  <2>2. QED
    BY <2>1 DEF TypeOK, MutualExclusion, LockFree
<1>2. ASSUME NEW t \in Threads, Release(t) PROVE MutualExclusion'
  <2>1. PICK a : held' = [held EXCEPT ![t] = @ \ {a}]
    BY <1>2 DEF Release
  <2>2. QED
    BY <2>1 DEF TypeOK, MutualExclusion
<1>3. ASSUME NEW w \in Workers, Crash(w) PROVE MutualExclusion'
  BY <1>3 DEF Crash, TypeOK, MutualExclusion
<1>4. ASSUME UNCHANGED held PROVE MutualExclusion'
  BY <1>4 DEF MutualExclusion
<1>5. QED
  BY <1>1, <1>2, <1>3, <1>4 DEF Next, Advance, Fails, Finished, vars, callVars, Submit,
     ClaimLookup, ClaimInsert, ClaimReread, GetSender, GetReceiver, UpdateSender,
     UpdateReceiver, Commit, Complete, RefuseRequest, Abandon, EndCall, DropClaims,
     ClaimStorageError, TransferAborts, CompleteSwallows, DatabaseError, SavepointError,
     PoisonedCall

\* No two threads of a worker process hold the same account lock.
THEOREM LocksExclude == Spec => []MutualExclusion
<1>1. QED
  BY InitType, StepType, InitLocks, StepLocks, PTL DEF Spec

CallInv == LocksCoverBody /\ CallsAreValid

LEMMA InitCall == Init => CallInv
<1>1. NoRequest.to = NoRequest.acc
  BY DEF NoRequest
<1>2. QED
  BY <1>1 DEF Init, CallInv, LocksCoverBody, CallsAreValid, Body

\* Every stage between the last acquire and the first release runs under all the locks
\* of a valid request.
LEMMA StepCall == TypeOK /\ CallInv /\ [Next]_vars => CallInv'
<1> SUFFICES ASSUME TypeOK, CallInv, [Next]_vars PROVE CallInv'
  OBVIOUS
<1> USE DEF CallInv, LocksCoverBody, CallsAreValid, TypeOK, Touched, Body, Goto
<1>1. ASSUME NEW t \in Threads, NEW r \in Request, Submit(t, r) PROVE CallInv'
  <2>1. r \in Call /\ r.amount \in Amounts /\ (~Transfers(r) => r.to = r.acc)
    BY RequestType DEF Request, Transfers
  <2>2. held[t] = {} /\ held' = held /\ req' = [req EXCEPT ![t] = r]
    BY <1>1 DEF Submit
  <2>3. pc' = [pc EXCEPT ![t] = IF IsValid(r) THEN "lock" ELSE "idle"]
    BY <1>1 DEF Submit
  <2>4. QED
    BY <2>1, <2>2, <2>3
<1>2. ASSUME NEW t \in Threads, Acquire(t) PROVE CallInv'
  <2>1. PICK a \in Touched(t) \ held[t] :
          /\ held' = [held EXCEPT ![t] = @ \cup {a}]
          /\ pc' = [pc EXCEPT ![t] =
                      IF Touched(t) \subseteq held[t] \cup {a} THEN "claim" ELSE "lock"]
    BY <1>2 DEF Acquire
  <2>2. pc[t] # "idle" /\ req' = req
    BY <1>2 DEF Acquire
  <2>3. QED
    BY <2>1, <2>2
<1>3. ASSUME NEW t \in Threads, Release(t) PROVE CallInv'
  <2>1. PICK a \in held[t] :
          /\ held' = [held EXCEPT ![t] = @ \ {a}]
          /\ pc' = [pc EXCEPT ![t] = IF held[t] = {a} THEN "idle" ELSE "release"]
    BY <1>3 DEF Release
  <2>2. pc[t] # "idle" /\ req' = req
    BY <1>3 DEF Release
  <2>3. QED
    BY <2>1, <2>2
<1>4. ASSUME NEW w \in Workers, Crash(w) PROVE CallInv'
  BY <1>4 DEF Crash
<1>5. ASSUME NEW t \in Threads, NEW s \in Stages, held' = held, req' = req,
             pc' = [pc EXCEPT ![t] = s], pc[t] \in Body, s # "idle"
      PROVE  CallInv'
  BY <1>5
<1>6. ASSUME NEW t \in Threads,
             \/ ClaimLookup(t) \/ ClaimInsert(t) \/ ClaimReread(t) \/ GetSender(t)
             \/ GetReceiver(t) \/ UpdateSender(t) \/ UpdateReceiver(t) \/ Commit(t)
             \/ Complete(t) \/ RefuseRequest(t) \/ Fails(t) \/ PoisonedCall(t)
      PROVE  CallInv'
  <2>1. held' = held /\ req' = req /\ pc[t] \in Body
    BY <1>6 DEF ClaimLookup, ClaimInsert, ClaimReread, GetSender, GetReceiver,
       UpdateSender, UpdateReceiver, Commit, Complete, RefuseRequest, Fails, Abandon,
       EndCall, DropClaims, ClaimStorageError, TransferAborts, CompleteSwallows,
       DatabaseError, SavepointError, PoisonedCall
  <2>2. \E s \in Stages \ {"idle"} : pc' = [pc EXCEPT ![t] = s]
    BY <1>6 DEF ClaimLookup, ClaimInsert, ClaimReread, GetSender, GetReceiver,
       UpdateSender, UpdateReceiver, Commit, Complete, RefuseRequest, Fails, Abandon,
       EndCall, DropClaims, ClaimStorageError, TransferAborts, CompleteSwallows,
       DatabaseError, SavepointError, PoisonedCall, Stages
  <2>3. QED
    BY <1>5, <2>1, <2>2
<1>7. CASE Finished \/ UNCHANGED vars
  BY <1>7 DEF Finished, vars, callVars
<1>8. QED
  BY <1>1, <1>2, <1>3, <1>4, <1>6, <1>7 DEF Next, Advance

\* Every account lock of a request is held for the whole of its body.
THEOREM CallsHoldTheirLocks == Spec => [](LocksCoverBody /\ CallsAreValid)
<1>1. QED
  BY InitType, StepType, InitCall, StepCall, PTL DEF Spec, CallInv

-------------------------------------------------------------------------------
\* Only a commit, a completion and a recorded refusal write the database.
LEMMA OtherStepsKeepDatabase ==
    ASSUME [Next]_vars,
           \A t \in Threads : ~Commit(t) /\ ~Complete(t) /\ ~RefuseRequest(t)
    PROVE  UNCHANGED dbVars
<1>1. ASSUME NEW t \in Threads, Advance(t) PROVE UNCHANGED dbVars
  BY <1>1 DEF Advance, Acquire, ClaimLookup, ClaimInsert, ClaimReread, GetSender,
     GetReceiver, UpdateSender, UpdateReceiver, Release, PoisonedCall, Abandon, EndCall,
     DropClaims
<1>2. ASSUME NEW t \in Threads, Fails(t) PROVE UNCHANGED dbVars
  BY <1>2 DEF Fails, Abandon, EndCall, DropClaims, ClaimStorageError, TransferAborts,
     CompleteSwallows, DatabaseError, SavepointError
<1>3. QED
  BY <1>1, <1>2 DEF Next, Submit, Crash, Finished, vars

\* What a commit adds to the statements.
LEMMA CommitAppends ==
    ASSUME TypeOK, NEW t \in Threads, Commit(t), NEW a \in Accounts
    PROVE  /\ a \in Touched(t) => /\ Len(txns'[a]) = Len(txns[a]) + 1
                                 /\ txns'[a][Len(txns[a]) + 1] = EntryFor(t, a)
           /\ a \notin Touched(t) => txns'[a] = txns[a]
           /\ \A i \in 1 .. Len(txns[a]) : txns'[a][i] = txns[a][i]
           /\ txns[a] \in Seq(Entry) /\ Len(txns[a]) \in Nat
<1>1. txns[a] \in Seq(Entry)
  BY DEF TypeOK
<1>2. txns'[a] = IF a \in Touched(t) THEN Append(txns[a], EntryFor(t, a)) ELSE txns[a]
  BY DEF Commit
<1>3. CASE a \in Touched(t)
  <2> DEFINE e == EntryFor(t, a)
  <2>1. txns'[a] = Append(txns[a], e)
    BY <1>2, <1>3
  <2>2. QED
    BY <1>1, <1>3, <2>1
<1>4. CASE a \notin Touched(t)
  BY <1>1, <1>2, <1>4
<1>5. QED
  BY <1>3, <1>4

-------------------------------------------------------------------------------
(* The ledger.  Double entry holds for any number of worker processes: the *)
(* two legs of a transfer are rows of one commit.  That statements add up  *)
(* and balances stay non-negative needs OneProcess: the account locks are  *)
(* those of one process, and only they keep a read current until its write.*)

LegsInv == TypeOK /\ CallInv /\ DoubleEntry

LEMMA InitLegs == Init => LegsInv
<1> SUFFICES ASSUME Init PROVE LegsInv
  OBVIOUS
<1>1. \A a \in Accounts : 1 .. Len(txns[a]) = {}
  BY DEF Init
<1>2. QED
  BY <1>1, InitType, InitCall DEF LegsInv, DoubleEntry

\* The new legs of a commit mirror each other; the old ones keep their mirrors.
LEMMA CommitLegs ==
    ASSUME LegsInv, NEW t \in Threads, Commit(t)
    PROVE  DoubleEntry'
<1> USE DEF LegsInv
<1>1. ASSUME NEW a \in Accounts, NEW i \in 1 .. Len(txns[a]),
             txns[a][i].type \in {"TRANSFER_OUT", "TRANSFER_IN"}
      PROVE  /\ txns'[a][i] = txns[a][i]
             /\ \E j \in 1 .. Len(txns'[txns[a][i].target]) :
                   Mirrors(txns[a][i], txns'[txns[a][i].target][j], a)
  <2> DEFINE e == txns[a][i]
  <2>1. e \in Entry
    BY CommitAppends
  <2>2. e.target \in Accounts
    BY <2>1 DEF Entry
  <2>3. PICK j \in 1 .. Len(txns[e.target]) : Mirrors(e, txns[e.target][j], a)
    BY <1>1 DEF DoubleEntry
  <2>4. j \in 1 .. Len(txns'[e.target]) /\ txns'[e.target][j] = txns[e.target][j]
    BY <2>2, CommitAppends
  <2>5. txns'[a][i] = e
    BY CommitAppends
  <2>6. QED
    BY <2>3, <2>4, <2>5
<1>2. ASSUME NEW a \in Touched(t),
             EntryFor(t, a).type \in {"TRANSFER_OUT", "TRANSFER_IN"}
      PROVE  LET b == EntryFor(t, a).target IN
             \E j \in 1 .. Len(txns'[b]) : Mirrors(EntryFor(t, a), txns'[b][j], a)
  <2> DEFINE b == EntryFor(t, a).target
  <2>1. Transfers(req[t]) /\ ~Deposits(req[t])
    BY <1>2 DEF EntryFor, EntryType, Transfers, Deposits
  <2>2. req[t].acc # req[t].to
    BY <2>1 DEF Commit, CallInv, CallsAreValid, IsValid
  <2>3. b = IF a = req[t].acc THEN req[t].to ELSE req[t].acc
    BY DEF EntryFor
  <2>4. b \in Touched(t) /\ b \in Accounts
    BY <2>3 DEF Touched, TypeOK, Call
  <2>5. Mirrors(EntryFor(t, a), EntryFor(t, b), a)
    BY <2>1, <2>2, <2>3, <2>4 DEF Mirrors, EntryFor, EntryType, Touched
  <2>6. /\ Len(txns[b]) + 1 \in 1 .. Len(txns'[b])
        /\ txns'[b][Len(txns[b]) + 1] = EntryFor(t, b)
    BY <2>4, CommitAppends
  <2>7. QED
    BY <2>5, <2>6
<1>3. ASSUME NEW a \in Accounts, NEW i \in 1 .. Len(txns'[a]),
             txns'[a][i].type \in {"TRANSFER_OUT", "TRANSFER_IN"}
      PROVE  \E j \in 1 .. Len(txns'[txns'[a][i].target]) :
                Mirrors(txns'[a][i], txns'[txns'[a][i].target][j], a)
  <2>1. CASE i \in 1 .. Len(txns[a])
    <3>1. txns'[a][i] = txns[a][i]
      BY <2>1, CommitAppends
    <3>2. QED
      BY <1>1, <1>3, <2>1, <3>1
  <2>2. CASE i \notin 1 .. Len(txns[a])
    <3>1. a \in Touched(t) /\ txns'[a][i] = EntryFor(t, a)
      BY <2>2, CommitAppends
    <3>2. QED
      BY <1>2, <1>3, <3>1
  <2>3. QED
    BY <2>1, <2>2
<1>4. QED
  BY <1>3 DEF DoubleEntry, Mirrors

\* Only a commit writes rows and statements.
LEMMA OnlyCommitWrites ==
    ASSUME [Next]_vars, \A t \in Threads : ~Commit(t)
    PROVE  UNCHANGED <<rows, txns>>
<1>1. ASSUME NEW t \in Threads, Complete(t) \/ RefuseRequest(t)
      PROVE  UNCHANGED <<rows, txns>>
  BY <1>1 DEF Complete, RefuseRequest
<1>2. CASE UNCHANGED dbVars
  BY <1>2 DEF dbVars
<1>3. QED
  BY <1>1, <1>2, OtherStepsKeepDatabase

LEMMA StepLegs == LegsInv /\ [Next]_vars => LegsInv'
<1> SUFFICES ASSUME LegsInv, [Next]_vars PROVE LegsInv'
  OBVIOUS
<1>1. TypeOK' /\ CallInv'
  BY StepType, StepCall DEF LegsInv
<1>2. ASSUME txns' = txns PROVE DoubleEntry'
  <2>1. DoubleEntry
    BY DEF LegsInv
  <2>2. QED
    BY <1>2, <2>1 DEF DoubleEntry
<1>3. QED
  BY <1>1, <1>2, CommitLegs, OnlyCommitWrites DEF LegsInv

\* Every leg of a transfer has its counterpart, for any number of worker processes,
\* crashes and failed statements.
THEOREM LegsComeInPairs == Spec => []DoubleEntry
<1>1. LegsInv => DoubleEntry
  BY DEF LegsInv
<1>2. QED
  BY <1>1, InitLegs, StepLegs, PTL DEF Spec

-------------------------------------------------------------------------------
(* One process *)

\* The stages in which a call relies on what it has read.
Reading == {"getReceiver", "updateSender", "updateReceiver", "commit"}

ReadInv == TypeOK /\ MutualExclusion /\ CallInv /\ ReadsAreCurrent

LEMMA InitReads == Init => ReadInv
<1>1. Init => ReadsAreCurrent
  BY DEF Init, ReadsAreCurrent
<1>2. QED
  BY <1>1, InitType, InitLocks, InitCall DEF ReadInv

\* While a call is in its body no other thread of the process writes its accounts.
LEMMA NoWriteUnderLock ==
    ASSUME OneProcess, ReadInv, NEW t \in Threads, NEW u \in Threads, t # u,
           pc[u] \in Reading, Commit(t)
    PROVE  /\ rows'[req[u].acc] = rows[req[u].acc]
           /\ rows'[req[u].to] = rows[req[u].to]
<1>1. held[t] = Touched(t) /\ held[u] = Touched(u)
  BY DEF ReadInv, CallInv, LocksCoverBody, Body, Reading, Commit
<1>2. Touched(t) \cap Touched(u) = {}
  BY <1>1 DEF OneProcess, ReadInv, MutualExclusion
<1>3. /\ req[u].acc \in Accounts \ Touched(t)
      /\ req[u].to \in Accounts \ Touched(t)
  BY <1>2 DEF Touched, ReadInv, TypeOK, Call
<1>4. rows' = [a \in Accounts |-> IF a \in Touched(t) THEN Written(t, a) ELSE rows[a]]
  BY DEF Commit
<1>5. QED
  BY <1>3, <1>4

\* What ReadsAreCurrent says of thread u.
ReadsOf(u) ==
    LET a == req[u].acc
        b == req[u].to
    IN  /\ pc[u] \in Reading => snap[u][a] = rows[a]
        /\ pc[u] \in {"updateSender", "updateReceiver", "commit"}
              => snap[u][b] = rows[b] /\ Permitted(req[u], rows[a], rows[b])
        /\ pc[u] \in {"updateReceiver", "commit"} => base[u][a] = rows[a]
        /\ pc[u] = "commit" => base[u][b] = rows[b]

LEMMA ReadsPerThread == ReadsAreCurrent <=> \A u \in Threads : ReadsOf(u)
  BY DEF ReadsAreCurrent, ReadsOf, Reading

\* A thread's own step keeps its reads current.
LEMMA OwnStepReads ==
    ASSUME ReadInv, NEW t \in Threads, rows' = rows, req' = req,
           \/ GetSender(t) \/ GetReceiver(t) \/ UpdateSender(t) \/ UpdateReceiver(t)
    PROVE  ReadsOf(t)'
<1> DEFINE a == req[t].acc
           b == req[t].to
<1> USE DEF ReadsOf, Goto, Reading
<1>1. ReadsOf(t)
  BY ReadsPerThread DEF ReadInv
<1>2. /\ a \in Accounts /\ b \in Accounts
      /\ pc \in [Threads -> Stages]
      /\ snap \in [Threads -> [Accounts -> Row]]
      /\ base \in [Threads -> [Accounts -> Row]]
  BY DEF ReadInv, TypeOK, Call
<1>3. ~Transfers(req[t]) => b = a
  BY DEF ReadInv, CallInv, CallsAreValid
<1>4. CASE GetSender(t)
  <2>1. snap' = [snap EXCEPT ![t][a] = rows[a]] /\ base' = base
    BY <1>4 DEF GetSender
  <2>2. snap'[t][a] = rows[a]
    BY <1>2, <2>1
  <2>3. \/ pc'[t] \in {"getReceiver", "refuse"}
        \/ pc'[t] = "updateSender" /\ b = a /\ Permitted(req[t], rows[a], rows[a])
    BY <1>2, <1>3, <1>4 DEF GetSender
  <2>4. QED
    BY <2>2, <2>3
<1>5. CASE GetReceiver(t)
  <2>1. snap' = [snap EXCEPT ![t][b] = rows[b]] /\ snap[t][a] = rows[a]
    BY <1>1, <1>5 DEF GetReceiver
  <2>2. snap'[t][a] = rows[a] /\ snap'[t][b] = rows[b]
    BY <1>2, <2>1
  <2>3. \/ pc'[t] = "refuse"
        \/ pc'[t] = "updateSender" /\ Permitted(req[t], rows[a], rows[b])
    BY <1>2, <1>5, <2>1 DEF GetReceiver
  <2>4. QED
    BY <2>2, <2>3
<1>6. CASE UpdateSender(t)
  <2>1. /\ base' = [base EXCEPT ![t][a] = rows[a]] /\ snap' = snap
        /\ pc[t] = "updateSender"
    BY <1>6 DEF UpdateSender
  <2>2. base'[t][a] = rows[a]
    BY <1>2, <2>1
  <2>3. \/ pc'[t] = "updateReceiver"
        \/ pc'[t] = "commit" /\ b = a
    <3>1. pc' = [pc EXCEPT ![t] = IF Transfers(req[t]) THEN "updateReceiver" ELSE "commit"]
      BY <1>6 DEF UpdateSender
    <3>2. pc'[t] = IF Transfers(req[t]) THEN "updateReceiver" ELSE "commit"
      BY <1>2, <3>1
    <3>3. CASE Transfers(req[t])
      BY <3>2, <3>3
    <3>4. CASE ~Transfers(req[t])
      BY <1>3, <3>2, <3>4
    <3>5. QED
      BY <3>3, <3>4
  <2>4. QED
    BY <1>1, <2>1, <2>2, <2>3
<1>7. CASE UpdateReceiver(t)
  <2>1. /\ base' = [base EXCEPT ![t][b] = rows[b]] /\ snap' = snap
        /\ pc[t] = "updateReceiver"
    BY <1>7 DEF UpdateReceiver
  <2>2. base'[t][a] = rows[a] /\ base'[t][b] = rows[b]
    BY <1>1, <1>2, <2>1
  <2>3. pc'[t] = "commit"
    BY <1>2, <1>7 DEF UpdateReceiver
  <2>4. QED
    BY <1>1, <2>1, <2>2, <2>3
<1>8. QED
  BY <1>4, <1>5, <1>6, <1>7


LEMMA StepReads == OneProcess /\ ReadInv /\ [Next]_vars => ReadInv'
<1> SUFFICES ASSUME OneProcess, ReadInv, [Next]_vars PROVE ReadInv'
  OBVIOUS
<1>1. TypeOK' /\ MutualExclusion' /\ CallInv'
  BY StepType, StepLocks, StepCall DEF ReadInv
<1>2. ASSUME NEW u \in Threads, pc'[u] = pc[u] \/ pc'[u] \notin Reading,
             pc[u] \in Reading => /\ req'[u] = req[u] /\ snap'[u] = snap[u]
                                 /\ base'[u] = base[u]
                                 /\ rows'[req[u].acc] = rows[req[u].acc]
                                 /\ rows'[req[u].to] = rows[req[u].to]
      PROVE  ReadsOf(u)'
  BY <1>2, ReadsPerThread DEF ReadInv, ReadsOf, Reading
<1>3. ASSUME NEW t \in Threads, NEW u \in Threads, Commit(t) PROVE ReadsOf(u)'
  <2>1. CASE u = t
    <3>1. pc'[u] \notin Reading
      BY <1>3, <2>1 DEF Commit, Goto, ReadInv, TypeOK, Reading
    <3>2. pc'[u] \notin Reading => ReadsOf(u)'
      BY DEF ReadsOf, Reading
    <3>3. QED
      BY <3>1, <3>2
  <2>2. CASE u # t
    <3>1. pc'[u] = pc[u] /\ req' = req /\ snap' = snap /\ base' = base
      BY <1>3, <2>2 DEF Commit, Goto, ReadInv, TypeOK
    <3>2. QED
      BY <1>2, <1>3, <2>2, <3>1, NoWriteUnderLock
  <2>3. QED
    BY <2>1, <2>2
<1>4. ASSUME NEW t \in Threads, NEW u \in Threads, rows' = rows, req' = req,
             \/ GetSender(t) \/ GetReceiver(t) \/ UpdateSender(t) \/ UpdateReceiver(t)
      PROVE  ReadsOf(u)'
  <2>1. CASE u = t
    BY <1>4, <2>1, OwnStepReads
  <2>2. CASE u # t
    <3>1. pc'[u] = pc[u] /\ snap'[u] = snap[u] /\ base'[u] = base[u]
      BY <1>4, <2>2 DEF GetSender, GetReceiver, UpdateSender, UpdateReceiver, Goto,
         ReadInv, TypeOK
    <3>2. QED
      BY <1>2, <1>4, <3>1
  <2>3. QED
    BY <2>1, <2>2
<1>5. ASSUME NEW t \in Threads, NEW u \in Threads, rows' = rows,
             pc'[t] \notin Reading,
             u # t => /\ pc'[u] = pc[u] /\ req'[u] = req[u]
                      /\ snap'[u] = snap[u] /\ base'[u] = base[u]
      PROVE  ReadsOf(u)'
  <2>1. CASE u = t
    BY <1>5, <2>1 DEF ReadsOf, Reading
  <2>2. CASE u # t
    BY <1>2, <1>5, <2>2
  <2>3. QED
    BY <2>1, <2>2
<1>6. ASSUME NEW t \in Threads, NEW u \in Threads, NEW r \in Request, Submit(t, r)
      PROVE  ReadsOf(u)'
  <2>1. pc' \in {pc, [pc EXCEPT ![t] = "lock"]} /\ pc[t] = "idle"
    BY <1>6 DEF Submit, Goto
  <2>2. pc'[t] \notin Reading /\ (u # t => pc'[u] = pc[u])
    BY <2>1 DEF ReadInv, TypeOK, Reading
  <2>3. rows' = rows /\ snap' = snap /\ base' = base /\ (u # t => req'[u] = req[u])
    BY <1>6 DEF Submit, dbVars, ReadInv, TypeOK
  <2>4. QED
    BY <1>5, <2>2, <2>3
<1>7. ASSUME NEW t \in Threads, NEW u \in Threads, rows' = rows, req' = req,
             snap' = snap, base' = base,
             \E s \in Stages \ Reading : pc' = [pc EXCEPT ![t] = s]
      PROVE  ReadsOf(u)'
  <2>1. pc'[t] \notin Reading /\ (u # t => pc'[u] = pc[u])
    BY <1>7 DEF ReadInv, TypeOK
  <2>2. QED
    BY <1>5, <1>7, <2>1
<1>8. ASSUME NEW t \in Threads, NEW u \in Threads,
             \/ Acquire(t) \/ ClaimLookup(t) \/ ClaimInsert(t) \/ ClaimReread(t)
             \/ Complete(t) \/ RefuseRequest(t) \/ PoisonedCall(t) \/ Fails(t)
      PROVE  ReadsOf(u)'
  <2>1. rows' = rows /\ req' = req /\ snap' = snap /\ base' = base
    BY <1>8 DEF Acquire, ClaimLookup, ClaimInsert, ClaimReread, Complete, RefuseRequest,
       PoisonedCall, Fails, Abandon, EndCall, DropClaims, ClaimStorageError,
       TransferAborts, CompleteSwallows, DatabaseError, SavepointError, dbVars
  <2>2. \E s \in Stages \ Reading : pc' = [pc EXCEPT ![t] = s]
    BY <1>8 DEF Acquire, ClaimLookup, ClaimInsert, ClaimReread, Complete, RefuseRequest,
       PoisonedCall, Fails, Abandon, EndCall, DropClaims, ClaimStorageError,
       TransferAborts, CompleteSwallows, DatabaseError, SavepointError, Goto, Stages,
       Reading
  <2>3. QED
    BY <1>7, <2>1, <2>2
<1>9. ASSUME NEW t \in Threads, NEW u \in Threads, Release(t) PROVE ReadsOf(u)'
  <2>1. \E s \in Stages \ Reading : pc' = [pc EXCEPT ![t] = s]
    BY <1>9 DEF Release, Goto, Stages, Reading
  <2>2. pc'[t] \notin Reading /\ (u # t => pc'[u] = pc[u])
    BY <2>1 DEF ReadInv, TypeOK
  <2>3. /\ rows' = rows /\ req' = req
        /\ u # t => snap'[u] = snap[u] /\ base'[u] = base[u]
    BY <1>9 DEF Release, dbVars, ReadInv, TypeOK
  <2>4. QED
    BY <1>5, <2>2, <2>3
<1>10. ASSUME NEW w \in Workers, NEW u \in Threads, Crash(w) PROVE ReadsOf(u)'
  <2>1. /\ rows' = rows /\ req' = req
        /\ IF WorkerOf[u] = w THEN pc'[u] = "idle"
           ELSE pc'[u] = pc[u] /\ snap'[u] = snap[u] /\ base'[u] = base[u]
    BY <1>10 DEF Crash, dbVars
  <2>2. CASE WorkerOf[u] = w
    BY <2>1, <2>2 DEF ReadsOf, Reading
  <2>3. CASE WorkerOf[u] # w
    BY <1>2, <2>1, <2>3
  <2>4. QED
    BY <2>2, <2>3
<1>11. ASSUME NEW u \in Threads, Finished \/ UNCHANGED vars PROVE ReadsOf(u)'
  <2>1. UNCHANGED <<rows, req, snap, base, pc>>
    BY <1>11 DEF Finished, vars, dbVars, callVars
  <2>2. QED
    BY <1>2, <2>1
<1>12. ASSUME NEW u \in Threads PROVE ReadsOf(u)'
  <2>1. ASSUME NEW t \in Threads, Advance(t) PROVE ReadsOf(u)'
    <3>1. CASE Commit(t)
      BY <1>3, <3>1
    <3>2. CASE GetSender(t) \/ GetReceiver(t) \/ UpdateSender(t) \/ UpdateReceiver(t)
      <4>1. rows' = rows /\ req' = req
        BY <3>2 DEF GetSender, GetReceiver, UpdateSender, UpdateReceiver, dbVars
      <4>2. QED
        BY <1>4, <3>2, <4>1
    <3>3. QED
      BY <1>8, <1>9, <2>1, <3>1, <3>2 DEF Advance
  <2>2. QED
    BY <1>6, <1>8, <1>10, <1>11, <2>1 DEF Next
<1>13. (\A u \in Threads : ReadsOf(u)') => ReadsAreCurrent'
  BY DEF ReadsAreCurrent, ReadsOf, Reading
<1>14. QED
  BY <1>1, <1>12, <1>13 DEF ReadInv

-------------------------------------------------------------------------------
(* The ledger of one process *)

LedgerInv == ReadInv /\ StatementAddsUp /\ NeverOverdrawn

LEMMA InitLedger == Init => LedgerInv
<1> SUFFICES ASSUME Init PROVE LedgerInv
  OBVIOUS
<1>1. \A a \in Accounts : txns[a] = <<>> /\ rows[a] = OpeningRow[a]
  BY DEF Init
<1>2. \A a \in Accounts : Len(txns[a]) = 0 /\ 1 .. Len(txns[a]) = {}
  BY <1>1
<1>3. StatementAddsUp
  BY <1>1, <1>2 DEF StatementAddsUp, BalanceBefore
<1>4. NeverOverdrawn
  BY <1>1, ConstantsAssumption DEF NeverOverdrawn
<1>5. QED
  BY <1>3, <1>4, InitReads DEF LedgerInv

\* With current reads a commit adds to each touched account exactly what its new
\* statement row says.
LEMMA CommitBalances ==
    ASSUME ReadInv, NEW t \in Threads, Commit(t), NEW a \in Accounts
    PROVE  /\ a \notin Touched(t) => rows'[a] = rows[a]
           /\ a \in Touched(t) =>
                 /\ rows'[a].balance = rows[a].balance + Delta(req[t], a)
                 /\ EntryFor(t, a).balance = rows'[a].balance
                 /\ Signed(EntryFor(t, a)) = Delta(req[t], a)
<1>1. rows'[a] = IF a \in Touched(t) THEN Written(t, a) ELSE rows[a]
  BY DEF Commit
<1>2. CASE a \in Touched(t)
  <2>1. snap[t][a] = rows[a] /\ base[t][a] = rows[a]
    BY <1>2 DEF ReadInv, ReadsAreCurrent, Commit, Touched
  <2>2. NewBalance(t, a) = rows[a].balance + Delta(req[t], a)
    BY <2>1 DEF NewBalance
  <2>3. Written(t, a).balance = NewBalance(t, a)
    <3>1. Written(t, a).balance = Merge(NewBalance(t, a), rows[a].balance, rows[a].balance)
      BY <2>1 DEF Written
    <3>2. QED
      BY <3>1 DEF Merge
  <2>4. EntryFor(t, a).balance = NewBalance(t, a)
    BY DEF EntryFor
  <2>5. Signed(EntryFor(t, a)) = Delta(req[t], a)
    <3>1. req[t].amount \in Int
      BY DEF ReadInv, TypeOK, Call
    <3>2. Deposits(req[t]) => a = req[t].acc
      BY <1>2 DEF ReadInv, CallInv, CallsAreValid, Touched, Deposits, Transfers
    <3>3. a # req[t].acc => Transfers(req[t])
      BY <1>2 DEF ReadInv, CallInv, CallsAreValid, Touched
    <3>4. /\ EntryFor(t, a).type = EntryType(req[t], a)
          /\ EntryFor(t, a).amount = req[t].amount
      BY DEF EntryFor
    <3>5. QED
      BY <3>1, <3>2, <3>3, <3>4 DEF Signed, EntryType, Delta, Deposits, Transfers
  <2>6. QED
    BY <1>1, <1>2, <2>2, <2>3, <2>4, <2>5
<1>3. CASE a \notin Touched(t)
  BY <1>1, <1>3
<1>4. QED
  BY <1>2, <1>3

\* What StatementAddsUp says of statement s and balance b of account a.
Before(a, s, i) == IF i = 1 THEN OpeningRow[a].balance ELSE s[i - 1].balance
AddsUp(a, s, b) ==
    /\ \A i \in 1 .. Len(s) : s[i].balance = Before(a, s, i) + Signed(s[i])
    /\ b = Before(a, s, Len(s) + 1)

LEMMA AddsUpPerAccount ==
    StatementAddsUp <=> \A a \in Accounts : AddsUp(a, txns[a], rows[a].balance)
  BY DEF StatementAddsUp, AddsUp, BalanceBefore, Before

LEMMA CommitAddsUp ==
    ASSUME LedgerInv, NEW t \in Threads, Commit(t)
    PROVE  StatementAddsUp'
<1>1. ASSUME NEW a \in Accounts PROVE AddsUp(a, txns'[a], rows'[a].balance)
  <2> DEFINE n == Len(txns[a])
             s == txns[a]
             e == EntryFor(t, a)
  <2>1. n \in Nat /\ s \in Seq(Entry)
    BY CommitAppends DEF LedgerInv, ReadInv
  <2>2. AddsUp(a, s, rows[a].balance)
    BY AddsUpPerAccount DEF LedgerInv
  <2>3. CASE a \in Touched(t)
    <3> DEFINE s2 == txns'[a]
    <3>1. /\ Len(s2) = n + 1 /\ s2[n + 1] = e
          /\ \A i \in 1 .. n : s2[i] = s[i]
      BY <2>3, CommitAppends DEF LedgerInv, ReadInv
    <3>2. e.balance = rows[a].balance + Signed(e) /\ e.balance = rows'[a].balance
      BY <2>3, CommitBalances DEF LedgerInv
    <3>3. \A i \in 1 .. n + 1 : Before(a, s2, i) = Before(a, s, i)
      BY <2>1, <3>1 DEF Before
    <3>4. ASSUME NEW i \in 1 .. n + 1 PROVE s2[i].balance = Before(a, s2, i) + Signed(s2[i])
      <4>1. CASE i \in 1 .. n
        BY <2>1, <2>2, <3>1, <3>3, <4>1 DEF AddsUp
      <4>2. CASE i = n + 1
        BY <2>1, <2>2, <3>1, <3>2, <3>3, <4>2 DEF AddsUp
      <4>3. QED
        BY <2>1, <4>1, <4>2
    <3>5. Before(a, s2, n + 1 + 1) = e.balance
      BY <2>1, <3>1 DEF Before
    <3>6. QED
      BY <2>1, <3>1, <3>2, <3>4, <3>5 DEF AddsUp
  <2>4. CASE a \notin Touched(t)
    <3>1. txns'[a] = txns[a] /\ rows'[a] = rows[a]
      BY <2>4, CommitAppends, CommitBalances DEF LedgerInv, ReadInv
    <3>2. QED
      BY <2>2, <3>1
  <2>5. QED
    BY <2>3, <2>4
<1>2. StatementAddsUp' <=> \A a \in Accounts : AddsUp(a, txns'[a], rows'[a].balance)
  BY DEF StatementAddsUp, AddsUp, BalanceBefore, Before
<1>3. QED
  BY <1>1, <1>2

\* The balance checked is the balance debited.
LEMMA CommitStaysPositive ==
    ASSUME LedgerInv, NEW t \in Threads, Commit(t)
    PROVE  NeverOverdrawn'
<1> SUFFICES ASSUME NEW a \in Accounts PROVE rows'[a].balance >= 0
  BY DEF NeverOverdrawn
<1>1. rows[a].balance \in Int /\ rows[a].balance >= 0
  BY DEF LedgerInv, NeverOverdrawn, ReadInv, TypeOK, Row
<1>2. CASE a \in Touched(t)
  <2>1. rows'[a].balance = rows[a].balance + Delta(req[t], a)
    BY <1>2, CommitBalances DEF LedgerInv
  <2>2. req[t].amount \in Int /\ req[t].amount > 0
    BY DEF LedgerInv, ReadInv, TypeOK, Call, CallInv, CallsAreValid, IsValid, Commit
  <2>3. Covers(req[t], rows[req[t].acc])
    BY DEF LedgerInv, ReadInv, ReadsAreCurrent, Permitted, Commit
  <2>4. QED
    BY <1>1, <2>1, <2>2, <2>3 DEF Delta, Covers
<1>3. CASE a \notin Touched(t)
  BY <1>1, <1>3, CommitBalances DEF LedgerInv
<1>4. QED
  BY <1>2, <1>3

LEMMA StepLedger == OneProcess /\ LedgerInv /\ [Next]_vars => LedgerInv'
<1> SUFFICES ASSUME OneProcess, LedgerInv, [Next]_vars PROVE LedgerInv'
  OBVIOUS
<1>1. ReadInv'
  BY StepReads DEF LedgerInv
<1>2. ASSUME rows' = rows, txns' = txns PROVE StatementAddsUp' /\ NeverOverdrawn'
  BY <1>2 DEF LedgerInv, StatementAddsUp, NeverOverdrawn, BalanceBefore
<1>3. QED
  BY <1>1, <1>2, CommitAddsUp, CommitStaysPositive, OnlyCommitWrites DEF LedgerInv

\* Under the locks of one process no update is lost: every statement adds up to its
\* account's balance, for any number of threads, crashes and failed statements.
THEOREM NoLostUpdate ==
    ASSUME OneProcess
    PROVE  Spec => []StatementAddsUp
<1>1. Init => LedgerInv
  BY InitLedger
<1>2. LedgerInv /\ [Next]_vars => LedgerInv'
  BY StepLedger
<1>3. LedgerInv => StatementAddsUp
  BY DEF LedgerInv
<1>4. QED
  BY <1>1, <1>2, <1>3, PTL DEF Spec

\* Nor does any account of one process go below zero.
THEOREM NoOverdraft ==
    ASSUME OneProcess
    PROVE  Spec => []NeverOverdrawn
<1>1. Init => LedgerInv
  BY InitLedger
<1>2. LedgerInv /\ [Next]_vars => LedgerInv'
  BY StepLedger
<1>3. LedgerInv => NeverOverdrawn
  BY DEF LedgerInv
<1>4. QED
  BY <1>1, <1>2, <1>3, PTL DEF Spec

-------------------------------------------------------------------------------
(* Idempotency keys *)

LEMMA InitClaims == Init => ClaimsAreExclusive
  BY DEF Init, ClaimsAreExclusive, Claiming

\* At most one session has an uncommitted claim on a key, and none while the key has a
\* committed record.
LEMMA StepClaims == TypeOK /\ ClaimsAreExclusive /\ [Next]_vars => ClaimsAreExclusive'
<1> SUFFICES ASSUME TypeOK, ClaimsAreExclusive, [Next]_vars PROVE ClaimsAreExclusive'
  OBVIOUS
<1>a. /\ pc \in [Threads -> Stages]
      /\ req \in [Threads -> Call]
      /\ idem \in [Keys -> Records]
      /\ flushed \in [Threads -> SUBSET Keys]
      /\ NoKey \notin Keys
  BY ConstantsAssumption DEF TypeOK
<1> USE <1>a DEF ClaimsAreExclusive, Claiming, Keyed, Goto
<1>1. ASSUME NEW t \in Threads, NEW r \in Request, Submit(t, r)
      PROVE  ClaimsAreExclusive'
  <2>1. /\ pc' \in {pc, [pc EXCEPT ![t] = "lock"]} /\ pc[t] = "idle"
        /\ req' = [req EXCEPT ![t] = r] /\ flushed' = flushed /\ idem' = idem
    BY <1>1 DEF Submit, dbVars
  <2>2. QED
    BY <2>1
<1>2. ASSUME NEW t \in Threads,
             Acquire(t) \/ ClaimLookup(t) \/ ClaimReread(t) \/ Release(t)
      PROVE  ClaimsAreExclusive'
  <2>1. req' = req /\ flushed' = flushed /\ idem' = idem
    BY <1>2 DEF Acquire, ClaimLookup, ClaimReread, Release, dbVars
  <2>2. PICK s \in Stages : /\ pc' = [pc EXCEPT ![t] = s]
                            /\ s # "complete"
                            /\ s \in Claiming => ~Keyed(t)
                            /\ s \in {"insert", "reclaim"} => Keyed(t)
    BY <1>2 DEF Acquire, ClaimLookup, ClaimReread, Release, Stages
  <2>3. QED
    BY <2>1, <2>2
<1>3. ASSUME NEW t \in Threads, ClaimInsert(t) PROVE ClaimsAreExclusive'
  <2>1. /\ pc[t] = "insert" /\ req' = req /\ idem' = idem
        /\ \A u \in Threads : req[t].key \notin flushed[u]
    BY <1>3 DEF ClaimInsert, InsertMayRun, dbVars
  <2>2. CASE idem[req[t].key] = "absent"
    <3>1. /\ flushed' = [flushed EXCEPT ![t] = @ \cup {req[t].key}]
          /\ pc' = [pc EXCEPT ![t] = "getSender"]
      BY <1>3, <2>2 DEF ClaimInsert
    <3>2. QED
      BY <2>1, <2>2, <3>1
  <2>3. CASE idem[req[t].key] # "absent"
    <3>1. flushed' = [flushed EXCEPT ![t] = {}] /\ pc' = [pc EXCEPT ![t] = "reclaim"]
      BY <1>3, <2>3 DEF ClaimInsert, DropClaims
    <3>2. QED
      BY <2>1, <3>1
  <2>4. QED
    BY <2>2, <2>3
<1>4. ASSUME NEW t \in Threads,
             \/ GetSender(t) \/ GetReceiver(t) \/ UpdateSender(t) \/ UpdateReceiver(t)
      PROVE  ClaimsAreExclusive'
  <2>1. /\ pc[t] \in Claiming /\ req' = req /\ flushed' = flushed /\ idem' = idem
        /\ \E s \in Claiming : pc' = [pc EXCEPT ![t] = s]
    BY <1>4 DEF GetSender, GetReceiver, UpdateSender, UpdateReceiver, dbVars
  <2>2. QED
    BY <2>1
<1>5. ASSUME NEW t \in Threads, NEW s \in {"complete", "release"}, pc[t] \in Claiming,
             pc' = [pc EXCEPT ![t] = s], s = "complete" => Keyed(t),
             s = "complete" => idem'[req[t].key] = "pending",
             flushed' = [flushed EXCEPT ![t] = {}], req' = req,
             \A k \in Keys \ flushed[t] : idem'[k] = idem[k]
      PROVE  ClaimsAreExclusive'
  <2>1. \A u \in Threads : pc[u] = "complete" => req[u].key \in Keys \ flushed[t]
    BY DEF Call
  <2>2. \A u \in Threads \ {t} : \A k \in flushed[u] : idem'[k] = "absent"
    BY <1>5
  <2>3. \A u \in Threads \ {t} : pc[u] = "complete" =>
            /\ idem'[req[u].key] = "pending"
            /\ s = "complete" => req[u].key # req[t].key
    BY <1>5, <2>1
  <2>4. QED
    BY <1>5, <2>2, <2>3
<1>6. ASSUME NEW t \in Threads, Commit(t) PROVE ClaimsAreExclusive'
  <2>1. /\ pc[t] = "commit" /\ req' = req /\ flushed' = [flushed EXCEPT ![t] = {}]
        /\ idem' = [k \in Keys |-> IF k \in flushed[t] THEN "pending" ELSE idem[k]]
        /\ pc' = [pc EXCEPT ![t] = IF Keyed(t) THEN "complete" ELSE "release"]
    BY <1>6 DEF Commit, WithClaims, DropClaims
  <2>2. Keyed(t) => req[t].key \in flushed[t] /\ idem'[req[t].key] = "pending"
    BY <2>1
  <2>3. QED
    BY <1>5, <2>1, <2>2
<1>7. ASSUME NEW t \in Threads, RefuseRequest(t), Keyed(t) PROVE ClaimsAreExclusive'
  <2>1. /\ pc[t] = "refuse" /\ req' = req /\ flushed' = [flushed EXCEPT ![t] = {}]
        /\ idem' = [WithClaims(t) EXCEPT ![req[t].key] = "refused"]
        /\ pc' = [pc EXCEPT ![t] = "release"]
    BY <1>7 DEF RefuseRequest, DropClaims
  <2>2. \A k \in Keys \ flushed[t] : idem'[k] = idem[k]
    <3>1. req[t].key \in flushed[t]
      BY <1>7, <2>1
    <3>2. QED
      BY <2>1, <3>1 DEF WithClaims
  <2>3. QED
    BY <1>5, <2>1, <2>2
<1>8. ASSUME NEW t \in Threads, RefuseRequest(t), ~Keyed(t) PROVE ClaimsAreExclusive'
  <2>1. /\ req' = req /\ flushed' = flushed /\ idem' = idem
        /\ pc' = [pc EXCEPT ![t] = "release"]
    BY <1>8 DEF RefuseRequest
  <2>2. QED
    BY <2>1
<1>9. ASSUME NEW t \in Threads, Complete(t) PROVE ClaimsAreExclusive'
  <2>1. /\ pc[t] = "complete" /\ req' = req /\ flushed' = flushed
        /\ idem' = [idem EXCEPT ![req[t].key] = "ok"]
        /\ pc' = [pc EXCEPT ![t] = "release"]
    BY <1>9 DEF Complete
  <2>2. req[t].key \in Keys /\ idem[req[t].key] = "pending"
    BY <2>1 DEF Call
  <2>3. QED
    BY <2>1, <2>2
<1>10. ASSUME NEW t \in Threads, NEW a, EndCall(t, a), flushed' = flushed \/ DropClaims(t)
       PROVE  ClaimsAreExclusive'
  <2>1. /\ req' = req /\ idem' = idem /\ pc' = [pc EXCEPT ![t] = "release"]
        /\ flushed' = flushed \/ flushed' = [flushed EXCEPT ![t] = {}]
    BY <1>10 DEF EndCall, DropClaims, dbVars
  <2>2. QED
    BY <2>1
<1>11. ASSUME NEW t \in Threads, Fails(t) \/ PoisonedCall(t) PROVE ClaimsAreExclusive'
  <2>1. \E a : EndCall(t, a) /\ (flushed' = flushed \/ DropClaims(t))
    BY <1>11 DEF Fails, ClaimStorageError, TransferAborts, CompleteSwallows,
       DatabaseError, SavepointError, PoisonedCall, Abandon
  <2>2. QED
    BY <1>10, <2>1
<1>12. ASSUME NEW w \in Workers, Crash(w) PROVE ClaimsAreExclusive'
  <2>1. /\ req' = req /\ idem' = idem
        /\ pc' = [t \in Threads |-> IF WorkerOf[t] = w THEN "idle" ELSE pc[t]]
        /\ flushed' = [t \in Threads |-> IF WorkerOf[t] = w THEN {} ELSE flushed[t]]
    BY <1>12 DEF Crash, dbVars
  <2>2. QED
    BY <2>1
<1>13. CASE Finished \/ UNCHANGED vars
  BY <1>13 DEF Finished, vars, callVars, dbVars
<1>14. QED
  BY <1>1, <1>2, <1>3, <1>4, <1>6, <1>7, <1>8, <1>9, <1>11, <1>12, <1>13
     DEF Next, Advance

KeyInv ==
    /\ TypeOK /\ ClaimsAreExclusive /\ StampsArePast
    /\ MovementsAreRecorded /\ KeyMovesOnce

\* What a commit makes of the idempotency table.
LEMMA CommitRecords ==
    ASSUME TypeOK, ClaimsAreExclusive, NEW t \in Threads, Commit(t)
    PROVE  /\ \A k \in Keys : idem'[k] = IF k \in flushed[t] THEN "pending" ELSE idem[k]
           /\ \A k \in flushed[t] : idem[k] = "absent"
           /\ Keyed(t) => req[t].key \in Keys /\ req[t].key \in flushed[t]
<1>1. Keyed(t) => req[t].key \in Keys
  BY DEF Keyed, TypeOK, Call
<1>2. QED
  BY <1>1 DEF Commit, WithClaims, ClaimsAreExclusive, Claiming

\* What the recording of a refusal makes of it.
LEMMA RefusalRecords ==
    ASSUME TypeOK, ClaimsAreExclusive, NEW t \in Threads, RefuseRequest(t), NEW k \in Keys
    PROVE  \/ idem'[k] = idem[k]
           \/ k \in flushed[t] /\ idem[k] = "absent" /\ Keyed(t)
              /\ idem'[k] = IF k = req[t].key THEN "refused" ELSE "pending"
<1>1. CASE Keyed(t)
  <2>1. idem' = [WithClaims(t) EXCEPT ![req[t].key] = "refused"] /\ pc[t] = "refuse"
    BY <1>1 DEF RefuseRequest
  <2>2. idem'[k] = IF k = req[t].key THEN "refused"
                   ELSE IF k \in flushed[t] THEN "pending" ELSE idem[k]
    BY <2>1 DEF WithClaims
  <2>3. req[t].key \in flushed[t] /\ \A j \in flushed[t] : idem[j] = "absent"
    BY <1>1, <2>1 DEF ClaimsAreExclusive, Claiming
  <2>4. QED
    BY <1>1, <2>2, <2>3
<1>2. CASE ~Keyed(t)
  BY <1>2 DEF RefuseRequest
<1>3. QED
  BY <1>1, <1>2

\* The keys under which money has moved after a commit.
LEMMA CommitMoves ==
    ASSUME TypeOK, NEW t \in Threads, Commit(t), NEW k
    PROVE  MovedUnder(k)' <=> MovedUnder(k) \/ req[t].key = k
<1>1. ASSUME MovedUnder(k) PROVE MovedUnder(k)'
  <2>1. PICK a \in Accounts : \E i \in 1 .. Len(txns[a]) : txns[a][i].key = k
    BY <1>1 DEF MovedUnder
  <2>2. PICK i \in 1 .. Len(txns[a]) : txns[a][i].key = k
    BY <2>1
  <2>3. i \in 1 .. Len(txns'[a]) /\ txns'[a][i].key = k
    BY <2>2, CommitAppends
  <2>4. QED
    BY <2>3 DEF MovedUnder
<1>2. ASSUME req[t].key = k PROVE MovedUnder(k)'
  <2>1. req[t].acc \in Accounts /\ req[t].acc \in Touched(t)
    BY DEF TypeOK, Call, Touched
  <2>2. PICK a \in Accounts : a \in Touched(t)
    BY <2>1
  <2>3. /\ Len(txns[a]) + 1 \in 1 .. Len(txns'[a])
        /\ txns'[a][Len(txns[a]) + 1] = EntryFor(t, a)
    BY <2>2, CommitAppends
  <2>4. EntryFor(t, a).key = k
    BY <1>2 DEF EntryFor
  <2>5. QED
    BY <2>3, <2>4 DEF MovedUnder
<1>3. ASSUME MovedUnder(k)' PROVE MovedUnder(k) \/ req[t].key = k
  <2>1. PICK a \in Accounts : \E i \in 1 .. Len(txns'[a]) : txns'[a][i].key = k
    BY <1>3 DEF MovedUnder
  <2>2. PICK i \in 1 .. Len(txns'[a]) : txns'[a][i].key = k
    BY <2>1
  <2>3. CASE i \in 1 .. Len(txns[a])
    <3>1. txns[a][i].key = k
      BY <2>2, <2>3, CommitAppends
    <3>2. QED
      BY <2>3, <3>1 DEF MovedUnder
  <2>4. CASE i \notin 1 .. Len(txns[a])
    <3>1. txns'[a][i] = EntryFor(t, a)
      BY <2>2, <2>4, CommitAppends
    <3>2. QED
      BY <2>2, <3>1 DEF EntryFor
  <2>5. QED
    BY <2>3, <2>4
<1>4. QED
  BY <1>1, <1>2, <1>3

LEMMA InitKeys == Init => KeyInv
<1> SUFFICES ASSUME Init PROVE KeyInv
  OBVIOUS
<1>1. \A a \in Accounts : 1 .. Len(txns[a]) = {}
  BY DEF Init
<1>2. StampsArePast /\ MovementsAreRecorded /\ KeyMovesOnce
  BY <1>1 DEF StampsArePast, MovementsAreRecorded, KeyMovesOnce, MovedUnder
<1>3. QED
  BY <1>2, InitType, InitClaims DEF KeyInv

\* A commit under a key finds the key without a record, so no row carries it yet.
LEMMA CommitKeys ==
    ASSUME KeyInv, NEW t \in Threads, Commit(t)
    PROVE  StampsArePast' /\ MovementsAreRecorded' /\ KeyMovesOnce'
<1> USE DEF KeyInv
<1>1. clock \in Nat /\ clock' = clock + 1
  BY DEF Commit, TypeOK
<1>2. ASSUME NEW a \in Accounts, NEW i \in 1 .. Len(txns'[a])
      PROVE  \/ i \in 1 .. Len(txns[a]) /\ txns'[a][i] = txns[a][i]
             \/ /\ i \notin 1 .. Len(txns[a])
                /\ txns'[a][i].stamp = clock /\ txns'[a][i].key = req[t].key
  <2>1. CASE i \in 1 .. Len(txns[a])
    BY <2>1, CommitAppends
  <2>2. CASE i \notin 1 .. Len(txns[a])
    <3>1. txns'[a][i] = EntryFor(t, a)
      BY <2>2, CommitAppends
    <3>2. QED
      BY <2>2, <3>1 DEF EntryFor
  <2>3. QED
    BY <2>1, <2>2
<1>3. Keyed(t) => req[t].key \in Keys /\ ~MovedUnder(req[t].key)
  BY CommitRecords DEF MovementsAreRecorded
<1>4. StampsArePast'
  <2>1. ASSUME NEW a \in Accounts, NEW i \in 1 .. Len(txns'[a])
        PROVE  txns'[a][i].stamp < clock'
    <3>1. CASE i \in 1 .. Len(txns[a])
      <4>1. txns'[a][i] = txns[a][i] /\ txns[a][i].stamp < clock
        BY <1>2, <3>1 DEF StampsArePast
      <4>2. txns[a][i] \in Entry
        BY <3>1, CommitAppends
      <4>3. txns[a][i].stamp \in Nat
        BY <4>2 DEF Entry
      <4>4. QED
        BY <1>1, <4>1, <4>3
    <3>2. CASE i \notin 1 .. Len(txns[a])
      BY <1>1, <1>2, <3>2
    <3>3. QED
      BY <3>1, <3>2
  <2>2. QED
    BY <2>1 DEF StampsArePast
<1>5. MovementsAreRecorded'
  <2>1. ASSUME NEW k \in Keys, MovedUnder(k)' PROVE idem'[k] \in {"pending", "ok"}
    <3>1. MovedUnder(k) \/ req[t].key = k
      BY <2>1, CommitMoves
    <3>2. MovedUnder(k) => idem[k] \in {"pending", "ok"}
      BY DEF MovementsAreRecorded
    <3>3. req[t].key = k => k \in flushed[t]
      BY CommitRecords, ConstantsAssumption DEF Keyed
    <3>4. QED
      BY <3>1, <3>2, <3>3, CommitRecords
  <2>2. QED
    BY <2>1 DEF MovementsAreRecorded
<1>6. KeyMovesOnce'
  <2>1. ASSUME NEW a \in Accounts, NEW b \in Accounts, NEW i \in 1 .. Len(txns'[a]),
               NEW j \in 1 .. Len(txns'[b]), txns'[a][i].key = txns'[b][j].key,
               txns'[a][i].key # NoKey
        PROVE  txns'[a][i].stamp = txns'[b][j].stamp
    <3>1. CASE i \in 1 .. Len(txns[a]) /\ j \in 1 .. Len(txns[b])
      <4>1. txns'[a][i] = txns[a][i] /\ txns'[b][j] = txns[b][j]
        BY <1>2, <3>1
      <4>2. QED
        BY <2>1, <3>1, <4>1 DEF KeyMovesOnce
    <3>2. CASE i \notin 1 .. Len(txns[a]) /\ j \notin 1 .. Len(txns[b])
      BY <1>2, <3>2
    <3>3. CASE i \in 1 .. Len(txns[a]) /\ j \notin 1 .. Len(txns[b])
      <4>1. txns[a][i].key = req[t].key /\ Keyed(t)
        BY <1>2, <2>1, <3>3 DEF Keyed
      <4>2. QED
        BY <1>3, <3>3, <4>1 DEF MovedUnder
    <3>4. CASE i \notin 1 .. Len(txns[a]) /\ j \in 1 .. Len(txns[b])
      <4>1. txns[b][j].key = req[t].key /\ Keyed(t)
        BY <1>2, <2>1, <3>4 DEF Keyed
      <4>2. QED
        BY <1>3, <3>4, <4>1 DEF MovedUnder
    <3>5. QED
      BY <3>1, <3>2, <3>3, <3>4
  <2>2. QED
    BY <2>1 DEF KeyMovesOnce
<1>7. QED
  BY <1>4, <1>5, <1>6

\* The record of a movement is never withdrawn.
LEMMA RecordsStay ==
    ASSUME TypeOK, ClaimsAreExclusive, [Next]_vars, NEW k \in Keys,
           idem[k] \in {"pending", "ok"}
    PROVE  idem'[k] \in {"pending", "ok"}
<1>1. ASSUME NEW t \in Threads, Commit(t) PROVE idem'[k] \in {"pending", "ok"}
  BY <1>1, CommitRecords
<1>2. ASSUME NEW t \in Threads, Complete(t) PROVE idem'[k] \in {"pending", "ok"}
  BY <1>2 DEF Complete, TypeOK
<1>3. ASSUME NEW t \in Threads, RefuseRequest(t) PROVE idem'[k] \in {"pending", "ok"}
  BY <1>3, RefusalRecords
<1>4. CASE UNCHANGED dbVars
  BY <1>4 DEF dbVars
<1>5. QED
  BY <1>1, <1>2, <1>3, <1>4, OtherStepsKeepDatabase

LEMMA StepKeys == KeyInv /\ [Next]_vars => KeyInv'
<1> SUFFICES ASSUME KeyInv, [Next]_vars PROVE KeyInv'
  OBVIOUS
<1> USE DEF KeyInv
<1>1. TypeOK' /\ ClaimsAreExclusive'
  BY StepType, StepClaims
<1>2. ASSUME UNCHANGED <<txns, clock>>
      PROVE  StampsArePast' /\ MovementsAreRecorded' /\ KeyMovesOnce'
  <2>1. ASSUME NEW k \in Keys, MovedUnder(k)' PROVE idem'[k] \in {"pending", "ok"}
    <3>1. MovedUnder(k)
      BY <1>2, <2>1 DEF MovedUnder
    <3>2. QED
      BY <3>1, RecordsStay DEF MovementsAreRecorded
  <2>2. QED
    BY <1>2, <2>1 DEF StampsArePast, MovementsAreRecorded, KeyMovesOnce
<1>3. ASSUME NEW t \in Threads, Complete(t) \/ RefuseRequest(t)
      PROVE  UNCHANGED <<txns, clock>>
  BY <1>3 DEF Complete, RefuseRequest
<1>4. StampsArePast' /\ MovementsAreRecorded' /\ KeyMovesOnce'
  BY <1>2, <1>3, CommitKeys, OtherStepsKeepDatabase DEF dbVars
<1>5. QED
  BY <1>1, <1>4

\* A key never moves money twice, however many threads, worker processes, crashes and
\* failed statements there are.
THEOREM NoKeyMovesTwice == Spec => []KeyMovesOnce
<1>1. KeyInv => KeyMovesOnce
  BY DEF KeyInv
<1>2. QED
  BY <1>1, InitKeys, StepKeys, PTL DEF Spec

-------------------------------------------------------------------------------
\* Without savepoint failures: what the record of a key tells.

LEMMA StepOrphans ==
    ASSUME ~SavepointMayFail, TypeOK, ClaimsAreExclusive, NoOrphanClaims, [Next]_vars
    PROVE  NoOrphanClaims'
<1>a. /\ pc \in [Threads -> Stages]
      /\ req \in [Threads -> Call]
      /\ flushed \in [Threads -> SUBSET Keys]
  BY DEF TypeOK
<1> USE <1>a DEF NoOrphanClaims, Claiming, Keyed, Goto
<1>1. ASSUME NEW t \in Threads, NEW r \in Request, Submit(t, r) PROVE NoOrphanClaims'
  <2>1. /\ pc' \in {pc, [pc EXCEPT ![t] = "lock"]} /\ pc[t] = "idle"
        /\ req' = [req EXCEPT ![t] = r] /\ flushed' = flushed
    BY <1>1 DEF Submit
  <2>2. flushed[t] = {}
    BY <2>1
  <2>3. QED
    BY <2>1, <2>2
<1>2. ASSUME NEW t \in Threads, NEW s \in Stages, req' = req, flushed' = flushed,
             pc' = [pc EXCEPT ![t] = s],
             flushed[t] = {} \/ pc[t] \notin Claiming \/ s \in Claiming
      PROVE  NoOrphanClaims'
  BY <1>2
<1>3. ASSUME NEW t \in Threads,
             \/ Acquire(t) \/ ClaimLookup(t) \/ ClaimReread(t) \/ GetSender(t)
             \/ GetReceiver(t) \/ UpdateSender(t) \/ UpdateReceiver(t) \/ Complete(t)
             \/ Release(t)
      PROVE  NoOrphanClaims'
  <2>1. req' = req /\ flushed' = flushed
    BY <1>3 DEF Acquire, ClaimLookup, ClaimReread, GetSender, GetReceiver, UpdateSender,
       UpdateReceiver, Complete, Release
  <2>2. \E s \in Stages : /\ pc' = [pc EXCEPT ![t] = s]
                          /\ pc[t] \notin Claiming \/ s \in Claiming
    BY <1>3 DEF Acquire, ClaimLookup, ClaimReread, GetSender, GetReceiver, UpdateSender,
       UpdateReceiver, Complete, Release, Stages
  <2>3. QED
    BY <1>2, <2>1, <2>2
<1>4. ASSUME NEW t \in Threads, ClaimInsert(t) PROVE NoOrphanClaims'
  <2>1. pc[t] = "insert" /\ req' = req /\ flushed[t] = {} /\ req[t].key # NoKey
    BY <1>4 DEF ClaimInsert
  <2>2. \/ /\ flushed' = [flushed EXCEPT ![t] = @ \cup {req[t].key}]
           /\ pc' = [pc EXCEPT ![t] = "getSender"]
        \/ /\ flushed' = [flushed EXCEPT ![t] = {}]
           /\ pc' = [pc EXCEPT ![t] = "reclaim"]
    BY <1>4 DEF ClaimInsert, DropClaims
  <2>3. QED
    BY <2>1, <2>2
<1>5. ASSUME NEW t \in Threads, NEW s \in Stages, req' = req, DropClaims(t),
             pc' = [pc EXCEPT ![t] = s]
      PROVE  NoOrphanClaims'
  BY <1>5 DEF DropClaims
<1>6. ASSUME NEW t \in Threads, Commit(t) \/ (RefuseRequest(t) /\ Keyed(t))
      PROVE  NoOrphanClaims'
  BY <1>5, <1>6 DEF Commit, RefuseRequest, Stages
<1>7. ASSUME NEW t \in Threads, RefuseRequest(t), ~Keyed(t) PROVE NoOrphanClaims'
  <2>1. /\ req' = req /\ flushed' = flushed /\ flushed[t] = {}
        /\ pc' = [pc EXCEPT ![t] = "release"]
    BY <1>7 DEF RefuseRequest
  <2>2. QED
    BY <1>2, <2>1 DEF Stages
<1>8. ASSUME NEW t \in Threads, Fails(t) \/ PoisonedCall(t) PROVE NoOrphanClaims'
  <2>1. /\ req' = req /\ pc' = [pc EXCEPT ![t] = "release"] /\ DropClaims(t)
    BY <1>8 DEF Fails, ClaimStorageError, TransferAborts, CompleteSwallows,
       DatabaseError, SavepointError, PoisonedCall, Abandon, EndCall
  <2>2. QED
    BY <1>5, <2>1 DEF Stages
<1>9. ASSUME NEW w \in Workers, Crash(w) PROVE NoOrphanClaims'
  <2>1. /\ req' = req
        /\ pc' = [t \in Threads |-> IF WorkerOf[t] = w THEN "idle" ELSE pc[t]]
        /\ flushed' = [t \in Threads |-> IF WorkerOf[t] = w THEN {} ELSE flushed[t]]
    BY <1>9 DEF Crash
  <2>2. QED
    BY <2>1
<1>10. CASE Finished \/ UNCHANGED vars
  BY <1>10 DEF Finished, vars, callVars
<1>11. QED
  BY <1>1, <1>3, <1>4, <1>6, <1>7, <1>8, <1>9, <1>10 DEF Next, Advance

OutcomeInv == KeyInv /\ NoOrphanClaims /\ KeyTellsOutcome

LEMMA InitOutcome == Init => OutcomeInv
<1> SUFFICES ASSUME Init PROVE OutcomeInv
  OBVIOUS
<1>1. \A a \in Accounts : 1 .. Len(txns[a]) = {}
  BY DEF Init
<1>2. KeyTellsOutcome /\ NoOrphanClaims
  BY <1>1 DEF Init, KeyTellsOutcome, MovedUnder, NoOrphanClaims
<1>3. QED
  BY <1>2, InitKeys DEF OutcomeInv

LEMMA StepOutcome ==
    ASSUME ~SavepointMayFail, OutcomeInv, [Next]_vars
    PROVE  OutcomeInv'
<1> USE DEF OutcomeInv, KeyInv
<1>1. KeyInv' /\ NoOrphanClaims'
  BY StepKeys, StepOrphans
<1>2. ASSUME NEW k \in Keys, idem'[k] \in {"pending", "ok"} PROVE MovedUnder(k)'
  <2>1. ASSUME idem[k] \in {"pending", "ok"} PROVE MovedUnder(k)'
    <3>1. MovedUnder(k)
      BY <2>1 DEF KeyTellsOutcome
    <3>2. ASSUME UNCHANGED txns PROVE MovedUnder(k)'
      BY <3>1, <3>2 DEF MovedUnder
    <3>3. ASSUME NEW t \in Threads, Complete(t) \/ RefuseRequest(t) PROVE UNCHANGED txns
      BY <3>3 DEF Complete, RefuseRequest
    <3>4. QED
      BY <3>1, <3>2, <3>3, CommitMoves, OtherStepsKeepDatabase DEF dbVars
  <2>2. ASSUME NEW t \in Threads, Commit(t), idem[k] \notin {"pending", "ok"}
        PROVE  MovedUnder(k)'
    <3>1. k \in flushed[t]
      BY <1>2, <2>2, CommitRecords
    <3>2. k = req[t].key
      BY <3>1 DEF NoOrphanClaims
    <3>3. QED
      BY <2>2, <3>2, CommitMoves
  <2>3. ASSUME NEW t \in Threads, Complete(t), idem[k] \notin {"pending", "ok"}
        PROVE  FALSE
    <3>1. /\ idem' = [idem EXCEPT ![req[t].key] = "ok"]
          /\ idem[req[t].key] = "pending"
      BY <2>3 DEF Complete, ClaimsAreExclusive
    <3>2. QED
      BY <1>2, <2>3, <3>1 DEF TypeOK
  <2>4. ASSUME NEW t \in Threads, RefuseRequest(t), idem[k] \notin {"pending", "ok"}
        PROVE  FALSE
    <3>1. k \in flushed[t] /\ Keyed(t) /\ k # req[t].key
      BY <1>2, <2>4, RefusalRecords
    <3>2. QED
      BY <3>1 DEF NoOrphanClaims
  <2>5. QED
    BY <1>2, <2>1, <2>2, <2>3, <2>4, OtherStepsKeepDatabase DEF dbVars
<1>3. KeyTellsOutcome'
  BY <1>1, <1>2 DEF KeyTellsOutcome, MovementsAreRecorded
<1>4. QED
  BY <1>1, <1>3

\* While no statement fails inside a savepoint, the record of a key always tells whether
\* money has moved under it.
THEOREM RecordTellsOutcome ==
    ASSUME ~SavepointMayFail
    PROVE  Spec => []KeyTellsOutcome
<1>1. OutcomeInv => KeyTellsOutcome
  BY DEF OutcomeInv
<1>2. OutcomeInv /\ [Next]_vars => OutcomeInv'
  BY StepOutcome
<1>3. QED
  BY <1>1, <1>2, InitOutcome, PTL DEF Spec

-------------------------------------------------------------------------------
\* What a caller has been told.

SuccessInv == KeyInv /\ SuccessIsRecorded

\* What SuccessIsRecorded says of thread u.
Recorded(u) ==
    pc[u] \in {"release", "idle"} /\ reply[u] = "ok" /\ req[u].key # NoKey
        => idem[req[u].key] \in {"pending", "ok"}

LEMMA RecordedPerThread == SuccessIsRecorded <=> \A u \in Threads : Recorded(u)
  BY DEF SuccessIsRecorded, Recorded, Keyed

LEMMA InitSuccess == Init => SuccessInv
<1>1. Init => SuccessIsRecorded
  BY DEF Init, SuccessIsRecorded
<1>2. QED
  BY <1>1, InitKeys DEF SuccessInv

LEMMA StepSuccess == SuccessInv /\ [Next]_vars => SuccessInv'
<1> SUFFICES ASSUME SuccessInv, [Next]_vars PROVE SuccessInv'
  OBVIOUS
<1>a. /\ pc \in [Threads -> Stages]
      /\ reply \in [Threads -> Replies]
      /\ req \in [Threads -> Call]
      /\ idem \in [Keys -> Records]
  BY DEF SuccessInv, KeyInv, TypeOK
<1>1. KeyInv'
  BY StepKeys DEF SuccessInv
<1>2. ASSUME NEW u \in Threads, req'[u] = req[u],
             \/ pc'[u] = pc[u] /\ reply'[u] = reply[u]
             \/ pc'[u] = "idle" /\ pc[u] = "release" /\ reply'[u] = reply[u]
             \/ pc'[u] \notin {"release", "idle"}
             \/ reply'[u] # "ok"
             \/ req[u].key # NoKey => idem[req[u].key] \in {"pending", "ok"}
             \/ req[u].key # NoKey => idem'[req[u].key] \in {"pending", "ok"}
      PROVE  Recorded(u)'
  <2>1. req[u].key \in Keys \cup {NoKey}
    BY <1>a DEF Call
  <2>2. req[u].key # NoKey /\ idem[req[u].key] \in {"pending", "ok"}
          => idem'[req[u].key] \in {"pending", "ok"}
    BY <2>1, RecordsStay DEF SuccessInv, KeyInv
  <2>3. Recorded(u)
    BY RecordedPerThread DEF SuccessInv
  <2>4. QED
    BY <1>2, <2>2, <2>3 DEF Recorded
<1>3. ASSUME NEW t \in Threads, NEW u \in Threads, u # t, Advance(t) \/ Fails(t)
      PROVE  Recorded(u)'
  <2>1. pc'[u] = pc[u] /\ reply'[u] = reply[u] /\ req'[u] = req[u]
    BY <1>a, <1>3 DEF Advance, Acquire, ClaimLookup, ClaimInsert, ClaimReread,
       GetSender, GetReceiver, UpdateSender, UpdateReceiver, Commit, Complete,
       RefuseRequest, Release, PoisonedCall, Fails, Abandon, EndCall, DropClaims,
       ClaimStorageError, TransferAborts, CompleteSwallows, DatabaseError,
       SavepointError, Goto, Answer
  <2>2. QED
    BY <1>2, <2>1
<1>4. ASSUME NEW t \in Threads, ClaimLookup(t) \/ ClaimReread(t) PROVE Recorded(t)'
  <2>1. req' = req
    BY <1>4 DEF ClaimLookup, ClaimReread
  <2>2. Record(t, req[t].key) = "ok" => idem[req[t].key] = "ok"
    BY DEF Record
  <2>3. \/ pc'[t] \notin {"release", "idle"}
        \/ reply'[t] # "ok"
        \/ idem[req[t].key] = "ok"
    BY <1>a, <1>4, <2>2 DEF ClaimLookup, ClaimReread, Classify, Goto, Answer
  <2>4. QED
    BY <1>2, <2>1, <2>3
<1>5. ASSUME NEW t \in Threads, Complete(t) \/ Commit(t) PROVE Recorded(t)'
  <2>1. req' = req /\ req[t].key \in Keys \cup {NoKey}
    BY <1>a, <1>5 DEF Complete, Commit, Call
  <2>2. req[t].key # NoKey => idem'[req[t].key] \in {"pending", "ok"}
    <3>1. Commit(t) /\ Keyed(t) => idem'[req[t].key] = "pending"
      BY CommitRecords DEF SuccessInv, KeyInv
    <3>2. QED
      BY <1>a, <1>5, <2>1, <3>1 DEF Complete, Keyed
  <2>3. QED
    BY <1>2, <2>1, <2>2
<1>6. ASSUME NEW t \in Threads,
             \/ Acquire(t) \/ ClaimInsert(t) \/ GetSender(t) \/ GetReceiver(t)
             \/ UpdateSender(t) \/ UpdateReceiver(t) \/ RefuseRequest(t) \/ Release(t)
             \/ PoisonedCall(t)
      PROVE  Recorded(t)'
  <2>1. req' = req
    BY <1>6 DEF Acquire, ClaimInsert, GetSender, GetReceiver, UpdateSender,
       UpdateReceiver, RefuseRequest, Release, PoisonedCall, Abandon, EndCall, DropClaims
  <2>2. \/ pc'[t] \notin {"release", "idle"}
        \/ reply'[t] # "ok"
        \/ pc'[t] = pc[t] /\ reply'[t] = reply[t]
        \/ pc'[t] = "idle" /\ pc[t] = "release" /\ reply'[t] = reply[t]
    BY <1>a, <1>6 DEF Acquire, ClaimInsert, GetSender, GetReceiver, UpdateSender,
       UpdateReceiver, RefuseRequest, Release, PoisonedCall, Abandon, EndCall, DropClaims,
       Goto, Answer
  <2>3. QED
    BY <1>2, <2>1, <2>2
<1>7. ASSUME NEW t \in Threads, Fails(t) PROVE Recorded(t)'
  <2>1. req' = req
    BY <1>7 DEF Fails, ClaimStorageError, TransferAborts, CompleteSwallows,
       DatabaseError, SavepointError, Abandon, EndCall, DropClaims
  <2>2. \/ reply'[t] # "ok"
        \/ idem[req[t].key] = "pending"
    <3>1. pc[t] = "complete" => idem[req[t].key] = "pending"
      BY DEF SuccessInv, KeyInv, ClaimsAreExclusive
    <3>2. QED
      BY <1>a, <1>7, <3>1 DEF Fails, ClaimStorageError, TransferAborts, CompleteSwallows,
         DatabaseError, SavepointError, Abandon, EndCall, DropClaims, Answer
  <2>3. QED
    BY <1>2, <2>1, <2>2
<1>8. ASSUME NEW t \in Threads, NEW r \in Request, NEW u \in Threads, Submit(t, r)
      PROVE  Recorded(u)'
  <2>1. CASE u = t
    <3>1. reply'[u] # "ok"
      BY <1>a, <1>8, <2>1 DEF Submit, Answer
    <3>2. QED
      BY <3>1 DEF Recorded
  <2>2. CASE u # t
    <3>1. pc'[u] = pc[u] /\ reply'[u] = reply[u] /\ req'[u] = req[u]
      BY <1>a, <1>8, <2>2 DEF Submit, Answer, Goto
    <3>2. QED
      BY <1>2, <3>1
  <2>3. QED
    BY <2>1, <2>2
<1>9. ASSUME NEW w \in Workers, NEW u \in Threads, Crash(w) PROVE Recorded(u)'
  <2>1. /\ req' = req
        /\ \/ reply'[u] # "ok"
           \/ pc'[u] = pc[u] /\ reply'[u] = reply[u]
    BY <1>9 DEF Crash
  <2>2. QED
    BY <1>2, <2>1
<1>10. ASSUME NEW u \in Threads, Finished \/ UNCHANGED vars PROVE Recorded(u)'
  BY <1>2, <1>10 DEF Finished, vars, callVars
<1>11. ASSUME NEW u \in Threads PROVE Recorded(u)'
  <2>1. ASSUME NEW t \in Threads, Advance(t) PROVE Recorded(u)'
    BY <1>3, <1>4, <1>5, <1>6, <2>1 DEF Advance
  <2>2. QED
    BY <1>3, <1>7, <1>8, <1>9, <1>10, <2>1 DEF Next
<1>12. (\A u \in Threads : Recorded(u)') => SuccessIsRecorded'
  BY DEF SuccessIsRecorded, Recorded, Keyed
<1>13. QED
  BY <1>1, <1>11, <1>12 DEF SuccessInv

\* A caller who was told that a keyed request succeeded is never contradicted by the
\* record of the key.
THEOREM SuccessIsKept == Spec => []SuccessIsRecorded
<1>1. SuccessInv => SuccessIsRecorded
  BY DEF SuccessInv
<1>2. QED
  BY <1>1, InitSuccess, StepSuccess, PTL DEF Spec

-------------------------------------------------------------------------------
(* One process of the transaction service implements Bank: every commit is *)
(* one atomic movement that finds the balance it checked, and every other  *)
(* step decides at most that a key's request is refused.                   *)

ServiceInv == LedgerInv /\ OutcomeInv

BankBalance == [a \in Accounts |-> rows[a].balance]
BankOutcome == [k \in Keys |-> OutcomeOf(k)]
BankStep == [BankView!BankNext]_<<BankBalance, BankOutcome>>

LEMMA InitBank == Init => BankView!BankInit
<1> SUFFICES ASSUME Init PROVE BankView!BankInit
  OBVIOUS
<1>1. BankBalance = [a \in Accounts |-> OpeningRow[a].balance]
  BY DEF Init, BankBalance
<1>2. BankOutcome = [k \in Keys |-> "none"]
  BY DEF Init, BankOutcome, OutcomeOf
<1>3. QED
  BY <1>1, <1>2 DEF BankView!BankInit, BankBalance, BankOutcome

LEMMA BankMoves ==
    ASSUME NEW a \in Accounts, NEW b \in Accounts, NEW m \in Amounts, m > 0,
           NEW k \in Keys \cup {NoKey},
           \/ BankView!Deposit(a, m, k)
           \/ BankView!Withdraw(a, m, k)
           \/ BankView!Transfer(a, b, m, k)
    PROVE  BankView!BankNext
<1>1. \E d \in Accounts : \/ BankView!Deposit(a, m, k)
                         \/ BankView!Withdraw(a, m, k)
                         \/ BankView!Transfer(a, d, m, k)
  OBVIOUS
<1>2. m > 0 /\ (\/ BankView!Deposit(a, m, k)
                 \/ BankView!Withdraw(a, m, k)
                 \/ \E d \in Accounts : BankView!Transfer(a, d, m, k))
  BY <1>1
<1>3. QED
  BY <1>2, Zenon DEF BankView!BankNext

\* A commit is a deposit, a withdrawal or a transfer of the bank.
LEMMA CommitIsBankStep ==
    ASSUME ServiceInv, NEW t \in Threads, Commit(t)
    PROVE  BankView!BankNext
<1> DEFINE r == req[t]
<1>1. PICK a \in Accounts, b \in Accounts, m \in Amounts, k \in Keys \cup {NoKey} :
        /\ a = r.acc /\ b = r.to /\ m = r.amount /\ k = r.key
        /\ m \in Int /\ m > 0 /\ r.op \in Ops
        /\ Transfers(r) => a # b
        /\ ~Transfers(r) => b = a
  BY DEF ServiceInv, OutcomeInv, KeyInv, TypeOK, Call, LedgerInv, ReadInv, CallInv,
     CallsAreValid, IsValid, Commit
<1>2. /\ Touched(t) = {a, b}
      /\ ~Deposits(r) => m <= rows[a].balance
  BY <1>1 DEF Touched, ServiceInv, LedgerInv, ReadInv, ReadsAreCurrent, Permitted, Covers,
     Commit
<1>3. \A c \in Accounts : rows'[c].balance =
        IF c \in {a, b} THEN rows[c].balance + Delta(r, c) ELSE rows[c].balance
  BY <1>2, CommitBalances DEF ServiceInv, LedgerInv
<1>4. k # NoKey => BankOutcome[k] = "none"
  <2>1. k # NoKey => idem[k] = "absent" /\ k \in Keys
    BY <1>1, CommitRecords DEF ServiceInv, OutcomeInv, KeyInv, Keyed
  <2>2. QED
    BY <2>1 DEF BankOutcome, OutcomeOf
<1>5. BankOutcome' = IF k = NoKey THEN BankOutcome ELSE [BankOutcome EXCEPT ![k] = "moved"]
  <2>1. CASE Keyed(t)
    <3>1. flushed[t] = {k} /\ k # NoKey
      BY <1>1, <2>1, CommitRecords DEF Keyed, ServiceInv, OutcomeInv, KeyInv, NoOrphanClaims
    <3>2. idem' = [idem EXCEPT ![k] = "pending"]
      BY <3>1 DEF Commit, WithClaims, ServiceInv, OutcomeInv, KeyInv, TypeOK
    <3>3. QED
      BY <3>1, <3>2 DEF BankOutcome, OutcomeOf, ServiceInv, OutcomeInv, KeyInv, TypeOK
  <2>2. CASE ~Keyed(t)
    <3>1. flushed[t] = {} /\ k = NoKey
      BY <1>1, <2>2 DEF Keyed, ServiceInv, OutcomeInv, NoOrphanClaims
    <3>2. idem' = idem
      BY <3>1 DEF Commit, WithClaims, ServiceInv, OutcomeInv, KeyInv, TypeOK
    <3>3. QED
      BY <3>1, <3>2 DEF BankOutcome, OutcomeOf
  <2>3. QED
    BY <2>1, <2>2
<1>6. BankView!Fresh(k) /\ BankView!Settle(k, "moved")
  BY <1>4, <1>5 DEF BankView!Fresh, BankView!Settle, BankOutcome
<1>7. ASSUME \/ BankView!Deposit(a, m, k)
             \/ BankView!Withdraw(a, m, k)
             \/ BankView!Transfer(a, b, m, k)
      PROVE  BankView!BankNext
  BY <1>1, <1>7, BankMoves
<1>8. CASE r.op = "deposit"
  <2>1. BankBalance' = [BankBalance EXCEPT ![a] = @ + m]
    BY <1>1, <1>3, <1>8 DEF BankBalance, Delta, Deposits, Transfers
  <2>2. BankView!Deposit(a, m, k)
    BY <1>6, <2>1 DEF BankView!Deposit, BankBalance
  <2>3. QED
    BY <2>2, <1>7
<1>9. CASE r.op = "withdraw"
  <2>1. BankBalance' = [BankBalance EXCEPT ![a] = @ - m]
    BY <1>1, <1>3, <1>9 DEF BankBalance, Delta, Deposits, Transfers
  <2>2. m <= BankBalance[a]
    BY <1>1, <1>2, <1>9 DEF BankBalance, Deposits
  <2>3. BankView!Withdraw(a, m, k)
    BY <1>6, <2>1, <2>2 DEF BankView!Withdraw, BankBalance
  <2>4. QED
    BY <2>3, <1>7
<1>10. CASE r.op = "transfer"
  <2>1. BankBalance' = [BankBalance EXCEPT ![a] = @ - m, ![b] = @ + m]
    BY <1>1, <1>3, <1>10 DEF BankBalance, Delta, Deposits, Transfers
  <2>2. m <= BankBalance[a] /\ a # b
    BY <1>1, <1>2, <1>10 DEF BankBalance, Deposits, Transfers
  <2>3. BankView!Transfer(a, b, m, k)
    BY <1>6, <2>1, <2>2 DEF BankView!Transfer, BankBalance
  <2>4. QED
    BY <2>3, <1>7
<1>11. QED
  BY <1>1, <1>8, <1>9, <1>10 DEF Ops

\* Recording a refusal decides its key; without a key it is no step of the bank.
LEMMA RefusalIsBankStep ==
    ASSUME ServiceInv, NEW t \in Threads, RefuseRequest(t)
    PROVE  BankStep
<1>1. BankBalance' = BankBalance
  BY DEF RefuseRequest, BankBalance
<1>2. CASE Keyed(t)
  <2> DEFINE k == req[t].key
  <2>1. k \in Keys /\ idem[k] = "absent" /\ idem' = [idem EXCEPT ![k] = "refused"]
    <3>1. pc[t] = "refuse" /\ idem' = [WithClaims(t) EXCEPT ![k] = "refused"]
      BY <1>2 DEF RefuseRequest
    <3>2. flushed[t] = {k} /\ idem[k] = "absent" /\ k \in Keys
      BY <1>2, <3>1 DEF Keyed, Claiming, ServiceInv, OutcomeInv, KeyInv, ClaimsAreExclusive,
         NoOrphanClaims, TypeOK, Call
    <3>3. QED
      BY <3>1, <3>2 DEF WithClaims, ServiceInv, OutcomeInv, KeyInv, TypeOK
  <2>2. BankOutcome' = [BankOutcome EXCEPT ![k] = "refused"] /\ BankOutcome[k] = "none"
    BY <2>1 DEF BankOutcome, OutcomeOf, ServiceInv, OutcomeInv, KeyInv, TypeOK
  <2>3. BankView!Refuse(k)
    BY <1>1, <2>2 DEF BankView!Refuse, BankBalance, BankOutcome
  <2>4. QED
    BY <2>1, <2>3 DEF BankStep, BankView!BankNext
<1>3. CASE ~Keyed(t)
  <2>1. BankOutcome' = BankOutcome
    BY <1>3 DEF RefuseRequest, BankOutcome, OutcomeOf
  <2>2. QED
    BY <1>1, <2>1 DEF BankStep
<1>4. QED
  BY <1>2, <1>3

LEMMA CompletionStutters ==
    ASSUME ServiceInv, NEW t \in Threads, Complete(t)
    PROVE  UNCHANGED <<BankBalance, BankOutcome>>
<1>1. /\ idem' = [idem EXCEPT ![req[t].key] = "ok"] /\ rows' = rows
      /\ idem[req[t].key] = "pending"
  BY DEF Complete, ServiceInv, OutcomeInv, KeyInv, ClaimsAreExclusive
<1>2. \A k \in Keys : OutcomeOf(k)' = OutcomeOf(k)
  BY <1>1 DEF OutcomeOf, ServiceInv, OutcomeInv, KeyInv, TypeOK
<1>3. QED
  BY <1>1, <1>2 DEF BankBalance, BankOutcome

\* Every step of the service is a step of the bank or leaves it alone.
LEMMA StepBank == ServiceInv /\ [Next]_vars => BankStep
<1> SUFFICES ASSUME ServiceInv, [Next]_vars PROVE BankStep
  OBVIOUS
<1>1. ASSUME UNCHANGED dbVars PROVE BankStep
  <2>1. rows' = rows /\ idem' = idem
    BY <1>1 DEF dbVars
  <2>2. QED
    BY <2>1 DEF BankStep, BankBalance, BankOutcome, OutcomeOf
<1>2. CASE \E t \in Threads : Commit(t)
  BY <1>2, CommitIsBankStep DEF BankStep
<1>3. CASE \E t \in Threads : RefuseRequest(t)
  BY <1>3, RefusalIsBankStep
<1>4. CASE \E t \in Threads : Complete(t)
  BY <1>4, CompletionStutters DEF BankStep
<1>5. QED
  BY <1>1, <1>2, <1>3, <1>4, OtherStepsKeepDatabase

\* The service of one process whose savepoints do not fail implements the bank: atomic
\* movements that respect the balance, and every idempotency key decided exactly once.
THEOREM ServiceImplementsBank ==
    ASSUME OneProcess, ~SavepointMayFail
    PROVE  Spec => ImplementsBank
<1>1. Init => ServiceInv /\ BankView!BankInit
  BY InitLedger, InitOutcome, InitBank DEF ServiceInv
<1>2. ServiceInv /\ [Next]_vars => ServiceInv'
  BY StepLedger, StepOutcome DEF ServiceInv
<1>3. ServiceInv /\ [Next]_vars => [BankView!BankNext]_(BankView!bankVars)
  BY StepBank DEF BankStep, BankView!bankVars, BankBalance, BankOutcome
<1>4. QED
  BY <1>1, <1>2, <1>3, PTL DEF Spec, ImplementsBank, BankView!BankSpec
===============================================================================
