------------------------ MODULE MCTransactionService -------------------------
(***************************************************************************)
(* TransactionService on small instances: two threads, of one worker       *)
(* process or of two.                                                      *)
(***************************************************************************)
EXTENDS TransactionService, TLC

CONSTANTS t1, t2, w1, w2, k1, k2

MCThreads == {t1, t2}
OneWorker == [t \in MCThreads |-> w1]
TwoWorkers == [t \in MCThreads |-> IF t = t1 THEN w1 ELSE w2]

\* Account 1 can pay once, account 2 starts empty, account 3 is frozen.
MCOpeningRow ==
    [a \in Accounts |-> [balance |-> IF a = 1 THEN 1 ELSE 0, active |-> TRUE,
                         frozen |-> a = 3, deleted |-> FALSE]]
ThreadSymmetry == Permutations(MCThreads)
================================================================================
