--------------------------------- MODULE Bank ---------------------------------
(***************************************************************************)
(* What the transaction service promises its callers, without threads,     *)
(* locks, sessions or commits: a deposit, a withdrawal or a transfer       *)
(* happens in one step, and a request that carries an idempotency key has  *)
(* exactly one outcome.  TransactionService is shown to implement it.      *)
(***************************************************************************)
EXTENDS Integers

CONSTANTS
    Accounts,       \* account numbers
    Keys,           \* idempotency keys a client may send
    NoKey,          \* the request carries no key
    Amounts,        \* amounts a request may ask for
    OpeningBalance  \* [Accounts -> Nat]: the balances before the first request

VARIABLES
    balance,    \* [Accounts -> Int]
    outcome     \* [Keys -> {"none", "moved", "refused"}]

bankVars == <<balance, outcome>>

Outcomes == {"none", "moved", "refused"}

BankInit ==
    /\ balance = OpeningBalance
    /\ outcome = [k \in Keys |-> "none"]

\* A key can still decide something: it is absent, or nothing was decided under it.
Fresh(k) == k = NoKey \/ outcome[k] = "none"

Settle(k, o) ==
    outcome' = IF k = NoKey THEN outcome ELSE [outcome EXCEPT ![k] = o]

Deposit(a, m, k) ==
    /\ Fresh(k)
    /\ balance' = [balance EXCEPT ![a] = @ + m]
    /\ Settle(k, "moved")

Withdraw(a, m, k) ==
    /\ Fresh(k)
    /\ m <= balance[a]
    /\ balance' = [balance EXCEPT ![a] = @ - m]
    /\ Settle(k, "moved")

Transfer(a, b, m, k) ==
    /\ Fresh(k)
    /\ a # b
    /\ m <= balance[a]
    /\ balance' = [balance EXCEPT ![a] = @ - m, ![b] = @ + m]
    /\ Settle(k, "moved")

\* The service may decide that a key's request fails for good.
Refuse(k) ==
    /\ outcome[k] = "none"
    /\ outcome' = [outcome EXCEPT ![k] = "refused"]
    /\ UNCHANGED balance

BankNext ==
    \/ \E a \in Accounts, m \in Amounts, k \in Keys \cup {NoKey} :
          /\ m > 0
          /\ \/ Deposit(a, m, k)
             \/ Withdraw(a, m, k)
             \/ \E b \in Accounts : Transfer(a, b, m, k)
    \/ \E k \in Keys : Refuse(k)

BankSpec == BankInit /\ [][BankNext]_bankVars
================================================================================
