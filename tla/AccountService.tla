---------------------------- MODULE AccountService ----------------------------
(***************************************************************************)
(* AccountService, AdminService and TransactionService.apply_interest as   *)
(* functions of the account row a call has read: what the call refuses,    *)
(* and what it writes.  None of them takes the account lock.               *)
(***************************************************************************)
EXTENDS Tables

\* apply_interest: 3.5 per cent a year for a month, rounded to the paisa.
MonthlyInterest(balance) == (balance * 35 + 6000) \div 12000

InterestToAny(row) == \* mutant: frozen and closed accounts are credited
    IF row.deleted THEN Refused("not found")
    ELSE IF MonthlyInterest(row.balance) <= 0 THEN Refused("no interest")
    ELSE Done(MoveMoney(row, "INTEREST", MonthlyInterest(row.balance)))
ApplyInterest(row) ==
    IF row.deleted THEN Refused("not found")
    ELSE IF ~CanTransact(row) THEN Refused("frozen or closed")
    ELSE IF MonthlyInterest(row.balance) <= 0 THEN Refused("no interest")
    ELSE Done(MoveMoney(row, "INTEREST", MonthlyInterest(row.balance)))

-------------------------------------------------------------------------------
(* AccountService *)

UpdateProfile(row, profile) ==
    IF row.deleted THEN Refused("not found")
    ELSE Done(UpdateAccount([row EXCEPT !.profile = profile]))

\* The token version is raised in the same commit as the new password.
ChangePassword(row, guess, new) ==
    IF row.deleted THEN Refused("not found")
    ELSE IF guess # row.password THEN Refused("wrong password")
    ELSE Done([UpdateAccount([row EXCEPT !.password = new]) EXCEPT !.bumps = TRUE])

CloseAccount(row, guess) ==
    IF row.deleted THEN Refused("not found")
    ELSE IF guess # row.password THEN Refused("wrong password")
    ELSE Done(UpdateAccount([row EXCEPT !.active = FALSE]))

-------------------------------------------------------------------------------
(* AdminService *)

\* AccountRepository.set_frozen, set_active and delete assign columns of the row they
\* re-query, and nothing when it is gone; _audit_log is a commit of its own.
SetSilently(columns, action) == Done([NoWrites EXCEPT !.account = columns])   \* mutant
SetColumns(columns, action) ==
    Done([NoWrites EXCEPT !.account = columns, !.audit = action])

FreezeAccount(row) ==
    IF row.deleted THEN Refused("not found")
    ELSE IF ~row.active /\ ~row.frozen THEN Refused("closed")
    ELSE IF row.frozen THEN Refused("already frozen")
    ELSE SetColumns([frozen |-> TRUE, active |-> FALSE], "freeze")

UnfreezeAccount(row) ==
    IF row.deleted THEN Refused("not found")
    ELSE IF ~row.frozen THEN Refused("not frozen")
    ELSE SetColumns([frozen |-> FALSE], "unfreeze")

DeleteAccount(row) ==
    IF row.deleted THEN Refused("not found")
    ELSE SetColumns([deleted |-> TRUE, active |-> FALSE], "delete")
===============================================================================
