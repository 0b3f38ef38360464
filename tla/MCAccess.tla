------------------------------- MODULE MCAccess -------------------------------
(***************************************************************************)
(* A customer who may log in, one whose account is frozen, one who does    *)
(* not exist, and the administrator.                                       *)
(***************************************************************************)
EXTENDS Access, TLC

CONSTANTS alice, frank, nobody, admin

MCCustomers == {alice, frank, nobody}
MCOpeningCustomers ==
    alice :> [exists |-> TRUE, active |-> TRUE, frozen |-> FALSE]
 @@ frank :> [exists |-> TRUE, active |-> FALSE, frozen |-> TRUE]
 @@ nobody :> [exists |-> FALSE, active |-> FALSE, frozen |-> FALSE]
Login(door, sub, guess, code) == [op |-> "login", door |-> door, sub |-> sub,
                                  guess |-> guess, code |-> code, token |-> 0]
Refresh(door, id) == [Login(door, admin, 0, 0) EXCEPT !.op = "refresh", !.token = id]
Password(door, guess) == [Login(door, alice, guess, 0) EXCEPT !.op = "password"]
Factor2(op, code) == [Login("v1", admin, 0, code) EXCEPT !.op = op]

Locking == {Login("v2", alice, 0, 0), Login("v2", alice, 2, 0), Login("v1", admin, 2, 0)}
Answers == {Login("v1", alice, 2, 0), Login("v2", frank, 0, 0), Login("v1", nobody, 0, 0),
            Login("v2", nobody, 0, 0), Login("v1", admin, 0, 0), Login("v2", admin, 2, 0)}
Tokens == {Login("v2", alice, 0, 0), Password("v2", 0), Password("v2", 1)}
          \cup {Refresh(door, id) : door \in {"v1", "v2"}, id \in 1 .. 3}
OldDoor == {Login("v1", alice, 0, 0), Password("v1", 0), Password("v2", 1)}
Factors == {Login("v1", admin, 0, 0), Login("v1", admin, 0, 1), Login("v2", admin, 0, 0)}
           \cup {Factor2("setup", 1), Factor2("setup", 2), Factor2("verify", 1),
                 Factor2("verify", 2), Factor2("disable", 1)}
Panel == {Login("v1", admin, 0, 0), Login("v2", admin, 1, 0), Factor2("setup", 1),
          [Password("v1", 0) EXCEPT !.sub = admin], [Password("v1", 1) EXCEPT !.sub = admin]}
\* The lock of an account closed since then has run out: each of its logins leaves the
\* row marked in the thread's session, for a later request's commit.
Leftover == {Login("v2", frank, 0, 0), Login("v2", alice, 2, 0), Login("v1", admin, 2, 0)}
Menu(calls, most, naive, old) ==
    [calls |-> calls, most |-> most, naive |-> naive, old |-> old]
MCMenus == {Menu(Locking, 5, naive, {alice}) : naive \in BOOLEAN}
           \cup {Menu(Leftover, 4, FALSE, {frank}), Menu(Answers, 3, TRUE, {alice})}
           \cup {Menu(Tokens, 4, TRUE, {alice}), Menu(OldDoor, 3, TRUE, {alice}),
                 Menu(Factors, 4, TRUE, {}), Menu(Panel, 4, TRUE, {})}
ThreadSymmetry == Permutations(Threads)
===============================================================================
