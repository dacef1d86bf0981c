----------------------------- MODULE MCAccounts -----------------------------
(* A small instance of Accounts: ann has an account, bob's address is      *)
(* still free.                                                             *)
EXTENDS Accounts, TLC

CONSTANTS old, new, r1, r2, r3

LowerCase(e) == IF e = "Bob" THEN "bob" ELSE e

Ask(kind, email, o, n) == [kind |-> kind, email |-> email, old |-> o, new |-> n]

Everything ==
    {Ask("signup", "Bob", old, old)}
    \cup {Ask("login", "ann", old, old)}
    \cup {Ask(k, "ann", old, old) : k \in {"visit", "logout", "issue"}}
    \cup {Ask("change", "ann", old, new)}
    \cup {Ask("reset", "ann", old, n) : n \in {new, Weak}}

Interchangeable == Permutations(Requests)

Limits == [l \in Limiters |-> IF l = "loginEmail" THEN 1 ELSE 3]
=============================================================================
