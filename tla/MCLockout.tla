------------------------------ MODULE MCLockout ------------------------------
(* Instances of Lockout over SettingsService: interchangeable requests of    *)
(* one address and interchangeable administrators.                           *)
EXTENDS Lockout, TLC

OnlyLogins == [logins |-> 3, clock |-> 3, saves |-> 0, retyped |-> {}]

OnlySaves == [logins |-> 0, clock |-> 0, saves |-> 2, retyped |-> {"totp_issuer", "log_level"}]

\* The limit changes while failures are under way.
NewLimit == [logins |-> 2, clock |-> 1, saves |-> 1, retyped |-> {"login_max_attempts"}]

PolicyEnvs == {OnlyLogins, OnlySaves, NewLimit}

TwoLimits == [w \in Words \ Special |-> IF w = Base THEN 3 ELSE 2]

CONSTANTS Bare, Padded     \* a word, and the same word with blanks around it

TrimPadded == [w \in Words |-> IF w = Padded THEN Bare ELSE w]

PolicySymmetry == Permutations(Logins) \cup Permutations(Savers)
=============================================================================
