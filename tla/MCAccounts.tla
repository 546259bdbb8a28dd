----------------------------- MODULE MCAccounts -----------------------------
\* Model-checking instances of Accounts.
EXTENDS Accounts, TLC

One(S) == {CHOOSE x \in S : TRUE}

Enrolment == {"setup", "login", "totp", "enrol", "confirm"}

\* Everything the web can do with one user in one browser; one user who enrols in two
\* browsers; two users of one browser; API tokens; the first setup.
OneBrowser == [ops |-> WebOps \cup {"cli", "abandon", "restart"}, users |-> One(Users), sess |-> One(Sessions)]
TwoBrowsers == [ops |-> Enrolment \cup {"disable"}, users |-> One(Users), sess |-> Sessions]
SharedBrowser == [ops |-> (Enrolment \ {"setup"}) \cup {"cli", "logout"}, users |-> Users, sess |-> One(Sessions)]
Programs == [ops |-> {"setup", "cli", "login", "logout", "expire", "abandon"} \cup ApiOps,
             users |-> Users, sess |-> One(Sessions)]
FirstSetup == [ops |-> {"setup", "cli", "logout", "abandon"}, users |-> Users, sess |-> Sessions]

AllEnvs == {OneBrowser, TwoBrowsers, SharedBrowser, Programs, FirstSetup}

Renaming == Permutations(Reqs) \cup Permutations(Secrets) \cup Permutations(Tokens)
=============================================================================
