------------------------------ MODULE Accounts ------------------------------
(***************************************************************************)
(* Who may do what: the first setup and login (wireforge-web/src/routes/   *)
(* auth.rs), TOTP enrolment (routes/profile.rs), the in-memory sessions    *)
(* and the bearer tokens of the REST API (wireforge-api/src/auth.rs,       *)
(* v1/tokens.rs).  A request takes its copy of the session when it first   *)
(* looks at it and stores the whole copy when it ends.  A password is      *)
(* right or wrong; a TOTP code is right for exactly one secret.  Nothing   *)
(* deletes a user or changes a role.                                       *)
(***************************************************************************)
EXTENDS Naturals, FiniteSets

CONSTANTS
    Users,      \* usernames
    Secrets,    \* TOTP secrets
    Sessions,   \* session records, one per browser
    Tokens,     \* API tokens; bound: how many can be created
    Reqs,       \* tasks that serve requests
    None,       \* no such row, an absent session key
    Envs        \* the environments to consider: subset of Environment

WebOps == {"setup", "login", "totp", "logout", "enrol", "confirm", "disable", "form"}
ApiOps == {"mint", "revoke"}
Happenings == {"expire", "cli", "abandon", "restart"}

\* ops: what happens; users: the names that forms give; sess: the browsers there are
Environment == [ops : SUBSET (WebOps \cup ApiOps \cup Happenings),
                users : SUBSET Users, sess : SUBSET Sessions]

ASSUME EnvsAssumption == Envs \subseteq Environment
ASSUME UsersAssumption == IsFiniteSet(Users)

VARIABLES
    users,      \* the users table
    tokens,     \* the api_tokens table
    sess,       \* the session store
    req,        \* what each request is doing
    proven,     \* history: secrets each user has shown a right code for
    out,        \* history: sessions whose last word was a logout that ran alone
    given,      \* history: who gave which factor in which session, until such a logout or a restart
    env         \* the environment, which does not change

vars == <<users, tokens, sess, req, proven, out, given, env>>

Maybe(S) == S \cup {None}

User == [totp : BOOLEAN, secret : Maybe(Secrets)]
Token == [user : Users, revoked : BOOLEAN, expired : BOOLEAN]

ASSUME NoneAssumption == None \notin UNION {Users, Secrets, Sessions, Tokens, User, Token}

\* auth_user, auth_pending_user_id and _totp_setup_secret
Session == [user : Maybe(Users), pending : Maybe(Users), enrol : Maybe(Secrets)]

\* A right password; a right TOTP code, or none where TOTP was off when the password was checked.
Factors == {"password", "second"}

\* user: the name in the form, or the caller; gate: TOTP is asked for.  History:
\* barred: when the request began it was too late for it to succeed;
\* alone: no other request of its session has run at the same time.
Request == [op : WebOps \cup ApiOps \cup {"none"},
            pc : {"idle", "count", "insert", "find", "load", "verify", "update", "save", "auth", "act"},
            sess : Maybe(Sessions), tok : Maybe(Tokens), user : Maybe(Users), gate : BOOLEAN,
            copy : Session, barred : BOOLEAN, alone : BOOLEAN]

TypeOK ==
    /\ users \in [Users -> Maybe(User)]
    /\ tokens \in [Tokens -> Maybe(Token)]
    /\ sess \in [Sessions -> Session]
    /\ req \in [Reqs -> Request]
    /\ proven \in [Users -> SUBSET Secrets]
    /\ out \subseteq Sessions
    /\ given \subseteq Sessions \X Users \X Factors
    /\ env \in Envs

Empty == [user |-> None, pending |-> None, enrol |-> None]

Idle == [op |-> "none", pc |-> "idle", sess |-> None, tok |-> None, user |-> None, gate |-> FALSE,
         copy |-> Empty, barred |-> FALSE, alone |-> TRUE]

Init ==
    /\ users = [u \in Users |-> None]
    /\ tokens = [t \in Tokens |-> None]
    /\ sess = [s \in Sessions |-> Empty]
    /\ req = [r \in Reqs |-> Idle]
    /\ proven = [u \in Users |-> {}]
    /\ out = {}
    /\ given = {}
    /\ env \in Envs

At(r, op, pc) == req[r].op = op /\ req[r].pc = pc
End(r) == req' = [req EXCEPT ![r] = Idle]
Goto(r, pc) == req' = [req EXCEPT ![r].pc = pc]
Mine(r) == sess[req[r].sess]

\* The user of the request has given these factors.
Gives(r, factors) == given' = given \cup {req[r].sess} \X {req[r].user} \X factors

\* Store the copy at the end of the request.
Modify(r, copy) == req' = [req EXCEPT ![r].copy = copy, ![r].pc = "save"]

-----------------------------------------------------------------------------
(* The repositories *)

\* SELECT COUNT(*) FROM users
count == Cardinality({u \in Users : users[u] # None})

NewUser == [totp |-> FALSE, secret |-> None]

TotpOn(u) == users[u] # None /\ users[u].totp

\* Mutant: changes the flag and leaves the secret.
FlagOnly(u, secret) == users' = [users EXCEPT ![u].totp = secret # None]

\* UPDATE users SET totp_enabled, totp_secret_encrypted
update_totp(u, secret) ==
    users' = [users EXCEPT ![u] = [totp |-> secret # None, secret |-> secret]]

\* Mutant: no WHERE revoked_at IS NULL.
AnyToken(t) == tokens[t] # None

\* WHERE token_hash AND revoked_at IS NULL, then is_active(now)
find_active_by_hash(t) == tokens[t] # None /\ ~tokens[t].revoked /\ ~tokens[t].expired

-----------------------------------------------------------------------------
(* Requests begin *)

\* Too late already: an account exists; the token is spent.
Barred(op, t) ==
    \/ op = "setup" /\ count > 0
    \/ t # None /\ tokens[t] # None /\ (tokens[t].revoked \/ tokens[t].expired)

\* The others of session s, and whether there are any
Company(s) == {q \in Reqs : s # None /\ req[q].sess = s}

Start(r, op, pc, s, u, t) ==
    /\ op \in env.ops
    /\ req[r].pc = "idle"
    /\ req' = [q \in Reqs |->
          IF q = r THEN [Idle EXCEPT !.op = op, !.pc = pc, !.sess = s, !.user = u, !.tok = t,
                                     !.barred = Barred(op, t), !.alone = Company(s) = {}]
          ELSE IF q \in Company(s) THEN [req[q] EXCEPT !.alone = FALSE] ELSE req[q]]
    /\ UNCHANGED <<users, tokens, sess, proven, out, given, env>>

\* setup_submit and login_submit name a user
BeginNamed(r, op, pc) == \E s \in env.sess, u \in env.users : Start(r, op, pc, s, u, None)

\* the other handlers find one in the session
BeginSession(r) ==
    \E op \in (WebOps \ {"setup", "login"}) \cup ApiOps, s \in env.sess : Start(r, op, "load", s, None, None)

\* or by the Authorization header, which is tried first
BeginBearer(r) == \E op \in ApiOps, t \in Tokens : Start(r, op, "auth", None, None, t)

-----------------------------------------------------------------------------
(* Setup and login *)

\* Mutant: trusts the page to be shown only before the first setup.
Unchecked(r) ==
    /\ At(r, "setup", "count")
    /\ Goto(r, "insert")
    /\ UNCHANGED <<users, tokens, sess, proven, out, given, env>>

\* count() > 0 in setup_submit and once more in register_initial_admin
CheckSetup(r) ==
    /\ At(r, "setup", "count")
    /\ IF count > 0 THEN End(r) ELSE Goto(r, "insert")
    /\ UNCHANGED <<users, tokens, sess, proven, out, given, env>>

\* INSERT INTO users; UNIQUE(username)
register_initial_admin(r) ==
    /\ At(r, "setup", "insert")
    /\ IF users[req[r].user] # None
       THEN End(r) /\ UNCHANGED <<users, given>>
       ELSE users' = [users EXCEPT ![req[r].user] = NewUser] /\ Gives(r, Factors) /\ Goto(r, "load")
    /\ UNCHANGED <<tokens, sess, proven, out, env>>

\* Mutant: does not ask for TOTP.
NoGate(r) ==
    /\ At(r, "login", "find")
    /\ \/ End(r) /\ UNCHANGED given
       \/ /\ users[req[r].user] # None
          /\ Gives(r, IF TotpOn(req[r].user) THEN {"password"} ELSE Factors)
          /\ Goto(r, "load")
    /\ UNCHANGED <<users, tokens, sess, proven, out, env>>

\* a wrong name or password ends the request; see Lockout
authenticate_password(r) ==
    /\ At(r, "login", "find")
    /\ \/ End(r) /\ UNCHANGED given
       \/ /\ users[req[r].user] # None
          /\ Gives(r, IF TotpOn(req[r].user) THEN {"password"} ELSE Factors)
          /\ req' = [req EXCEPT ![r].gate = TotpOn(req[r].user), ![r].pc = "load"]
    /\ UNCHANGED <<users, tokens, sess, proven, out, env>>

\* setup_submit: AuthUser::store
StoreAdmin(r) ==
    /\ At(r, "setup", "load")
    /\ Modify(r, [Mine(r) EXCEPT !.user = req[r].user])
    /\ UNCHANGED <<users, tokens, sess, proven, out, given, env>>

\* Mutant: puts the pending user under the wrong key.
WrongKey(r) ==
    /\ At(r, "login", "load")
    /\ Modify(r, IF req[r].gate THEN [Mine(r) EXCEPT !.enrol = req[r].user]
                 ELSE [Mine(r) EXCEPT !.user = req[r].user])
    /\ UNCHANGED <<users, tokens, sess, proven, out, given, env>>

\* login_submit: AuthUser::store, or the pending user where TOTP is on; an insert that changes
\* nothing is not stored
StoreLogin(r) ==
    /\ At(r, "login", "load")
    /\ LET copy == IF req[r].gate THEN [Mine(r) EXCEPT !.pending = req[r].user]
                   ELSE [Mine(r) EXCEPT !.user = req[r].user]
       IN  IF copy = Mine(r) THEN End(r) ELSE Modify(r, copy)
    /\ UNCHANGED <<users, tokens, sess, proven, out, given, env>>

\* totp_submit reads the pending user ...
ReadPending(r) ==
    /\ At(r, "totp", "load")
    /\ IF Mine(r).pending = None THEN End(r)
       ELSE req' = [req EXCEPT ![r].copy = Mine(r), ![r].user = Mine(r).pending, ![r].pc = "verify"]
    /\ UNCHANGED <<users, tokens, sess, proven, out, given, env>>

\* ... and compares the code with the secret the table has now
verify_totp(r) ==
    /\ At(r, "totp", "verify")
    /\ \E code \in Secrets :
          IF code = users[req[r].user].secret
          THEN /\ Modify(r, [req[r].copy EXCEPT !.pending = None, !.user = req[r].user])
               /\ Gives(r, {"second"})
          ELSE End(r) /\ UNCHANGED given
    /\ UNCHANGED <<users, tokens, sess, proven, out, env>>

\* Mutant: takes only the pending user out.
ClearsPending(r) ==
    /\ At(r, "logout", "load")
    /\ Modify(r, [Mine(r) EXCEPT !.pending = None])
    /\ UNCHANGED <<users, tokens, sess, proven, out, given, env>>

\* a removal is stored even if there was nothing to remove
logout(r) ==
    /\ At(r, "logout", "load")
    /\ Modify(r, [Mine(r) EXCEPT !.user = None, !.pending = None])
    /\ UNCHANGED <<users, tokens, sess, proven, out, given, env>>

-----------------------------------------------------------------------------
(* Handlers with an AuthUser, which end at once when the session has none *)

Caller(r, op) == At(r, op, "load") /\ Mine(r).user # None

Unauthorized(r) ==
    /\ req[r].op \in {"enrol", "confirm", "disable", "form"} \cup ApiOps
    /\ req[r].pc = "load" /\ Mine(r).user = None
    /\ End(r)
    /\ UNCHANGED <<users, tokens, sess, proven, out, given, env>>

totp_setup_page(r) ==
    /\ Caller(r, "enrol")
    /\ \E k \in Secrets : Modify(r, [Mine(r) EXCEPT !.enrol = k])
    /\ UNCHANGED <<users, tokens, sess, proven, out, given, env>>

\* the code is compared with the secret of the copy, which is then stored
totp_confirm(r) ==
    /\ Caller(r, "confirm")
    /\ \/ End(r) /\ UNCHANGED proven
       \/ /\ Mine(r).enrol # None
          /\ req' = [req EXCEPT ![r].copy = Mine(r), ![r].user = Mine(r).user, ![r].pc = "update"]
          /\ proven' = [proven EXCEPT ![Mine(r).user] = @ \cup {Mine(r).enrol}]
    /\ UNCHANGED <<users, tokens, sess, out, given, env>>

EnableTotp(r) ==
    /\ At(r, "confirm", "update")
    /\ update_totp(req[r].user, req[r].copy.enrol)
    /\ Modify(r, [req[r].copy EXCEPT !.enrol = None])
    /\ UNCHANGED <<tokens, sess, proven, out, given, env>>

totp_disable(r) ==
    /\ Caller(r, "disable")
    /\ req' = [req EXCEPT ![r].copy = Mine(r), ![r].user = Mine(r).user, ![r].pc = "update"]
    /\ UNCHANGED <<users, tokens, sess, proven, out, given, env>>

DisableTotp(r) ==
    /\ At(r, "disable", "update")
    /\ update_totp(req[r].user, None)
    /\ Goto(r, "save")
    /\ UNCHANGED <<tokens, sess, proven, out, given, env>>

\* every other form: it leaves a flash message in the session
SetFlash(r) ==
    /\ Caller(r, "form")
    /\ Modify(r, Mine(r))
    /\ UNCHANGED <<users, tokens, sess, proven, out, given, env>>

-----------------------------------------------------------------------------
\* The session layer stores the whole copy.
Save(r) ==
    /\ req[r].pc = "save"
    /\ sess' = [sess EXCEPT ![req[r].sess] = req[r].copy]
    /\ out' = CASE req[r].op = "logout" /\ req[r].alone     -> out \cup {req[r].sess}
                [] req[r].op \in {"setup", "login", "totp"} -> out \ {req[r].sess}
                [] OTHER                                    -> out
    /\ given' = IF req[r].op = "logout" /\ req[r].alone
                THEN {g \in given : g[1] # req[r].sess} ELSE given
    /\ End(r)
    /\ UNCHANGED <<users, tokens, proven, env>>

-----------------------------------------------------------------------------
(* The REST API *)

ApiSession(r) ==
    /\ \E op \in ApiOps : Caller(r, op)
    /\ req' = [req EXCEPT ![r].user = Mine(r).user, ![r].pc = "act"]
    /\ UNCHANGED <<users, tokens, sess, proven, out, given, env>>

ApiBearer(r) ==
    /\ req[r].pc = "auth"
    /\ IF find_active_by_hash(req[r].tok)
       THEN req' = [req EXCEPT ![r].user = tokens[req[r].tok].user, ![r].pc = "act"]
       ELSE End(r)
    /\ UNCHANGED <<users, tokens, sess, proven, out, given, env>>

create(r) ==
    /\ At(r, "mint", "act")
    /\ \E t \in Tokens :
          /\ tokens[t] = None
          /\ tokens' = [tokens EXCEPT ![t] = [user |-> req[r].user, revoked |-> FALSE, expired |-> FALSE]]
    /\ End(r)
    /\ UNCHANGED <<users, sess, proven, out, given, env>>

\* WHERE id AND user_id AND revoked_at IS NULL
Revocable(t, u) == tokens[t] # None /\ tokens[t].user = u /\ ~tokens[t].revoked

revoke(r) ==
    /\ At(r, "revoke", "act")
    /\ \E t \in Tokens :
          tokens' = IF Revocable(t, req[r].user) THEN [tokens EXCEPT ![t].revoked = TRUE] ELSE tokens
    /\ End(r)
    /\ UNCHANGED <<users, sess, proven, out, given, env>>

Expire ==
    /\ "expire" \in env.ops
    /\ \E t \in Tokens :
          /\ tokens[t] # None /\ ~tokens[t].expired
          /\ tokens' = [tokens EXCEPT ![t].expired = TRUE]
    /\ UNCHANGED <<users, sess, req, proven, out, given, env>>

-----------------------------------------------------------------------------
(* The command line tool, in a process of its own, on the same database *)

CliCreateUser ==
    /\ "cli" \in env.ops
    /\ \E u \in env.users : users[u] = None /\ users' = [users EXCEPT ![u] = NewUser]
    /\ UNCHANGED <<tokens, sess, req, proven, out, given, env>>

CliDisableTotp ==
    /\ "cli" \in env.ops
    /\ \E u \in Users : users[u] # None /\ update_totp(u, None)
    /\ UNCHANGED <<tokens, sess, req, proven, out, given, env>>

\* A request is dropped or fails: its copy of the session is not stored.  A statement that
\* still runs counts as its last step.
Abandon(r) ==
    /\ "abandon" \in env.ops
    /\ req[r].pc # "idle"
    /\ End(r)
    /\ UNCHANGED <<users, tokens, sess, proven, out, given, env>>

\* MemoryStore: sessions do not survive.
Restart ==
    /\ "restart" \in env.ops
    /\ sess' = [s \in Sessions |-> Empty]
    /\ req' = [r \in Reqs |-> Idle]
    /\ out' = {}
    /\ given' = {}
    /\ UNCHANGED <<users, tokens, proven, env>>

Serve(r) ==
    \/ BeginNamed(r, "setup", "count") \/ BeginNamed(r, "login", "find")
    \/ BeginSession(r) \/ BeginBearer(r)
    \/ CheckSetup(r) \/ register_initial_admin(r) \/ authenticate_password(r)
    \/ StoreAdmin(r) \/ StoreLogin(r)
    \/ ReadPending(r) \/ verify_totp(r) \/ logout(r)
    \/ Unauthorized(r) \/ totp_setup_page(r) \/ totp_confirm(r) \/ EnableTotp(r)
    \/ totp_disable(r) \/ DisableTotp(r) \/ SetFlash(r) \/ Save(r)
    \/ ApiSession(r) \/ ApiBearer(r) \/ create(r) \/ revoke(r) \/ Abandon(r)

Next == (\E r \in Reqs : Serve(r)) \/ Expire \/ CliCreateUser \/ CliDisableTotp \/ Restart

Spec == Init /\ [][Next]_vars

-----------------------------------------------------------------------------
(***************************************************************************)
(* totp_confirm keeps the secret in the session until a right code arrives *)
(* and then stores it: whatever enrolments, resets and logins overlap, a   *)
(* user who is asked for a code has shown one for that very secret, so     *)
(* nobody is locked out by a half-finished enrolment.                      *)
(***************************************************************************)
TotpUsable == \A u \in Users : TotpOn(u) => users[u].secret \in proven[u]

(***************************************************************************)
(* A setup form that arrives when an account exists creates none, even if  *)
(* the page was opened before.                                             *)
(***************************************************************************)
SetupClosed == \A r \in Reqs : At(r, "setup", "load") => ~req[r].barred

(***************************************************************************)
(* Whoever a session is logged in as has given there, since the server     *)
(* started and since the last logout that ran alone, the password and a    *)
(* code that was right for the secret of the time, unless TOTP was off     *)
(* when a password was checked or the account was set up there: however    *)
(* setups, logins, codes and copies of the session overlap.                *)
(***************************************************************************)
SecondFactor ==
    \A s \in Sessions : sess[s].user # None => {s} \X {sess[s].user} \X Factors \subseteq given

(***************************************************************************)
(* A request that arrives after its token was revoked or has expired does  *)
(* not reach its handler.                                                  *)
(***************************************************************************)
SpentTokenRefused == \A r \in Reqs : (req[r].pc = "act" /\ req[r].tok # None) => ~req[r].barred

(***************************************************************************)
(* After a logout that overlapped no other request of its session, the     *)
(* session stays logged out until somebody logs in: no later request that  *)
(* stores its copy of the session brings the user back.                    *)
(***************************************************************************)
LogoutSticks == \A s \in out : sess[s].user = None
=============================================================================
