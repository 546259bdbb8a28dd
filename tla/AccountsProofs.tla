--------------------------- MODULE AccountsProofs ---------------------------
(***************************************************************************)
(* Proofs about Accounts for any finite set of usernames and any number of *)
(* sessions, tokens, TOTP secrets and requests.                            *)
(***************************************************************************)
EXTENDS Accounts, FiniteSetTheorems, TLAPS

LogIns == {"setup", "login", "totp"}

\* What a request knows when it has come so far.
Fit(q) ==
    /\ q.pc \notin {"idle", "auth", "act"} => q.sess \in Sessions
    /\ q.op \in {"setup", "login"} => q.user \in Users
    /\ q.op = "setup" => q.pc \in {"count", "insert", "load", "save"}
    /\ q.op = "login" => q.pc \in {"find", "load", "save"}
    /\ q.op \in ApiOps => q.pc \in {"load", "auth", "act"}
    /\ q.pc \in {"verify", "act", "update"} => q.user \in Users
    /\ q.pc = "verify" => q.op = "totp"
    /\ q.pc = "update" => q.op \in {"confirm", "disable"}
    /\ q.pc = "auth" => q.tok \in Tokens
    /\ (q.op = "logout" /\ q.pc = "save") => q.copy.user = None
    /\ q.tok # None => q.tok \in Tokens /\ q.op \in ApiOps /\ q.pc \in {"auth", "act"}

Spent(t) == tokens[t] # None /\ (tokens[t].revoked \/ tokens[t].expired)

\* A request that came too late still is, and has not got past the check that stops it; the
\* secret that a confirmation is about to store was shown; a copy of a session that
\* is logged out for good has no user.
Kept(q) ==
    /\ (q.op = "setup" /\ q.barred) => q.pc = "count" /\ \E u \in Users : users[u] # None
    /\ (q.tok # None /\ q.barred) => Spent(q.tok) /\ q.pc = "auth"
    /\ (q.op = "confirm" /\ q.pc = "update") => q.copy.enrol # None /\ q.copy.enrol \in proven[q.user]
    /\ (q.sess \in out /\ q.pc \in {"update", "save"} /\ q.op \notin LogIns) => q.copy.user = None

\* A request that is alone shares its session with no other.
Apart ==
    \A r \in Reqs : (req[r].alone /\ req[r].sess # None) => \A q \in Reqs \ {r} : req[q].sess # req[r].sess

AccountsInv ==
    /\ TypeOK
    /\ \A r \in Reqs : Fit(req[r]) /\ Kept(req[r])
    /\ Apart
    /\ TotpUsable
    /\ LogoutSticks

-----------------------------------------------------------------------------
LEMMA Types ==
    /\ None \notin Users /\ None \notin Secrets /\ None \notin Sessions /\ None \notin Tokens
    /\ None \notin User /\ None \notin Token
    /\ Empty \in Session /\ Idle \in Request /\ NewUser \in User
BY NoneAssumption DEF Empty, Idle, Session, Request, Maybe, NewUser, User

LEMMA IdleKept == Fit(Idle) /\ Kept(Idle)
BY DEF Idle, Fit, Kept, ApiOps

(* There are accounts if and only if count is positive. *)
LEMMA Counted == count > 0 <=> \E u \in Users : users[u] # None
<1> DEFINE S == {u \in Users : users[u] # None}
<1>1. IsFiniteSet(S)
  BY UsersAssumption, FS_Subset
<1>2. Cardinality(S) \in Nat /\ (Cardinality(S) = 0 <=> S = {})
  BY <1>1, FS_CardinalityType, FS_EmptySet
<1>3. count = Cardinality(S)
  BY DEF count
<1> QED BY <1>2, <1>3

(* What only grows while requests wait. *)
Grows ==
    /\ \A u \in Users : /\ users[u] # None => users'[u] # None
                        /\ proven[u] \subseteq proven'[u]
    /\ \A t \in Tokens : Spent(t) => Spent(t)'

(* Where these grow and its session is not newly logged out, a request keeps its promise. *)
LEMMA KeptOn ==
    ASSUME NEW q \in Request, Fit(q), Kept(q), Grows, q.sess \in out' => q.sess \in out
    PROVE  Kept(q)'
<1>1. (q.op = "setup" /\ q.barred) => q.pc = "count" /\ \E u \in Users : users'[u] # None
  BY DEF Kept, Grows
<1>3. (q.tok # None /\ q.barred) => Spent(q.tok)' /\ q.pc = "auth"
  BY DEF Fit, Kept, Grows
<1>4. (q.op = "confirm" /\ q.pc = "update") => q.copy.enrol # None /\ q.copy.enrol \in proven'[q.user]
  BY DEF Fit, Kept, Grows
<1>5. (q.sess \in out' /\ q.pc \in {"update", "save"} /\ q.op \notin LogIns) => q.copy.user = None
  BY DEF Kept
<1> QED BY <1>1, <1>3, <1>4, <1>5 DEF Kept

GivenType == given \subseteq Sessions \X Users \X Factors

LEMMA GivenStays == ASSUME AccountsInv, UNCHANGED given PROVE GivenType'
BY DEF AccountsInv, TypeOK, GivenType

LEMMA GivesType ==
    ASSUME AccountsInv, NEW r \in Reqs, NEW f \in SUBSET Factors, Gives(r, f),
           req[r].sess \in Sessions, req[r].user \in Users
    PROVE  GivenType'
BY DEF AccountsInv, TypeOK, GivenType, Gives

(* A step of request r, which keeps its session or ends. *)
LEMMA Advance ==
    ASSUME AccountsInv, NEW r \in Reqs, NEW q \in Request, Fit(q), Kept(q)',
           req' = [req EXCEPT ![r] = q],
           q = Idle \/ (q.sess = req[r].sess /\ q.alone = req[r].alone),
           Grows, \A x \in Reqs \ {r} : req[x].sess \in out' => req[x].sess \in out,
           users' \in [Users -> Maybe(User)], tokens' \in [Tokens -> Maybe(Token)],
           sess' \in [Sessions -> Session], proven' \in [Users -> SUBSET Secrets],
           out' \subseteq Sessions, GivenType', UNCHANGED env, TotpUsable', LogoutSticks'
    PROVE  AccountsInv'
<1>1. req' \in [Reqs -> Request] /\ req'[r] = q /\ \A x \in Reqs \ {r} : req'[x] = req[x]
  BY DEF AccountsInv, TypeOK
<1>2. TypeOK'
  BY <1>1 DEF AccountsInv, TypeOK, GivenType
<1>3. ASSUME NEW x \in Reqs PROVE (Fit(req[x]) /\ Kept(req[x]))'
  <2>1. CASE x = r
    BY <2>1, <1>1 DEF Fit, Kept, TotpOn, Spent
  <2>2. CASE x # r
    <3>1. PICK o \in Request : o = req[x] /\ o = req'[x] /\ Fit(o) /\ Kept(o)
      BY <2>2, <1>1 DEF AccountsInv, TypeOK
    <3>2. Kept(o)'
      BY <3>1, <2>2, KeptOn
    <3> QED BY <3>1, <3>2 DEF Fit, Kept, TotpOn, Spent
  <2> QED BY <2>1, <2>2
<1>4. Apart'
  BY <1>1 DEF AccountsInv, Apart, Idle
<1> QED BY <1>2, <1>3, <1>4 DEF AccountsInv

(* A step that changes nothing but what the request has in hand. *)
LEMMA Quiet ==
    ASSUME AccountsInv, NEW r \in Reqs, NEW q \in Request, Fit(q), Kept(q),
           req' = [req EXCEPT ![r] = q],
           q = Idle \/ (q.sess = req[r].sess /\ q.alone = req[r].alone),
           GivenType', UNCHANGED <<users, tokens, sess, proven, out, env>>
    PROVE  AccountsInv'
<1>1. Grows
  BY DEF Grows, TotpOn, Spent
<1>2. Kept(q)'
  BY <1>1, KeptOn
<1>3. TotpUsable' /\ LogoutSticks'
  BY DEF AccountsInv, TotpUsable, LogoutSticks, TotpOn
<1> QED BY <1>1, <1>2, <1>3, Advance DEF AccountsInv, TypeOK

LEMMA Ends ==
    ASSUME AccountsInv, NEW r \in Reqs, End(r), UNCHANGED <<users, tokens, sess, proven, out, given, env>>
    PROVE  AccountsInv'
BY Types, IdleKept, Quiet, GivenStays DEF End

-----------------------------------------------------------------------------
LEMMA AccountsInit == Init => AccountsInv
<1> SUFFICES ASSUME Init PROVE AccountsInv
  OBVIOUS
<1>1. TypeOK
  BY Types DEF Init, TypeOK, Maybe
<1>2. \A r \in Reqs : Fit(req[r]) /\ Kept(req[r])
  BY IdleKept DEF Init
<1>3. Apart /\ TotpUsable /\ LogoutSticks
  BY DEF Init, Apart, TotpUsable, TotpOn, LogoutSticks, Idle
<1> QED BY <1>1, <1>2, <1>3 DEF AccountsInv

(* The ways a request begins, and what it is given. *)
LEMMA Begins ==
    ASSUME AccountsInv, NEW r \in Reqs, NEW op \in WebOps \cup ApiOps,
           NEW pc \in {"count", "find", "load", "auth"},
           NEW s \in Maybe(Sessions), NEW u \in Maybe(Users), NEW t \in Maybe(Tokens),
           Start(r, op, pc, s, u, t),
           op = "setup" <=> pc = "count", op = "login" <=> pc = "find",
           op \in {"setup", "login"} => u \in Users,
           pc = "auth" <=> t # None, pc # "auth" => s \in Sessions, t # None => op \in ApiOps
    PROVE  AccountsInv'
<1>1. PICK b, a : b = Barred(op, t) /\ a = (Company(s) = {})
  OBVIOUS
<1>b. b \in BOOLEAN /\ a \in BOOLEAN /\ (a => Company(s) = {})
  BY <1>1, Zenon DEF Barred
<1>2. PICK q : q = [Idle EXCEPT !.op = op, !.pc = pc, !.sess = s, !.user = u, !.tok = t,
                                !.barred = b, !.alone = a]
  OBVIOUS
<1>3. /\ q \in Request
      /\ q.op = op /\ q.pc = pc /\ q.sess = s /\ q.user = u /\ q.tok = t
      /\ q.barred = b /\ q.alone = a
  <2>1. q = [op |-> op, pc |-> pc, sess |-> s, tok |-> t, user |-> u, gate |-> FALSE,
             copy |-> Empty, barred |-> b, alone |-> a]
    BY <1>2, Zenon DEF Idle
  <2> QED BY <2>1, <1>b, Types DEF Request
<1>4. Fit(q)
  BY <1>3 DEF Fit, ApiOps, Maybe
<1>5. Kept(q)
  <2>1. (op = "setup" /\ b) => \E x \in Users : users[x] # None
    BY <1>1, Counted, Types DEF Barred, Maybe, ApiOps
  <2>3. (t # None /\ b) => Spent(t)
    BY <1>1 DEF Barred, Spent, ApiOps
  <2> QED BY <1>3, <2>1, <2>3 DEF Kept, ApiOps
<1>6. req' = [x \in Reqs |-> IF x = r THEN q
                             ELSE IF x \in Company(s) THEN [req[x] EXCEPT !.alone = FALSE] ELSE req[x]]
  BY <1>1, <1>2, Zenon DEF Start
<1>7. ASSUME NEW x \in Reqs
      PROVE  /\ req'[x] \in Request /\ (Fit(req[x]) /\ Kept(req[x]))'
             /\ x # r => req'[x].sess = req[x].sess /\ (req'[x].alone => req[x].alone /\ x \notin Company(s))
  <2>1. PICK o \in Request : o = req[x] /\ Fit(o) /\ Kept(o)
    BY DEF AccountsInv, TypeOK
  <2>2. PICK n : n = [o EXCEPT !.alone = FALSE]
    OBVIOUS
  <2>3. n \in Request /\ Fit(n) /\ Kept(n) /\ n.sess = o.sess /\ n.alone = FALSE
    BY <2>1, <2>2 DEF Request, Fit, Kept
  <2>4. \/ x = r /\ req'[x] = q
        \/ x # r /\ req'[x] = n
        \/ x # r /\ x \notin Company(s) /\ req'[x] = o
    BY <1>6, <2>1, <2>2
  <2>5. \A y \in {q, n, o} : y \in Request /\ Fit(y) /\ Kept(y)
    BY <1>3, <1>4, <1>5, <2>1, <2>3
  <2>6. UNCHANGED <<users, tokens, sess, proven, out, given, env>>
    BY DEF Start
  <2>7. req'[x] \in Request /\ (Fit(req[x]) /\ Kept(req[x]))'
    BY <2>4, <2>5, <2>6 DEF Fit, Kept, TotpOn, Spent
  <2> QED BY <2>1, <2>3, <2>4, <2>7
<1>8. TypeOK' /\ TotpUsable' /\ LogoutSticks'
  BY <1>6, <1>7 DEF AccountsInv, TypeOK, TotpUsable, LogoutSticks, TotpOn, Start
<1>9. Apart'
  <2> SUFFICES ASSUME NEW x \in Reqs, NEW y \in Reqs \ {x}, req'[x].alone, req'[x].sess # None
               PROVE  req'[y].sess # req'[x].sess
    BY DEF Apart
  <2>1. CASE x = r
    <3>1. req'[x].sess = s /\ Company(s) = {}
      BY <2>1, <1>b, <1>3, <1>6
    <3>2. req'[y].sess = req[y].sess
      BY <2>1, <1>7
    <3> QED BY <3>1, <3>2 DEF Company
  <2>2. CASE y = r
    <3>1. req'[y].sess = s /\ x \notin Company(s) /\ req'[x].sess = req[x].sess
      BY <2>2, <1>3, <1>6, <1>7
    <3> QED BY <3>1 DEF Company
  <2>3. CASE x # r /\ y # r
    BY <2>3, <1>7 DEF AccountsInv, Apart
  <2> QED BY <2>1, <2>2, <2>3
<1> QED BY <1>7, <1>8, <1>9 DEF AccountsInv

(* What a step that writes some fields of a request leaves it with. *)
Same(p, q) == q.op = p.op /\ q.sess = p.sess /\ q.tok = p.tok /\ q.barred = p.barred /\ q.alone = p.alone

LEMMA Saving ==
    ASSUME TypeOK, NEW r \in Reqs, NEW copy \in Session, Modify(r, copy)
    PROVE  \E q \in Request : /\ req' = [req EXCEPT ![r] = q] /\ Same(req[r], q)
                              /\ q.pc = "save" /\ q.copy = copy /\ q.user = req[r].user /\ q.gate = req[r].gate
<1>1. PICK p \in Request : p = req[r]
  BY DEF TypeOK
<1>2. PICK q : q = [p EXCEPT !.copy = copy, !.pc = "save"]
  OBVIOUS
<1>3. q \in Request /\ Same(p, q) /\ q.pc = "save" /\ q.copy = copy /\ q.user = p.user /\ q.gate = p.gate
  BY <1>2 DEF Request, Same
<1>4. req' = [req EXCEPT ![r] = q]
  BY <1>1, <1>2 DEF Modify, TypeOK
<1> QED BY <1>1, <1>3, <1>4

LEMMA Going ==
    ASSUME TypeOK, NEW r \in Reqs, NEW pc \in {"insert", "load", "save"}, Goto(r, pc)
    PROVE  \E q \in Request : /\ req' = [req EXCEPT ![r] = q] /\ Same(req[r], q)
                              /\ q.pc = pc /\ q.copy = req[r].copy /\ q.user = req[r].user
<1>1. PICK p \in Request : p = req[r]
  BY DEF TypeOK
<1>2. PICK q : q = [p EXCEPT !.pc = pc]
  OBVIOUS
<1>3. q \in Request /\ Same(p, q) /\ q.pc = pc /\ q.copy = p.copy /\ q.user = p.user
  BY <1>2 DEF Request, Same
<1>4. req' = [req EXCEPT ![r] = q]
  BY <1>1, <1>2 DEF Goto, TypeOK
<1> QED BY <1>1, <1>3, <1>4

Take(r, copy, user, pc) == req' = [req EXCEPT ![r].copy = copy, ![r].user = user, ![r].pc = pc]

LEMMA Loading ==
    ASSUME TypeOK, NEW r \in Reqs, NEW copy \in Session, NEW user \in Users,
           NEW pc \in {"verify", "update"}, Take(r, copy, user, pc)
    PROVE  \E q \in Request : /\ req' = [req EXCEPT ![r] = q] /\ Same(req[r], q)
                              /\ q.pc = pc /\ q.copy = copy /\ q.user = user
<1>1. PICK p \in Request : p = req[r]
  BY DEF TypeOK
<1>2. PICK q : q = [p EXCEPT !.copy = copy, !.user = user, !.pc = pc]
  OBVIOUS
<1>3. q \in Request /\ Same(p, q) /\ q.pc = pc /\ q.copy = copy /\ q.user = user
  BY <1>2 DEF Request, Same, Maybe
<1>4. req' = [req EXCEPT ![r] = q]
  BY <1>1, <1>2 DEF TypeOK, Take
<1> QED BY <1>1, <1>3, <1>4

Enter(r, user) == req' = [req EXCEPT ![r].user = user, ![r].pc = "act"]

LEMMA Acting ==
    ASSUME TypeOK, NEW r \in Reqs, NEW user \in Users, Enter(r, user)
    PROVE  \E q \in Request : /\ req' = [req EXCEPT ![r] = q] /\ Same(req[r], q)
                              /\ q.pc = "act" /\ q.user = user
<1>1. PICK p \in Request : p = req[r]
  BY DEF TypeOK
<1>2. PICK q : q = [p EXCEPT !.user = user, !.pc = "act"]
  OBVIOUS
<1>3. q \in Request /\ Same(p, q) /\ q.pc = "act" /\ q.user = user
  BY <1>2 DEF Request, Same, Maybe
<1>4. req' = [req EXCEPT ![r] = q]
  BY <1>1, <1>2 DEF TypeOK, Enter
<1> QED BY <1>1, <1>3, <1>4

-----------------------------------------------------------------------------
(* Setup and login *)

LEMMA CheckSetupStep == ASSUME AccountsInv, NEW r \in Reqs, CheckSetup(r) PROVE AccountsInv'
<1>1. CASE count > 0
  BY <1>1, Ends DEF CheckSetup
<1>2. CASE ~(count > 0)
  <2>1. PICK q \in Request : req' = [req EXCEPT ![r] = q] /\ Same(req[r], q)
                             /\ q.pc = "insert" /\ q.copy = req[r].copy /\ q.user = req[r].user
    BY <1>2, Going DEF CheckSetup, AccountsInv
  <2>2. q.op = "setup" /\ q.tok = None /\ ~q.barred
    BY <1>2, <2>1, Counted DEF CheckSetup, At, Same, AccountsInv, Fit, Kept, ApiOps
  <2>3. Fit(q) /\ Kept(q)
    BY <2>1, <2>2 DEF Same, CheckSetup, At, AccountsInv, Fit, Kept, ApiOps
  <2> QED BY <2>1, <2>3, Quiet, GivenStays DEF CheckSetup, Same
<1> QED BY <1>1, <1>2

LEMMA InsertStep == ASSUME AccountsInv, NEW r \in Reqs, register_initial_admin(r) PROVE AccountsInv'
<1> DEFINE u == req[r].user
<1>1. u \in Users
  BY DEF AccountsInv, Fit, register_initial_admin, At
<1>2. CASE users[u] # None
  BY <1>2, Ends DEF register_initial_admin
<1>3. CASE users[u] = None
  <2>1. PICK q \in Request : req' = [req EXCEPT ![r] = q] /\ Same(req[r], q)
                             /\ q.pc = "load" /\ q.copy = req[r].copy /\ q.user = req[r].user
    BY <1>3, Going DEF register_initial_admin, AccountsInv
  <2>2. /\ users' = [users EXCEPT ![u] = NewUser] /\ Gives(r, Factors)
        /\ UNCHANGED <<tokens, sess, proven, out, env>>
    BY <1>3 DEF register_initial_admin
  <2>g. GivenType'
    BY <1>1, <2>2, GivesType DEF register_initial_admin, At, AccountsInv, Fit
  <2>3. users' \in [Users -> Maybe(User)]
    BY <1>1, <2>2, Types DEF AccountsInv, TypeOK, Maybe
  <2>4. \A v \in Users : /\ users[v] # None => users'[v] # None
                         /\ users'[v] # None /\ users'[v].totp <=> users[v] # None /\ users[v].totp
                         /\ v # u => users'[v] = users[v]
    BY <1>1, <1>3, <2>2, Types DEF AccountsInv, TypeOK, NewUser
  <2>5. Grows /\ TotpUsable' /\ LogoutSticks'
    BY <2>2, <2>4, <1>3 DEF Grows, TotpOn, Spent, AccountsInv, TotpUsable, LogoutSticks
  <2>6. Fit(q) /\ Kept(q)
    BY <2>1 DEF Same, register_initial_admin, At, AccountsInv, Fit, Kept, ApiOps
  <2>7. Kept(q)'
    BY <2>2, <2>5, <2>6, KeptOn
  <2> QED BY <2>1, <2>2, <2>g, <2>3, <2>5, <2>6, <2>7, Advance DEF Same, AccountsInv, TypeOK
<1> QED BY <1>2, <1>3

LEMMA PasswordStep == ASSUME AccountsInv, NEW r \in Reqs, authenticate_password(r) PROVE AccountsInv'
<1>1. CASE End(r) /\ UNCHANGED given
  BY <1>1, Ends DEF authenticate_password
<1>2. CASE /\ Gives(r, IF TotpOn(req[r].user) THEN {"password"} ELSE Factors)
           /\ req' = [req EXCEPT ![r].gate = TotpOn(req[r].user), ![r].pc = "load"]
  <2>1. PICK p \in Request : p = req[r] /\ Fit(p) /\ Kept(p) /\ p.op = "login" /\ p.pc = "find"
    BY DEF AccountsInv, TypeOK, authenticate_password, At
  <2>2. PICK g : g = TotpOn(p.user)
    OBVIOUS
  <2>3. g \in BOOLEAN
    <3>1. users[p.user] \in Maybe(User)
      BY <2>1 DEF AccountsInv, TypeOK, Fit
    <3>2. TotpOn(p.user) \in BOOLEAN
      BY <3>1, Zenon DEF TotpOn
    <3> QED BY <2>2, <3>2
  <2>5. PICK q : q = [p EXCEPT !.gate = g, !.pc = "load"]
    OBVIOUS
  <2>6. q \in Request /\ Same(p, q) /\ q.pc = "load" /\ q.gate = g /\ q.user = p.user
    BY <2>3, <2>5 DEF Request, Same
  <2>7. req' = [req EXCEPT ![r] = q]
    BY <1>2, <2>1, <2>2, <2>5 DEF AccountsInv, TypeOK
  <2>8. Fit(q) /\ Kept(q)
    BY <2>1, <2>6 DEF Same, Fit, Kept, ApiOps
  <2>9. GivenType'
    <3>1. PICK f \in SUBSET Factors : Gives(r, f)
      BY <1>2 DEF Factors
    <3> QED BY <2>1, <3>1, GivesType DEF Fit
  <2> QED BY <2>1, <2>6, <2>7, <2>8, <2>9, Quiet DEF Same, authenticate_password
<1> QED BY <1>1, <1>2 DEF authenticate_password

(* A handler that ends with a copy to store: outside the logins it brings no user back. *)
LEMMA Stores ==
    ASSUME AccountsInv, NEW r \in Reqs, NEW copy \in Session, Modify(r, copy),
           req[r].pc \in {"load", "verify"}, req[r].op \notin ApiOps,
           (req[r].op = "logout" \/ (req[r].sess \in out /\ req[r].op \notin LogIns)) => copy.user = None,
           GivenType', UNCHANGED <<users, tokens, sess, proven, out, env>>
    PROVE  AccountsInv'
<1>1. PICK q \in Request : /\ req' = [req EXCEPT ![r] = q] /\ Same(req[r], q)
                           /\ q.pc = "save" /\ q.copy = copy /\ q.user = req[r].user /\ q.gate = req[r].gate
  BY Saving DEF AccountsInv
<1>2. Fit(q) /\ Kept(q)
  BY <1>1 DEF Same, AccountsInv, Fit, Kept
<1> QED BY <1>1, <1>2, Quiet DEF Same

(* The session of a request that has come to its handler. *)
LEMMA MineType ==
    ASSUME AccountsInv, NEW r \in Reqs, req[r].pc = "load"
    PROVE  /\ req[r].sess \in Sessions /\ Mine(r) \in Session /\ req[r].tok = None
           /\ req[r].sess \in out => Mine(r).user = None
BY DEF AccountsInv, TypeOK, Fit, Mine, LogoutSticks

LEMMA StoreAdminStep == ASSUME AccountsInv, NEW r \in Reqs, StoreAdmin(r) PROVE AccountsInv'
<1>1. [Mine(r) EXCEPT !.user = req[r].user] \in Session
  <2>1. Mine(r) \in Session /\ req[r].user \in Maybe(Users)
    BY MineType DEF StoreAdmin, At, AccountsInv, TypeOK, Request
  <2> QED BY <2>1 DEF Session
<1> QED BY <1>1, Stores, GivenStays DEF StoreAdmin, At, LogIns, ApiOps

LEMMA StoreLoginStep == ASSUME AccountsInv, NEW r \in Reqs, StoreLogin(r) PROVE AccountsInv'
<1>1. Mine(r) \in Session /\ req[r].user \in Maybe(Users)
  BY MineType DEF StoreLogin, At, AccountsInv, TypeOK, Request
<1>2. PICK copy : copy = IF req[r].gate THEN [Mine(r) EXCEPT !.pending = req[r].user]
                         ELSE [Mine(r) EXCEPT !.user = req[r].user]
  OBVIOUS
<1>3. copy \in Session
  BY <1>1, <1>2 DEF Session
<1>4. End(r) \/ Modify(r, copy)
  BY <1>2 DEF StoreLogin
<1> QED BY <1>3, <1>4, Ends, Stores, GivenStays DEF StoreLogin, At, LogIns, ApiOps

LEMMA ReadPendingStep == ASSUME AccountsInv, NEW r \in Reqs, ReadPending(r) PROVE AccountsInv'
<1>1. CASE Mine(r).pending = None
  BY <1>1, Ends DEF ReadPending
<1>2. CASE Mine(r).pending # None
  <2>1. Mine(r) \in Session /\ Mine(r).pending \in Users
    BY <1>2, MineType DEF ReadPending, At, Session, Maybe
  <2>2. PICK copy \in Session, u \in Users : Take(r, copy, u, "verify")
    BY <1>2, <2>1, Zenon DEF ReadPending, Take
  <2>3. PICK q \in Request : /\ req' = [req EXCEPT ![r] = q] /\ Same(req[r], q)
                             /\ q.pc = "verify" /\ q.copy = copy /\ q.user = u
    BY <2>2, Loading DEF AccountsInv
  <2>4. Fit(q) /\ Kept(q)
    BY <2>2, <2>3 DEF Same, ReadPending, At, AccountsInv, Fit, Kept, ApiOps
  <2> QED BY <2>3, <2>4, Quiet, GivenStays DEF Same, ReadPending
<1> QED BY <1>1, <1>2

LEMMA VerifyStep == ASSUME AccountsInv, NEW r \in Reqs, verify_totp(r) PROVE AccountsInv'
<1>1. CASE End(r) /\ UNCHANGED given
  BY <1>1, Ends DEF verify_totp
<1>2. CASE /\ Modify(r, [req[r].copy EXCEPT !.pending = None, !.user = req[r].user])
           /\ Gives(r, {"second"})
  <2>1. req[r].copy \in Session /\ req[r].user \in Maybe(Users)
    BY DEF AccountsInv, TypeOK, Request
  <2>2. [req[r].copy EXCEPT !.pending = None, !.user = req[r].user] \in Session
    BY <2>1 DEF Session, Maybe
  <2>3. GivenType'
    BY <1>2, GivesType DEF verify_totp, At, AccountsInv, Fit, Factors
  <2> QED BY <1>2, <2>2, <2>3, Stores DEF verify_totp, At, LogIns, ApiOps
<1> QED BY <1>1, <1>2 DEF verify_totp

LEMMA LogoutStep == ASSUME AccountsInv, NEW r \in Reqs, logout(r) PROVE AccountsInv'
<1>1. PICK copy : copy = [Mine(r) EXCEPT !.user = None, !.pending = None]
  OBVIOUS
<1>2. Mine(r) \in Session
  BY MineType DEF logout, At
<1>3. copy \in Session /\ copy.user = None
  BY <1>1, <1>2 DEF Session, Maybe
<1>4. Modify(r, copy)
  BY <1>1 DEF logout
<1> QED BY <1>3, <1>4, Stores, GivenStays DEF logout, At, ApiOps

-----------------------------------------------------------------------------
(* Handlers with an AuthUser *)

LEMMA SetupPageStep == ASSUME AccountsInv, NEW r \in Reqs, totp_setup_page(r) PROVE AccountsInv'
<1>1. PICK k \in Secrets : Modify(r, [Mine(r) EXCEPT !.enrol = k])
  BY DEF totp_setup_page
<1>2. Mine(r) \in Session /\ req[r].sess \notin out
  BY MineType DEF totp_setup_page, Caller, At
<1>3. [Mine(r) EXCEPT !.enrol = k] \in Session
  BY <1>2 DEF Session, Maybe
<1> QED BY <1>1, <1>2, <1>3, Stores, GivenStays DEF totp_setup_page, Caller, At, ApiOps

LEMMA FlashStep == ASSUME AccountsInv, NEW r \in Reqs, SetFlash(r) PROVE AccountsInv'
<1>1. Mine(r) \in Session /\ req[r].sess \notin out
  BY MineType DEF SetFlash, Caller, At
<1> QED BY <1>1, Stores, GivenStays DEF SetFlash, Caller, At, ApiOps

LEMMA ConfirmStep == ASSUME AccountsInv, NEW r \in Reqs, totp_confirm(r) PROVE AccountsInv'
<1>1. CASE End(r) /\ UNCHANGED proven
  BY <1>1, Ends DEF totp_confirm
<1>2. CASE ~(End(r) /\ UNCHANGED proven)
  <2>1. /\ Mine(r) \in Session /\ Mine(r).user \in Users
        /\ Mine(r).enrol # None /\ Mine(r).enrol \in Secrets /\ req[r].sess \notin out
    BY <1>2, MineType DEF totp_confirm, Caller, At, Session, Maybe
  <2>2. PICK copy \in Session, u \in Users, k \in Secrets :
           /\ k = copy.enrol /\ k # None /\ Take(r, copy, u, "update")
           /\ proven' = [proven EXCEPT ![u] = @ \cup {k}]
           /\ UNCHANGED <<users, tokens, sess, out, given, env>>
    <3>1. /\ Take(r, Mine(r), Mine(r).user, "update")
          /\ proven' = [proven EXCEPT ![Mine(r).user] = @ \cup {Mine(r).enrol}]
          /\ UNCHANGED <<users, tokens, sess, out, given, env>>
      BY <1>2, Zenon DEF totp_confirm, Take
    <3> QED BY <2>1, <3>1, Zenon
  <2>3. PICK q \in Request : /\ req' = [req EXCEPT ![r] = q] /\ Same(req[r], q)
                             /\ q.pc = "update" /\ q.copy = copy /\ q.user = u
    BY <2>2, Loading DEF AccountsInv
  <2>4. /\ proven' \in [Users -> SUBSET Secrets] /\ k \in proven'[u]
        /\ \A v \in Users : proven[v] \subseteq proven'[v]
    BY <2>1, <2>2 DEF AccountsInv, TypeOK
  <2>5. Grows /\ TotpUsable' /\ LogoutSticks'
    BY <2>2, <2>4 DEF Grows, TotpOn, Spent, AccountsInv, TotpUsable, LogoutSticks
  <2>6. Fit(q)
    BY <2>2, <2>3 DEF Same, totp_confirm, Caller, At, AccountsInv, Fit, ApiOps
  <2>7. Kept(q)'
    BY <2>1, <2>2, <2>3, <2>4 DEF Same, totp_confirm, Caller, At, AccountsInv, Fit, Kept, ApiOps
  <2> QED BY <2>2, <2>3, <2>4, <2>5, <2>6, <2>7, Advance, GivenStays DEF Same, AccountsInv, TypeOK
<1> QED BY <1>1, <1>2

LEMMA EnableStep == ASSUME AccountsInv, NEW r \in Reqs, EnableTotp(r) PROVE AccountsInv'
<1> DEFINE u == req[r].user  k == req[r].copy.enrol
<1>1. u \in Users /\ k # None /\ k \in Secrets /\ k \in proven[u] /\ req[r].copy \in Session
  BY DEF EnableTotp, At, AccountsInv, TypeOK, Request, Session, Maybe, Fit, Kept
<1>2. users' = [users EXCEPT ![u] = [totp |-> TRUE, secret |-> k]] /\ UNCHANGED <<tokens, sess, proven, out, given, env>>
  BY <1>1 DEF EnableTotp, update_totp
<1>3. PICK copy : copy = [req[r].copy EXCEPT !.enrol = None]
  OBVIOUS
<1>4. copy \in Session /\ copy.user = req[r].copy.user
  BY <1>1, <1>3 DEF Session, Maybe
<1>5. PICK q \in Request : /\ req' = [req EXCEPT ![r] = q] /\ Same(req[r], q)
                           /\ q.pc = "save" /\ q.copy = copy /\ q.user = req[r].user /\ q.gate = req[r].gate
  BY <1>3, <1>4, Saving DEF EnableTotp, AccountsInv
<1>6. [totp |-> TRUE, secret |-> k] \in User
  BY <1>1 DEF User, Maybe
<1>7. /\ users' \in [Users -> Maybe(User)] /\ users'[u] # None /\ users'[u].totp /\ users'[u].secret = k
      /\ \A v \in Users : v # u => users'[v] = users[v]
  BY <1>1, <1>2, <1>6, Types DEF AccountsInv, TypeOK, Maybe
<1>8. Grows /\ TotpUsable' /\ LogoutSticks'
  BY <1>1, <1>2, <1>7 DEF Grows, TotpOn, Spent, AccountsInv, TotpUsable, LogoutSticks
<1>9. Fit(q) /\ Kept(q)
  BY <1>4, <1>5 DEF Same, EnableTotp, At, AccountsInv, Fit, Kept, LogIns
<1>10. Kept(q)'
  BY <1>2, <1>8, <1>9, KeptOn
<1> QED BY <1>2, <1>5, <1>7, <1>8, <1>9, <1>10, Advance, GivenStays DEF Same, AccountsInv, TypeOK

LEMMA DisableReadStep == ASSUME AccountsInv, NEW r \in Reqs, totp_disable(r) PROVE AccountsInv'
<1>1. Mine(r) \in Session /\ Mine(r).user \in Users /\ req[r].sess \notin out
  BY MineType DEF totp_disable, Caller, At, Session, Maybe
<1>2. PICK copy \in Session, u \in Users : Take(r, copy, u, "update")
  BY <1>1, Zenon DEF totp_disable, Take
<1>3. PICK q \in Request : /\ req' = [req EXCEPT ![r] = q] /\ Same(req[r], q)
                           /\ q.pc = "update" /\ q.copy = copy /\ q.user = u
  BY <1>2, Loading DEF AccountsInv
<1>4. Fit(q) /\ Kept(q)
  BY <1>1, <1>3 DEF Same, totp_disable, Caller, At, AccountsInv, Fit, Kept, ApiOps
<1> QED BY <1>3, <1>4, Quiet, GivenStays DEF Same, totp_disable

(* Resetting TOTP of u disturbs no request. *)
LEMMA Resets ==
    ASSUME AccountsInv, NEW u \in Users, update_totp(u, None), UNCHANGED <<tokens, proven>>
    PROVE  users' \in [Users -> Maybe(User)] /\ TotpUsable' /\ Grows
<1>1. [totp |-> FALSE, secret |-> None] \in User
  BY DEF User, Maybe
<1>2. /\ users' \in [Users -> Maybe(User)] /\ users'[u] # None /\ ~users'[u].totp
      /\ \A v \in Users : v # u => users'[v] = users[v]
  BY <1>1, Types DEF AccountsInv, TypeOK, Maybe, update_totp
<1>3. TotpUsable' /\ Grows
  BY <1>2 DEF AccountsInv, TotpUsable, TotpOn, Grows, Spent
<1> QED BY <1>2, <1>3

LEMMA DisableStep == ASSUME AccountsInv, NEW r \in Reqs, DisableTotp(r) PROVE AccountsInv'
<1>1. PICK u \in Users : u = req[r].user /\ update_totp(u, None) /\ UNCHANGED <<tokens, sess, proven, out, given, env>>
  BY DEF DisableTotp, At, AccountsInv, Fit
<1>2. users' \in [Users -> Maybe(User)] /\ TotpUsable' /\ Grows /\ LogoutSticks'
  BY <1>1, Resets DEF AccountsInv, LogoutSticks
<1>3. PICK q \in Request : /\ req' = [req EXCEPT ![r] = q] /\ Same(req[r], q)
                           /\ q.pc = "save" /\ q.copy = req[r].copy /\ q.user = req[r].user
  BY Going DEF DisableTotp, AccountsInv
<1>4. Fit(q) /\ Kept(q)
  BY <1>3 DEF Same, DisableTotp, At, AccountsInv, Fit, Kept
<1>5. Kept(q)'
  BY <1>1, <1>2, <1>4, KeptOn
<1> QED BY <1>1, <1>2, <1>3, <1>4, <1>5, Advance, GivenStays DEF Same, AccountsInv, TypeOK

-----------------------------------------------------------------------------
(* The REST API *)

LEMMA ApiSessionStep == ASSUME AccountsInv, NEW r \in Reqs, ApiSession(r) PROVE AccountsInv'
<1>1. Mine(r).user \in Users /\ req[r].tok = None /\ req[r].op \in ApiOps
  BY MineType DEF ApiSession, Caller, At, Session, Maybe
<1>2. PICK u \in Users : Enter(r, u)
  BY <1>1, Zenon DEF ApiSession, Enter
<1>3. PICK q \in Request : req' = [req EXCEPT ![r] = q] /\ Same(req[r], q) /\ q.pc = "act" /\ q.user = u
  BY <1>2, Acting DEF AccountsInv
<1>4. Fit(q) /\ Kept(q)
  BY <1>1, <1>3 DEF Same, Fit, Kept, ApiOps
<1> QED BY <1>3, <1>4, Quiet, GivenStays DEF Same, ApiSession

LEMMA ApiBearerStep == ASSUME AccountsInv, NEW r \in Reqs, ApiBearer(r) PROVE AccountsInv'
<1> DEFINE t == req[r].tok
<1>1. t \in Tokens /\ t # None /\ req[r].op \in ApiOps
  BY Types DEF ApiBearer, AccountsInv, Fit
<1>2. CASE ~find_active_by_hash(t)
  BY <1>2, Ends DEF ApiBearer
<1>3. CASE find_active_by_hash(t)
  <2>1. tokens[t].user \in Users /\ ~Spent(t)
    BY <1>1, <1>3 DEF find_active_by_hash, Spent, AccountsInv, TypeOK, Token, Maybe
  <2>2. PICK u \in Users : Enter(r, u)
    BY <1>3, <2>1, Zenon DEF ApiBearer, Enter
  <2>3. PICK q \in Request : req' = [req EXCEPT ![r] = q] /\ Same(req[r], q) /\ q.pc = "act" /\ q.user = u
    BY <2>2, Acting DEF AccountsInv
  <2>4. Fit(q) /\ Kept(q)
    BY <1>1, <2>1, <2>3 DEF Same, Fit, Kept, ApiOps, AccountsInv
  <2> QED BY <2>3, <2>4, Quiet, GivenStays DEF Same, ApiBearer
<1> QED BY <1>2, <1>3

(* A token can only become spent. *)
TokensAge == tokens' \in [Tokens -> Maybe(Token)] /\ \A t \in Tokens : Spent(t) => Spent(t)'

LEMMA TokensOnly ==
    ASSUME AccountsInv, NEW r \in Reqs, End(r), TokensAge, UNCHANGED <<users, sess, proven, out, given, env>>
    PROVE  AccountsInv'
<1>1. Grows /\ TotpUsable' /\ LogoutSticks'
  BY DEF Grows, TokensAge, TotpOn, AccountsInv, TotpUsable, LogoutSticks
<1>2. Kept(Idle)'
  BY <1>1, KeptOn, Types, IdleKept
<1> QED BY <1>1, <1>2, Types, IdleKept, Advance, GivenStays DEF End, AccountsInv, TypeOK, TokensAge

(* A step of nobody's request. *)
LEMMA Aside ==
    ASSUME AccountsInv, UNCHANGED <<req, sess, proven, out, given, env>>, Grows, TotpUsable',
           users' \in [Users -> Maybe(User)], tokens' \in [Tokens -> Maybe(Token)]
    PROVE  AccountsInv'
<1>1. ASSUME NEW x \in Reqs PROVE (Fit(req[x]) /\ Kept(req[x]))'
  <2>1. PICK o \in Request : o = req[x] /\ o = req'[x] /\ Fit(o) /\ Kept(o)
    BY DEF AccountsInv, TypeOK
  <2>2. Kept(o)'
    BY <2>1, KeptOn
  <2> QED BY <2>1, <2>2 DEF Fit, Kept, TotpOn, Spent
<1>2. TypeOK' /\ Apart' /\ LogoutSticks'
  BY DEF AccountsInv, TypeOK, Apart, LogoutSticks
<1> QED BY <1>1, <1>2 DEF AccountsInv

LEMMA CliDisableStep == ASSUME AccountsInv, CliDisableTotp PROVE AccountsInv'
BY Resets, Aside DEF CliDisableTotp, AccountsInv, TypeOK

LEMMA CreateStep == ASSUME AccountsInv, NEW r \in Reqs, create(r) PROVE AccountsInv'
<1>1. [user |-> req[r].user, revoked |-> FALSE, expired |-> FALSE] \in Token
  BY DEF create, At, AccountsInv, Fit, Token
<1>2. PICK t \in Tokens, k \in Token : tokens[t] = None /\ tokens' = [tokens EXCEPT ![t] = k]
  BY <1>1, Zenon DEF create
<1>3. TokensAge
  BY <1>1, <1>2 DEF TokensAge, Spent, AccountsInv, TypeOK, Maybe
<1> QED BY <1>3, TokensOnly DEF create

(* Revoking or expiring. *)
LEMMA TokenEdit ==
    ASSUME AccountsInv, NEW t \in Tokens, tokens[t] # None, NEW k \in Token,
           tokens' = [tokens EXCEPT ![t] = k],
           tokens[t].revoked => k.revoked, tokens[t].expired => k.expired
    PROVE  TokensAge
BY Types DEF TokensAge, Spent, AccountsInv, TypeOK, Maybe

LEMMA RevokeStep == ASSUME AccountsInv, NEW r \in Reqs, revoke(r) PROVE AccountsInv'
<1>1. PICK t \in Tokens :
         tokens' = IF Revocable(t, req[r].user) THEN [tokens EXCEPT ![t].revoked = TRUE] ELSE tokens
  BY DEF revoke
<1>2. TokensAge
  <2>1. CASE Revocable(t, req[r].user)
    <3>1. PICK o \in Token : o = tokens[t] /\ tokens[t] # None
      BY <2>1 DEF Revocable, AccountsInv, TypeOK, Maybe
    <3>2. PICK k : k = [o EXCEPT !.revoked = TRUE]
      OBVIOUS
    <3>3. k \in Token /\ k.revoked /\ k.expired = o.expired
      BY <3>2 DEF Token
    <3>4. tokens' = [tokens EXCEPT ![t] = k]
      BY <1>1, <2>1, <3>1, <3>2 DEF AccountsInv, TypeOK
    <3> QED BY <3>1, <3>3, <3>4, TokenEdit
  <2>2. CASE ~Revocable(t, req[r].user)
    BY <1>1, <2>2 DEF TokensAge, Spent, AccountsInv, TypeOK
  <2> QED BY <2>1, <2>2
<1> QED BY <1>2, TokensOnly DEF revoke

LEMMA ExpireStep == ASSUME AccountsInv, Expire PROVE AccountsInv'
<1>1. PICK t \in Tokens : tokens[t] # None /\ tokens' = [tokens EXCEPT ![t].expired = TRUE]
  BY DEF Expire
<1>2. PICK o \in Token : o = tokens[t]
  BY <1>1 DEF AccountsInv, TypeOK, Maybe
<1>3. PICK k : k = [o EXCEPT !.expired = TRUE]
  OBVIOUS
<1>4. k \in Token /\ k.expired /\ k.revoked = o.revoked
  BY <1>3 DEF Token
<1>5. tokens' = [tokens EXCEPT ![t] = k]
  BY <1>1, <1>2, <1>3 DEF AccountsInv, TypeOK
<1>6. TokensAge
  BY <1>1, <1>2, <1>4, <1>5, TokenEdit
<1>7. Grows /\ TotpUsable'
  BY <1>6 DEF Expire, Grows, TokensAge, TotpOn, AccountsInv, TotpUsable
<1> QED BY <1>6, <1>7, Aside DEF Expire, AccountsInv, TypeOK, TokensAge

-----------------------------------------------------------------------------
LEMMA SaveStep == ASSUME AccountsInv, NEW r \in Reqs, Save(r) PROVE AccountsInv'
<1>1. PICK p \in Request : p = req[r] /\ p.pc = "save" /\ Fit(p) /\ Kept(p)
  BY DEF Save, AccountsInv, TypeOK
<1>2. p.sess \in Sessions /\ p.copy \in Session /\ p.sess # None
  BY <1>1, Types DEF Fit, Request
<1>3. sess' = [sess EXCEPT ![p.sess] = p.copy] /\ End(r) /\ UNCHANGED <<users, tokens, proven, env>>
  BY <1>1 DEF Save
<1>4. \/ p.op = "logout" /\ p.alone /\ out' = out \cup {p.sess}
      \/ p.op \in LogIns /\ out' = out \ {p.sess}
      \/ p.op \notin LogIns /\ out' = out
  <2>1. CASE p.op = "logout" /\ p.alone
    BY <2>1, <1>1 DEF Save
  <2>2. CASE p.op \in LogIns
    BY <2>2, <1>1 DEF Save, LogIns
  <2>3. CASE p.op \notin LogIns /\ ~(p.op = "logout" /\ p.alone)
    BY <2>3, <1>1 DEF Save, LogIns
  <2> QED BY <2>1, <2>2, <2>3
<1>5. \A x \in Reqs \ {r} : req[x].sess \in out' => req[x].sess \in out
  BY <1>1, <1>2, <1>4 DEF AccountsInv, Apart
<1>6. sess' \in [Sessions -> Session] /\ out' \subseteq Sessions
  BY <1>2, <1>3, <1>4 DEF AccountsInv, TypeOK
<1>7. LogoutSticks'
  <2> SUFFICES ASSUME NEW s \in out' PROVE sess'[s].user = None
    BY DEF LogoutSticks
  <2>1. CASE s = p.sess
    <3>1. p.copy.user = None
      BY <2>1, <1>1, <1>4 DEF Fit, Kept, LogIns
    <3> QED BY <2>1, <3>1, <1>2, <1>3 DEF AccountsInv, TypeOK
  <2>2. CASE s # p.sess
    BY <2>2, <1>3, <1>4 DEF AccountsInv, TypeOK, LogoutSticks
  <2> QED BY <2>1, <2>2
<1>8. Grows /\ TotpUsable'
  BY <1>3 DEF Grows, TotpOn, Spent, AccountsInv, TotpUsable
<1>9. Kept(Idle)'
  BY DEF Kept, Idle
<1>10. GivenType'
  BY DEF Save, AccountsInv, TypeOK, GivenType
<1> QED BY <1>3, <1>5, <1>6, <1>7, <1>8, <1>9, <1>10, Types, IdleKept, Advance DEF End, AccountsInv, TypeOK

LEMMA RestartStep == ASSUME AccountsInv, Restart PROVE AccountsInv'
<1>1. TypeOK'
  BY Types DEF Restart, AccountsInv, TypeOK
<1>2. \A r \in Reqs : req'[r] = Idle
  BY DEF Restart
<1>3. Fit(Idle) /\ Kept(Idle)'
  BY IdleKept DEF Kept, Idle
<1>4. \A r \in Reqs : (Fit(req[r]) /\ Kept(req[r]))'
  BY <1>2, <1>3 DEF Fit, Kept, TotpOn, Spent
<1>5. Apart' /\ TotpUsable' /\ LogoutSticks'
  BY <1>2 DEF Restart, Apart, AccountsInv, TotpUsable, TotpOn, LogoutSticks, Idle
<1> QED BY <1>1, <1>4, <1>5 DEF AccountsInv

LEMMA CliCreateStep == ASSUME AccountsInv, CliCreateUser PROVE AccountsInv'
<1>1. PICK u \in Users : users[u] = None /\ users' = [users EXCEPT ![u] = NewUser]
  <2>1. PICK u \in env.users : users[u] = None /\ users' = [users EXCEPT ![u] = NewUser]
    BY DEF CliCreateUser
  <2>2. env.users \subseteq Users
    BY EnvsAssumption DEF AccountsInv, TypeOK, Environment
  <2> QED BY <2>1, <2>2
<1>2. users' \in [Users -> Maybe(User)]
  BY <1>1, Types DEF AccountsInv, TypeOK, Maybe
<1>3. \A v \in Users : /\ users[v] # None => users'[v] # None
                       /\ users'[v] # None /\ users'[v].totp <=> users[v] # None /\ users[v].totp
                       /\ v # u => users'[v] = users[v]
  BY <1>1, Types DEF AccountsInv, TypeOK, NewUser
<1>4. Grows /\ TotpUsable'
  BY <1>1, <1>3 DEF CliCreateUser, Grows, TotpOn, Spent, AccountsInv, TotpUsable
<1> QED BY <1>2, <1>4, Aside DEF CliCreateUser, AccountsInv, TypeOK

-----------------------------------------------------------------------------
LEMMA BeginNamedStep ==
    ASSUME AccountsInv, NEW r \in Reqs,
           BeginNamed(r, "setup", "count") \/ BeginNamed(r, "login", "find")
    PROVE  AccountsInv'
<1>1. env.sess \subseteq Sessions /\ env.users \subseteq Users
  BY EnvsAssumption DEF AccountsInv, TypeOK, Environment
<1>2. PICK s \in Sessions, u \in Users :
         Start(r, "setup", "count", s, u, None) \/ Start(r, "login", "find", s, u, None)
  BY <1>1 DEF BeginNamed
<1>3. s \in Maybe(Sessions) /\ u \in Maybe(Users) /\ None \in Maybe(Tokens)
  BY DEF Maybe
<1>4. "setup" \in WebOps \cup ApiOps /\ "login" \in WebOps \cup ApiOps
  BY DEF WebOps
<1> QED BY <1>2, <1>3, <1>4, Begins

LEMMA BeginSessionStep == ASSUME AccountsInv, NEW r \in Reqs, BeginSession(r) PROVE AccountsInv'
<1>1. env.sess \subseteq Sessions
  BY EnvsAssumption DEF AccountsInv, TypeOK, Environment
<1>2. PICK op \in (WebOps \ {"setup", "login"}) \cup ApiOps, s \in Sessions :
         Start(r, op, "load", s, None, None)
  BY <1>1 DEF BeginSession
<1>3. s \in Maybe(Sessions) /\ None \in Maybe(Users) /\ None \in Maybe(Tokens)
  BY DEF Maybe
<1>4. op \in WebOps \cup ApiOps /\ op \notin {"setup", "login"}
  BY DEF ApiOps
<1> QED BY <1>2, <1>3, <1>4, Begins

LEMMA BeginBearerStep == ASSUME AccountsInv, NEW r \in Reqs, BeginBearer(r) PROVE AccountsInv'
<1>1. PICK op \in ApiOps, t \in Tokens : Start(r, op, "auth", None, None, t)
  BY DEF BeginBearer
<1>2. None \in Maybe(Sessions) /\ None \in Maybe(Users) /\ t \in Maybe(Tokens) /\ t # None
  BY Types DEF Maybe
<1>3. op \in WebOps \cup ApiOps /\ op \notin {"setup", "login"}
  BY DEF ApiOps
<1> QED BY <1>1, <1>2, <1>3, Begins

LEMMA AccountsStep == AccountsInv /\ [Next]_vars => AccountsInv'
<1> SUFFICES ASSUME AccountsInv, [Next]_vars PROVE AccountsInv'
  OBVIOUS
<1>1. CASE \E r \in Reqs : Serve(r)
  <2> PICK r \in Reqs : Serve(r)
    BY <1>1
  <2>1. CASE \/ BeginNamed(r, "setup", "count") \/ BeginNamed(r, "login", "find")
             \/ BeginSession(r) \/ BeginBearer(r)
    BY <2>1, BeginNamedStep, BeginSessionStep, BeginBearerStep
  <2>2. CASE CheckSetup(r) \/ register_initial_admin(r) \/ authenticate_password(r)
    BY <2>2, CheckSetupStep, InsertStep, PasswordStep
  <2>3. CASE StoreAdmin(r) \/ StoreLogin(r) \/ ReadPending(r) \/ verify_totp(r) \/ logout(r)
    BY <2>3, StoreAdminStep, StoreLoginStep, ReadPendingStep, VerifyStep, LogoutStep
  <2>4. CASE totp_setup_page(r) \/ totp_confirm(r) \/ EnableTotp(r)
    BY <2>4, SetupPageStep, ConfirmStep, EnableStep
  <2>5. CASE totp_disable(r) \/ DisableTotp(r) \/ SetFlash(r) \/ Save(r)
    BY <2>5, DisableReadStep, DisableStep, FlashStep, SaveStep
  <2>6. CASE ApiSession(r) \/ ApiBearer(r) \/ create(r) \/ revoke(r)
    BY <2>6, ApiSessionStep, ApiBearerStep, CreateStep, RevokeStep
  <2>7. CASE Unauthorized(r) \/ Abandon(r)
    BY <2>7, Ends DEF Unauthorized, Abandon
  <2> QED BY <2>1, <2>2, <2>3, <2>4, <2>5, <2>6, <2>7 DEF Serve
<1>2. CASE Expire \/ CliCreateUser \/ CliDisableTotp \/ Restart
  BY <1>2, ExpireStep, CliCreateStep, CliDisableStep, RestartStep
<1>3. CASE UNCHANGED vars
  BY <1>3 DEF vars, AccountsInv, TypeOK, Fit, Kept, Spent, TotpOn, Apart, TotpUsable, LogoutSticks
<1> QED BY <1>1, <1>2, <1>3 DEF Next

LEMMA AccountsInvariant == Spec => []AccountsInv
BY AccountsInit, AccountsStep, PTL DEF Spec

-----------------------------------------------------------------------------
(* The second factor *)

\* A session, or a copy of it, names a user who has given both factors there, and a pending one
\* who has given the password.
Known(s, c) ==
    /\ c.user # None => <<s, c.user, "password">> \in given /\ <<s, c.user, "second">> \in given
    /\ c.pending # None => <<s, c.pending, "password">> \in given

\* What the user of a request must have given when it has come so far.
Backed(q) ==
    /\ (q.op \in {"setup", "login"} /\ q.pc = "load") => <<q.sess, q.user, "password">> \in given
    /\ (q.op \in {"setup", "login"} /\ q.pc = "load" /\ ~q.gate) => <<q.sess, q.user, "second">> \in given
    /\ q.op = "setup" => ~q.gate
    /\ (q.op = "totp" /\ q.pc = "verify") => <<q.sess, q.user, "password">> \in given
    /\ q.pc \in {"verify", "update", "save"} => Known(q.sess, q.copy)
    /\ (q.op = "logout" /\ q.pc = "save") => q.copy.user = None /\ q.copy.pending = None

FactorInv ==
    /\ \A s \in Sessions : Known(s, sess[s])
    /\ \A r \in Reqs : Backed(req[r])

LEMMA FactorInit == Init => FactorInv
BY DEF Init, FactorInv, Known, Backed, Empty, Idle

(* A step of request r in which factors are only added and no session is stored. *)
LEMMA FactorAdvance ==
    ASSUME TypeOK, FactorInv, NEW r \in Reqs, NEW q, req' = [req EXCEPT ![r] = q], Backed(q)',
           given \subseteq given', UNCHANGED sess
    PROVE  FactorInv'
<1>1. \A x \in Reqs : req'[x] = IF x = r THEN q ELSE req[x]
  BY DEF TypeOK
<1>2. \A s \in Sessions : Known(s, sess[s])'
  BY DEF FactorInv, Known
<1>3. ASSUME NEW x \in Reqs PROVE Backed(req[x])'
  <2>1. CASE x = r
    BY <1>1, <2>1 DEF Backed, Known
  <2>2. CASE x # r
    BY <1>1, <2>2 DEF FactorInv, Backed, Known
  <2> QED BY <2>1, <2>2
<1> QED BY <1>2, <1>3 DEF FactorInv

LEMMA FactorEnds ==
    ASSUME TypeOK, FactorInv, NEW r \in Reqs, End(r), UNCHANGED <<sess, given>>
    PROVE  FactorInv'
BY FactorAdvance DEF End, Backed, Idle

(* A handler that is about to store a copy whose users have given what they must. *)
LEMMA FactorStores ==
    ASSUME TypeOK, FactorInv, NEW r \in Reqs, NEW copy \in Session, Modify(r, copy),
           NEW s, s = req[r].sess, Known(s, copy)', req[r].op = "setup" => ~req[r].gate,
           req[r].op = "logout" => copy.user = None /\ copy.pending = None,
           given \subseteq given', UNCHANGED sess
    PROVE  FactorInv'
<1>1. PICK q \in Request : /\ req' = [req EXCEPT ![r] = q] /\ Same(req[r], q)
                           /\ q.pc = "save" /\ q.copy = copy /\ q.user = req[r].user /\ q.gate = req[r].gate
  BY Saving
<1>2. Backed(q)'
  BY <1>1 DEF Same, Backed, Known
<1> QED BY <1>1, <1>2, FactorAdvance

LEMMA FactorBegins ==
    ASSUME TypeOK, FactorInv, NEW r \in Reqs, NEW op, NEW pc \in {"count", "find", "load", "auth"},
           NEW s, NEW u, NEW t, Start(r, op, pc, s, u, t), pc = "load" => op \notin {"setup", "login"}
    PROVE  FactorInv'
<1>1. PICK q : q = [Idle EXCEPT !.op = op, !.pc = pc, !.sess = s, !.user = u, !.tok = t,
                                !.barred = Barred(op, t), !.alone = Company(s) = {}]
  OBVIOUS
<1>2. q.op = op /\ q.pc = pc /\ ~q.gate
  BY <1>1 DEF Idle
<1>3. UNCHANGED <<sess, given>>
  BY DEF Start
<1>4. ASSUME NEW x \in Reqs PROVE Backed(req[x])'
  <2>1. PICK o \in Request : o = req[x] /\ Backed(o)
    BY DEF TypeOK, FactorInv
  <2>2. PICK n : n = [o EXCEPT !.alone = FALSE]
    OBVIOUS
  <2>3. n.op = o.op /\ n.pc = o.pc /\ n.sess = o.sess /\ n.user = o.user /\ n.gate = o.gate /\ n.copy = o.copy
    BY <2>2 DEF Request
  <2>4. Backed(n) /\ Backed(q)
    BY <1>2, <2>1, <2>3 DEF Backed
  <2>5. req'[x] = q \/ req'[x] = n \/ req'[x] = o
    BY <1>1, <2>1, <2>2 DEF Start
  <2>6. Backed(req'[x])
    BY <2>1, <2>4, <2>5
  <2> QED BY <1>3, <2>6 DEF Backed, Known
<1> QED BY <1>3, <1>4 DEF FactorInv, Known

(* Setup and the password check. *)
LEMMA FactorGiven ==
    ASSUME AccountsInv, FactorInv, NEW r \in Reqs,
           CheckSetup(r) \/ register_initial_admin(r) \/ authenticate_password(r)
    PROVE  FactorInv'
<1>1. TypeOK /\ Backed(req[r])
  BY DEF AccountsInv, FactorInv
<1>2. CASE End(r) /\ UNCHANGED <<sess, given>>
  BY <1>1, <1>2, FactorEnds
<1>3. CASE CheckSetup(r) /\ ~(End(r) /\ UNCHANGED <<sess, given>>)
  <2>1. PICK p \in Request : p = req[r] /\ p.op = "setup" /\ ~p.gate
    BY <1>1, <1>3 DEF CheckSetup, At, Backed, TypeOK
  <2>2. PICK q : q = [p EXCEPT !.pc = "insert"]
    OBVIOUS
  <2>3. q.op = "setup" /\ q.pc = "insert" /\ ~q.gate
    BY <2>1, <2>2 DEF Request
  <2>4. req' = [req EXCEPT ![r] = q] /\ UNCHANGED <<sess, given>>
    BY <1>1, <1>3, <2>1, <2>2 DEF CheckSetup, Goto, TypeOK
  <2>5. Backed(q)'
    BY <2>3 DEF Backed
  <2> QED BY <1>1, <2>4, <2>5, FactorAdvance
<1>4. CASE register_initial_admin(r) /\ ~(End(r) /\ UNCHANGED <<sess, given>>)
  <2>1. PICK p \in Request : p = req[r] /\ p.op = "setup" /\ ~p.gate
    BY <1>1, <1>4 DEF register_initial_admin, At, Backed, TypeOK
  <2>2. PICK q : q = [p EXCEPT !.pc = "load"]
    OBVIOUS
  <2>3. q.op = "setup" /\ q.pc = "load" /\ ~q.gate /\ q.sess = p.sess /\ q.user = p.user
    BY <2>1, <2>2 DEF Request
  <2>4. req' = [req EXCEPT ![r] = q] /\ UNCHANGED sess /\ Gives(r, Factors)
    BY <1>1, <1>4, <2>1, <2>2 DEF register_initial_admin, Goto, TypeOK
  <2>5. /\ given \subseteq given'
        /\ <<q.sess, q.user, "password">> \in given' /\ <<q.sess, q.user, "second">> \in given'
    BY <2>1, <2>3, <2>4 DEF Gives, Factors
  <2>6. Backed(q)'
    BY <2>3, <2>5 DEF Backed
  <2> QED BY <1>1, <2>4, <2>5, <2>6, FactorAdvance
<1>5. CASE authenticate_password(r) /\ ~(End(r) /\ UNCHANGED <<sess, given>>)
  <2>1. PICK p \in Request : p = req[r] /\ p.op = "login"
    BY <1>1, <1>5 DEF authenticate_password, At, TypeOK
  <2>2. PICK g : g = TotpOn(p.user)
    OBVIOUS
  <2>3. PICK q : q = [p EXCEPT !.gate = g, !.pc = "load"]
    OBVIOUS
  <2>4. q.op = "login" /\ q.pc = "load" /\ q.gate = g /\ q.sess = p.sess /\ q.user = p.user
    BY <2>1, <2>3 DEF Request
  <2>5. /\ req' = [req EXCEPT ![r] = q] /\ UNCHANGED sess
        /\ Gives(r, IF g THEN {"password"} ELSE Factors)
    BY <1>1, <1>5, <2>1, <2>2, <2>3 DEF authenticate_password, TypeOK
  <2>6. /\ given \subseteq given'
        /\ <<q.sess, q.user, "password">> \in given'
        /\ ~g => <<q.sess, q.user, "second">> \in given'
    <3>1. CASE g
      BY <2>1, <2>4, <2>5, <3>1 DEF Gives
    <3>2. CASE ~g
      BY <2>1, <2>4, <2>5, <3>2 DEF Gives, Factors
    <3> QED BY <3>1, <3>2
  <2>7. Backed(q)'
    BY <2>4, <2>6 DEF Backed
  <2> QED BY <1>1, <2>5, <2>6, <2>7, FactorAdvance
<1> QED BY <1>2, <1>3, <1>4, <1>5

(* Where the session names nobody but users who have given what they must, so does what a     *)
(* handler makes of its copy.                                                                 *)
LEMMA FactorHandlers ==
    ASSUME AccountsInv, FactorInv, NEW r \in Reqs,
           \/ StoreAdmin(r) \/ StoreLogin(r) \/ ReadPending(r) \/ verify_totp(r) \/ logout(r)
           \/ totp_setup_page(r) \/ totp_confirm(r) \/ EnableTotp(r)
           \/ totp_disable(r) \/ DisableTotp(r) \/ SetFlash(r)
    PROVE  FactorInv'
<1>1. TypeOK /\ Backed(req[r]) /\ req[r] \in Request
  BY DEF AccountsInv, FactorInv, TypeOK
<1>2. CASE End(r) /\ UNCHANGED <<sess, given>>
  BY <1>1, <1>2, FactorEnds
<1>s. PICK s : s = req[r].sess
  OBVIOUS
<1>3. req[r].pc = "load" => Mine(r) \in Session /\ Known(s, Mine(r))
  BY <1>s, MineType DEF FactorInv, Mine
<1>4. UNCHANGED sess /\ given \subseteq given'
  BY DEF StoreAdmin, StoreLogin, ReadPending, verify_totp, logout, totp_setup_page, totp_confirm, EnableTotp,
     totp_disable, DisableTotp, SetFlash, Gives
<1>5. \A c : Known(s, c) => Known(s, c)'
  BY <1>4 DEF Known
<1>6. CASE StoreAdmin(r) \/ StoreLogin(r)
  <2>1. PICK c : c = Mine(r)
    OBVIOUS
  <2>2. PICK copy : /\ copy = IF req[r].gate THEN [c EXCEPT !.pending = req[r].user]
                              ELSE [c EXCEPT !.user = req[r].user]
                    /\ End(r) \/ Modify(r, copy)
    BY <1>1, <1>6, <2>1 DEF StoreAdmin, StoreLogin, At, Backed
  <2>3. c \in Session /\ Known(s, c) /\ req[r].user \in Maybe(Users) /\ UNCHANGED given
    BY <1>1, <1>3, <1>6, <2>1 DEF StoreAdmin, StoreLogin, At, Request
  <2>4. copy \in Session /\ Known(s, copy)
    BY <1>1, <1>s, <1>6, <2>2, <2>3 DEF Session, Known, Backed, StoreAdmin, StoreLogin, At
  <2> QED BY <1>1, <1>s, <1>2, <1>4, <1>5, <1>6, <2>2, <2>3, <2>4, FactorStores DEF Backed, StoreAdmin, StoreLogin, At
<1>7. CASE ReadPending(r) /\ ~End(r)
  <2>1. /\ Mine(r) \in Session /\ Mine(r).pending \in Users /\ UNCHANGED given
        /\ Take(r, Mine(r), Mine(r).pending, "verify")
    BY <1>3, <1>7 DEF ReadPending, At, Session, Maybe, Take
  <2>2. PICK q \in Request : /\ req' = [req EXCEPT ![r] = q] /\ Same(req[r], q)
                             /\ q.pc = "verify" /\ q.copy = Mine(r) /\ q.user = Mine(r).pending
    BY <1>1, <2>1, Loading
  <2>3. q.op = "totp" /\ Known(q.sess, q.copy) /\ q.user = q.copy.pending /\ q.user # None
    BY <1>s, <1>3, <1>7, <2>1, <2>2, Types DEF ReadPending, At, Same
  <2>4. Backed(q)'
    BY <2>1, <2>2, <2>3 DEF Backed, Known
  <2> QED BY <1>1, <1>s, <1>4, <2>2, <2>4, FactorAdvance
<1>8. CASE verify_totp(r) /\ ~(End(r) /\ UNCHANGED given)
  <2>1. PICK c \in Session : c = req[r].copy /\ Known(s, c)
    BY <1>1, <1>s, <1>8 DEF verify_totp, At, Backed, Request
  <2>2. PICK copy : copy = [c EXCEPT !.pending = None, !.user = req[r].user] /\ Modify(r, copy)
    BY <1>8, <2>1 DEF verify_totp
  <2>u. PICK u : u = req[r].user
    OBVIOUS
  <2>3. /\ u \in Maybe(Users) /\ <<s, u, "password">> \in given
        /\ Gives(r, {"second"})
    BY <1>1, <1>s, <1>8, <2>u DEF verify_totp, At, Backed, Request
  <2>4. <<s, u, "second">> \in given'
    BY <1>s, <2>u, <2>3 DEF Gives
  <2>5. copy \in Session /\ Known(s, copy)'
    <3>1. copy \in Session /\ copy.pending = None /\ copy.user = u
      BY <2>2, <2>u, <2>3 DEF Session, Maybe
    <3> QED BY <1>4, <2>3, <2>4, <3>1 DEF Known
  <2> QED BY <1>1, <1>s, <1>4, <1>8, <2>2, <2>5, FactorStores DEF verify_totp, At
<1>9. CASE logout(r) \/ totp_setup_page(r) \/ SetFlash(r)
  <2>1. PICK c \in Session : c = Mine(r) /\ Known(s, c)
    BY <1>3, <1>9 DEF logout, totp_setup_page, SetFlash, Caller, At
  <2>2. PICK copy : /\ Modify(r, copy)
                    /\ \/ logout(r) /\ copy = [c EXCEPT !.user = None, !.pending = None]
                       \/ /\ req[r].op \in {"enrol", "form"}
                          /\ copy = c \/ \E k \in Secrets : copy = [c EXCEPT !.enrol = k]
    BY <1>9, <2>1 DEF logout, totp_setup_page, SetFlash, Caller, At
  <2>3. copy \in Session /\ Known(s, copy)
        /\ (logout(r) => copy.user = None /\ copy.pending = None)
    BY <2>1, <2>2 DEF Session, Maybe, Known, logout, At
  <2>4. req[r].op # "setup" /\ (req[r].op = "logout" => logout(r))
    BY <1>9, <2>2 DEF logout, At
  <2> QED BY <1>1, <1>s, <1>4, <1>5, <2>2, <2>3, <2>4, FactorStores
<1>10. CASE (totp_confirm(r) \/ totp_disable(r)) /\ ~End(r)
  <2>1. /\ Mine(r) \in Session /\ Mine(r).user \in Users /\ Take(r, Mine(r), Mine(r).user, "update")
        /\ req[r].op \in {"confirm", "disable"} /\ Known(s, Mine(r))
    BY <1>3, <1>10 DEF totp_confirm, totp_disable, Caller, At, Session, Maybe, Take
  <2>2. PICK q \in Request : /\ req' = [req EXCEPT ![r] = q] /\ Same(req[r], q)
                             /\ q.pc = "update" /\ q.copy = Mine(r) /\ q.user = Mine(r).user
    BY <1>1, <2>1, Loading
  <2>3. Known(q.sess, q.copy)' /\ q.op \in {"confirm", "disable"}
    BY <1>s, <1>5, <2>1, <2>2 DEF Same
  <2>4. Backed(q)'
    BY <2>2, <2>3 DEF Backed, Known
  <2> QED BY <1>1, <1>s, <1>4, <2>2, <2>4, FactorAdvance
<1>11. CASE EnableTotp(r)
  <2>1. PICK c \in Session : c = req[r].copy /\ Known(s, c)
    BY <1>1, <1>s, <1>11 DEF EnableTotp, At, Backed, Request
  <2>2. PICK copy : copy = [c EXCEPT !.enrol = None] /\ Modify(r, copy)
    BY <1>11, <2>1 DEF EnableTotp
  <2>3. copy \in Session /\ Known(s, copy)
    BY <2>1, <2>2 DEF Session, Maybe, Known
  <2> QED BY <1>1, <1>s, <1>4, <1>5, <1>11, <2>2, <2>3, FactorStores DEF EnableTotp, At
<1>12. CASE DisableTotp(r)
  <2>1. PICK q \in Request : /\ req' = [req EXCEPT ![r] = q] /\ Same(req[r], q)
                             /\ q.pc = "save" /\ q.copy = req[r].copy /\ q.user = req[r].user
    BY <1>1, <1>12, Going DEF DisableTotp
  <2>2. Known(q.sess, q.copy)' /\ q.op = "disable"
    BY <1>1, <1>s, <1>5, <1>12, <2>1 DEF DisableTotp, At, Same, Backed
  <2>3. Backed(q)'
    BY <2>1, <2>2 DEF Backed, Known
  <2> QED BY <1>1, <1>s, <1>4, <2>1, <2>3, FactorAdvance
<1> QED BY <1>2, <1>6, <1>7, <1>8, <1>9, <1>10, <1>11, <1>12
       DEF ReadPending, verify_totp, totp_confirm, totp_disable

(* A logout that ran alone forgets what was given in its session, where nothing names a user   *)
(* any more.                                                                                  *)
LEMMA FactorSave == ASSUME AccountsInv, FactorInv, NEW r \in Reqs, Save(r) PROVE FactorInv'
<1>1. PICK p \in Request : p = req[r] /\ p.pc = "save" /\ Fit(p) /\ Backed(p)
  BY DEF Save, AccountsInv, TypeOK, FactorInv
<1>2. p.sess \in Sessions /\ p.sess # None /\ Known(p.sess, p.copy)
  BY <1>1, Types DEF Fit, Backed
<1>3. /\ \A s \in Sessions : sess'[s] = IF s = p.sess THEN p.copy ELSE sess[s]
      /\ \A x \in Reqs : req'[x] = IF x = r THEN Idle ELSE req[x]
  BY <1>1, <1>2 DEF Save, End, AccountsInv, TypeOK
<1>4. CASE ~(p.op = "logout" /\ p.alone)
  <2>1. given' = given
    BY <1>1, <1>4 DEF Save
  <2>2. \A s \in Sessions : Known(s, sess[s])'
    BY <1>2, <1>3, <2>1 DEF FactorInv, Known
  <2>3. \A x \in Reqs : Backed(req[x])'
    <3> SUFFICES ASSUME NEW x \in Reqs PROVE Backed(req[x])'
      OBVIOUS
    <3>1. CASE x = r
      BY <1>3, <3>1 DEF Backed, Idle
    <3>2. CASE x # r
      BY <1>3, <2>1, <3>2 DEF FactorInv, Backed, Known
    <3> QED BY <3>1, <3>2
  <2> QED BY <2>2, <2>3 DEF FactorInv
<1>5. CASE p.op = "logout" /\ p.alone
  <2>1. p.copy.user = None /\ p.copy.pending = None
    BY <1>1, <1>5 DEF Backed
  <2>2. given' = {g \in given : g[1] # p.sess}
    BY <1>1, <1>5 DEF Save
  <2>3. \A s, u, f : (s # p.sess /\ <<s, u, f>> \in given) => <<s, u, f>> \in given'
    BY <2>2
  <2>4. \A s \in Sessions : Known(s, sess[s])'
    <3> SUFFICES ASSUME NEW s \in Sessions PROVE Known(s, sess[s])'
      OBVIOUS
    <3>1. CASE s = p.sess
      BY <1>3, <2>1, <3>1 DEF Known
    <3>2. CASE s # p.sess
      BY <1>3, <2>3, <3>2 DEF FactorInv, Known
    <3> QED BY <3>1, <3>2
  <2>5. \A x \in Reqs : Backed(req[x])'
    <3> SUFFICES ASSUME NEW x \in Reqs PROVE Backed(req[x])'
      OBVIOUS
    <3>1. CASE x = r
      BY <1>3, <3>1 DEF Backed, Idle
    <3>2. CASE x # r
      <4>1. req[x].sess # p.sess
        BY <1>1, <1>2, <1>5, <3>2 DEF AccountsInv, Apart
      <4>2. req'[x] = req[x] /\ Backed(req[x])
        BY <1>3, <3>2 DEF FactorInv
      <4> QED BY <2>3, <4>1, <4>2 DEF Backed, Known
    <3> QED BY <3>1, <3>2
  <2> QED BY <2>4, <2>5 DEF FactorInv
<1> QED BY <1>4, <1>5

(* The REST API stores no session. *)
LEMMA FactorApi ==
    ASSUME AccountsInv, FactorInv, NEW r \in Reqs, ApiSession(r) \/ ApiBearer(r) \/ create(r) \/ revoke(r)
    PROVE  FactorInv'
<1>1. TypeOK /\ UNCHANGED <<sess, given>>
  BY DEF AccountsInv, ApiSession, ApiBearer, create, revoke
<1>2. CASE End(r)
  BY <1>1, <1>2, FactorEnds
<1>3. CASE ~End(r)
  <2>1. PICK p \in Request : p = req[r] /\ p.op \in ApiOps
    BY <1>1, <1>3, Types DEF TypeOK, ApiSession, ApiBearer, create, revoke, Caller, At, AccountsInv, Fit, ApiOps
  <2>2. PICK u : Enter(r, u)
    BY <1>3 DEF ApiSession, ApiBearer, create, revoke, Enter
  <2>3. PICK q : q = [p EXCEPT !.user = u, !.pc = "act"]
    OBVIOUS
  <2>4. q.op = p.op /\ q.pc = "act"
    BY <2>1, <2>3 DEF Request
  <2>5. req' = [req EXCEPT ![r] = q]
    BY <1>1, <2>1, <2>2, <2>3 DEF Enter, TypeOK
  <2>6. Backed(q)'
    BY <2>1, <2>4 DEF Backed, ApiOps
  <2> QED BY <1>1, <2>5, <2>6, FactorAdvance
<1> QED BY <1>2, <1>3

LEMMA FactorStep == AccountsInv /\ FactorInv /\ [Next]_vars => FactorInv'
<1> SUFFICES ASSUME AccountsInv, FactorInv, [Next]_vars PROVE FactorInv'
  OBVIOUS
<1>t. TypeOK
  BY DEF AccountsInv
<1>1. CASE \E r \in Reqs : Serve(r)
  <2> PICK r \in Reqs : Serve(r)
    BY <1>1
  <2>1. CASE BeginNamed(r, "setup", "count") \/ BeginNamed(r, "login", "find")
    BY <1>t, <2>1, FactorBegins DEF BeginNamed
  <2>2. CASE BeginSession(r) \/ BeginBearer(r)
    BY <1>t, <2>2, FactorBegins DEF BeginSession, BeginBearer, ApiOps
  <2>3. CASE CheckSetup(r) \/ register_initial_admin(r) \/ authenticate_password(r)
    BY <2>3, FactorGiven
  <2>4. CASE \/ StoreAdmin(r) \/ StoreLogin(r) \/ ReadPending(r) \/ verify_totp(r) \/ logout(r)
             \/ totp_setup_page(r) \/ totp_confirm(r) \/ EnableTotp(r)
             \/ totp_disable(r) \/ DisableTotp(r) \/ SetFlash(r)
    BY <2>4, FactorHandlers
  <2>5. CASE ApiSession(r) \/ ApiBearer(r) \/ create(r) \/ revoke(r)
    BY <2>5, FactorApi
  <2>6. CASE Unauthorized(r) \/ Abandon(r)
    BY <1>t, <2>6, FactorEnds DEF Unauthorized, Abandon
  <2> QED BY <2>1, <2>2, <2>3, <2>4, <2>5, <2>6, FactorSave DEF Serve
<1>2. CASE Expire \/ CliCreateUser \/ CliDisableTotp
  BY <1>2 DEF Expire, CliCreateUser, CliDisableTotp, FactorInv, Backed, Known
<1>3. CASE Restart
  BY <1>3 DEF Restart, FactorInv, Backed, Known, Empty, Idle
<1>4. CASE UNCHANGED vars
  BY <1>4 DEF vars, FactorInv, Backed, Known
<1> QED BY <1>1, <1>2, <1>3, <1>4 DEF Next

-----------------------------------------------------------------------------
(* Every table, session and request has its type, so that no handler unwraps a user or a    *)
(* secret that is not there.                                                               *)
THEOREM AccountsTypes == Spec => []TypeOK
<1>1. AccountsInv => TypeOK
  BY DEF AccountsInv
<1> QED BY <1>1, AccountsInvariant, PTL

(* Whoever is asked for a TOTP code has shown a right one for the stored secret, whatever    *)
(* enrolments, resets and logins overlap.                                                  *)
THEOREM TotpAlwaysUsable == Spec => []TotpUsable
<1>1. AccountsInv => TotpUsable
  BY DEF AccountsInv
<1> QED BY <1>1, AccountsInvariant, PTL

(* No setup form that arrives when an account exists passes the two counts of setup_submit   *)
(* and register_initial_admin.                                                             *)
THEOREM SetupStaysClosed == Spec => []SetupClosed
<1>1. AccountsInv => SetupClosed
  BY DEF AccountsInv, SetupClosed, Kept, At
<1> QED BY <1>1, AccountsInvariant, PTL

(* Nobody is logged in to a session without having given the password there, and a right     *)
(* TOTP code unless none was asked for when the password was checked, since the last logout  *)
(* that ran alone, whatever setups, logins, codes and stale copies overlap.                  *)
THEOREM SecondFactorAsked == Spec => []SecondFactor
<1>1. FactorInv => SecondFactor
  <2> SUFFICES ASSUME FactorInv, NEW s \in Sessions, sess[s].user # None, NEW f \in Factors
               PROVE  <<s, sess[s].user, f>> \in given
    BY DEF SecondFactor
  <2> QED BY DEF FactorInv, Known, Factors
<1>2. Spec => []FactorInv
  BY AccountsInvariant, FactorInit, FactorStep, PTL DEF Spec
<1> QED BY <1>1, <1>2, PTL

(* A token that was revoked or had expired when the request arrived does not get it to its   *)
(* handler.                                                                                *)
THEOREM TokensStaySpent == Spec => []SpentTokenRefused
<1>1. AccountsInv => SpentTokenRefused
  BY DEF AccountsInv, SpentTokenRefused, Kept
<1> QED BY <1>1, AccountsInvariant, PTL

(* No request stores a logged-in copy over a logout that ran alone.                        *)
THEOREM LogoutsStick == Spec => []LogoutSticks
<1>1. AccountsInv => LogoutSticks
  BY DEF AccountsInv
<1> QED BY <1>1, AccountsInvariant, PTL
=============================================================================
