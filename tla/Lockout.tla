------------------------------ MODULE Lockout ------------------------------
(***************************************************************************)
(* The login lockout of one client address: login_submit                   *)
(* (crates/wireforge-web/src/routes/auth.rs) and SqliteBanRepository       *)
(* (crates/wireforge-infra/src/persistence/bans.rs).  Rows of different    *)
(* addresses never meet.  record_failure is a deferred SQLite transaction  *)
(* in WAL mode: it reads a snapshot, and its write fails (SQLITE_BUSY_     *)
(* SNAPSHOT, which the busy timeout does not retry) when any other         *)
(* connection has committed since; login_submit ignores that error.        *)
(* The limit is the live login_max_attempts of SettingsService, which      *)
(* administrators may change while failures are under way.                 *)
(***************************************************************************)
EXTENDS SettingsService

CONSTANTS
    Logins,         \* concurrent login requests of the address
    Limit,          \* the number each word stands for in login_max_attempts
    MaxLimit,       \* the highest of them
    LockoutSecs,    \* login_lockout_secs
    NoBan           \* no row for the address

\* The form keeps the limit within 1..50, but the baseline's comes from the TOML file unchecked.
ASSUME LimitAssumption == MaxLimit \in Nat /\ Limit \in [Words \ Special -> 0..MaxLimit]
ASSUME LockoutAssumption == LockoutSecs \in Nat \ {0}

\* logins: how many requests of the address may overlap; clock: bound, it stops there
ASSUME LoginsAssumption == \A e \in Envs : e.logins \in Nat /\ e.clock \in Nat

VARIABLES
    now,
    ban,        \* the row of ip_bans: until, count
    login,      \* what each request is doing, and its transaction's snapshot
    counted,    \* failures record_failure has confirmed since the count last was 0
    streak,     \* failures confirmed since the last success or lock, up to MaxLimit
    applied     \* the limit that applied to the last of them

lockVars == <<now, ban, login, counted, streak, applied>>

Ban == [until : Nat, count : Nat]

Login == [pc : {"idle", "check", "verify", "clear", "begin", "select", "write"},
          seen : Ban \cup {NoBan}, at : Nat, max : 0..MaxLimit, stale : BOOLEAN]

ASSUME NoBanAssumption == NoBan \notin Ban

LockoutTypeOK ==
    /\ TypeOK
    /\ now \in 0..env.clock
    /\ ban \in Ban \cup {NoBan}
    /\ login \in [Logins -> Login]
    /\ counted \in Nat /\ streak \in 0..MaxLimit /\ applied \in 0..MaxLimit

NoLogin == [pc |-> "idle", seen |-> NoBan, at |-> 0, max |-> 0, stale |-> FALSE]

LockoutInit ==
    /\ Init
    /\ now = 0
    /\ ban = NoBan
    /\ login = [l \in Logins |-> NoLogin]
    /\ counted = 0
    /\ streak = 0
    /\ applied = MaxLimit

is_active(b, t) == b # NoBan /\ b.until > t

\* A commit makes the snapshots that other transactions hold stale.
Stale == [m \in Logins |->
    IF login[m].pc = "write" THEN [login[m] EXCEPT !.stale = TRUE] ELSE login[m]]

Committed(l) == login' = [Stale EXCEPT ![l] = NoLogin]

Goto(l, pc) == login' = [login EXCEPT ![l].pc = pc]

-----------------------------------------------------------------------------
(* login_submit *)

Arrive(l) ==
    /\ login[l].pc = "idle"
    /\ Cardinality({m \in Logins : login[m].pc # "idle"}) < env.logins
    /\ Goto(l, "check")
    /\ UNCHANGED <<vars, now, ban, counted, streak, applied>>

\* bans.find: a locked address is turned away before the password is looked at
Check(l) ==
    /\ login[l].pc = "check"
    /\ Goto(l, IF is_active(ban, now) THEN "idle" ELSE "verify")
    /\ UNCHANGED <<vars, now, ban, counted, streak, applied>>

\* authenticate_password: right, wrong, or a repository error
Verify(l) ==
    /\ login[l].pc = "verify"
    /\ \E next \in {"clear", "begin", "idle"} : Goto(l, next)
    /\ UNCHANGED <<vars, now, ban, counted, streak, applied>>

\* bans.clear, whose error is ignored; a DELETE that finds no row commits nothing
clear(l) ==
    /\ login[l].pc = "clear"
    /\ \/ ban # NoBan /\ ban' = NoBan /\ counted' = 0 /\ Committed(l)
       \/ Goto(l, "idle") /\ UNCHANGED <<ban, counted>>
    /\ streak' = 0
    /\ UNCHANGED <<vars, now, applied>>

\* settings_snapshot, then record_failure: Utc::now() ...
BeginFailure(l) ==
    /\ login[l].pc = "begin"
    /\ login' = [login EXCEPT ![l].pc = "select", ![l].at = now,
                             ![l].max = Limit[mem["login_max_attempts"].word]]
    /\ UNCHANGED <<vars, now, ban, counted, streak, applied>>

\* ... then BEGIN and SELECT, which takes the snapshot
Select(l) ==
    /\ login[l].pc = "select"
    /\ login' = [login EXCEPT ![l].pc = "write", ![l].seen = ban]
    /\ UNCHANGED <<vars, now, ban, counted, streak, applied>>

\* Mutant: locks one failure late.
LocksLate(seen, at, max) ==
    IF seen = NoBan THEN [until |-> at, count |-> 1]
    ELSE IF seen.until <= at /\ seen.count + 1 > max THEN [until |-> at + LockoutSecs, count |-> 0]
    ELSE [seen EXCEPT !.count = @ + 1]

\* Mutant: a failure below the limit ends the lock it finds.
EndsLock(seen, at, max) ==
    IF seen = NoBan THEN [until |-> at, count |-> 1]
    ELSE IF seen.count + 1 >= max THEN [until |-> at + LockoutSecs, count |-> 0]
    ELSE [until |-> at, count |-> seen.count + 1]

\* Mutant: backdates the first failure.
Backdated(seen, at, max) ==
    IF seen = NoBan THEN [until |-> at - LockoutSecs, count |-> 1]
    ELSE [seen EXCEPT !.count = @ + 1]

\* the new row
AfterFailure(seen, at, max) ==
    IF seen = NoBan THEN [until |-> at, count |-> 1]
    ELSE IF seen.until > at THEN [seen EXCEPT !.count = @ + 1]
    ELSE IF seen.count + 1 >= max THEN [until |-> at + LockoutSecs, count |-> 0]
    ELSE [seen EXCEPT !.count = @ + 1]

\* Mutant: the transaction writes although its snapshot is old.
NeverBusy(l) == FALSE

\* The snapshot can no longer be upgraded to a write.
Busy(l) == login[l].stale

\* upsert and COMMIT, or an error that login_submit drops
Write(l) ==
    /\ login[l].pc = "write"
    /\ IF Busy(l)
       THEN login' = [login EXCEPT ![l] = NoLogin] /\ UNCHANGED <<ban, counted, streak, applied>>
       ELSE LET row == AfterFailure(login[l].seen, login[l].at, login[l].max) IN
            /\ ban' = row
            /\ counted' = IF row.count = 0 THEN 0 ELSE counted + 1
            /\ streak' = IF is_active(row, login[l].at) THEN 0
                         ELSE IF streak < MaxLimit THEN streak + 1 ELSE streak
            /\ applied' = login[l].max
            /\ Committed(l)
    /\ UNCHANGED <<vars, now>>

-----------------------------------------------------------------------------
\* The audit log, the traffic poller and the other services write too.
OtherCommit ==
    /\ login' = Stale
    /\ UNCHANGED <<vars, now, ban, counted, streak, applied>>

\* Each statement of a settings save is a transaction of its own.
SaveSettings ==
    /\ \/ (\E s \in Savers : upsert(s)) /\ login' = Stale
       \/ (\E s \in Savers : InMemory(s)) /\ UNCHANGED login
       \/ Restart /\ login' = [l \in Logins |-> NoLogin]
    /\ UNCHANGED <<now, ban, counted, streak, applied>>

Tick ==
    /\ now < env.clock
    /\ now' = now + 1
    /\ UNCHANGED <<vars, ban, login, counted, streak, applied>>

login_submit(l) ==
    Arrive(l) \/ Check(l) \/ Verify(l) \/ clear(l) \/ BeginFailure(l) \/ Select(l) \/ Write(l)

LockoutNext == (\E l \in Logins : login_submit(l)) \/ SaveSettings \/ OtherCommit \/ Tick

LockoutSpec == LockoutInit /\ [][LockoutNext]_<<vars, lockVars>>

-----------------------------------------------------------------------------
(***************************************************************************)
(* "Atomically increment the attempt counter": however failures, successes *)
(* and other writers interleave, the count is the number of failures that  *)
(* record_failure has confirmed since it last was 0.                       *)
(***************************************************************************)
CountIsExact == counted = IF ban = NoBan THEN 0 ELSE ban.count

(***************************************************************************)
(* A lock that is in force is lifted by a successful login only; failures  *)
(* that were already under way never shorten it.                           *)
(***************************************************************************)
NotShorter == is_active(ban, now) => ban' = NoBan \/ ban'.until >= ban.until

LockNotShortened == [][NotShorter]_lockVars

(***************************************************************************)
(* docs/src/auth.md: "After `security.login_max_attempts` consecutive      *)
(* failed logins from the same IP, that IP is locked out": never do that   *)
(* many failures get recorded in a row without a lock, whichever requests  *)
(* overlap, fail to record, or were already under way when an earlier lock *)
(* began or an administrator changed the limit; the limit that counts is   *)
(* the one in force when the last of them was judged.  Limits of 0 and 1   *)
(* are the exception: an address's first failure only creates its row.     *)
(***************************************************************************)
LocksAtMax == applied > 1 => streak < applied
=============================================================================
