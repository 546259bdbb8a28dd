-------------------------- MODULE SettingsService --------------------------
(***************************************************************************)
(* The runtime settings: SettingsService                                   *)
(* (crates/wireforge-core/src/application/services/settings.rs), the save  *)
(* handler of the settings page and the load at boot (main.rs).  A value   *)
(* lives in three places: its row of the settings table, the shared        *)
(* RuntimeSettings, and for log_level the filter of the tracing subscriber.*)
(* set_many writes one row per statement and refreshes the shared copy at  *)
(* the end, under its lock.                                                *)
(***************************************************************************)
EXTENDS Integers, Sequences, FiniteSets

CONSTANTS
    Savers,         \* administrators saving the form
    Words,          \* values a field may be given
    Special,        \* the words that JSON has to escape (a quote, a backslash)
    Trimmed,        \* each word without the blanks around it
    Base,           \* the word of the TOML baseline
    MaxDepth,       \* bound: how often an escaped word is escaped again
    Envs,           \* the environments to consider
    Unset           \* no row for the key

ASSUME WordsAssumption ==
    /\ Base \in Words \ Special /\ Special \subseteq Words
    /\ Trimmed \in [Words -> Words]
    /\ \A w \in Words : Trimmed[Trimmed[w]] = Trimmed[w]
ASSUME DepthAssumption == MaxDepth \in Nat

\* saves: how many may overlap; retyped: the fields administrators change
ASSUME EnvsAssumption == \A e \in Envs : e.saves \in Nat /\ e.retyped \subseteq STRING

VARIABLES
    db,         \* the settings table: key -> JSON text, or Unset
    mem,        \* the shared RuntimeSettings
    filter,     \* the level the subscriber filters by
    saver,      \* the form each administrator has submitted, how far its save is, and
                \* (history) whether no other save has been under way since it began
    written,    \* history: every value ever committed for a key
    env         \* the environment, which does not change

vars == <<db, mem, filter, saver, written, env>>

\* Three of the ten fields, in set_many's order: a free text, a number and the last.
Fields == <<"totp_issuer", "login_max_attempts", "log_level">>

Keys == {Fields[i] : i \in DOMAIN Fields}

\* A word, and how many times over it has been escaped.
Value == [word : Words, depth : 0..MaxDepth + 1]

ASSUME UnsetAssumption == Unset \notin Value

RuntimeSettings == [Keys -> Value]

Baseline == [k \in Keys |-> [word |-> Base, depth |-> 0]]

Done == Len(Fields) + 1

TypeOK ==
    /\ db \in [Keys -> Value \cup {Unset}]
    /\ mem \in RuntimeSettings
    /\ filter \in Value
    /\ saver \in [Savers -> [pc : 0..Done + 1, form : RuntimeSettings, alone : BOOLEAN]]
    /\ written \in [Keys -> SUBSET Value]
    /\ env \in Envs

Idle == [pc |-> 0, form |-> Baseline, alone |-> FALSE]

Init ==
    /\ db = [k \in Keys |-> Unset]
    /\ mem = Baseline
    /\ filter = Baseline["log_level"]
    /\ saver = [s \in Savers |-> Idle]
    /\ written = [k \in Keys |-> {}]
    /\ env \in Envs

\* Value::to_string escapes, strip_quotes takes the quotes off and leaves the escapes.
strip_quotes(v) == IF v.word \in Special THEN [v EXCEPT !.depth = @ + 1] ELSE v

\* apply_overrides: a row replaces the value, a key without a row keeps it
apply_overrides(settings, rows) ==
    [k \in Keys |-> IF rows[k] = Unset THEN settings[k] ELSE strip_quotes(rows[k])]

-----------------------------------------------------------------------------
\* validate: only the free text may hold any word; the others are numbers and names from a list
Allowed(k) == IF k = "totp_issuer" THEN Words ELSE {w \in Words \ Special : Trimmed[w] = w}

\* save takes the blanks around the free text away
trim(k, v) == IF k = "totp_issuer" THEN [v EXCEPT !.word = Trimmed[@]] ELSE v

\* The values as they are typed.
Retyped == [word : Words, depth : {0}]

Quiet == \A s \in Savers : saver[s].pc = 0

\* A field is retyped, or submitted as the page displayed it.
Submit(s) ==
    /\ saver[s].pc = 0
    /\ Cardinality({t \in Savers : saver[t].pc # 0}) < env.saves
    /\ \A k \in Keys : mem[k].depth <= MaxDepth
    /\ \E typed \in {f \in [Keys -> {mem[k] : k \in Keys} \cup Retyped] :
                       \A k \in Keys : f[k] = mem[k] \/ (k \in env.retyped /\ f[k] \in Retyped
                                                          /\ f[k].word \in Allowed(k))} :
          saver' = [t \in Savers |->
             IF t = s THEN [pc |-> 1, form |-> [k \in Keys |-> trim(k, typed[k])], alone |-> Quiet]
             ELSE [saver[t] EXCEPT !.alone = FALSE]]
    /\ UNCHANGED <<db, mem, filter, written, env>>

\* Mutant: INSERT OR IGNORE.
InsertOrIgnore(s) ==
    /\ saver[s].pc \in DOMAIN Fields
    /\ LET k == Fields[saver[s].pc] IN
       /\ db' = [db EXCEPT ![k] = IF @ = Unset THEN saver[s].form[k] ELSE @]
       /\ written' = [written EXCEPT ![k] = @ \cup {saver[s].form[k]}]
    /\ saver' = [saver EXCEPT ![s].pc = @ + 1]
    /\ UNCHANGED <<mem, filter, env>>

\* one pass of set_many's loop
upsert(s) ==
    /\ saver[s].pc \in DOMAIN Fields
    /\ LET k == Fields[saver[s].pc] IN
       /\ db' = [db EXCEPT ![k] = saver[s].form[k]]
       /\ written' = [written EXCEPT ![k] = @ \cup {saver[s].form[k]}]
    /\ saver' = [saver EXCEPT ![s].pc = @ + 1]
    /\ UNCHANGED <<mem, filter, env>>

\* a repository error, or the request dropped at an await: earlier rows stay; a write that
\* still runs counts as the save's last step
Fail(s) ==
    /\ saver[s].pc \in 1..Done
    /\ saver' = [saver EXCEPT ![s] = Idle]
    /\ UNCHANGED <<db, mem, filter, written, env>>

\* Mutant: refreshes before the rows are written.
RefreshFirst(s) ==
    /\ saver[s].pc \in 1..Done
    /\ mem' = apply_overrides(mem, saver[s].form)
    /\ saver' = [saver EXCEPT ![s].pc = IF @ = Done THEN Done + 1 ELSE @]
    /\ UNCHANGED <<db, filter, written, env>>

\* the refresh of the shared copy, one critical section
Refresh(s) ==
    /\ saver[s].pc = Done
    /\ mem' = apply_overrides(mem, saver[s].form)
    /\ saver' = [saver EXCEPT ![s].pc = Done + 1]
    /\ UNCHANGED <<db, filter, written, env>>

\* save: log_reload with the form's level
log_reload(s) ==
    /\ saver[s].pc = Done + 1
    /\ filter' = saver[s].form["log_level"]
    /\ saver' = [saver EXCEPT ![s] = Idle]
    /\ UNCHANGED <<db, mem, written, env>>

\* A crash or a restart: load on top of the baseline, then log_reload.
Restart ==
    /\ saver' = [s \in Savers |-> Idle]
    /\ mem' = apply_overrides(Baseline, db)
    /\ filter' = mem'["log_level"]
    /\ UNCHANGED <<db, written, env>>

\* What the save does besides its statements on the table.
InMemory(s) == Submit(s) \/ Fail(s) \/ Refresh(s) \/ log_reload(s)

Next == (\E s \in Savers : upsert(s) \/ InMemory(s)) \/ Restart

Spec == Init /\ [][Next]_vars

-----------------------------------------------------------------------------
(***************************************************************************)
(* The comment on SettingsService, "so the in-memory copy and the DB stay  *)
(* consistent", for a save that overlaps no other: when it ends, the       *)
(* server runs with exactly the settings it would load after a restart and *)
(* logs at their level, whatever failed or overlapping saves left behind   *)
(* earlier; and every value that JSON does not have to escape is live as   *)
(* it was typed, apart from blanks around it.                              *)
(***************************************************************************)
SoloStep ==
    \A s \in Savers : (saver[s].alone /\ saver[s].pc = Done + 1 /\ saver'[s].pc = 0) =>
        /\ mem' = apply_overrides(Baseline, db')
        /\ filter' = mem'["log_level"]
        /\ \A k \in Keys : saver[s].form[k].word \notin Special => mem'[k] = saver[s].form[k]

SoloSaveLands == [][SoloStep]_vars

(***************************************************************************)
(* set_many persists before it refreshes: a setting is live only if it is  *)
(* the baseline's or was committed for its key, so no crash makes the      *)
(* server forget a value that no row ever held.                            *)
(***************************************************************************)
LiveWasCommitted ==
    \A k \in Keys : mem[k] = Baseline[k] \/ \E v \in written[k] : mem[k] = strip_quotes(v)
=============================================================================
