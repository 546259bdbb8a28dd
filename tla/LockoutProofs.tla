--------------------------- MODULE LockoutProofs ---------------------------
(***************************************************************************)
(* Proofs about SettingsService and Lockout for any number of              *)
(* administrators, words and logins, any limits and any length of the lock. *)
(***************************************************************************)
EXTENDS Lockout, TLAPS

-----------------------------------------------------------------------------
(* The settings *)

(* The three fields are numbered in set_many's order, each once. *)
LEMMA FieldsOrder ==
    /\ DOMAIN Fields = 1..3 /\ Done = 4
    /\ Fields[1] = "totp_issuer" /\ Fields[2] = "login_max_attempts" /\ Fields[3] = "log_level"
    /\ Keys = {"totp_issuer", "login_max_attempts", "log_level"}
    /\ \A i \in 1..3 : Fields[i] \in Keys
<1>1. /\ DOMAIN Fields = 1..3 /\ Done = 4
      /\ Fields[1] = "totp_issuer" /\ Fields[2] = "login_max_attempts" /\ Fields[3] = "log_level"
  BY DEF Fields, Done
<1>2. \A i \in 1..3 : i = 1 \/ i = 2 \/ i = 3
  OBVIOUS
<1>3. Keys = {Fields[i] : i \in 1..3}
  BY <1>1 DEF Keys
<1>4. Keys = {Fields[1], Fields[2], Fields[3]}
  BY <1>2, <1>3
<1> QED BY <1>1, <1>3, <1>4

\* A value in the table or on its way there can be escaped once more, and only the free text may
\* need escaping.
Storable(k, v) == v.depth <= MaxDepth /\ (k # "totp_issuer" => v.word \notin Special)

Sound ==
    \A k \in Keys :
        /\ k # "totp_issuer" => mem[k].word \notin Special
        /\ db[k] # Unset => Storable(k, db[k])
        /\ \A s \in Savers : Storable(k, saver[s].form[k])

\* What the table holds, and what a save has written so far, is in the history.
Recorded ==
    \A k \in Keys :
        /\ db[k] # Unset => db[k] \in written[k]
        /\ \A s \in Savers, i \in 1..3 :
              (k = Fields[i] /\ i < saver[s].pc) => saver[s].form[k] \in written[k]

\* A save that overlaps no other finds in the table what it has written, and in memory what
\* it has refreshed.
AloneInTable ==
    \A s \in Savers : (saver[s].alone /\ saver[s].pc # 0) =>
        /\ \A t \in Savers \ {s} : saver[t].pc = 0
        /\ \A i \in 1..3 : i < saver[s].pc => db[Fields[i]] = saver[s].form[Fields[i]]
        /\ saver[s].pc = 5 => \A k \in Keys : mem[k] = strip_quotes(saver[s].form[k])

SettingsInv == TypeOK /\ Sound /\ Recorded /\ AloneInTable /\ LiveWasCommitted

(* A value stays a value when its quotes are taken off, and its word stays. *)
LEMMA StripQuotes ==
    ASSUME NEW k, NEW v \in Value, Storable(k, v)
    PROVE  /\ strip_quotes(v) \in Value
           /\ strip_quotes(v).word = v.word
           /\ v.word \notin Special => strip_quotes(v) = v
<1>1. v.depth + 1 \in 0..MaxDepth + 1
  BY DepthAssumption DEF Storable, Value
<1> QED BY <1>1 DEF strip_quotes, Value

LEMMA BaselineType ==
    /\ Baseline \in RuntimeSettings
    /\ \A k \in Keys : Storable(k, Baseline[k]) /\ strip_quotes(Baseline[k]) = Baseline[k]
BY WordsAssumption, DepthAssumption DEF Baseline, RuntimeSettings, Value, Storable, strip_quotes

LEMMA SettingsInit == Init => SettingsInv
<1> SUFFICES ASSUME Init PROVE SettingsInv
  OBVIOUS
<1>1. Baseline \in RuntimeSettings /\ Baseline["log_level"] \in Value
  BY BaselineType, FieldsOrder DEF RuntimeSettings
<1>2. TypeOK
  BY <1>1, FieldsOrder DEF Init, TypeOK, Idle
<1>3. Sound
  BY BaselineType DEF Init, Sound, Idle, Storable
<1>4. Recorded /\ AloneInTable /\ LiveWasCommitted
  BY DEF Init, Recorded, AloneInTable, LiveWasCommitted, Idle
<1> QED BY <1>2, <1>3, <1>4 DEF SettingsInv

(* Every step of the settings keeps the invariant. *)
LEMMA SettingsNext == SettingsInv /\ [Next]_vars => SettingsInv'
<1> SUFFICES ASSUME SettingsInv, [Next]_vars PROVE SettingsInv'
  OBVIOUS
<1> USE FieldsOrder DEF SettingsInv
<1>t. /\ saver \in [Savers -> [pc : 0..5, form : RuntimeSettings, alone : BOOLEAN]]
      /\ \A k \in Keys : /\ mem[k] \in Value
                         /\ db[k] # Unset => db[k] \in Value
                         /\ \A s \in Savers : saver[s].form[k] \in Value
  BY DEF TypeOK, RuntimeSettings
<1>1. ASSUME NEW s \in Savers, Submit(s)
      PROVE  SettingsInv'
  <2>0. PICK typed \in [Keys -> {mem[k] : k \in Keys} \cup Retyped] :
          /\ \A k \in Keys : typed[k] = mem[k] \/ (typed[k] \in Retyped /\ typed[k].word \in Allowed(k))
          /\ saver' = [t \in Savers |-> IF t = s THEN [pc |-> 1, form |-> [k \in Keys |-> trim(k, typed[k])],
                                                     alone |-> Quiet]
                                       ELSE [saver[t] EXCEPT !.alone = FALSE]]
    BY <1>1 DEF Submit
  <2>1. PICK form :
          /\ form = [k \in Keys |-> trim(k, typed[k])]
          /\ saver' = [t \in Savers |-> IF t = s THEN [pc |-> 1, form |-> form, alone |-> Quiet]
                                       ELSE [saver[t] EXCEPT !.alone = FALSE]]
    BY <2>0
  <2>2. /\ \A k \in Keys : mem[k].depth <= MaxDepth
        /\ UNCHANGED <<db, mem, filter, written, env>>
    BY <1>1 DEF Submit
  <2>3. \A k \in Keys : form[k] \in Value /\ Storable(k, form[k])
    <3>1. \A k \in Keys : typed[k] \in Value /\ Storable(k, typed[k])
      BY <2>0, <2>2, <1>t, DepthAssumption DEF Retyped, Value, Allowed, Storable, Sound
    <3>2. \A k \in Keys, v \in Value : Storable(k, v) => trim(k, v) \in Value /\ Storable(k, trim(k, v))
      BY WordsAssumption DEF trim, Value, Storable
    <3> QED BY <2>1, <3>1, <3>2
  <2>4. /\ saver'[s].pc = 1 /\ saver'[s].form = form /\ saver'[s].alone = Quiet
        /\ \A t \in Savers \ {s} :
              /\ saver'[t] \in [pc : 0..5, form : RuntimeSettings, alone : BOOLEAN]
              /\ saver'[t].pc = saver[t].pc /\ saver'[t].form = saver[t].form /\ ~saver'[t].alone
    <3>1. \A r \in [pc : 0..5, form : RuntimeSettings, alone : BOOLEAN] :
             /\ [r EXCEPT !.alone = FALSE] \in [pc : 0..5, form : RuntimeSettings, alone : BOOLEAN]
             /\ [r EXCEPT !.alone = FALSE].pc = r.pc
             /\ [r EXCEPT !.alone = FALSE].form = r.form
             /\ ~[r EXCEPT !.alone = FALSE].alone
      OBVIOUS
    <3>2. /\ saver'[s] = [pc |-> 1, form |-> form, alone |-> Quiet]
          /\ \A t \in Savers \ {s} : saver'[t] = [saver[t] EXCEPT !.alone = FALSE]
      BY <2>1
    <3>3. ASSUME NEW t \in Savers \ {s}
          PROVE  /\ saver'[t] \in [pc : 0..5, form : RuntimeSettings, alone : BOOLEAN]
                 /\ saver'[t].pc = saver[t].pc /\ saver'[t].form = saver[t].form /\ ~saver'[t].alone
      <4>1. saver[t] \in [pc : 0..5, form : RuntimeSettings, alone : BOOLEAN]
        BY <1>t
      <4> QED BY <3>1, <3>2, <4>1, Zenon
    <3>4. saver'[s].pc = 1 /\ saver'[s].form = form /\ saver'[s].alone = Quiet
      BY <3>2
    <3> QED BY <3>3, <3>4, Zenon
  <2>5. TypeOK'
    <3>1. form \in RuntimeSettings /\ Quiet \in BOOLEAN
      BY <2>1, <2>3 DEF RuntimeSettings, Quiet
    <3>2. saver'[s] \in [pc : 0..5, form : RuntimeSettings, alone : BOOLEAN]
      BY <2>1, <3>1
    <3>3. saver' \in [Savers -> [pc : 0..5, form : RuntimeSettings, alone : BOOLEAN]]
      BY <2>1, <2>4, <3>2
    <3> QED BY <2>2, <3>3 DEF TypeOK
  <2>6. Sound'
    BY <2>2, <2>3, <2>4, <1>t DEF Sound
  <2>7. Recorded'
    BY <2>2, <2>4, <1>t DEF Recorded
  <2>8. AloneInTable'
    <3>1. saver'[s].alone => \A t \in Savers \ {s} : saver'[t].pc = 0
      BY <2>4 DEF Quiet
    <3> QED BY <2>2, <2>4, <3>1 DEF AloneInTable
  <2>9. LiveWasCommitted'
    BY <2>2 DEF LiveWasCommitted
  <2> QED BY <2>5, <2>6, <2>7, <2>8, <2>9
<1>2. ASSUME NEW s \in Savers, upsert(s)
      PROVE  SettingsInv'
  <2>1. PICK i \in 1..3 : i = saver[s].pc
    BY <1>2 DEF upsert
  <2> DEFINE k == Fields[i]
  <2>2. k \in Keys /\ saver[s].form[k] \in Value
    BY <1>t
  <2>3. /\ db' = [db EXCEPT ![k] = saver[s].form[k]]
        /\ written' = [written EXCEPT ![k] = @ \cup {saver[s].form[k]}]
        /\ saver' = [saver EXCEPT ![s].pc = i + 1]
        /\ UNCHANGED <<mem, filter, env>>
    BY <1>2, <2>1, <1>t DEF upsert
  <2> HIDE DEF k
  <2>4. TypeOK'
    BY <2>1, <2>2, <2>3, <1>t DEF TypeOK
  <2>5. Sound'
    BY <2>2, <2>3, <1>t DEF Sound, TypeOK
  <2>6. Recorded'
    BY <2>1, <2>2, <2>3, <1>t DEF Recorded, TypeOK, k
  <2>7. AloneInTable'
    BY <2>1, <2>2, <2>3, <1>t DEF AloneInTable, TypeOK, k
  <2>8. LiveWasCommitted'
    BY <2>2, <2>3 DEF LiveWasCommitted, TypeOK
  <2> QED BY <2>4, <2>5, <2>6, <2>7, <2>8
<1>3. ASSUME NEW s \in Savers, Fail(s)
      PROVE  SettingsInv'
  <2>1. /\ saver' = [saver EXCEPT ![s] = Idle]
        /\ UNCHANGED <<db, mem, filter, written, env>>
    BY <1>3 DEF Fail
  <2>2. Idle.pc = 0 /\ Idle.form = Baseline /\ Idle \in [pc : 0..5, form : RuntimeSettings, alone : BOOLEAN]
    BY BaselineType DEF Idle
  <2>3. TypeOK'
    BY <2>1, <2>2, <1>t DEF TypeOK
  <2>4. Sound' /\ Recorded'
    BY <2>1, <2>2, <1>t, BaselineType DEF Sound, Recorded
  <2>5. AloneInTable' /\ LiveWasCommitted'
    BY <2>1, <2>2, <1>t DEF AloneInTable, LiveWasCommitted
  <2> QED BY <2>3, <2>4, <2>5
<1>4. ASSUME NEW s \in Savers, Refresh(s)
      PROVE  SettingsInv'
  <2>1. /\ saver[s].pc = 4 /\ saver' = [saver EXCEPT ![s].pc = 5]
        /\ mem' = apply_overrides(mem, saver[s].form)
        /\ UNCHANGED <<db, filter, written, env>>
    BY <1>4 DEF Refresh
  <2>2. \A k \in Keys : mem'[k] = strip_quotes(saver[s].form[k])
    BY <2>1, <1>t, UnsetAssumption DEF apply_overrides
  <2>3. \A k \in Keys : /\ strip_quotes(saver[s].form[k]) \in Value
                        /\ strip_quotes(saver[s].form[k]).word = saver[s].form[k].word
    BY <1>t, StripQuotes DEF Sound
  <2>4. TypeOK'
    <3>1. mem' \in RuntimeSettings
      BY <2>1, <2>2, <2>3 DEF RuntimeSettings, apply_overrides
    <3> QED BY <2>1, <3>1, <1>t DEF TypeOK
  <2>5. Sound'
    BY <2>1, <2>2, <2>3, <1>t DEF Sound, Storable
  <2>6. Recorded'
    BY <2>1, <1>t DEF Recorded
  <2>7. AloneInTable'
    BY <2>1, <2>2, <1>t DEF AloneInTable
  <2>8. LiveWasCommitted'
    BY <2>1, <2>2, <1>t DEF LiveWasCommitted, Recorded
  <2> QED BY <2>4, <2>5, <2>6, <2>7, <2>8
<1>5. ASSUME NEW s \in Savers, log_reload(s)
      PROVE  SettingsInv'
  <2>1. /\ filter' = saver[s].form["log_level"] /\ saver' = [saver EXCEPT ![s] = Idle]
        /\ UNCHANGED <<db, mem, written, env>>
    BY <1>5 DEF log_reload
  <2>2. Idle.pc = 0 /\ Idle.form = Baseline /\ Idle \in [pc : 0..5, form : RuntimeSettings, alone : BOOLEAN]
    BY BaselineType DEF Idle
  <2>3. TypeOK'
    BY <2>1, <2>2, <1>t DEF TypeOK
  <2>4. Sound' /\ Recorded'
    BY <2>1, <2>2, <1>t, BaselineType DEF Sound, Recorded
  <2>5. AloneInTable' /\ LiveWasCommitted'
    BY <2>1, <2>2, <1>t DEF AloneInTable, LiveWasCommitted
  <2> QED BY <2>3, <2>4, <2>5
<1>6. CASE Restart
  <2>1. /\ saver' = [s \in Savers |-> Idle]
        /\ mem' = apply_overrides(Baseline, db)
        /\ filter' = mem'["log_level"]
        /\ UNCHANGED <<db, written, env>>
    BY <1>6 DEF Restart
  <2>2. Idle.pc = 0 /\ Idle.form = Baseline /\ Idle \in [pc : 0..5, form : RuntimeSettings, alone : BOOLEAN]
    BY BaselineType DEF Idle
  <2>3. \A k \in Keys : /\ mem'[k] \in Value /\ (k # "totp_issuer" => mem'[k].word \notin Special)
                        /\ mem'[k] = IF db[k] = Unset THEN Baseline[k] ELSE strip_quotes(db[k])
    <3> SUFFICES ASSUME NEW k \in Keys
                 PROVE  /\ mem'[k] \in Value /\ (k # "totp_issuer" => mem'[k].word \notin Special)
                        /\ mem'[k] = IF db[k] = Unset THEN Baseline[k] ELSE strip_quotes(db[k])
      OBVIOUS
    <3>1. mem'[k] = IF db[k] = Unset THEN Baseline[k] ELSE strip_quotes(db[k])
      BY <2>1 DEF apply_overrides
    <3>2. CASE db[k] = Unset
      BY <3>1, <3>2, BaselineType DEF RuntimeSettings, Storable
    <3>3. CASE db[k] # Unset
      BY <3>1, <3>3, <1>t, StripQuotes DEF Sound, Storable
    <3> QED BY <3>1, <3>2, <3>3
  <2>4. TypeOK'
    <3>1. mem' \in RuntimeSettings /\ filter' \in Value
      BY <2>1, <2>3 DEF RuntimeSettings, apply_overrides
    <3> QED BY <2>1, <2>2, <3>1 DEF TypeOK
  <2>5. Sound'
    BY <2>1, <2>2, <2>3, BaselineType DEF Sound
  <2>6. Recorded' /\ AloneInTable'
    BY <2>1, <2>2 DEF Recorded, AloneInTable
  <2>7. LiveWasCommitted'
    BY <2>1, <2>3 DEF LiveWasCommitted, Recorded
  <2> QED BY <2>4, <2>5, <2>6, <2>7
<1>7. CASE UNCHANGED vars
  <2>1. TypeOK' /\ Sound' /\ Recorded'
    BY <1>7 DEF vars, TypeOK, Sound, Recorded
  <2>2. AloneInTable' /\ LiveWasCommitted'
    BY <1>7 DEF vars, AloneInTable, LiveWasCommitted
  <2> QED BY <2>1, <2>2
<1> QED
  BY <1>1, <1>2, <1>3, <1>4, <1>5, <1>6, <1>7 DEF Next, InMemory

(* A save that ends alone has put the table, the memory and the filter in  *)
(* agreement.                                                              *)
LEMMA SoloSave == SettingsInv /\ [Next]_vars => [SoloStep]_vars
<1> SUFFICES ASSUME SettingsInv, Next,
                    NEW s \in Savers, saver[s].alone, saver[s].pc = 5, saver'[s].pc = 0
             PROVE  /\ mem' = apply_overrides(Baseline, db')
                    /\ filter' = mem'["log_level"]
                    /\ \A k \in Keys : saver[s].form[k].word \notin Special => mem'[k] = saver[s].form[k]
  BY FieldsOrder DEF SoloStep
<1> USE FieldsOrder
<1>1. \A k \in Keys : /\ saver[s].form[k] \in Value /\ Storable(k, saver[s].form[k])
                      /\ db[k] = saver[s].form[k]
                      /\ mem[k] = strip_quotes(saver[s].form[k])
  <2>1. \A i \in 1..3 : db[Fields[i]] = saver[s].form[Fields[i]]
    BY DEF SettingsInv, AloneInTable
  <2> QED BY <2>1 DEF SettingsInv, TypeOK, RuntimeSettings, Sound, AloneInTable
<1>2. \A k \in Keys : saver[s].form[k].word \notin Special => strip_quotes(saver[s].form[k]) = saver[s].form[k]
  BY <1>1, StripQuotes
<1>3. "log_level" \in Keys /\ saver[s].form["log_level"].word \notin Special
  BY <1>1 DEF Storable
<1>4. CASE Restart
  BY <1>1, <1>2, <1>4, UnsetAssumption DEF Restart, apply_overrides
<1>5. CASE log_reload(s)
  <2>1. mem = apply_overrides(Baseline, db)
    <3>1. mem = [k \in Keys |-> mem[k]]
      BY DEF SettingsInv, TypeOK, RuntimeSettings
    <3> QED BY <1>1, <3>1, UnsetAssumption DEF apply_overrides
  <2> QED BY <1>1, <1>2, <1>3, <1>5, <2>1 DEF log_reload
<1>6. ASSUME NEW t \in Savers, Submit(t) \/ upsert(t) \/ Fail(t) \/ Refresh(t) \/ (log_reload(t) /\ t # s)
      PROVE  FALSE
  <2>1. saver \in [Savers -> [pc : 0..5, form : RuntimeSettings, alone : BOOLEAN]]
    BY DEF SettingsInv, TypeOK
  <2>2. saver'[s].pc = 5
    BY <1>6, <2>1 DEF Submit, upsert, Fail, Refresh, log_reload, SettingsInv, AloneInTable
  <2> QED BY <2>2
<1> QED BY <1>4, <1>5, <1>6 DEF Next, InMemory

-----------------------------------------------------------------------------
(* The lockout *)

\* A transaction that may still commit has read the row as it is.
Current == \A l \in Logins : (login[l].pc = "write" /\ ~login[l].stale) => login[l].seen = ban

\* The clock was read before, and the limit was in force.
Judged == \A l \in Logins :
    /\ login[l].at <= now
    /\ login[l].pc \in {"select", "write"} => login[l].max \in 0..MaxLimit

LockoutInv ==
    /\ SettingsInv /\ LockoutTypeOK
    /\ Current /\ Judged
    /\ CountIsExact /\ streak <= counted /\ LocksAtMax

(* Steps of the lockout are steps or stutters of the settings.             *)
LEMMA LockoutExtends == [LockoutNext]_<<vars, lockVars>> => [Next]_vars
BY DEF LockoutNext, SaveSettings, Next, login_submit, Arrive, Check, Verify, clear, BeginFailure, Select,
       Write, OtherCommit, Tick

(* What record_failure makes of the row it has read.                       *)
LEMMA AfterFailureRow ==
    ASSUME NEW seen \in Ban \cup {NoBan}, NEW at \in Nat, NEW max \in 0..MaxLimit,
           NEW row, row = AfterFailure(seen, at, max)
    PROVE  /\ row \in Ban /\ row # NoBan
           /\ row.count = 0 => row.until > at
           /\ row.count # 0 => row.count = (IF seen = NoBan THEN 0 ELSE seen.count) + 1
           /\ (row.until <= at /\ max > 1) => row.count < max
           /\ is_active(seen, at) => row.until = seen.until
<1>1. CASE seen = NoBan
  <2>1. row = [until |-> at, count |-> 1]
    BY <1>1 DEF AfterFailure
  <2> QED BY <1>1, <2>1, NoBanAssumption DEF Ban, is_active
<1>2. CASE seen # NoBan /\ (seen.until > at \/ seen.count + 1 < max)
  <2>1. row = [seen EXCEPT !.count = @ + 1] /\ seen \in Ban
    BY <1>2 DEF AfterFailure, Ban
  <2>2. row \in Ban /\ row.until = seen.until /\ row.count = seen.count + 1
    BY <2>1 DEF Ban
  <2> QED BY <1>2, <2>1, <2>2, NoBanAssumption DEF Ban, is_active
<1>3. CASE seen # NoBan /\ seen.until <= at /\ seen.count + 1 >= max
  <2>1. row = [until |-> at + LockoutSecs, count |-> 0] /\ seen \in Ban
    BY <1>3 DEF AfterFailure, Ban
  <2> QED BY <1>3, <2>1, NoBanAssumption, LockoutAssumption DEF Ban, is_active
<1> QED BY <1>1, <1>2, <1>3 DEF Ban

LEMMA LockoutStart == LockoutInit => LockoutInv
<1> SUFFICES ASSUME LockoutInit PROVE LockoutInv
  OBVIOUS
<1>1. SettingsInv /\ TypeOK
  BY SettingsInit DEF LockoutInit, SettingsInv
<1>2. NoLogin \in Login /\ NoLogin.at = 0 /\ NoLogin.pc = "idle"
  BY LimitAssumption DEF NoLogin, Login
<1>3. LockoutTypeOK
  BY <1>1, <1>2, LoginsAssumption, LimitAssumption DEF LockoutInit, LockoutTypeOK, TypeOK
<1> QED BY <1>1, <1>2, <1>3, LimitAssumption DEF LockoutInit, LockoutInv, Current, Judged, CountIsExact, LocksAtMax

LEMMA LockoutStep == LockoutInv /\ [LockoutNext]_<<vars, lockVars>> => LockoutInv'
<1> SUFFICES ASSUME LockoutInv, [LockoutNext]_<<vars, lockVars>> PROVE LockoutInv'
  OBVIOUS
<1>s. SettingsInv' /\ TypeOK'
  BY LockoutExtends, SettingsNext DEF LockoutInv, SettingsInv
<1>t. /\ now \in Nat /\ now \in 0..env.clock /\ env.clock \in Nat
      /\ ban \in Ban \cup {NoBan}
      /\ login \in [Logins -> Login]
      /\ counted \in Nat /\ streak \in 0..MaxLimit /\ applied \in 0..MaxLimit
  BY LoginsAssumption DEF LockoutInv, LockoutTypeOK, TypeOK
<1>i. Current /\ Judged /\ CountIsExact /\ streak <= counted /\ LocksAtMax
  BY DEF LockoutInv
<1>e. env' = env
  BY LockoutExtends DEF Next, InMemory, Submit, upsert, Fail, Refresh, log_reload, Restart, vars
<1>n. NoLogin \in Login /\ NoLogin.at = 0 /\ NoLogin.pc = "idle"
  BY LimitAssumption DEF NoLogin, Login
\* A step that only moves requests along.
<1>m. ASSUME UNCHANGED <<now, ban, counted, streak, applied>>,
             login' \in [Logins -> Login], Current', Judged'
      PROVE  LockoutInv'
  <2>1. LockoutTypeOK'
    BY <1>m, <1>s, <1>t, <1>e DEF LockoutTypeOK
  <2> QED BY <1>m, <1>s, <1>i, <2>1 DEF LockoutInv, CountIsExact, LocksAtMax
<1>1. ASSUME NEW l \in Logins, NEW pc \in {"idle", "check", "verify", "clear", "begin"}, Goto(l, pc)
      PROVE  login' \in [Logins -> Login] /\ (ban' = ban /\ now' = now => Current' /\ Judged')
  <2>1. login' \in [Logins -> Login]
    BY <1>1, <1>t DEF Goto, Login
  <2>2. \A m \in Logins : IF m = l THEN login'[m].pc = pc /\ login'[m].at = login[m].at ELSE login'[m] = login[m]
    BY <1>1, <1>t DEF Goto, Login
  <2> QED BY <2>1, <2>2, <1>i, <1>t DEF Current, Judged
<1>2. ASSUME NEW l \in Logins, Arrive(l) \/ Check(l) \/ Verify(l)
      PROVE  LockoutInv'
  <2>1. PICK pc \in {"idle", "check", "verify", "clear", "begin"} : Goto(l, pc)
    BY <1>2 DEF Arrive, Check, Verify
  <2> QED BY <1>2, <2>1, <1>1, <1>m DEF Arrive, Check, Verify
\* Other transactions turn stale when something commits.
<1>3. /\ Stale \in [Logins -> Login]
      /\ \A m \in Logins : /\ Stale[m].pc = login[m].pc /\ Stale[m].at = login[m].at
                           /\ Stale[m].max = login[m].max
                           /\ Stale[m].pc = "write" => Stale[m].stale
  BY <1>t DEF Stale, Login
<1>4. ASSUME login' = Stale, now' \in Nat, now' >= now
      PROVE  Current' /\ Judged'
  BY <1>3, <1>4, <1>i, <1>t DEF Current, Judged, Login
<1>5. ASSUME NEW l \in Logins, Committed(l), now' = now
      PROVE  login' \in [Logins -> Login] /\ Current' /\ Judged'
  <2>1. login' = [Stale EXCEPT ![l] = NoLogin]
    BY <1>5 DEF Committed
  <2>2. login' \in [Logins -> Login] /\ \A m \in Logins : login'[m] = IF m = l THEN NoLogin ELSE Stale[m]
    BY <1>3, <1>n, <2>1
  <2> QED BY <2>2, <1>3, <1>5, <1>n, <1>i, <1>t DEF Current, Judged
<1>6. ASSUME NEW l \in Logins, clear(l)
      PROVE  LockoutInv'
  <2>1. login' \in [Logins -> Login] /\ Current' /\ Judged'
    BY <1>6, <1>1, <1>5 DEF clear
  <2>2. LockoutTypeOK'
    BY <1>6, <2>1, <1>s, <1>t, <1>e, LimitAssumption DEF clear, LockoutTypeOK
  <2> QED BY <1>6, <2>1, <2>2, <1>s, <1>t, <1>i DEF clear, LockoutInv, CountIsExact, LocksAtMax
<1>7. ASSUME NEW l \in Logins, BeginFailure(l)
      PROVE  LockoutInv'
  <2> DEFINE max == Limit[mem["login_max_attempts"].word]
  <2>1. max \in 0..MaxLimit
    <3>1. mem["login_max_attempts"].word \in Words \ Special
      BY FieldsOrder DEF LockoutInv, SettingsInv, Sound, TypeOK, RuntimeSettings, Value
    <3> QED BY <3>1, LimitAssumption
  <2>2. login' = [login EXCEPT ![l].pc = "select", ![l].at = now, ![l].max = max]
    BY <1>7 DEF BeginFailure
  <2> HIDE DEF max
  <2>3. /\ login' \in [Logins -> Login]
        /\ \A m \in Logins : IF m = l THEN login'[m].pc = "select" /\ login'[m].at = now /\ login'[m].max = max
                             ELSE login'[m] = login[m]
    <3>1. max \in 0..MaxLimit /\ login[l] \in Login
      BY <2>1, <1>t
    <3>2. /\ [login[l] EXCEPT !.pc = "select", !.at = now, !.max = max] \in Login
          /\ [login[l] EXCEPT !.pc = "select", !.at = now, !.max = max].pc = "select"
          /\ [login[l] EXCEPT !.pc = "select", !.at = now, !.max = max].at = now
          /\ [login[l] EXCEPT !.pc = "select", !.at = now, !.max = max].max = max
      BY <3>1, <1>t DEF Login
    <3>3. login' = [login EXCEPT ![l] = [login[l] EXCEPT !.pc = "select", !.at = now, !.max = max]]
      BY <2>2, <1>t
    <3> QED BY <3>2, <3>3, <1>t
  <2>4. Current' /\ Judged'
    BY <1>7, <2>1, <2>3, <1>i, <1>t DEF BeginFailure, Current, Judged
  <2> QED BY <1>7, <2>3, <2>4, <1>m DEF BeginFailure
<1>8. ASSUME NEW l \in Logins, Select(l)
      PROVE  LockoutInv'
  <2>1. /\ login' \in [Logins -> Login]
        /\ \A m \in Logins : IF m = l THEN /\ login'[m].seen = ban /\ login'[m].at = login[m].at
                                           /\ login'[m].max = login[m].max
                             ELSE login'[m] = login[m]
    BY <1>8, <1>t DEF Select, Login
  <2>2. Current' /\ Judged'
    BY <1>8, <2>1, <1>i, <1>t DEF Select, Current, Judged
  <2> QED BY <1>8, <2>1, <2>2, <1>m DEF Select
<1>9. ASSUME NEW l \in Logins, Write(l)
      PROVE  LockoutInv'
  <2>1. CASE Busy(l)
    <3>1. login' = [login EXCEPT ![l] = NoLogin] /\ UNCHANGED <<now, ban, counted, streak, applied>>
      BY <1>9, <2>1 DEF Write
    <3>2. login' \in [Logins -> Login] /\ \A m \in Logins : login'[m] = IF m = l THEN NoLogin ELSE login[m]
      BY <3>1, <1>n, <1>t
    <3>3. Current' /\ Judged'
      BY <3>1, <3>2, <1>n, <1>i, <1>t DEF Current, Judged
    <3> QED BY <3>1, <3>2, <3>3, <1>m
  <2>2. CASE ~Busy(l)
    <3> DEFINE at == login[l].at
               max == login[l].max
    <3>1. login[l].seen = ban /\ at \in Nat /\ at <= now /\ max \in 0..MaxLimit
      BY <1>9, <2>2, <1>i, <1>t DEF Write, Busy, Current, Judged, Login
    <3>r. PICK row : row = AfterFailure(ban, at, max)
      OBVIOUS
    <3>2. /\ ban' = row
          /\ counted' = IF row.count = 0 THEN 0 ELSE counted + 1
          /\ streak' = IF is_active(row, at) THEN 0 ELSE IF streak < MaxLimit THEN streak + 1 ELSE streak
          /\ applied' = max /\ now' = now /\ Committed(l)
      BY <1>9, <2>2, <3>1, <3>r DEF Write
    <3> HIDE DEF at, max
    <3>3. /\ row \in Ban /\ row # NoBan
          /\ row.count = 0 => row.until > at
          /\ row.count # 0 => row.count = (IF ban = NoBan THEN 0 ELSE ban.count) + 1
          /\ (row.until <= at /\ max > 1) => row.count < max
      <4>1. ban \in Ban \cup {NoBan} /\ at \in Nat /\ max \in 0..MaxLimit
        BY <3>1, <1>t, Zenon
      <4> QED BY <3>r, <4>1, AfterFailureRow
    <3>a. is_active(row, at) <=> row.until > at
      BY <3>3 DEF is_active
    <3>4. login' \in [Logins -> Login] /\ Current' /\ Judged'
      BY <3>2, <1>5
    <3>5. CountIsExact'
      BY <3>2, <3>3, <1>i DEF CountIsExact
    <3>6. streak' \in 0..MaxLimit /\ streak' <= counted' /\ counted' \in Nat
      BY <3>2, <3>3, <3>a, <1>i, <1>t, LimitAssumption DEF CountIsExact
    <3>7. LocksAtMax'
      BY <3>1, <3>2, <3>3, <3>a, <3>5, <3>6 DEF LocksAtMax, CountIsExact, Ban
    <3>8. LockoutTypeOK'
      BY <3>1, <3>2, <3>3, <3>4, <3>6, <1>s, <1>t, <1>e DEF LockoutTypeOK
    <3> QED BY <3>4, <3>5, <3>6, <3>7, <3>8, <1>s DEF LockoutInv
  <2> QED BY <2>1, <2>2
<1>10. CASE OtherCommit
  BY <1>10, <1>3, <1>4, <1>m, <1>t DEF OtherCommit
<1>11. CASE SaveSettings
  <2>1. CASE login' = Stale
    BY <1>11, <2>1, <1>3, <1>4, <1>m, <1>t DEF SaveSettings
  <2>2. CASE UNCHANGED login
    BY <1>11, <2>2, <1>m, <1>i, <1>t DEF SaveSettings, Current, Judged
  <2>3. CASE login' = [l \in Logins |-> NoLogin]
    <3>1. Current' /\ Judged'
      BY <1>11, <2>3, <1>n, <1>t DEF SaveSettings, Current, Judged
    <3> QED BY <1>11, <2>3, <3>1, <1>m, <1>n DEF SaveSettings
  <2> QED BY <1>11, <2>1, <2>2, <2>3 DEF SaveSettings
<1>12. CASE Tick
  <2>1. now' = now + 1 /\ now < env.clock /\ UNCHANGED <<ban, login, counted, streak, applied>>
    BY <1>12 DEF Tick
  <2>2. LockoutTypeOK'
    BY <2>1, <1>s, <1>t, <1>e DEF LockoutTypeOK
  <2>3. Current' /\ Judged'
    BY <2>1, <1>i, <1>t DEF Current, Judged, Login
  <2> QED BY <2>1, <2>2, <2>3, <1>s, <1>i DEF LockoutInv, CountIsExact, LocksAtMax
<1>13. CASE UNCHANGED <<vars, lockVars>>
  <2>1. Current' /\ Judged'
    BY <1>13, <1>i DEF lockVars, Current, Judged
  <2> QED BY <1>13, <2>1, <1>m, <1>t DEF lockVars
<1> QED
  BY <1>2, <1>6, <1>7, <1>8, <1>9, <1>10, <1>11, <1>12, <1>13 DEF LockoutNext, login_submit

(* LockNotShortened, step by step: a failure that finds the lock in force  *)
(* was judged by an older clock, and so keeps its end.                     *)
LEMMA NoShorterLock == LockoutInv /\ [LockoutNext]_<<vars, lockVars>> => [NotShorter]_lockVars
<1> SUFFICES ASSUME LockoutInv, LockoutNext, is_active(ban, now), ban' # NoBan
             PROVE  ban'.until >= ban.until
  BY DEF NotShorter, lockVars
<1>t. now \in Nat /\ ban \in Ban /\ ban.until \in Nat /\ login \in [Logins -> Login]
  BY LoginsAssumption DEF LockoutInv, LockoutTypeOK, TypeOK, is_active, Ban
<1>1. CASE ban' = ban
  BY <1>1, <1>t
<1>2. ASSUME NEW l \in Logins, Write(l), ~Busy(l)
      PROVE  ban'.until >= ban.until
  <2>1. login[l].seen = ban /\ login[l].at \in Nat /\ login[l].at <= now /\ login[l].max \in 0..MaxLimit
    BY <1>2, <1>t DEF Write, Busy, LockoutInv, Current, Judged, Login
  <2>2. is_active(ban, login[l].at)
    BY <1>t, <2>1 DEF is_active
  <2>3. ban' = AfterFailure(ban, login[l].at, login[l].max)
    BY <1>2, <2>1 DEF Write
  <2>4. ban'.until = ban.until
    BY <1>t, <2>1, <2>2, <2>3, AfterFailureRow
  <2> QED BY <1>t, <2>4
<1> QED
  BY <1>1, <1>2 DEF LockoutNext, login_submit, Arrive, Check, Verify, clear, BeginFailure, Select, Write,
     SaveSettings, OtherCommit, Tick

-----------------------------------------------------------------------------
LEMMA LockoutInvariant == LockoutSpec => []LockoutInv
BY LockoutStart, LockoutStep, PTL DEF LockoutSpec

(* Type correctness: no setting is escaped beyond the bound, and no login  *)
(* is judged by a limit that nobody has set.                               *)
THEOREM LockoutTypes == LockoutSpec => []LockoutTypeOK
<1>1. LockoutInv => LockoutTypeOK
  BY DEF LockoutInv
<1> QED BY <1>1, LockoutInvariant, PTL

(* The count in ip_bans is the number of failures record_failure has       *)
(* confirmed since it last was 0, for any number of overlapping logins.    *)
THEOREM ExactCount == LockoutSpec => []CountIsExact
<1>1. LockoutInv => CountIsExact
  BY DEF LockoutInv
<1> QED BY <1>1, LockoutInvariant, PTL

(* With a limit above 1, an address is locked when the failures recorded   *)
(* in a row reach the limit that is in force, whatever overlaps.           *)
THEOREM LimitLocks == LockoutSpec => []LocksAtMax
<1>1. LockoutInv => LocksAtMax
  BY DEF LockoutInv
<1> QED BY <1>1, LockoutInvariant, PTL

(* A failure under way never shortens a lock that is in force.             *)
THEOREM LockKept == LockoutSpec => LockNotShortened
BY LockoutInvariant, NoShorterLock, PTL DEF LockoutSpec, LockNotShortened

(* The server runs with the baseline's values or committed ones only.      *)
THEOREM LiveCommitted == LockoutSpec => []LiveWasCommitted
<1>1. LockoutInv => LiveWasCommitted
  BY DEF LockoutInv, SettingsInv
<1> QED BY <1>1, LockoutInvariant, PTL

(* A save that overlaps no other leaves the table, the memory and the log  *)
(* filter in agreement, whatever earlier saves left behind.                *)
THEOREM SoloSaves == LockoutSpec => SoloSaveLands
<1>1. LockoutInv => SettingsInv
  BY DEF LockoutInv
<1> QED BY <1>1, LockoutInvariant, LockoutExtends, SoloSave, PTL DEF LockoutSpec, SoloSaveLands
=============================================================================
