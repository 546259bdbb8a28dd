---------------------------- MODULE BackupProofs ----------------------------
(***************************************************************************)
(* Proofs about Backup for any number of commands, backup files, keys,     *)
(* commits and restores.                                                   *)
(***************************************************************************)
EXTENDS Backup, TLAPS

CreatePcs == {"vacuum", "truncate", "write", "blend"}
RestorePcs == {"read", "checkpoint", "tmp", "rename", "unlink"}

\* A restore has the database for itself.
Exclusive ==
    \A c \in Clis : cli[c].pc \in RestorePcs => ~up /\ \A d \in Clis \ {c} : cli[d].pc = "idle"

\* Until a restore has moved its file into place the database holds the newest version;
\* then the new main file does, and a log that is still there is the last fault's.
Faithful ==
    /\ (\A c \in Clis : cli[c].pc # "unlink") => Contents = newest
    /\ \A c \in Clis :
          /\ cli[c].pc = "unlink" => main.version = newest
          /\ (cli[c].pc \in {"tmp", "rename", "unlink"} /\ cli[c].faults = 0) => wal = Missing
          /\ cli[c].pc = "rename" => tmp = cli[c].version
          /\ cli[c].pc \in RestorePcs \ {"unlink"} => main.file < MaxRestores

\* A backup in the making has seen the newest version, and its copy was once the newest.
Seen ==
    \A c \in Clis :
        /\ cli[c].pc \in CreatePcs => newest \in cli[c].seen /\ cli[c].key \in MasterKeys /\ cli[c].file \in Files
        /\ cli[c].pc \in {"truncate", "write", "blend"} => cli[c].version \in cli[c].seen
        /\ cli[c].pc \in RestorePcs => cli[c].file \in Files

BackupInv == TypeOK /\ Exclusive /\ Faithful /\ Seen

LEMMA IdleType == Idle \in Command /\ Idle.pc = "idle" /\ 0 \in Versions
BY BoundsAssumption DEF Idle, Command, Versions

LEMMA BackupStart == Init => BackupInv
<1> SUFFICES ASSUME Init PROVE BackupInv
  OBVIOUS
<1>1. TypeOK
  BY IdleType, BoundsAssumption DEF Init, TypeOK, Database
<1>2. Contents = newest
  BY DEF Init, Contents
<1> QED BY <1>1, <1>2, IdleType DEF Init, BackupInv, Exclusive, Faithful, Seen, CreatePcs, RestorePcs

(* A command that ends leaves the others as they are.                      *)
LEMMA EndCommand ==
    ASSUME cli \in [Clis -> Command], NEW c \in Clis, End(c)
    PROVE  /\ cli' \in [Clis -> Command] /\ cli'[c].pc = "idle"
           /\ \A d \in Clis \ {c} : cli'[d] = cli[d]
BY IdleType DEF End

(* A command that goes on changes its pc only.                             *)
LEMMA GotoCommand ==
    ASSUME cli \in [Clis -> Command], NEW c \in Clis, NEW pc \in CreatePcs \cup RestorePcs, Goto(c, pc)
    PROVE  /\ cli' \in [Clis -> Command] /\ cli'[c] = [cli[c] EXCEPT !.pc = pc]
           /\ cli'[c].pc = pc /\ cli'[c].file = cli[c].file /\ cli'[c].key = cli[c].key
           /\ cli'[c].version = cli[c].version /\ cli'[c].faults = cli[c].faults /\ cli'[c].seen = cli[c].seen
           /\ \A d \in Clis \ {c} : cli'[d] = cli[d]
BY DEF Goto, Command, CreatePcs, RestorePcs

(* Every step keeps the invariant.                                         *)
LEMMA BackupStep == BackupInv /\ [Next]_vars => BackupInv'
<1> SUFFICES ASSUME BackupInv, [Next]_vars PROVE BackupInv'
  OBVIOUS
<1> USE DEF CreatePcs, RestorePcs
<1>t. TypeOK /\ Exclusive /\ Faithful /\ Seen /\ cli \in [Clis -> Command]
  BY DEF BackupInv, TypeOK
<1>c. \A c \in Clis : (c \in Creating <=> cli[c].pc \in CreatePcs) /\ (c \in Restoring <=> cli[c].pc \in RestorePcs)
  BY DEF Creating, Restoring
<1>1. CASE Commit
  <2>1. /\ up /\ commits + 1 \in Versions /\ newest' = commits + 1
        /\ wal' = [file |-> main.file, version |-> commits + 1] /\ wal' \in Database
        /\ \A c \in Clis : cli[c].pc \notin RestorePcs
    BY <1>1, <1>t, BoundsAssumption DEF Commit, TypeOK, Versions, Database, Exclusive
  <2>2. \A c \in Clis :
          cli'[c] = IF c \in Creating THEN [cli[c] EXCEPT !.seen = @ \cup {commits + 1}] ELSE cli[c]
    BY <1>1 DEF Commit
  <2>3. /\ cli' \in [Clis -> Command]
        /\ \A c \in Clis : /\ cli'[c].pc = cli[c].pc /\ cli'[c].file = cli[c].file /\ cli'[c].key = cli[c].key
                            /\ cli'[c].version = cli[c].version
                            /\ cli'[c].seen = IF cli[c].pc \in CreatePcs THEN cli[c].seen \cup {commits + 1}
                                              ELSE cli[c].seen
    <3>1. \A r \in Command :
            /\ [r EXCEPT !.seen = @ \cup {commits + 1}] \in Command
            /\ [r EXCEPT !.seen = @ \cup {commits + 1}].pc = r.pc
            /\ [r EXCEPT !.seen = @ \cup {commits + 1}].file = r.file
            /\ [r EXCEPT !.seen = @ \cup {commits + 1}].key = r.key
            /\ [r EXCEPT !.seen = @ \cup {commits + 1}].version = r.version
            /\ [r EXCEPT !.seen = @ \cup {commits + 1}].seen = r.seen \cup {commits + 1}
      BY <2>1 DEF Command
    <3>2. cli' = [c \in Clis |-> cli'[c]]
      BY <1>1 DEF Commit
    <3>3. \A c \in Clis : cli'[c] \in Command
      BY <2>2, <3>1, <1>t
    <3>4. cli' \in [Clis -> Command]
      BY <3>2, <3>3
    <3> QED BY <2>2, <3>1, <3>4, <1>t, <1>c
  <2>4. TypeOK'
    BY <1>1, <2>1, <2>3, <1>t DEF Commit, TypeOK
  <2>5. Exclusive'
    BY <2>1, <2>3 DEF Exclusive
  <2>6. Faithful'
    <3>1. wal' # Missing /\ main' = main
      BY <1>1, <2>1, FilesAssumption DEF Commit
    <3> QED BY <2>1, <2>3, <3>1 DEF Faithful, Contents
  <2>7. Seen'
    BY <2>1, <2>3, <1>t DEF Seen
  <2> QED BY <2>4, <2>5, <2>6, <2>7 DEF BackupInv
<1>2. CASE Checkpoint
  <2>1. Contents = newest /\ newest \in Versions /\ \A c \in Clis : cli[c].pc \notin RestorePcs
    <3>1. up \/ \E d \in Clis : cli[d].pc \in CreatePcs
      BY <1>2 DEF Checkpoint, Creating
    <3>2. \A c \in Clis : cli[c].pc \notin RestorePcs
      BY <3>1, <1>t DEF Exclusive
    <3> QED BY <3>2, <1>t DEF Faithful, TypeOK
  <2>2. main' \in Database /\ main'.version = newest /\ main'.file = main.file /\ wal' = Missing
    BY <1>2, <2>1, <1>t DEF Checkpoint, TypeOK, Database
  <2>4. TypeOK'
    BY <1>2, <2>1, <2>2, <1>t DEF Checkpoint, TypeOK
  <2>5. Exclusive'
    BY <1>2, <2>1, <2>2, <1>t DEF Checkpoint, Exclusive
  <2>6. Faithful'
    BY <1>2, <2>1, <2>2, <1>t DEF Checkpoint, Faithful, Contents
  <2>7. Seen'
    BY <1>2, <2>1, <2>2, <1>t DEF Checkpoint, Seen
  <2> QED BY <2>4, <2>5, <2>6, <2>7 DEF BackupInv
<1>3. CASE Stop \/ Start \/ NewKey
  <2>4. TypeOK'
    BY <1>3, <1>c, <1>t DEF Stop, Start, NewKey, TypeOK
  <2>5. Exclusive'
    BY <1>3, <1>c, <1>t DEF Stop, Start, NewKey, Exclusive
  <2>6. Faithful'
    BY <1>3, <1>c, <1>t DEF Stop, Start, NewKey, Faithful, Contents
  <2>7. Seen'
    BY <1>3, <1>c, <1>t DEF Stop, Start, NewKey, Seen
  <2> QED BY <2>4, <2>5, <2>6, <2>7 DEF BackupInv
<1>4. ASSUME NEW c \in Clis, BeginCreate(c)
      PROVE  BackupInv'
  <2>1. PICK f \in Files : cli' = [cli EXCEPT ![c] =
          [Idle EXCEPT !.pc = "vacuum", !.file = f, !.key = key, !.seen = {newest}]]
    BY <1>4 DEF BeginCreate
  <2> DEFINE r == [Idle EXCEPT !.pc = "vacuum", !.file = f, !.key = key, !.seen = {newest}]
  <2>2. r \in Command /\ r.pc = "vacuum" /\ r.file = f /\ r.key = key /\ r.seen = {newest}
    BY IdleType, <1>t DEF Idle, Command, TypeOK
  <2> HIDE DEF r
  <2>3. /\ cli' \in [Clis -> Command] /\ cli'[c] = r
        /\ \A d \in Clis \ {c} : cli'[d] = cli[d]
        /\ \A d \in Clis : cli[d].pc \notin RestorePcs
        /\ UNCHANGED <<main, wal, tmp, files, up, key, newest, commits>>
    BY <1>4, <2>1, <2>2, <1>t, <1>c DEF BeginCreate, r
  <2>4. TypeOK'
    BY <1>4, <2>2, <2>3, <1>t DEF BeginCreate, TypeOK
  <2>5. Exclusive'
    BY <1>4, <2>2, <2>3, <1>t DEF BeginCreate, Exclusive
  <2>6. Faithful'
    BY <1>4, <2>2, <2>3, <1>t DEF BeginCreate, Faithful, Contents
  <2>7. Seen'
    BY <2>2, <2>3, <1>t DEF Seen, TypeOK
  <2> QED BY <2>4, <2>5, <2>6, <2>7 DEF BackupInv
<1>5. ASSUME NEW c \in Clis, vacuum_into(c)
      PROVE  BackupInv'
  <2>1. cli[c].pc = "vacuum" /\ Contents = newest /\ newest \in Versions
    BY <1>5, <1>t DEF vacuum_into, Exclusive, Faithful, TypeOK
  <2>2. /\ cli' \in [Clis -> Command] /\ cli'[c].pc = "truncate" /\ cli'[c].version = newest
        /\ cli'[c].file = cli[c].file /\ cli'[c].key = cli[c].key /\ cli'[c].seen = cli[c].seen
        /\ \A d \in Clis \ {c} : cli'[d] = cli[d]
    BY <1>5, <2>1, <1>t DEF vacuum_into, Snapshot, Command
  <2>4. TypeOK'
    BY <1>5, <2>1, <2>2, <1>t DEF vacuum_into, TypeOK
  <2>5. Exclusive'
    BY <1>5, <2>1, <2>2, <1>t DEF vacuum_into, Exclusive
  <2>6. Faithful'
    BY <1>5, <2>1, <2>2, <1>t DEF vacuum_into, Faithful, Contents
  <2>7. Seen'
    BY <1>5, <2>1, <2>2, <1>t DEF vacuum_into, Seen
  <2> QED BY <2>4, <2>5, <2>6, <2>7 DEF BackupInv
<1>6. ASSUME NEW c \in Clis, Truncate(c)
      PROVE  BackupInv'
  <2>1. cli[c].pc = "truncate" /\ cli[c].file \in Files
    BY <1>6, <1>t DEF Truncate, Seen
  <2>3. /\ cli' \in [Clis -> Command]
        /\ \A d \in Clis :
             /\ (cli'[d] = cli[d] \/ (cli[d].pc \in {"truncate", "write", "blend"} /\ cli'[d].pc \in {"write", "blend"}))
             /\ cli'[d].file = cli[d].file /\ cli'[d].key = cli[d].key /\ cli'[d].version = cli[d].version
             /\ cli'[d].faults = cli[d].faults /\ cli'[d].seen = cli[d].seen
    <3> DEFINE others == {d \in Clis : cli[d].pc \in {"write", "blend"} /\ cli[d].file = cli[c].file}
               pc == IF others = {} THEN "write" ELSE "blend"
    <3>1. cli' = [d \in Clis |-> IF d \in others \cup {c} THEN [cli[d] EXCEPT !.pc = pc] ELSE cli[d]]
      BY <1>6 DEF Truncate
    <3>2. pc \in {"write", "blend"} /\ \A d \in others \cup {c} : cli[d].pc \in {"truncate", "write", "blend"}
      BY <2>1
    <3> HIDE DEF others, pc
    <3>3. \A d \in Clis : cli'[d] = IF d \in others \cup {c} THEN [cli[d] EXCEPT !.pc = pc] ELSE cli[d]
      BY <3>1
    <3>4. \A d \in Clis :
             /\ cli'[d] \in Command
             /\ (cli'[d] = cli[d] \/ (cli[d].pc \in {"truncate", "write", "blend"} /\ cli'[d].pc \in {"write", "blend"}))
             /\ cli'[d].file = cli[d].file /\ cli'[d].key = cli[d].key /\ cli'[d].version = cli[d].version
             /\ cli'[d].faults = cli[d].faults /\ cli'[d].seen = cli[d].seen
      <4> TAKE d \in Clis
      <4>1. cli[d] \in Command /\ pc \in CreatePcs
        BY <3>2, <1>t
      <4>2. CASE d \in others \cup {c}
        <5>1. cli'[d] = [cli[d] EXCEPT !.pc = pc]
          BY <4>2, <3>3
        <5>2. cli'[d].pc = pc
          BY <5>1, <4>1 DEF Command
        <5>3. cli[d].pc \in {"truncate", "write", "blend"} /\ cli'[d].pc \in {"write", "blend"}
          BY <5>2, <4>2, <3>2
        <5>4. /\ cli'[d] \in Command
              /\ cli'[d].file = cli[d].file /\ cli'[d].key = cli[d].key /\ cli'[d].version = cli[d].version
              /\ cli'[d].faults = cli[d].faults /\ cli'[d].seen = cli[d].seen
          BY <5>1, <4>1 DEF Command
        <5> QED BY <5>3, <5>4
      <4>3. CASE d \notin others \cup {c}
        BY <4>1, <4>3, <3>3
      <4> QED BY <4>2, <4>3
    <3>5. cli' = [d \in Clis |-> cli'[d]]
      BY <3>1
    <3>6. cli' \in [Clis -> Command]
      BY <3>4, <3>5
    <3> QED BY <3>4, <3>6
  <2>4. TypeOK'
    BY <1>6, <2>1, <2>3, <1>t DEF Truncate, TypeOK
  <2>5. Exclusive'
    BY <1>6, <2>1, <2>3, <1>t DEF Truncate, Exclusive
  <2>6. Faithful'
    BY <1>6, <2>1, <2>3, <1>t DEF Truncate, Faithful, Contents
  <2>7. Seen'
    BY <1>6, <2>1, <2>3, <1>t DEF Truncate, Seen
  <2> QED BY <2>4, <2>5, <2>6, <2>7 DEF BackupInv
<1>7. ASSUME NEW c \in Clis, WriteBackup(c)
      PROVE  BackupInv'
  <2>1. cli[c].pc \in {"write", "blend"} /\ cli[c].file \in Files /\ seal(c) \in Blob
    BY <1>7, <1>t DEF WriteBackup, Seen, seal, Blob, Command
  <2>2. /\ cli' \in [Clis -> Command] /\ cli'[c].pc = "idle"
        /\ \A d \in Clis \ {c} : cli'[d] = cli[d]
    BY <1>7, <1>t, EndCommand DEF WriteBackup
  <2>4. TypeOK'
    BY <1>7, <2>1, <2>2, <1>t DEF WriteBackup, TypeOK
  <2>5. Exclusive'
    BY <1>7, <2>1, <2>2, <1>t DEF WriteBackup, Exclusive
  <2>6. Faithful'
    BY <1>7, <2>1, <2>2, <1>t DEF WriteBackup, Faithful, Contents
  <2>7. Seen'
    BY <1>7, <2>1, <2>2, <1>t DEF WriteBackup, Seen
  <2> QED BY <2>4, <2>5, <2>6, <2>7 DEF BackupInv
<1>8. ASSUME NEW c \in Clis, BeginRestore(c)
      PROVE  BackupInv'
  <2>1. PICK f \in Files : cli' = [cli EXCEPT ![c] = [Idle EXCEPT !.pc = "read", !.file = f, !.key = key]]
    BY <1>8 DEF BeginRestore
  <2> DEFINE r == [Idle EXCEPT !.pc = "read", !.file = f, !.key = key]
  <2>2. r \in Command /\ r.pc = "read" /\ r.file = f
    BY IdleType, <1>t DEF Idle, Command, TypeOK
  <2> HIDE DEF r
  <2>3. /\ cli' \in [Clis -> Command] /\ cli'[c] = r
        /\ \A d \in Clis \ {c} : cli'[d] = cli[d]
        /\ \A d \in Clis : cli[d].pc = "idle"
        /\ ~up /\ main.file < MaxRestores
        /\ UNCHANGED <<main, wal, tmp, files, up, key, newest, commits>>
    BY <1>8, <2>1, <2>2, <1>t, <1>c DEF BeginRestore, Command, r
  <2>4. TypeOK'
    BY <1>8, <2>2, <2>3, <1>t DEF BeginRestore, TypeOK
  <2>5. Exclusive'
    BY <1>8, <2>2, <2>3, <1>t DEF BeginRestore, Exclusive
  <2>6. Faithful'
    BY <1>8, <2>2, <2>3, <1>t DEF BeginRestore, Faithful, Contents
  <2>7. Seen'
    BY <1>8, <2>2, <2>3, <1>t DEF BeginRestore, Seen
  <2> QED BY <2>4, <2>5, <2>6, <2>7 DEF BackupInv
<1>9. ASSUME NEW c \in Clis, ReadBackup(c)
      PROVE  BackupInv'
  <2>1. CASE End(c)
    <3>1. /\ cli' \in [Clis -> Command] /\ cli'[c].pc = "idle"
        /\ \A d \in Clis \ {c} : cli'[d] = cli[d]
      BY <2>1, <1>t, EndCommand
    <3> QED BY <1>9, <3>1, <1>t DEF ReadBackup, BackupInv, TypeOK, Exclusive, Faithful, Contents, Seen
  <2>2. CASE ~End(c)
    <3>1. PICK v \in Versions : cli' = [cli EXCEPT ![c].pc = "checkpoint", ![c].version = v]
      BY <1>9, <2>2 DEF ReadBackup, unseal, Blob
    <3>2. /\ cli' \in [Clis -> Command] /\ cli'[c].pc = "checkpoint" /\ cli'[c].file = cli[c].file
          /\ \A d \in Clis \ {c} : cli'[d] = cli[d]
      BY <3>1, <1>t DEF Command
    <3> QED BY <1>9, <3>2, <1>t DEF ReadBackup, BackupInv, TypeOK, Exclusive, Faithful, Contents, Seen
  <2> QED BY <2>1, <2>2
<1>10. ASSUME NEW c \in Clis, wal_checkpoint(c)
       PROVE  BackupInv'
  <2>1. /\ cli[c].pc = "checkpoint" /\ Contents = newest /\ newest \in Versions
        /\ \A d \in Clis \ {c} : cli[d].pc = "idle"
    BY <1>10, <1>t DEF wal_checkpoint, Exclusive, Faithful, TypeOK
  <2>2. /\ cli' \in [Clis -> Command] /\ cli'[c].pc = "tmp" /\ cli'[c].file = cli[c].file
        /\ \A d \in Clis \ {c} : cli'[d] = cli[d]
    BY <1>10, <1>t DEF wal_checkpoint, Goto, Command
  <2>3. \/ /\ main' \in Database /\ main'.version = newest /\ main'.file = main.file /\ wal' = Missing
        \/ main' = main /\ wal' = wal /\ cli'[c].faults = 1
    BY <1>10, <2>1, <1>t DEF wal_checkpoint, TypeOK, Database, Command
  <2>4. TypeOK'
    BY <1>10, <2>1, <2>2, <2>3, <1>t DEF wal_checkpoint, TypeOK
  <2>5. Exclusive'
    BY <1>10, <2>1, <2>2, <2>3, <1>t DEF wal_checkpoint, Exclusive
  <2>6. Faithful'
    BY <1>10, <2>1, <2>2, <2>3, <1>t DEF wal_checkpoint, Faithful, Contents
  <2>7. Seen'
    BY <1>10, <2>1, <2>2, <2>3, <1>t DEF wal_checkpoint, Seen
  <2> QED BY <2>4, <2>5, <2>6, <2>7 DEF BackupInv
<1>11. ASSUME NEW c \in Clis, WriteTmp(c)
       PROVE  BackupInv'
  <2>1. /\ cli[c].pc = "tmp" /\ cli[c].version \in Versions
        /\ \A d \in Clis \ {c} : cli[d].pc = "idle"
        /\ UNCHANGED <<main, wal, files, up, key, newest, commits>>
    BY <1>11, <1>t DEF WriteTmp, Exclusive, Command
  <2>2. CASE tmp' = Torn /\ UNCHANGED cli
    BY <2>1, <2>2, <1>t DEF BackupInv, TypeOK, Exclusive, Faithful, Contents, Seen
  <2>3. CASE tmp' = cli[c].version /\ Goto(c, "rename")
    <3>1. /\ cli' \in [Clis -> Command] /\ cli'[c].pc = "rename"
        /\ cli'[c].file = cli[c].file /\ cli'[c].key = cli[c].key /\ cli'[c].version = cli[c].version
        /\ cli'[c].faults = cli[c].faults /\ cli'[c].seen = cli[c].seen
        /\ \A d \in Clis \ {c} : cli'[d] = cli[d]
      BY <2>3, <1>t, GotoCommand
    <3> QED BY <2>1, <2>3, <3>1, <1>t DEF BackupInv, TypeOK, Exclusive, Faithful, Contents, Seen
  <2> QED BY <1>11, <2>2, <2>3 DEF WriteTmp
<1>12. ASSUME NEW c \in Clis, Rename(c)
       PROVE  BackupInv'
  <2>1. /\ cli[c].pc = "rename" /\ tmp = cli[c].version /\ cli[c].version \in Versions
        /\ main.file < MaxRestores /\ main.file \in 0..MaxRestores
        /\ \A d \in Clis \ {c} : cli[d].pc = "idle"
    BY <1>12, <1>t DEF Rename, Exclusive, Faithful, Command, TypeOK, Database
  <2>2. /\ cli' \in [Clis -> Command] /\ cli'[c].pc = "unlink"
        /\ cli'[c].file = cli[c].file /\ cli'[c].key = cli[c].key /\ cli'[c].version = cli[c].version
        /\ cli'[c].faults = cli[c].faults /\ cli'[c].seen = cli[c].seen
        /\ \A d \in Clis \ {c} : cli'[d] = cli[d]
    BY <1>12, <1>t, GotoCommand DEF Rename
  <2>3. main' \in Database /\ main'.version = newest' /\ newest' \in Versions
    BY <1>12, <2>1, BoundsAssumption DEF Rename, Database
  <2>4. TypeOK'
    BY <1>12, <2>1, <2>2, <2>3, <1>t DEF Rename, TypeOK
  <2>5. Exclusive'
    BY <1>12, <2>1, <2>2, <2>3, <1>t DEF Rename, Exclusive
  <2>6. Faithful'
    BY <1>12, <2>1, <2>2, <2>3, <1>t DEF Rename, Faithful, Contents
  <2>7. Seen'
    BY <1>12, <2>1, <2>2, <2>3, <1>t DEF Rename, Seen
  <2> QED BY <2>4, <2>5, <2>6, <2>7 DEF BackupInv
<1>13. ASSUME NEW c \in Clis, Unlink(c)
       PROVE  BackupInv'
  <2>1. /\ cli[c].pc = "unlink" /\ main.version = newest /\ wal' = Missing
        /\ \A d \in Clis \ {c} : cli[d].pc = "idle"
    BY <1>13, <1>t DEF Unlink, Spared, Exclusive, Faithful
  <2>2. /\ cli' \in [Clis -> Command] /\ cli'[c].pc = "idle"
        /\ \A d \in Clis \ {c} : cli'[d] = cli[d]
    BY <1>13, <1>t, EndCommand DEF Unlink
  <2>4. TypeOK'
    BY <1>13, <2>1, <2>2, <1>t DEF Unlink, TypeOK
  <2>5. Exclusive'
    BY <1>13, <2>1, <2>2, <1>t DEF Unlink, Exclusive
  <2>6. Faithful'
    BY <1>13, <2>1, <2>2, <1>t DEF Unlink, Faithful, Contents
  <2>7. Seen'
    BY <1>13, <2>1, <2>2, <1>t DEF Unlink, Seen
  <2> QED BY <2>4, <2>5, <2>6, <2>7 DEF BackupInv
<1>14. ASSUME NEW c \in Clis, Crash(c)
       PROVE  BackupInv'
  <2>1. cli[c].faults = 0 /\ cli[c].pc # "idle"
        /\ UNCHANGED <<main, wal, tmp, up, key, newest, commits>>
        /\ (files' = files \/ files' = [files EXCEPT ![cli[c].file] = Torn])
    BY <1>14 DEF Crash, Spared
  <2>2. /\ cli' \in [Clis -> Command] /\ cli'[c].pc = "idle"
        /\ \A d \in Clis \ {c} : cli'[d] = cli[d]
    BY <1>14, <1>t, EndCommand DEF Crash
  <2>3. cli[c].pc = "unlink" => Contents = newest
    BY <2>1, <1>t DEF Faithful, Contents
  <2>4. TypeOK'
    BY <1>14, <2>1, <2>2, <2>3, <1>t DEF Crash, TypeOK
  <2>5. Exclusive'
    BY <1>14, <2>1, <2>2, <2>3, <1>t DEF Crash, Exclusive
  <2>6. Faithful'
    BY <1>14, <2>1, <2>2, <2>3, <1>t DEF Crash, Faithful, Contents
  <2>7. Seen'
    BY <1>14, <2>1, <2>2, <2>3, <1>t DEF Crash, Seen
  <2> QED BY <2>4, <2>5, <2>6, <2>7 DEF BackupInv
<1>15. CASE UNCHANGED vars
  BY <1>15, <1>t DEF vars, BackupInv, TypeOK, Exclusive, Faithful, Contents, Seen
<1> QED
  BY <1>1, <1>2, <1>3, <1>4, <1>5, <1>6, <1>7, <1>8, <1>9, <1>10, <1>11, <1>12, <1>13, <1>14, <1>15
  DEF Next, create, restore

LEMMA BackupInvariant == Spec => []BackupInv
BY BackupStart, BackupStep, PTL DEF Spec

(* Type correctness: in particular nobody who opens the database moves a   *)
(* log into a main file that it was not written for.                       *)
THEOREM BackupTypes == Spec => []TypeOK
<1>1. BackupInv => TypeOK
  BY DEF BackupInv
<1> QED BY <1>1, BackupInvariant, PTL

(* Whatever is killed, fails or is refused, a server that starts opens the *)
(* version that was committed, or restored as a whole, last.               *)
THEOREM NothingIsLost == Spec => []NothingLost
<1>1. BackupInv => NothingLost
  BY DEF BackupInv, Faithful, NothingLost, Restoring
<1> QED BY <1>1, BackupInvariant, PTL

(* A finished backup holds a version that was the newest while the command *)
(* ran.                                                                    *)
THEOREM BackupsAreCurrent == Spec => BackupIsCurrent
<1>1. BackupInv /\ [Next]_vars => [CurrentStep]_vars
  <2> SUFFICES ASSUME BackupInv, Next, NEW c \in Creating, NEW f, f = cli[c].file,
                      files'[f] # files[f], files'[f] \in Blob, cli'[c].pc = "idle"
               PROVE  files'[f].version \in cli[c].seen
    BY DEF CurrentStep
  <2>t. /\ c \in Clis /\ cli[c].pc \in CreatePcs
        /\ cli \in [Clis -> Command] /\ files \in [Files -> Blob \cup {Torn, Missing}] /\ f \in Files
        /\ Torn \notin Blob
    BY FilesAssumption DEF Creating, BackupInv, TypeOK, Seen, CreatePcs
  <2>1. PICK d \in Clis : Truncate(d) \/ WriteBackup(d) \/ Crash(d)
    BY DEF Next, create, restore, Commit, Checkpoint, Stop, Start, NewKey, BeginCreate, vacuum_into,
           BeginRestore, ReadBackup, wal_checkpoint, WriteTmp, Rename, Unlink
  <2>2. WriteBackup(d) /\ files' = [files EXCEPT ![cli[d].file] = seal(d)] /\ cli[d].file = f
    BY <2>1, <2>t DEF Truncate, WriteBackup, Crash
  <2>3. d = c
    BY <2>2, <2>t, EndCommand DEF WriteBackup, CreatePcs
  <2>4. files'[f].version = cli[c].version
    BY <2>2, <2>3, <2>t DEF seal
  <2> QED BY <2>2, <2>3, <2>4 DEF BackupInv, Seen, WriteBackup
<1> QED BY <1>1, BackupInvariant, PTL DEF Spec, BackupIsCurrent
=============================================================================
