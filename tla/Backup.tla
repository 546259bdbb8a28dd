------------------------------- MODULE Backup -------------------------------
(***************************************************************************)
(* wireforge backup create and restore                                     *)
(* (crates/wireforge-cli/src/backup.rs) beside the server whose database   *)
(* they copy and replace.  The database is a main file and the write-ahead *)
(* log next to it, which SQLite replays over whatever main file it finds.  *)
(* Every commit makes a new version of the data; a version stands for the  *)
(* whole contents.  Commands may be killed at any step.  As docs/src/ops/  *)
(* backup.md demands, the server is stopped for a restore, and no other    *)
(* command runs beside it.                                                 *)
(***************************************************************************)
EXTENDS Naturals

CONSTANTS
    Clis,           \* command line processes
    Files,          \* backup files
    MasterKeys,     \* values of security.master_key
    MaxVersion,     \* bound: commits
    MaxRestores,    \* bound: restores
    Torn,           \* a file of which only a part is written; no database
    Missing         \* no such file

ASSUME BoundsAssumption == MaxVersion \in Nat /\ MaxRestores \in Nat

Versions == 0..MaxVersion

\* An age blob: what is in it, and the key that opens it.
Blob == [version : Versions, key : MasterKeys]

\* The main file or its log.
Database == [file : 0..MaxRestores, version : Versions]

ASSUME FilesAssumption ==
    {Torn, Missing} \cap (Blob \cup Versions \cup Database) = {} /\ Torn # Missing

VARIABLES
    main,       \* the database file: which file it is, and its version
    wal,        \* the log: the file it was written for and the version it leads to
    tmp,        \* <database>.restore.tmp
    files,      \* the backup files
    up,         \* the server runs
    key,        \* security.master_key in the configuration
    cli,        \* what each command is doing
    newest,     \* history: the version committed, or restored, last
    commits     \* how many versions there are

vars == <<main, wal, tmp, files, up, key, cli, newest, commits>>

\* key: the one the command read; version: the copy it holds; faults: what has gone
\* wrong in a restore and was ignored; seen: (history) the versions that were the
\* newest at some time since the command began
Command == [pc : {"idle", "vacuum", "truncate", "write", "blend", "read", "checkpoint", "tmp", "rename", "unlink"},
            file : Files \cup {Missing}, key : MasterKeys \cup {Missing}, version : Versions,
            faults : {0, 1}, seen : SUBSET Versions]

TypeOK ==
    /\ main \in Database
    /\ wal \in Database \cup {Missing}
    /\ tmp \in Versions \cup {Torn, Missing}
    /\ files \in [Files -> Blob \cup {Torn, Missing}]
    /\ up \in BOOLEAN
    /\ key \in MasterKeys
    /\ cli \in [Clis -> Command]
    /\ newest \in Versions /\ commits \in Versions

Idle == [pc |-> "idle", file |-> Missing, key |-> Missing, version |-> 0, faults |-> 0, seen |-> {}]

Init ==
    /\ main = [file |-> 0, version |-> 0]
    /\ wal = Missing
    /\ tmp = Missing
    /\ files = [f \in Files |-> Missing]
    /\ up = TRUE
    /\ key \in MasterKeys
    /\ cli = [c \in Clis |-> Idle]
    /\ newest = 0
    /\ commits = 0

Creating == {c \in Clis : cli[c].pc \in {"vacuum", "truncate", "write", "blend"}}
Restoring == {c \in Clis : cli[c].pc \in {"read", "checkpoint", "tmp", "rename", "unlink"}}

Goto(c, pc) == cli' = [cli EXCEPT ![c].pc = pc]
End(c) == cli' = [cli EXCEPT ![c] = Idle]

\* What whoever opens the database finds: a log that was written for another file is
\* replayed over the main file all the same.
Contents ==
    IF wal = Missing THEN main.version
    ELSE IF wal.file = main.file THEN wal.version ELSE Torn

-----------------------------------------------------------------------------
(* The server *)

\* a transaction, appended to the log
Commit ==
    /\ up /\ commits < MaxVersion
    /\ commits' = commits + 1 /\ newest' = commits + 1
    /\ wal' = [file |-> main.file, version |-> commits + 1]
    /\ cli' = [c \in Clis |-> IF c \in Creating THEN [cli[c] EXCEPT !.seen = @ \cup {commits + 1}] ELSE cli[c]]
    /\ UNCHANGED <<main, tmp, files, up, key>>

\* SQLite moves the log into the main file from time to time, and when the last
\* connection is closed
Checkpoint ==
    /\ up \/ Creating # {}
    /\ wal # Missing
    /\ main' = [main EXCEPT !.version = Contents]
    /\ wal' = Missing
    /\ UNCHANGED <<tmp, files, up, key, cli, newest, commits>>

\* stopped, or killed: the log may stay behind
Stop ==
    /\ up
    /\ up' = FALSE
    /\ UNCHANGED <<main, wal, tmp, files, key, cli, newest, commits>>

Start ==
    /\ ~up /\ Restoring = {}
    /\ up' = TRUE
    /\ UNCHANGED <<main, wal, tmp, files, key, cli, newest, commits>>

\* the operator edits the configuration
NewKey ==
    /\ key' \in MasterKeys \ {key}
    /\ UNCHANGED <<main, wal, tmp, files, up, cli, newest, commits>>

-----------------------------------------------------------------------------
(* create *)

BeginCreate(c) ==
    /\ cli[c].pc = "idle" /\ Restoring = {}
    /\ \E f \in Files : cli' = [cli EXCEPT ![c] =
          [Idle EXCEPT !.pc = "vacuum", !.file = f, !.key = key, !.seen = {newest}]]
    /\ UNCHANGED <<main, wal, tmp, files, up, key, newest, commits>>

\* Mutant: copies the database file.
CopyMain == main.version

\* VACUUM INTO: one read transaction, log included
Snapshot == Contents

\* ... to a path of its own, then read back and sealed
vacuum_into(c) ==
    /\ cli[c].pc = "vacuum"
    /\ cli' = [cli EXCEPT ![c].pc = "truncate", ![c].version = Snapshot]
    /\ UNCHANGED <<main, wal, tmp, files, up, key, newest, commits>>

\* fs::write empties the file before it writes.  From then on no command that is still
\* writing this file knows what it will leave ("blend").
Truncate(c) ==
    /\ cli[c].pc = "truncate"
    /\ files' = [files EXCEPT ![cli[c].file] = Torn]
    /\ LET others == {d \in Clis : cli[d].pc \in {"write", "blend"} /\ cli[d].file = cli[c].file} IN
       cli' = [d \in Clis |->
                 IF d \in others \cup {c}
                 THEN [cli[d] EXCEPT !.pc = IF others = {} THEN "write" ELSE "blend"] ELSE cli[d]]
    /\ UNCHANGED <<main, wal, tmp, up, key, newest, commits>>

seal(c) == [version |-> cli[c].version, key |-> cli[c].key]

\* Where two have written, parts of the one may stay behind the other's: no blob.
WriteBackup(c) ==
    /\ cli[c].pc \in {"write", "blend"}
    /\ \/ files' = [files EXCEPT ![cli[c].file] = seal(c)]
       \/ cli[c].pc = "blend" /\ files' = [files EXCEPT ![cli[c].file] = Torn]
    /\ End(c)
    /\ UNCHANGED <<main, wal, tmp, up, key, newest, commits>>

-----------------------------------------------------------------------------
(* restore *)

BeginRestore(c) ==
    /\ ~up /\ Creating = {} /\ Restoring = {}
    /\ main.file < MaxRestores
    /\ \E f \in Files : cli' = [cli EXCEPT ![c] = [Idle EXCEPT !.pc = "read", !.file = f, !.key = key]]
    /\ UNCHANGED <<main, wal, tmp, files, up, key, newest, commits>>

\* age authenticates: neither a part of a blob nor another key's opens
unseal(blob, k) == blob \in Blob /\ blob.key = k

ReadBackup(c) ==
    /\ cli[c].pc = "read"
    /\ LET blob == files[cli[c].file] IN
       IF unseal(blob, cli[c].key)
       THEN cli' = [cli EXCEPT ![c].pc = "checkpoint", ![c].version = blob.version]
       ELSE End(c)
    /\ UNCHANGED <<main, wal, tmp, files, up, key, newest, commits>>

\* The properties allow a restore one fault.
Spared(c) == cli[c].faults = 0

\* wal_checkpoint(TRUNCATE), whose result is ignored
wal_checkpoint(c) ==
    /\ cli[c].pc = "checkpoint"
    /\ \/ /\ main' = [main EXCEPT !.version = Contents]
          /\ wal' = Missing
          /\ Goto(c, "tmp")
       \/ /\ Spared(c)
          /\ cli' = [cli EXCEPT ![c].pc = "tmp", ![c].faults = 1]
          /\ UNCHANGED <<main, wal>>
    /\ UNCHANGED <<tmp, files, up, key, newest, commits>>

\* Mutant: writes over the database itself.
WriteInPlace(c) ==
    /\ cli[c].pc = "tmp"
    /\ \/ tmp # Torn /\ tmp' = Torn /\ main' = [main EXCEPT !.version = Torn] /\ UNCHANGED cli
       \/ tmp = Torn /\ tmp' = cli[c].version /\ Goto(c, "rename") /\ UNCHANGED main
    /\ UNCHANGED <<wal, files, up, key, newest, commits>>

\* fs::write to the sibling: emptied first, then complete
WriteTmp(c) ==
    /\ cli[c].pc = "tmp"
    /\ \/ tmp # Torn /\ tmp' = Torn /\ UNCHANGED cli
       \/ tmp = Torn /\ tmp' = cli[c].version /\ Goto(c, "rename")
    /\ UNCHANGED <<main, wal, files, up, key, newest, commits>>

\* from here on the backup is the database
Rename(c) ==
    /\ cli[c].pc = "rename"
    /\ main' = [file |-> main.file + 1, version |-> tmp]
    /\ tmp' = Missing
    /\ newest' = cli[c].version
    /\ Goto(c, "unlink")
    /\ UNCHANGED <<wal, files, up, key, commits>>

\* Mutant: relies on the checkpoint.
LeaveWal(c) ==
    /\ cli[c].pc = "unlink"
    /\ End(c)
    /\ UNCHANGED <<main, wal, tmp, files, up, key, newest, commits>>

\* remove_file of the log and its index, whose errors are ignored
Unlink(c) ==
    /\ cli[c].pc = "unlink"
    /\ wal' = Missing \/ (Spared(c) /\ UNCHANGED wal)
    /\ End(c)
    /\ UNCHANGED <<main, tmp, files, up, key, newest, commits>>

\* the command is killed or a step of it fails, perhaps while it writes over a file that
\* another has finished
Crash(c) ==
    /\ cli[c].pc # "idle"
    /\ Spared(c)
    /\ End(c)
    /\ \/ UNCHANGED files
       \/ cli[c].pc = "blend" /\ files' = [files EXCEPT ![cli[c].file] = Torn]
    /\ UNCHANGED <<main, wal, tmp, up, key, newest, commits>>

create(c) == BeginCreate(c) \/ vacuum_into(c) \/ Truncate(c) \/ WriteBackup(c)

restore(c) ==
    \/ BeginRestore(c) \/ ReadBackup(c) \/ wal_checkpoint(c)
    \/ WriteTmp(c) \/ Rename(c) \/ Unlink(c)

Next ==
    \/ Commit \/ Checkpoint \/ Stop \/ Start \/ NewKey
    \/ \E c \in Clis : create(c) \/ restore(c) \/ Crash(c)

Spec == Init /\ [][Next]_vars

-----------------------------------------------------------------------------
(***************************************************************************)
(* "Atomically snapshot the database ... safe to run while the server is   *)
(* running": a backup that can be opened holds a version that was the      *)
(* newest at some time while the command ran, whatever was committed or    *)
(* checkpointed meanwhile and whoever wrote the same file before.          *)
(***************************************************************************)
CurrentStep ==
    \A c \in Creating : LET f == cli[c].file IN
        (files'[f] # files[f] /\ files'[f] \in Blob /\ cli'[c].pc = "idle") =>
            files'[f].version \in cli[c].seen

BackupIsCurrent == [][CurrentStep]_vars

(***************************************************************************)
(* "atomically replaces the file", and no committed transaction is lost:   *)
(* what a server that starts would open is the version committed last, or  *)
(* the whole backup once it has been moved into place.  Kills of the       *)
(* server, backups, and restores that are refused, that fail or that are   *)
(* killed at any step, with at most one fault each, never leave a blend,   *)
(* a part of a file, or an older state.                                    *)
(***************************************************************************)
NothingLost == (Restoring = {}) => Contents = newest
=============================================================================
