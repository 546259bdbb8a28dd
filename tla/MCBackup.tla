------------------------------ MODULE MCBackup ------------------------------
\* Model-checking instance of Backup: interchangeable commands, files and keys.
EXTENDS Backup, TLC

BackupSymmetry == Permutations(Clis) \cup Permutations(Files) \cup Permutations(MasterKeys)
=============================================================================
