------------------------------ MODULE MCBackup ------------------------------
(* Small instances of Backup: an update that takes two steps. *)
EXTENDS Backup
AllPrograms == {1, 3}
=============================================================================
