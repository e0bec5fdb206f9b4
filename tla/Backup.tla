------------------------------- MODULE Backup -------------------------------
(***************************************************************************)
(* The files of the data directory: the base and its write-ahead log, the  *)
(* copies kept before an update changes the schema, the daily copies, and  *)
(* the bases put aside by a restore.  An action is a call of the system or *)
(* a transaction; the process may die between any two, and inside VACUUM   *)
(* INTO, which leaves a part of a file.                                    *)
(*                                                                         *)
(*   start    opening [-> copying] -> tidying -> migrating* -> running     *)
(*   keeper   idle [-> writing -> renaming] -> trimming* -> idle           *)
(*   restore  idle -> aside -> logAside -> install -> idle                 *)
(*                                                                         *)
(* Of a base only its lineage (which one it is) and the version of its     *)
(* schema are kept.  The program is not started while a restore runs, as   *)
(* the documentation asks (docs/configuration.md:180).                     *)
(***************************************************************************)
EXTENDS Integers, FiniteSets, FiniteSetsExt

CONSTANTS
    Programs,   \* versions of the schema the programs in use know
    FirstVersion, \* that of the base at the start
    Keep,       \* daily copies kept
    MaxDays,    \* bound on the days
    MaxRestores,\* bound on the restores
    MaxFaults   \* bound on the calls that fail and the deaths of a process

ASSUME BackupAssumption ==
    /\ Programs \subseteq Nat \ {0} /\ Programs # {}
    /\ FirstVersion \in Nat \ {0}
    /\ {Keep, MaxDays} \subseteq Nat \ {0} /\ {MaxRestores, MaxFaults} \subseteq Nat

None == 0
Original == 1                            \* lineages of bases
Restored == 2 .. MaxRestores + 1
Created == MaxRestores + 2               \* by Open, where there is no base
Mixed == MaxRestores + 3                 \* a base and the log of another
Lineages == 1 .. Mixed
Versions == UNION {1 .. v : v \in Programs \cup {FirstVersion}}

VARIABLES
    base,      \* mire.db: lineage and version; None
    log,       \* mire.db-wal: lineage of the base it belongs to, or None
    before,    \* mire.db.avant-vN: version -> "none", "part", "whole"
    daily,     \* sauvegardes/mire-*: the day and the version of each copy
    partial,   \* sauvegardes/.en-cours-*: "none", "part", "whole"
    aside,     \* mire.db.avant-restauration-*: the bases put aside, and whether with their log
    pc, code, opened,  \* the program: where it is, its version, that of the base it opened
    keeper,    \* the task of the daily copies
    restore, source,   \* the command: where it is, the version it restores
    day, restores, faults,
    latestDay, \* history: day of the latest daily copy
    cutShort   \* history: versions whose copy was cut short by the death of the program

files == <<base, log, before, daily, partial, aside>>
procs == <<pc, code, opened, keeper, restore, source>>
vars == <<files, procs, day, restores, faults, latestDay, cutShort>>

NoBase == [lineage |-> None, version |-> 0]
Fault == faults < MaxFaults /\ faults' = faults + 1

-----------------------------------------------------------------------------
(* store.Open. *)

(* What SQLite makes of the base and the log it finds: no base, it creates *)
(* one and drops the log; a base and a log, it plays the log.              *)
OpenedBase ==
    IF base = NoBase THEN [lineage |-> Created, version |-> 0]
    ELSE IF log \in {None, base.lineage} THEN base
    ELSE [base EXCEPT !.lineage = Mixed]

Start(program) ==
    /\ pc = "stopped" /\ restore = "idle"
    /\ base' = OpenedBase
    /\ log' = base'.lineage
    /\ code' = program
    /\ opened' = base'.version
    /\ pc' = IF base.version \notin {0, program} THEN "opening" ELSE "migrating"
    /\ UNCHANGED <<before, daily, partial, aside, keeper, restore, source, day, restores, faults, latestDay, cutShort>>

(* A base of a more recent program is refused. *)
Refuse ==
    /\ pc = "opening" /\ base.version > code
    /\ pc' = "stopped" /\ log' = None
    /\ UNCHANGED <<base, before, daily, partial, aside, code, opened, keeper, restore, source,
                   day, restores, faults, latestDay, cutShort>>

SlipIsOld(v) == TRUE          \* the copy just made is removed with the others
IsOld(v) == v # base.version  \* f != target

(* backupBeforeMigration: a copy already there for this version is kept. *)
BeginCopy ==
    /\ pc = "opening" /\ base.version < code
    /\ IF before[base.version] = "none"
       THEN /\ before' = [before EXCEPT ![base.version] = "part"]
            /\ pc' = "copying"
       ELSE pc' = "tidying" /\ UNCHANGED before
    /\ UNCHANGED <<base, log, daily, partial, aside, code, opened, keeper, restore, source,
                   day, restores, faults, latestDay, cutShort>>

(* VACUUM INTO ends; when it fails the file is removed and Open with it. *)
EndCopy ==
    /\ pc = "copying"
    /\ \/ /\ before' = [before EXCEPT ![base.version] = "whole"]
          /\ pc' = "tidying" /\ UNCHANGED <<faults, log>>
       \/ /\ Fault
          /\ before' = [before EXCEPT ![base.version] = "none"]
          /\ pc' = "stopped" /\ log' = None
    /\ UNCHANGED <<base, daily, partial, aside, code, opened, keeper, restore, source,
                   day, restores, latestDay, cutShort>>

Tidy ==
    /\ pc = "tidying"
    /\ before' = [v \in Versions |-> IF IsOld(v) THEN "none" ELSE before[v]]
    /\ pc' = "migrating"
    /\ UNCHANGED <<base, log, daily, partial, aside, code, opened, keeper, restore, source,
                   day, restores, faults, latestDay, cutShort>>

(* applyMigration: the change and its number in one transaction. *)
Migrate ==
    /\ pc = "migrating" /\ base.version < code
    /\ \/ /\ base' = [base EXCEPT !.version = @ + 1]
          /\ UNCHANGED <<pc, log, faults>>
       \/ /\ Fault
          /\ pc' = "stopped" /\ log' = None /\ UNCHANGED base
    /\ UNCHANGED <<before, daily, partial, aside, code, opened, keeper, restore, source,
                   day, restores, latestDay, cutShort>>

Migrated == base.version = code

(* The program serves; the keeper removes what an earlier one left. *)
Serve ==
    /\ pc = "migrating" /\ Migrated
    /\ pc' = "running"
    /\ keeper' = "idle" /\ partial' = "none"
    /\ UNCHANGED <<base, log, before, daily, aside, code, opened, restore, source,
                   day, restores, faults, latestDay, cutShort>>

(* The last connection that closes plays the log and removes it. *)
Stop ==
    /\ pc = "running" /\ keeper \in {"idle", "trimming"}
    /\ pc' = "stopped" /\ log' = None /\ keeper' = "off"
    /\ UNCHANGED <<base, before, daily, partial, aside, code, opened, restore, source,
                   day, restores, faults, latestDay, cutShort>>

Die ==
    /\ pc # "stopped" /\ Fault
    /\ pc' = "stopped" /\ keeper' = "off"
    /\ cutShort' = IF pc = "copying" THEN cutShort \cup {base.version} ELSE cutShort
    /\ UNCHANGED <<files, code, opened, restore, source, day, restores, latestDay>>

-----------------------------------------------------------------------------
(* backup.Keeper. *)

Due == daily = {} \/ day - Max({c.day : c \in daily}) >= 1

KeeperOnce ==
    /\ keeper = "idle"
    /\ IF Due THEN keeper' = "writing" /\ partial' = "part" ELSE keeper' = "trimming" /\ UNCHANGED partial
    /\ UNCHANGED <<base, log, before, daily, aside, pc, code, opened, restore, source,
                   day, restores, faults, latestDay, cutShort>>

(* BackupWithout; what fails is removed by the deferred os.Remove, and the *)
(* keeper looks again an hour later.                                       *)
KeeperWritten ==
    /\ keeper = "writing"
    /\ \/ partial' = "whole" /\ keeper' = "renaming" /\ UNCHANGED faults
       \/ Fault /\ partial' = "none" /\ keeper' = "idle"
    /\ UNCHANGED <<base, log, before, daily, aside, pc, code, opened, restore, source,
                   day, restores, latestDay, cutShort>>

KeeperRename ==
    /\ keeper = "renaming"
    /\ \/ /\ daily' = {c \in daily : c.day # day} \cup {[day |-> day, version |-> base.version, file |-> partial]}
          /\ latestDay' = day
          /\ keeper' = "trimming" /\ UNCHANGED faults
       \/ /\ Fault
          /\ keeper' = "idle" /\ UNCHANGED <<daily, latestDay>>
    /\ partial' = "none"
    /\ UNCHANGED <<base, log, before, aside, pc, code, opened, restore, source, day, restores, cutShort>>

SlipExcess == {c \in daily : Cardinality({d \in daily : d.day < c.day}) >= Keep}
Excess == {c \in daily : Cardinality({d \in daily : d.day > c.day}) >= Keep}  \* copies[min(keep, len(copies)):]

(* One removal after the other; one that fails is left for the next hour. *)
KeeperTrim ==
    /\ keeper = "trimming"
    /\ \/ \E c \in Excess : daily' = daily \ {c} /\ UNCHANGED <<keeper, faults>>
       \/ Excess = {} /\ keeper' = "idle" /\ UNCHANGED <<daily, faults>>
       \/ Excess # {} /\ Fault /\ keeper' = "idle" /\ UNCHANGED daily
    /\ UNCHANGED <<base, log, before, partial, aside, pc, code, opened, restore, source,
                   day, restores, latestDay, cutShort>>

-----------------------------------------------------------------------------
(* The command "restauration". *)

(* Its input is copied under another name and validated: what is not a     *)
(* whole base is refused before anything moves.                            *)
Validated(copy) == copy.file = "whole"

SlipFirstMove == "install"  \* the new base goes over the old one
FirstMove == "aside"

BeginRestore ==
    /\ pc = "stopped" /\ restore = "idle"
    /\ restores < MaxRestores /\ restores' = restores + 1
    /\ \E c \in daily : Validated(c) /\ source' = c.version
    /\ restore' = IF base = NoBase THEN "install" ELSE FirstMove
    /\ UNCHANGED <<files, pc, code, opened, keeper, day, faults, latestDay, cutShort>>

MoveBase ==
    /\ restore = "aside"
    /\ aside' = aside \cup {[lineage |-> base.lineage, withLog |-> log = None]}
    /\ base' = NoBase
    /\ restore' = "logAside"
    /\ UNCHANGED <<log, before, daily, partial, pc, code, opened, keeper, source, day, restores, faults,
                   latestDay, cutShort>>

MoveLog ==
    /\ restore = "logAside"
    /\ aside' = {IF a.lineage = log THEN [a EXCEPT !.withLog = TRUE] ELSE a : a \in aside}
    /\ log' = None
    /\ restore' = "install"
    /\ UNCHANGED <<base, before, daily, partial, pc, code, opened, keeper, source, day, restores, faults,
                   latestDay, cutShort>>

Install ==
    /\ restore = "install"
    /\ base' = [lineage |-> restores + 1, version |-> source]
    /\ restore' = "idle"
    /\ UNCHANGED <<log, before, daily, partial, aside, pc, code, opened, keeper, source, day, restores, faults,
                   latestDay, cutShort>>

(* A call fails, or the command dies: nothing is put back. *)
RestoreFails ==
    /\ restore # "idle" /\ Fault
    /\ restore' = "idle"
    /\ UNCHANGED <<files, pc, code, opened, keeper, source, day, restores, latestDay, cutShort>>

NextDay ==
    /\ day < MaxDays
    /\ day' = day + 1
    /\ UNCHANGED <<files, procs, restores, faults, latestDay, cutShort>>

-----------------------------------------------------------------------------

Init ==
    /\ base = [lineage |-> Original, version |-> FirstVersion] /\ log = None
    /\ before = [v \in Versions |-> "none"]
    /\ daily = {} /\ partial = "none" /\ aside = {}
    /\ pc = "stopped" /\ code = FirstVersion /\ opened = FirstVersion
    /\ keeper = "off" /\ restore = "idle" /\ source = 0
    /\ day = 1 /\ restores = 0 /\ faults = 0 /\ latestDay = 0 /\ cutShort = {}

Next ==
    \/ \E program \in Programs : Start(program)
    \/ Refuse \/ BeginCopy \/ EndCopy \/ Tidy \/ Migrate \/ Serve \/ Stop \/ Die
    \/ KeeperOnce \/ KeeperWritten \/ KeeperRename \/ KeeperTrim
    \/ BeginRestore \/ MoveBase \/ MoveLog \/ Install \/ RestoreFails
    \/ NextDay

Spec == Init /\ [][Next]_vars

-----------------------------------------------------------------------------
(* Properties. *)

FileStates == {"none", "part", "whole"}

(* Types; the log is only there with a program that runs or has died. *)
TypeOK ==
    /\ base \in [lineage : Lineages \cup {None}, version : Versions \cup {0}]
    /\ log \in Lineages \cup {None}
    /\ before \in [Versions -> FileStates] /\ partial \in FileStates
    /\ daily \subseteq [day : 1 .. MaxDays, version : Versions, file : FileStates]
    /\ aside \subseteq [lineage : Lineages, withLog : BOOLEAN]
    /\ pc \in {"stopped", "opening", "copying", "tidying", "migrating", "running"}
    /\ keeper \in {"off", "idle", "writing", "renaming", "trimming"}
    /\ restore \in {"idle", "aside", "logAside", "install"}
    /\ keeper # "off" => pc = "running" /\ base.version = code

(* The latest daily copy is always there, and every copy that bears the    *)
(* name of one is whole: whatever fails or dies while one is written,      *)
(* named or removed (backup.go:114-160).                                   *)
DailyCopiesStand ==
    /\ \A c \in daily : c.file = "whole"
    /\ latestDay # 0 => latestDay \in {c.day : c \in daily}

(* "L'ancienne base est conservee a cote" (donnees.go:86-88): the base of  *)
(* the start is there, under its name or another and never with the log of *)
(* another base played over it, wherever a restore stops.                  *)
OldBaseIsKept ==
    \/ base.lineage = Original
    \/ \E a \in aside : a.lineage = Original

(* A program that has begun to change the schema has kept a copy of the    *)
(* version it opened, unless an earlier one died while it wrote that copy. *)
CopyBeforeUpdate ==
    pc \in {"migrating", "running"} /\ 0 < opened /\ opened < base.version =>
        before[opened] = "whole" \/ opened \in cutShort

(* "Le journal WAL suit la base sous le meme nom, pour rester utilisable"  *)
(* (donnees.go:136): a base is never opened with the log of another.  Not  *)
(* so when a restore stops between the two renames and is run again.       *)
LogFollowsBase == base.lineage # Mixed

(* "avant de la modifier, Mire en garde une copie" (docs/configuration.md: *)
(* 112): not so after a death in the middle of the copy, which is taken    *)
(* for a whole one.                                                        *)
CopyIsWhole == pc = "migrating" => \A v \in Versions : before[v] # "part"
=============================================================================
