---------------------------- MODULE Store_proofs ----------------------------
(***************************************************************************)
(* Theorems about what is kept and what is read back: Backup, for any set  *)
(* of programs, number of daily copies kept, number of restores and of     *)
(* failures; then Periods, for any levels, lengths and windows, and any    *)
(* history of the line, the loop and the probe.                            *)
(***************************************************************************)
EXTENDS Backup, Periods, FiniteSetTheorems, Sums, TLAPS

(* What TypeOK leaves out: the program and the command work on versions    *)
(* that exist, and on the days so far.                                     *)
Types ==
    /\ code \in Programs \cup {FirstVersion} /\ opened \in Versions \cup {0}
    /\ source \in Versions \cup {0} /\ (restore # "idle" => source \in Versions)
    /\ restores \in 0..MaxRestores /\ day \in 1..MaxDays /\ latestDay \in 0..day
    /\ faults \in Nat

(* A restore runs without the program; it takes the name of the base once  *)
(* nothing bears it.                                                       *)
Restoring ==
    /\ base.lineage = None => base = NoBase
    /\ restore # "idle" => pc = "stopped" /\ restores > 0
    /\ restore = "aside" => base # NoBase
    /\ restore \in {"logAside", "install"} => base = NoBase
    /\ pc # "stopped" => base # NoBase

(* The base of the start only ever has its own log. *)
OldLog == base.lineage = Original => log \in {None, Original}

(* The copies are dated in the past, the latest last, and what the keeper  *)
(* is about to name is whole.                                              *)
Copies ==
    /\ keeper = "renaming" => partial = "whole"
    /\ \A c \in daily : c.day <= latestDay

(* The version opened is that of the base until the schema changes, which  *)
(* it does once a copy was begun and not given up.                         *)
Update ==
    /\ pc \in {"opening", "copying", "tidying"} => opened = base.version /\ opened > 0
    /\ pc \in {"copying", "tidying"} => base.version < code
    /\ pc \in {"migrating", "running"} =>
          /\ base.version <= code
          /\ opened \in {0, code} \/ before[opened] # "none"
    /\ pc = "tidying" => before[opened] # "none"
    /\ \A v \in Versions : before[v] = "part" =>
          v \in cutShort \/ (pc = "copying" /\ v = base.version)

IInv ==
    /\ TypeOK /\ Types /\ Restoring /\ OldLog /\ OldBaseIsKept
    /\ Copies /\ DailyCopiesStand /\ Update

-----------------------------------------------------------------------------
(* Versions and types. *)

LEMMA VersionFacts ==
    ASSUME BackupAssumption
    PROVE  /\ \A v \in Versions : v \in Nat /\ v > 0
           /\ \A p \in Programs \cup {FirstVersion} :
                 p \in Nat /\ p > 0 /\ \A v \in Nat : 0 < v /\ v <= p => v \in Versions
BY DEF BackupAssumption, Versions

LEMMA LineageFacts ==
    ASSUME BackupAssumption
    PROVE  /\ {Original, Created, Mixed} \subseteq Lineages
           /\ \A r \in 1..MaxRestores : r + 1 \in Lineages /\ r + 1 # Original
           /\ Created # Original /\ Mixed # Original /\ None \notin Lineages
BY DEF BackupAssumption, Original, Created, Mixed, Lineages, None

(* What the program opens. *)
LEMMA OpenedFacts ==
    ASSUME BackupAssumption, TypeOK, Restoring
    PROVE  /\ OpenedBase \in [lineage : Lineages, version : Versions \cup {0}]
           /\ OpenedBase.version = base.version
           /\ OpenedBase # NoBase
           /\ OpenedBase.lineage = Original <=>
                 base.lineage = Original /\ log \in {None, Original}
<1>1. base \in [lineage : Lineages \cup {None}, version : Versions \cup {0}]
  BY DEF TypeOK
<1>2. CASE base = NoBase
  <2>1. OpenedBase = [lineage |-> Created, version |-> 0]
    BY <1>2 DEF OpenedBase
  <2>2. base.lineage = None /\ base.version = 0
    BY <1>2 DEF NoBase
  <2> QED BY <2>1, <2>2, LineageFacts DEF NoBase
<1>3. CASE base # NoBase /\ log \in {None, base.lineage}
  <2>1. OpenedBase = base /\ base.lineage # None
    BY <1>3 DEF OpenedBase, Restoring
  <2> QED BY <1>1, <1>3, <2>1
<1>4. CASE base # NoBase /\ log \notin {None, base.lineage}
  <2>1. OpenedBase = [base EXCEPT !.lineage = Mixed]
    BY <1>4 DEF OpenedBase
  <2>2. OpenedBase = [lineage |-> Mixed, version |-> base.version]
    BY <1>1, <2>1
  <2> QED BY <1>1, <1>4, <2>2, LineageFacts DEF NoBase
<1> QED BY <1>2, <1>3, <1>4

-----------------------------------------------------------------------------
(* One part of the invariant at a time, one step per action that can       *)
(* disturb it.                                                             *)

BaseTyped ==
    /\ base \in [lineage : Lineages \cup {None}, version : Versions \cup {0}]
    /\ log \in Lineages \cup {None}
    /\ aside \subseteq [lineage : Lineages, withLog : BOOLEAN]
CopiesTyped ==
    /\ before \in [Versions -> FileStates] /\ partial \in FileStates
    /\ daily \subseteq [day : 1 .. MaxDays, version : Versions, file : FileStates]
ProcsTyped ==
    /\ pc \in {"stopped", "opening", "copying", "tidying", "migrating", "running"}
    /\ keeper \in {"off", "idle", "writing", "renaming", "trimming"}
    /\ restore \in {"idle", "aside", "logAside", "install"}
    /\ keeper # "off" => pc = "running" /\ base.version = code

LEMMA TypeParts == TypeOK <=> BaseTyped /\ CopiesTyped /\ ProcsTyped
BY DEF TypeOK, BaseTyped, CopiesTyped, ProcsTyped

(* The steps that move neither the base nor its log, nor the restore. *)
Aloof == BeginCopy \/ Tidy \/ Serve \/ Die \/ KeeperOnce \/ KeeperWritten \/ KeeperRename
         \/ KeeperTrim \/ NextDay

LEMMA AloofKeeps ==
    ASSUME Aloof
    PROVE  /\ UNCHANGED <<base, log, aside, restore, source, restores, opened, code>>
           /\ pc = "stopped" => pc' = "stopped"
<1>1. CASE BeginCopy \/ Tidy \/ Serve \/ Die
  BY <1>1 DEF files, BeginCopy, Tidy, Serve, Die
<1>2. CASE KeeperOnce \/ KeeperWritten \/ KeeperRename \/ KeeperTrim \/ NextDay
  BY <1>2 DEF files, procs, KeeperOnce, KeeperWritten, KeeperRename, KeeperTrim, NextDay
<1> QED BY <1>1, <1>2 DEF Aloof

(* Migrate, a step at a time. *)
LEMMA MigrateFacts ==
    ASSUME BackupAssumption, IInv, Migrate
    PROVE  /\ pc = "migrating" /\ base.version < code /\ base.version \in Nat
           /\ \/ /\ base' = [lineage |-> base.lineage, version |-> base.version + 1]
                 /\ base.version + 1 \in Versions /\ base.version + 1 <= code
                 /\ pc' = pc /\ log' = log /\ faults' = faults
              \/ /\ base' = base /\ pc' = "stopped" /\ log' = None /\ faults' = faults + 1
           /\ UNCHANGED <<before, daily, partial, aside, code, opened, keeper, restore, source,
                          day, restores, latestDay, cutShort>>
<1>1. base \in [lineage : Lineages \cup {None}, version : Versions \cup {0}]
  BY DEF IInv, TypeOK
<1>2. base.version \in Nat /\ pc = "migrating" /\ base.version < code
  BY <1>1, VersionFacts DEF Migrate
<1>3. [base EXCEPT !.version = @ + 1]
         = [lineage |-> base.lineage, version |-> base.version + 1]
  BY <1>1
<1>4. base.version + 1 \in Versions /\ base.version + 1 <= code
  <2>1. code \in Nat /\ code > 0 /\ \A v \in Nat : 0 < v /\ v <= code => v \in Versions
    BY VersionFacts DEF IInv, Types
  <2> QED BY <1>2, <2>1
<1> QED BY <1>2, <1>3, <1>4 DEF Migrate, Fault

LEMMA KeepsRestoring ==
    ASSUME BackupAssumption, IInv, Next
    PROVE  Restoring' /\ OldLog' /\ OldBaseIsKept'
<1> USE DEF IInv, Restoring, OldLog, OldBaseIsKept
<1>0. /\ base \in [lineage : Lineages \cup {None}, version : Versions \cup {0}]
      /\ restores \in 0..MaxRestores /\ MaxRestores \in Nat
  BY DEF TypeOK, Types, BackupAssumption
<1>1. ASSUME NEW program \in Programs, Start(program)
      PROVE  Restoring' /\ OldLog' /\ OldBaseIsKept'
  <2>1. /\ base' = OpenedBase /\ log' = OpenedBase.lineage
        /\ UNCHANGED <<restore, aside, restores>> /\ restore = "idle"
    BY <1>1 DEF Start
  <2>2. /\ OpenedBase.lineage \in Lineages /\ OpenedBase # NoBase
        /\ base.lineage = Original => OpenedBase.lineage = Original
    BY OpenedFacts
  <2> QED BY <2>1, <2>2, LineageFacts
<1>2. CASE Aloof
  <2>1. pc' # "stopped" => pc # "stopped"
    BY <1>2, AloofKeeps
  <2> QED BY <1>2, <2>1, AloofKeeps
<1>3. CASE Refuse \/ EndCopy \/ Stop
  BY <1>3 DEF Refuse, EndCopy, Stop
<1>4. CASE Migrate
  <2>1. base'.lineage = base.lineage /\ base' # NoBase /\ (log' = log \/ log' = None)
    BY <1>4, MigrateFacts DEF NoBase
  <2>2. pc # "stopped" /\ UNCHANGED <<restore, aside, restores>>
    BY <1>4, MigrateFacts
  <2> QED BY <2>1, <2>2
<1>5. CASE BeginRestore
  <2>1. /\ pc = "stopped" /\ restores' = restores + 1
        /\ restore' = (IF base = NoBase THEN "install" ELSE "aside")
        /\ UNCHANGED <<base, log, aside, pc>>
    BY <1>5 DEF BeginRestore, FirstMove, files
  <2>2. restores' > 0
    BY <1>0, <2>1
  <2> QED BY <2>1, <2>2
<1>6. CASE MoveBase
  <2>1. /\ restore = "aside" /\ restore' = "logAside" /\ base' = NoBase
        /\ UNCHANGED <<log, pc, restores>>
        /\ aside' = aside \cup {[lineage |-> base.lineage, withLog |-> log = None]}
    BY <1>6 DEF MoveBase
  <2>2. OldBaseIsKept'
    <3>1. CASE base.lineage = Original
      <4> DEFINE a == [lineage |-> base.lineage, withLog |-> log = None]
      <4>1. a.lineage = Original /\ a \in aside'
        BY <2>1, <3>1
      <4> QED BY <4>1
    <3>2. CASE base.lineage # Original
      BY <2>1, <3>2
    <3> QED BY <3>1, <3>2
  <2>3. OldLog'
    BY <2>1, LineageFacts DEF NoBase, Original, None
  <2> QED BY <2>1, <2>2, <2>3
<1>7. CASE MoveLog
  <2>1. /\ restore = "logAside" /\ restore' = "install" /\ log' = None
        /\ UNCHANGED <<base, pc, restores>>
        /\ aside' = {IF a.lineage = log THEN [a EXCEPT !.withLog = TRUE] ELSE a : a \in aside}
    BY <1>7 DEF MoveLog
  <2>2. \A a \in aside : [a EXCEPT !.withLog = TRUE].lineage = a.lineage
    BY DEF TypeOK
  <2>3. \A a \in aside : \E b \in aside' : b.lineage = a.lineage
    BY <2>1, <2>2
  <2> QED BY <2>1, <2>3
<1>8. CASE Install
  <2>1. /\ restore = "install" /\ restore' = "idle" /\ UNCHANGED <<log, aside, pc, restores>>
        /\ base' = [lineage |-> restores + 1, version |-> source]
    BY <1>8 DEF Install
  <2>2. restores \in 1..MaxRestores
    BY <1>0, <2>1
  <2>3. base'.lineage \in Lineages /\ base'.lineage # Original
    BY <2>1, <2>2, LineageFacts
  <2>4. base.lineage # Original
    BY <2>1, LineageFacts DEF NoBase, Original, None
  <2>5. base'.lineage # None
    BY <2>3, LineageFacts
  <2> QED BY <2>1, <2>3, <2>4, <2>5
<1>9. CASE RestoreFails
  BY <1>9 DEF RestoreFails, files
<1> QED BY <1>1, <1>2, <1>3, <1>4, <1>5, <1>6, <1>7, <1>8, <1>9 DEF Next, Aloof

(* The daily copies. *)
LEMMA KeepsCopies ==
    ASSUME BackupAssumption, IInv, Next
    PROVE  Copies' /\ DailyCopiesStand'
<1> USE DEF IInv, Copies, DailyCopiesStand
<1>0. /\ day \in Nat /\ latestDay \in Nat /\ latestDay <= day
      /\ \A c \in daily : c.day \in Nat
      /\ keeper # "off" => pc = "running"
  BY DEF Types, TypeOK
<1>1. CASE KeeperWritten
  BY <1>1 DEF KeeperWritten
<1>2. CASE KeeperRename
  <2>1. CASE daily' = daily /\ latestDay' = latestDay /\ keeper' = "idle"
    BY <2>1
  <2>2. ASSUME NEW new, new = [day |-> day, version |-> base.version, file |-> partial],
               daily' = {c \in daily : c.day # day} \cup {new},
               latestDay' = day, keeper' = "trimming"
        PROVE  Copies' /\ DailyCopiesStand'
    <3>1. new.day = day /\ new.file = "whole" /\ new \in daily'
      BY <1>2, <2>2 DEF KeeperRename
    <3>2. \A c \in daily' : c.file = "whole" /\ c.day <= day
      BY <1>0, <2>2, <3>1
    <3>3. day \in {c.day : c \in daily'}
      BY <3>1
    <3> QED BY <2>2, <3>2, <3>3
  <2> QED BY <1>2, <2>1, <2>2 DEF KeeperRename
<1>3. CASE KeeperTrim
  <2>1. partial' = partial /\ latestDay' = latestDay /\ keeper' # "renaming"
    BY <1>3 DEF KeeperTrim
  <2>2. CASE daily' = daily
    BY <2>1, <2>2
  <2>3. ASSUME NEW c \in Excess, daily' = daily \ {c}
        PROVE  Copies' /\ DailyCopiesStand'
    <3>1. Cardinality({d \in daily : d.day > c.day}) >= Keep /\ c \in daily
      BY DEF Excess
    <3>2. {d \in daily : d.day > c.day} # {}
      <4>1. Keep \in Nat /\ Keep > 0
        BY DEF BackupAssumption
      <4>2. Cardinality({}) = 0
        BY FS_EmptySet
      <4> QED BY <3>1, <4>1, <4>2
    <3>3. PICK d \in daily : d.day > c.day
      BY <3>2
    <3>4. c.day # latestDay
      BY <1>0, <3>1, <3>3
    <3>5. latestDay # 0 => latestDay \in {e.day : e \in daily'}
      BY <2>3, <3>4
    <3> QED BY <2>1, <2>3, <3>5
  <2> QED BY <1>3, <2>2, <2>3 DEF KeeperTrim
<1>4. CASE BeginCopy \/ EndCopy \/ Tidy \/ Migrate \/ Serve \/ Stop \/ Die \/ Refuse
  BY <1>0, <1>4 DEF files, BeginCopy, EndCopy, Tidy, Migrate, Serve, Stop, Die, Refuse
<1>5. CASE KeeperOnce
  BY <1>5 DEF KeeperOnce
<1>6. CASE BeginRestore \/ MoveBase \/ MoveLog \/ Install \/ RestoreFails \/ NextDay
  BY <1>6 DEF files, procs, BeginRestore, MoveBase, MoveLog, Install, RestoreFails, NextDay
<1>7. CASE \E program \in Programs : Start(program)
  BY <1>7 DEF Start
<1> QED BY <1>1, <1>2, <1>3, <1>4, <1>5, <1>6, <1>7 DEF Next

(* The copy before an update. *)
LEMMA KeepsUpdate ==
    ASSUME BackupAssumption, IInv, Next
    PROVE  Update'
<1> USE DEF IInv, Update
<1>0. /\ base.version \in Versions \cup {0} /\ code \in Nat /\ code > 0
      /\ before \in [Versions -> FileStates] /\ \A v \in Versions : v \in Nat /\ v > 0
  BY VersionFacts DEF TypeOK, Types
<1>1. ASSUME NEW program \in Programs, Start(program) PROVE Update'
  <2>1. /\ pc = "stopped" /\ opened' = base'.version /\ base'.version = base.version
        /\ code' = program /\ UNCHANGED <<before, cutShort>>
        /\ pc' = IF base.version \notin {0, program} THEN "opening" ELSE "migrating"
    BY <1>1, OpenedFacts DEF Start
  <2>2. program \in Nat /\ program > 0
    BY VersionFacts
  <2>3. opened' > 0 \/ opened' = 0
    BY <1>0, <2>1
  <2>4. \A v \in Versions : before'[v] = "part" => v \in cutShort'
    BY <2>1
  <2>5. pc' \in {"opening", "migrating"}
    BY <2>1
  <2>6. pc' = "opening" => opened' = base'.version /\ opened' > 0
    BY <1>0, <2>1, <2>3
  <2>7. pc' = "migrating" => base'.version <= code' /\ opened' \in {0, code'}
    BY <1>0, <2>1, <2>2
  <2> QED BY <2>4, <2>5, <2>6, <2>7
<1>2. CASE BeginCopy
  <2>1. /\ pc = "opening" /\ base.version < code /\ base.version \in Versions
        /\ opened = base.version /\ UNCHANGED <<base, code, opened, cutShort>>
    BY <1>0, <1>2 DEF BeginCopy
  <2>2. CASE before[base.version] = "none"
    <3>1. before' = [before EXCEPT ![base.version] = "part"] /\ pc' = "copying"
      BY <1>2, <2>2 DEF BeginCopy
    <3>2. \A v \in Versions : before'[v] = "part" => before[v] = "part" \/ v = base.version
      BY <1>0, <2>1, <3>1
    <3> QED BY <1>0, <2>1, <3>1, <3>2
  <2>3. CASE before[base.version] # "none"
    <3>1. before' = before /\ pc' = "tidying"
      BY <1>2, <2>3 DEF BeginCopy
    <3> QED BY <1>0, <2>1, <2>3, <3>1
  <2> QED BY <2>2, <2>3
<1>3. CASE EndCopy
  <2>1. /\ pc = "copying" /\ base.version \in Versions /\ opened = base.version
        /\ base.version < code /\ UNCHANGED <<base, code, opened, cutShort>>
    BY <1>0, <1>3 DEF EndCopy
  <2>2. ASSUME NEW f \in {"whole", "none"}, before' = [before EXCEPT ![base.version] = f]
        PROVE  before'[base.version] = f
               /\ \A v \in Versions : before'[v] = "part" => v \in cutShort
    BY <1>0, <2>1, <2>2
  <2>3. CASE before' = [before EXCEPT ![base.version] = "whole"] /\ pc' = "tidying"
    BY <1>0, <2>1, <2>2, <2>3
  <2>4. CASE before' = [before EXCEPT ![base.version] = "none"] /\ pc' = "stopped"
    BY <1>0, <2>1, <2>2, <2>4
  <2> QED BY <1>3, <2>3, <2>4 DEF EndCopy
<1>4. CASE Tidy
  <2>1. /\ pc = "tidying" /\ pc' = "migrating" /\ base.version \in Versions
        /\ opened = base.version /\ base.version < code
        /\ UNCHANGED <<base, code, opened, cutShort>>
        /\ before' = [v \in Versions |-> IF IsOld(v) THEN "none" ELSE before[v]]
    BY <1>0, <1>4 DEF Tidy
  <2>2. before'[opened] = before[opened]
    BY <2>1 DEF IsOld
  <2>3. \A v \in Versions : before'[v] = "part" => before[v] = "part"
    BY <2>1
  <2> QED BY <1>0, <2>1, <2>2, <2>3
<1>5. CASE Migrate
  <2>1. base'.version \in Nat /\ base'.version <= code
    BY <1>0, <1>5, MigrateFacts
  <2>2. pc = "migrating" /\ pc' \in {pc, "stopped"} /\ UNCHANGED <<before, code, opened, cutShort>>
    BY <1>5, MigrateFacts
  <2> QED BY <2>1, <2>2
<1>6. CASE Serve
  BY <1>6 DEF Serve
<1>7. CASE Refuse \/ Stop
  BY <1>7 DEF Refuse, Stop
<1>8. CASE Die
  BY <1>8 DEF Die, files
<1>9. CASE KeeperOnce \/ KeeperWritten \/ KeeperRename \/ KeeperTrim \/ NextDay
  BY <1>9 DEF files, procs, KeeperOnce, KeeperWritten, KeeperRename, KeeperTrim, NextDay
<1>10. CASE BeginRestore \/ MoveBase \/ MoveLog \/ Install \/ RestoreFails
  <2>1. pc = "stopped" /\ UNCHANGED <<pc, before, cutShort>>
    BY <1>10 DEF files, Restoring, BeginRestore, MoveBase, MoveLog, Install, RestoreFails
  <2> QED BY <2>1
<1> QED BY <1>1, <1>2, <1>3, <1>4, <1>5, <1>6, <1>7, <1>8, <1>9, <1>10 DEF Next

(* The types. *)
LEMMA KeepsTypes ==
    ASSUME BackupAssumption, IInv, Next
    PROVE  Types'
<1> USE DEF IInv, Types
<1>0. /\ MaxRestores \in Nat /\ MaxDays \in Nat /\ FirstVersion \in Programs \cup {FirstVersion}
      /\ base.version \in Versions \cup {0} /\ \A c \in daily : c.version \in Versions
      /\ day \in Nat /\ latestDay \in Nat
  BY DEF TypeOK, BackupAssumption
<1>1. ASSUME NEW program \in Programs, Start(program) PROVE Types'
  BY <1>1, OpenedFacts DEF Start
<1>2. CASE Refuse \/ BeginCopy \/ Tidy \/ Serve \/ Stop
  BY <1>2 DEF Refuse, BeginCopy, Tidy, Serve, Stop
<1>3. CASE EndCopy \/ Die
  BY <1>3 DEF EndCopy, Die, Fault
<1>4. CASE Migrate
  BY <1>4, MigrateFacts
<1>5. CASE KeeperOnce \/ KeeperWritten \/ KeeperTrim
  BY <1>5 DEF KeeperOnce, KeeperWritten, KeeperTrim, Fault
<1>6. CASE KeeperRename
  BY <1>0, <1>6 DEF KeeperRename, Fault
<1>7. CASE BeginRestore
  <2>1. PICK c \in daily : source' = c.version
    BY <1>7 DEF BeginRestore
  <2>2. source' \in Versions
    BY <1>0, <2>1
  <2>3. restores' \in 0..MaxRestores
    BY <1>0, <1>7 DEF BeginRestore
  <2> QED BY <1>7, <2>2, <2>3 DEF BeginRestore
<1>8. CASE MoveBase \/ MoveLog \/ Install
  BY <1>8 DEF MoveBase, MoveLog, Install
<1>9. CASE RestoreFails
  BY <1>9 DEF RestoreFails, Fault
<1>10. CASE NextDay
  <2>1. day' \in 1..MaxDays /\ latestDay' \in 0..day'
    BY <1>0, <1>10 DEF NextDay
  <2> QED BY <1>10, <2>1 DEF NextDay, procs
<1> QED BY <1>1, <1>2, <1>3, <1>4, <1>5, <1>6, <1>7, <1>8, <1>9, <1>10 DEF Next

LEMMA KeepsBaseTyped ==
    ASSUME BackupAssumption, IInv, Next
    PROVE  BaseTyped'
<1> USE DEF IInv, BaseTyped
<1>0. BaseTyped
  BY TypeParts
<1>1. ASSUME NEW program \in Programs, Start(program) PROVE BaseTyped'
  BY <1>0, <1>1, OpenedFacts DEF Start
<1>2. CASE Aloof
  BY <1>0, <1>2, AloofKeeps
<1>3. CASE Refuse \/ EndCopy \/ Stop
  BY <1>0, <1>3 DEF Refuse, EndCopy, Stop
<1>4. CASE Migrate
  BY <1>0, <1>4, MigrateFacts
<1>5. CASE BeginRestore \/ RestoreFails
  BY <1>0, <1>5 DEF BeginRestore, RestoreFails, files
<1>6. CASE MoveBase
  <2>1. base.lineage \in Lineages
    BY <1>0, <1>6 DEF MoveBase, Restoring
  <2>2. [lineage |-> base.lineage, withLog |-> log = None]
            \in [lineage : Lineages, withLog : BOOLEAN]
    BY <2>1
  <2>3. NoBase \in [lineage : Lineages \cup {None}, version : Versions \cup {0}]
    BY DEF NoBase
  <2>4. /\ aside' = aside \cup {[lineage |-> base.lineage, withLog |-> log = None]}
        /\ base' = NoBase /\ log' = log
    BY <1>6 DEF MoveBase
  <2> QED BY <1>0, <2>2, <2>3, <2>4
<1>7. CASE MoveLog
  <2>1. /\ base' = base /\ log' = None
        /\ aside' = {IF a.lineage = log THEN [a EXCEPT !.withLog = TRUE] ELSE a : a \in aside}
    BY <1>7 DEF MoveLog
  <2>2. \A a \in aside : [a EXCEPT !.withLog = TRUE] \in [lineage : Lineages, withLog : BOOLEAN]
    BY <1>0
  <2> QED BY <1>0, <2>1, <2>2
<1>8. CASE Install
  <2>1. restores \in 1..MaxRestores /\ source \in Versions
    BY <1>8 DEF Install, Types, Restoring, BackupAssumption
  <2>2. [lineage |-> restores + 1, version |-> source]
            \in [lineage : Lineages \cup {None}, version : Versions \cup {0}]
    BY <2>1, LineageFacts
  <2> QED BY <1>0, <1>8, <2>2 DEF Install
<1> QED BY <1>1, <1>2, <1>3, <1>4, <1>5, <1>6, <1>7, <1>8 DEF Next, Aloof

LEMMA KeepsCopiesTyped ==
    ASSUME BackupAssumption, IInv, Next
    PROVE  CopiesTyped'
<1> USE DEF IInv, CopiesTyped, FileStates
<1>0. CopiesTyped
  BY TypeParts
<1>1. CASE Tidy
  <2>1. before' = [v \in Versions |-> IF IsOld(v) THEN "none" ELSE before[v]]
    BY <1>1 DEF Tidy
  <2>2. before' \in [Versions -> FileStates]
    BY <1>0, <2>1
  <2> QED BY <1>0, <1>1, <2>2 DEF Tidy
<1>2. CASE BeginCopy \/ EndCopy
  <2>1. before' \in [Versions -> FileStates]
    BY <1>0, <1>2 DEF BeginCopy, EndCopy
  <2> QED BY <1>0, <1>2, <2>1 DEF BeginCopy, EndCopy
<1>3. CASE KeeperOnce \/ KeeperWritten \/ Serve
  BY <1>0, <1>3 DEF KeeperOnce, KeeperWritten, Serve
<1>4. CASE KeeperRename
  <2> DEFINE new == [day |-> day, version |-> base.version, file |-> partial]
  <2>1. base.version \in Versions
    <3>1. base.version = code /\ code \in Nat /\ code > 0 /\ base.version \in Versions \cup {0}
      BY <1>4, VersionFacts DEF KeeperRename, TypeOK, Types
    <3> QED BY <3>1
  <2>2. new \in [day : 1 .. MaxDays, version : Versions, file : FileStates]
    BY <1>0, <2>1 DEF Types
  <2>3. /\ daily' = daily \/ daily' = {c \in daily : c.day # day} \cup {new}
        /\ before' = before /\ partial' = "none"
    BY <1>4 DEF KeeperRename
  <2> HIDE DEF new
  <2> QED BY <1>0, <2>2, <2>3
<1>5. CASE KeeperTrim
  BY <1>0, <1>5 DEF KeeperTrim
<1>6. CASE Migrate
  BY <1>0, <1>6, MigrateFacts
<1>7. CASE Refuse \/ Stop \/ Die \/ NextDay
  BY <1>0, <1>7 DEF Refuse, Stop, Die, NextDay, files
<1>8. CASE BeginRestore \/ MoveBase \/ MoveLog \/ Install \/ RestoreFails
  BY <1>0, <1>8 DEF BeginRestore, MoveBase, MoveLog, Install, RestoreFails, files
<1>9. CASE \E program \in Programs : Start(program)
  BY <1>0, <1>9 DEF Start
<1> QED BY <1>1, <1>2, <1>3, <1>4, <1>5, <1>6, <1>7, <1>8, <1>9 DEF Next

LEMMA KeepsProcsTyped ==
    ASSUME BackupAssumption, IInv, Next
    PROVE  ProcsTyped'
<1> USE DEF IInv, ProcsTyped
<1>0. ProcsTyped
  BY TypeParts
<1>1. ASSUME NEW program \in Programs, Start(program) PROVE ProcsTyped'
  BY <1>0, <1>1 DEF Start
<1>2. CASE Refuse \/ BeginCopy \/ EndCopy \/ Tidy
  BY <1>0, <1>2 DEF Refuse, BeginCopy, EndCopy, Tidy
<1>3. CASE Migrate
  BY <1>0, <1>3, MigrateFacts
<1>4. CASE Serve \/ Stop \/ Die
  BY <1>0, <1>4 DEF Serve, Stop, Die, Migrated, files
<1>5. CASE KeeperOnce \/ KeeperWritten
  BY <1>0, <1>5 DEF KeeperOnce, KeeperWritten
<1>6. CASE KeeperRename \/ KeeperTrim
  BY <1>0, <1>6 DEF KeeperRename, KeeperTrim
<1>7. CASE BeginRestore \/ MoveBase \/ MoveLog \/ Install \/ RestoreFails
  <2>1. keeper = "off" /\ UNCHANGED <<pc, keeper>>
    BY <1>0, <1>7 DEF Restoring, BeginRestore, MoveBase, MoveLog, Install, RestoreFails, files
  <2>2. restore' \in {"idle", "aside", "logAside", "install"}
    BY <1>7 DEF BeginRestore, MoveBase, MoveLog, Install, RestoreFails, FirstMove
  <2> QED BY <1>0, <2>1, <2>2
<1>8. CASE NextDay
  BY <1>0, <1>8 DEF NextDay, files, procs
<1> QED BY <1>1, <1>2, <1>3, <1>4, <1>5, <1>6, <1>7, <1>8 DEF Next

-----------------------------------------------------------------------------
(* The theorems. *)

LEMMA InitIInv == BackupAssumption /\ Init => IInv
<1> SUFFICES ASSUME BackupAssumption, Init PROVE IInv
  OBVIOUS
<1> USE DEF Init
<1>1. FirstVersion \in Versions /\ Original \in Lineages
  BY VersionFacts, LineageFacts
<1>2. BaseTyped /\ CopiesTyped /\ ProcsTyped
  BY <1>1 DEF BaseTyped, CopiesTyped, ProcsTyped, FileStates
<1>3. Types
  BY <1>1 DEF Types, BackupAssumption
<1>4. Restoring /\ OldLog /\ OldBaseIsKept
  BY DEF Restoring, OldLog, OldBaseIsKept, NoBase, Original, None
<1>5. Copies /\ DailyCopiesStand /\ Update
  BY DEF Copies, DailyCopiesStand, Update
<1> QED BY <1>2, <1>3, <1>4, <1>5, TypeParts DEF IInv

LEMMA TypePartsNext == TypeOK' <=> BaseTyped' /\ CopiesTyped' /\ ProcsTyped'
BY DEF TypeOK, BaseTyped, CopiesTyped, ProcsTyped

LEMMA NextIInv == BackupAssumption /\ IInv /\ [Next]_vars => IInv'
<1> SUFFICES ASSUME BackupAssumption, IInv, [Next]_vars PROVE IInv'
  OBVIOUS
<1>1. CASE Next
  BY <1>1, KeepsRestoring, KeepsCopies, KeepsUpdate, KeepsTypes, KeepsBaseTyped,
     KeepsCopiesTyped, KeepsProcsTyped, TypePartsNext DEF IInv
<1>2. CASE UNCHANGED vars
  <2> USE <1>2 DEF vars, files, procs, IInv
  <2>1. TypeOK' /\ Types'
    BY DEF TypeOK, Types
  <2>2. Restoring' /\ OldLog' /\ OldBaseIsKept'
    BY DEF Restoring, OldLog, OldBaseIsKept
  <2>3. Copies' /\ DailyCopiesStand' /\ Update'
    BY DEF Copies, DailyCopiesStand, Update
  <2> QED BY <2>1, <2>2, <2>3
<1> QED BY <1>1, <1>2

(* The inductive invariant: what each file holds, given where the program, *)
(* the keeper and the command are (store.Open, backup.Keeper, donnees.go). *)
THEOREM Invariance == Spec => []IInv
BY BackupAssumption, InitIInv, NextIInv, PTL DEF Spec

(* Every variable keeps its type, and the keeper only works on the base of *)
(* the program that runs (Serve).                                          *)
THEOREM TypeCorrect == Spec => []TypeOK
<1>1. IInv => TypeOK
  BY DEF IInv
<1> QED BY <1>1, Invariance, PTL

(* Whatever dies or fails while the keeper writes, names or removes, the   *)
(* latest daily copy is there and all of them are whole (Keeper.write,     *)
(* Keeper.trim).                                                           *)
THEOREM DailyCopiesKept == Spec => []DailyCopiesStand
<1>1. IInv => DailyCopiesStand
  BY DEF IInv
<1> QED BY <1>1, Invariance, PTL

(* Wherever restores stop, the base of the start is under its name or put  *)
(* aside (the command "restauration").                                     *)
THEOREM OldBaseKept == Spec => []OldBaseIsKept
<1>1. IInv => OldBaseIsKept
  BY DEF IInv
<1> QED BY <1>1, Invariance, PTL

(* The schema is only changed once the version opened has its copy, or a   *)
(* death cut that copy short (backupBeforeMigration).                      *)
THEOREM CopiedBeforeUpdate == Spec => []CopyBeforeUpdate
<1>1. BackupAssumption /\ IInv => CopyBeforeUpdate
  <2> SUFFICES ASSUME BackupAssumption, IInv, pc \in {"migrating", "running"},
                      0 < opened, opened < base.version
               PROVE  before[opened] = "whole" \/ opened \in cutShort
    BY DEF CopyBeforeUpdate
  <2>1. /\ opened \in Versions /\ base.version <= code
        /\ opened \in {0, code} \/ before[opened] # "none"
        /\ before[opened] = "part" => opened \in cutShort
    BY DEF IInv, Types, Update
  <2>2. opened \in Nat /\ base.version \in Nat /\ code \in Nat
    BY <2>1, VersionFacts DEF IInv, Types, TypeOK
  <2>3. before[opened] # "none" /\ before[opened] \in FileStates
    BY <2>1, <2>2 DEF IInv, TypeOK
  <2> QED BY <2>1, <2>3 DEF FileStates
<1> QED BY <1>1, BackupAssumption, Invariance, PTL

-----------------------------------------------------------------------------
(***************************************************************************)
(* The tables a period is read from: what the steps that fill them         *)
(* preserve.                                                               *)
(***************************************************************************)

(* What a reading finds, and the rows of the tables. *)
Line == [level : Levels, lost : Nat, out : BOOLEAN]
Told1 == [time : Nat, kind : OtherKinds \cup {State}, level : Levels]
Outage == [start : Nat, end : {Open} \cup Nat, kind : Kinds]
Micro == [time : Nat, kind : Kinds]
Test == [time : Nat, down : Speeds]

(* What the tables hold: dates up to now, levels and counters in bounds. *)
Tables ==
    /\ clock \in 0..MaxTime /\ changes \in 0..MaxChanges
    /\ line \in Line /\ line.lost <= changes
    /\ collecting \in BOOLEAN /\ probing \in BOOLEAN
    /\ Times \subseteq 1..clock /\ readings = [t \in Times |-> readings[t]]
    /\ \A t \in Times : readings[t] \in Line /\ readings[t].lost <= changes
    /\ journal \in Seq(Told1) /\ \A i \in DOMAIN journal : journal[i].time <= clock
    /\ outages \in Seq(Outage)
    /\ \A i \in DOMAIN outages : outages[i].start <= clock /\ outages[i].end <= clock
    /\ micro \in Seq(Micro) /\ \A i \in DOMAIN micro : micro[i].time <= clock
    /\ tests \in Seq(Test) /\ \A i \in DOMAIN tests : tests[i].time <= clock
    /\ samples \subseteq 0..clock

(* Events are in the order of their dates, and no two changes of level have *)
(* the same one.                                                            *)
InOrder ==
    \A i, j \in DOMAIN journal : i < j =>
        /\ journal[i].time <= journal[j].time
        /\ journal[i].kind = State /\ journal[j].kind = State => journal[i].time < journal[j].time

(* Outages come one after the other; only the last may go on, and not       *)
(* before it began.                                                         *)
OneAtATime ==
    \A i \in DOMAIN outages :
        /\ outages[i].end = Open => i = Len(outages)
        /\ outages[i].end # Open => outages[i].start <= outages[i].end

(* A probe that stopped has written its last bucket. *)
Written == ~probing => samples # {}

(* The journal tells at any date what the last reading found. *)
TellsTheReadings ==
    \A t \in 1..clock : (\E u \in Times : u <= t) => LevelBefore(t + 1) = SeenAt(t)

PInv == Tables /\ InOrder /\ OneAtATime /\ Written /\ TellsTheReadings

-----------------------------------------------------------------------------
(* Dates, buckets and indices. *)

LEMMA Lengths ==
    /\ Bucket \in Nat \ {0} /\ GapAfter \in Nat \ {0} /\ StaleAfter \in Nat \ {0}
    /\ Day \in Nat \ {0} /\ Month \in Nat \ {0} /\ EventLimit \in Nat \ {0}
    /\ Threshold \in Nat \ {0} /\ Bars \in Nat \ {0} /\ ReportEvents \in Nat \ {0}
    /\ MicroSince \in Nat /\ PeriodFee \in Nat /\ MaxTime \in Nat /\ MaxChanges \in Nat
    /\ Day <= Month /\ Speeds \subseteq Nat /\ State \notin OtherKinds
    /\ Good \in Levels /\ Unknown \notin Levels
BY PeriodsAssumption

LEMMA BucketIsBefore ==
    ASSUME NEW t \in Nat
    PROVE  BucketOf(t) \in 0..t
<1>1. Bucket \in Nat /\ Bucket > 0
  BY Lengths
<1>2. t % Bucket \in 0..(Bucket - 1) /\ t \div Bucket \in Nat /\ t = Bucket * (t \div Bucket) + (t % Bucket)
  BY <1>1
<1>3. Bucket * (t \div Bucket) \in Nat
  BY <1>1, <1>2
<1>4. PICK p \in Nat : t = p + (t % Bucket)
  BY <1>2, <1>3
<1>5. PICK q \in Nat : q = t % Bucket
  BY <1>1, <1>2
<1> QED BY <1>4, <1>5 DEF BucketOf

(* The times of a finite past have a last one, when there is any. *)
LEMMA PastIsFinite ==
    ASSUME NEW T, NEW n \in Nat, T \subseteq 1..n
    PROVE  IsFiniteSet(T) /\ T \subseteq Int
<1>1. IsFiniteSet(1..n)
  BY FS_Interval
<1>2. IsFiniteSet(T)
  BY <1>1, FS_Subset
<1> QED BY <1>2

LEMMA LastOne ==
    ASSUME NEW T, NEW n \in Nat, T \subseteq 1..n, T # {}
    PROVE  Max(T) \in T /\ \A u \in T : u <= Max(T)
BY PastIsFinite, MaxExists

LEMMA FirstOne ==
    ASSUME NEW T, NEW n \in Nat, T \subseteq 1..n, T # {}
    PROVE  Min(T) \in T /\ \A u \in T : Min(T) <= u
BY PastIsFinite, MinExists

-----------------------------------------------------------------------------
(* The level a journal tells. *)

Tellers(j, t) == {i \in DOMAIN j : j[i].kind = State /\ j[i].time < t}
LevelIn(j, t) == IF Tellers(j, t) = {} THEN Good ELSE j[Max(Tellers(j, t))].level

LEMMA EventFacts ==
    ASSUME NEW j \in Seq(Told1), NEW i \in DOMAIN j
    PROVE  /\ j[i] \in Told1 /\ j[i].time \in Nat /\ j[i].level \in Levels
           /\ j[i].kind \in OtherKinds \cup {State} /\ i \in 1..Len(j) /\ Len(j) \in Nat
<1>1. j[i] \in Told1 /\ i \in 1..Len(j) /\ Len(j) \in Nat
  OBVIOUS
<1> QED BY <1>1 DEF Told1

LEMMA LevelIsIn == ASSUME NEW t PROVE LevelBefore(t) = LevelIn(journal, t)
BY DEF LevelBefore, LevelIn, Tellers

LEMMA LastTeller ==
    ASSUME NEW j \in Seq(Told1), NEW t, Tellers(j, t) # {}
    PROVE  Max(Tellers(j, t)) \in Tellers(j, t) /\ \A i \in Tellers(j, t) : i <= Max(Tellers(j, t))
<1>1. Tellers(j, t) \subseteq 1..Len(j) /\ Len(j) \in Nat
  BY DEF Tellers
<1> QED BY <1>1, LastOne

LEMMA LevelIsLevel ==
    ASSUME NEW j \in Seq(Told1), NEW t
    PROVE  LevelIn(j, t) \in Levels
<1>1. CASE Tellers(j, t) = {}
  BY <1>1, Lengths DEF LevelIn
<1>2. CASE Tellers(j, t) # {}
  <2>1. PICK i \in DOMAIN j : i = Max(Tellers(j, t))
    BY <1>2, LastTeller DEF Tellers
  <2>3. j[i].level \in Levels
    BY EventFacts
  <2> QED BY <1>2, <2>1, <2>3 DEF LevelIn
<1> QED BY <1>1, <1>2

(* A change told last is the level; an event of another kind is not. *)
LEMMA LevelAppended ==
    ASSUME NEW j \in Seq(Told1), NEW e \in Told1, NEW t \in Int
    PROVE  /\ e.kind # State \/ e.time >= t => LevelIn(Append(j, e), t) = LevelIn(j, t)
           /\ e.kind = State /\ e.time < t => LevelIn(Append(j, e), t) = e.level
<1> DEFINE k == Append(j, e)
           n == Len(j) + 1
<1>1. /\ DOMAIN k = 1..n /\ DOMAIN j = 1..Len(j) /\ Len(j) \in Nat /\ k[n] = e
      /\ \A i \in 1..Len(j) : k[i] = j[i]
  OBVIOUS
<1>2. e.time \in Nat
  BY DEF Told1
<1>3. ASSUME e.kind # State \/ e.time >= t
      PROVE  LevelIn(k, t) = LevelIn(j, t)
  <2>1. n \notin Tellers(k, t)
    BY <1>1, <1>2, <1>3 DEF Tellers
  <2>2. Tellers(k, t) = Tellers(j, t)
    BY <1>1, <2>1 DEF Tellers
  <2>3. CASE Tellers(j, t) = {}
    BY <2>2, <2>3 DEF LevelIn
  <2>4. CASE Tellers(j, t) # {}
    <3>1. Max(Tellers(j, t)) \in 1..Len(j)
      BY <1>1, <2>4, LastTeller DEF Tellers
    <3> QED BY <1>1, <2>2, <2>4, <3>1 DEF LevelIn
  <2> QED BY <2>3, <2>4
<1>4. ASSUME e.kind = State, e.time < t
      PROVE  LevelIn(k, t) = e.level
  <2>1. n \in Tellers(k, t)
    BY <1>1, <1>4 DEF Tellers
  <2>2. Tellers(k, t) \subseteq 1..n
    BY <1>1 DEF Tellers
  <2>3. Max(Tellers(k, t)) = n
    <3>1. Tellers(k, t) \subseteq Int /\ \A i \in Tellers(k, t) : i <= n
      BY <1>1, <2>2
    <3> HIDE DEF k, n
    <3> QED BY <2>1, <3>1, MaxIs
  <2> QED BY <1>1, <2>1, <2>3 DEF LevelIn
<1> QED BY <1>3, <1>4

(* Nothing later than now is told. *)
LEMMA LevelFromNow ==
    ASSUME NEW j \in Seq(Told1), NEW now \in Int, \A i \in DOMAIN j : j[i].time <= now,
           NEW t \in Int, now < t
    PROVE  LevelIn(j, t) = LevelIn(j, now + 1)
<1>1. \A i \in DOMAIN j : j[i].time \in Nat
  BY EventFacts
<1>2. \A i \in DOMAIN j : j[i].time < t /\ j[i].time < now + 1
  BY <1>1
<1>3. Tellers(j, t) = Tellers(j, now + 1)
  BY <1>2 DEF Tellers
<1> QED BY <1>3 DEF LevelIn

-----------------------------------------------------------------------------
(* The steps. *)

LEMMA InitPInv == PeriodsInit => PInv
<1> SUFFICES ASSUME PeriodsInit PROVE PInv
  OBVIOUS
<1>1. Tables
  <2>1. 0 \in 0..MaxTime /\ 0 \in 0..MaxChanges
    BY Lengths
  <2>2. [level |-> Good, lost |-> 0, out |-> FALSE] \in Line
    BY Lengths DEF Line
  <2> QED BY <2>1, <2>2 DEF PeriodsInit, Tables, Times
<1>2. InOrder /\ OneAtATime /\ Written /\ TellsTheReadings
  BY DEF PeriodsInit, InOrder, OneAtATime, Written, TellsTheReadings
<1> QED BY <1>1, <1>2 DEF PInv

(* What the pages read of the line is the same as long as these are. *)
(* What an invariant table holds. *)
LEMMA TableFacts ==
    ASSUME PInv
    PROVE  /\ clock \in Nat /\ clock \in 0..MaxTime /\ changes \in Nat /\ changes \in 0..MaxChanges
           /\ line \in Line /\ line.lost <= changes /\ collecting \in BOOLEAN /\ probing \in BOOLEAN
           /\ Times \subseteq 1..clock /\ \A t \in Times : readings[t] \in Line /\ readings[t].lost <= changes
           /\ journal \in Seq(Told1) /\ \A i \in DOMAIN journal : journal[i].time <= clock
           /\ outages \in Seq(Outage)
           /\ \A i \in DOMAIN outages : outages[i].start <= clock /\ outages[i].end <= clock
           /\ micro \in Seq(Micro) /\ \A i \in DOMAIN micro : micro[i].time <= clock
           /\ tests \in Seq(Test) /\ \A i \in DOMAIN tests : tests[i].time <= clock
           /\ samples \subseteq 0..clock
<1>1. Tables
  BY DEF PInv
<1>2. MaxTime \in Nat /\ MaxChanges \in Nat
  BY Lengths
<1>3. clock \in 0..MaxTime /\ changes \in 0..MaxChanges
  BY <1>1, Zenon DEF Tables
<1>4. clock \in Nat /\ changes \in Nat
  BY <1>2, <1>3
<1> QED BY <1>1, <1>3, <1>4, Zenon DEF Tables

LEMMA LineFrame ==
    ASSUME PInv, UNCHANGED <<clock, readings, journal>>
    PROVE  InOrder' /\ TellsTheReadings'
<1>1. InOrder'
  BY DEF PInv, InOrder
<1>2. TellsTheReadings'
  BY DEF PInv, TellsTheReadings, LevelBefore, SeenAt, Times
<1> QED BY <1>1, <1>2

LEMMA SeenFrame ==
    ASSUME NEW t, UNCHANGED readings
    PROVE  SeenAt(t)' = SeenAt(t) /\ Times' = Times
BY DEF SeenAt, Times

LEMMA LineStep ==
    ASSUME PInv, (\E l \in Levels, out \in BOOLEAN : LineMoves(l, out)) \/ LineLoses \/ CollectOnOff
    PROVE  PInv'
<1>1. /\ UNCHANGED <<clock, probing, readings, journal, outages, micro, tests, samples>>
      /\ changes \in Nat /\ changes < MaxChanges /\ changes' = changes + 1
      /\ line' \in Line /\ line'.lost <= changes' /\ collecting' \in BOOLEAN
  <2>1. changes \in Nat /\ line \in Line /\ line.lost <= changes /\ collecting \in BOOLEAN /\ line.lost \in Nat
    BY Lengths DEF PInv, Tables, Line
  <2>2. CASE \E l \in Levels, out \in BOOLEAN : LineMoves(l, out)
    <3>1. PICK l \in Levels, out \in BOOLEAN : LineMoves(l, out)
      BY <2>2
    <3>2. line' = [line EXCEPT !.level = l, !.out = out]
      BY <3>1 DEF LineMoves
    <3>3. line' \in Line /\ line'.lost = line.lost
      BY <2>1, <3>2 DEF Line
    <3>4. /\ UNCHANGED <<clock, collecting, probing, readings, journal, outages, micro, tests, samples>>
          /\ changes < MaxChanges /\ changes' = changes + 1
      BY <3>1 DEF LineMoves, Happens
    <3>5. line'.lost <= changes' /\ collecting' \in BOOLEAN
      BY <2>1, <3>3, <3>4
    <3> QED BY <2>1, <3>3, <3>4, <3>5
  <2>3. CASE LineLoses
    BY <2>1, <2>3 DEF LineLoses, Happens, Line
  <2>4. CASE CollectOnOff
    BY <2>1, <2>4 DEF CollectOnOff, Happens
  <2> QED BY <2>2, <2>3, <2>4
<1>2. Tables'
  <2>1. changes' \in 0..MaxChanges
    BY <1>1, Lengths
  <2>2. \A t \in Times : readings[t].lost <= changes'
    BY <1>1 DEF PInv, Tables, Line
  <2> QED BY <1>1, <2>1, <2>2 DEF PInv, Tables, Times
<1>3. InOrder' /\ TellsTheReadings'
  BY <1>1, LineFrame
<1>4. OneAtATime' /\ Written'
  BY <1>1 DEF PInv, OneAtATime, Written
<1> QED BY <1>2, <1>3, <1>4 DEF PInv

(* A reading is stored, and the level it found told when it is another.     *)
LEMMA BeatStep ==
    ASSUME PInv, Beat
    PROVE  PInv'
<1> DEFINE now == clock + 1
           e == [time |-> now, kind |-> State, level |-> line.level]
<1>1. /\ clock \in Nat /\ now \in 1..MaxTime /\ clock' = now /\ now \in Nat /\ clock \in Int
      /\ UNCHANGED <<line, collecting, probing, outages, micro, tests, changes>>
      /\ line \in Line /\ journal \in Seq(Told1) /\ Times \subseteq 1..clock
      /\ samples \subseteq 0..clock /\ e \in Told1
  <2>1. clock \in 0..MaxTime /\ clock < MaxTime /\ MaxTime \in Nat
    BY Lengths DEF PInv, Tables, Beat
  <2>2. line \in Line /\ journal \in Seq(Told1) /\ Times \subseteq 1..clock /\ samples \subseteq 0..clock
    BY DEF PInv, Tables
  <2>3. line.level \in Levels
    BY <2>2 DEF Line
  <2>4. e \in Told1
    BY <2>1, <2>3 DEF Told1
  <2>5. clock' = now /\ UNCHANGED <<line, collecting, probing, outages, micro, tests, changes>>
    BY DEF Beat
  <2> QED BY <2>1, <2>2, <2>4, <2>5
<1>2. \A i \in DOMAIN journal : journal[i].time \in Nat /\ journal[i].time <= clock
  BY <1>1, EventFacts DEF PInv, Tables
<1>3. LastTold = LevelIn(journal, now)
  BY LevelIsIn DEF LastTold
<1>4. \/ UNCHANGED journal /\ (collecting => LevelIn(journal, now) = line.level)
      \/ collecting /\ journal' = Append(journal, e)
  BY <1>3 DEF Beat
<1>5. journal' \in Seq(Told1) /\ \A i \in DOMAIN journal' : journal'[i].time <= now
  <2>1. CASE UNCHANGED journal
    BY <1>1, <1>2, <2>1
  <2>2. CASE journal' = Append(journal, e)
    <3>1. /\ DOMAIN journal' = 1..(Len(journal) + 1) /\ journal'[Len(journal) + 1] = e
          /\ DOMAIN journal = 1..Len(journal) /\ Len(journal) \in Nat
          /\ \A i \in 1..Len(journal) : journal'[i] = journal[i]
      BY <1>1, <2>2
    <3>2. \A i \in DOMAIN journal' : i = Len(journal) + 1 \/ i \in DOMAIN journal
      BY <3>1
    <3>3. e.time <= now
      BY <1>1
    <3>4. \A i \in DOMAIN journal' : journal'[i].time <= now
      BY <1>1, <1>2, <3>1, <3>2, <3>3
    <3> QED BY <1>1, <2>2, <3>4
  <2> QED BY <1>4, <2>1, <2>2
<1>6. InOrder'
  <2>1. CASE UNCHANGED journal
    BY <2>1 DEF PInv, InOrder
  <2>2. CASE journal' = Append(journal, e)
    <3>1. /\ DOMAIN journal' = 1..(Len(journal) + 1) /\ journal'[Len(journal) + 1] = e
          /\ DOMAIN journal = 1..Len(journal) /\ Len(journal) \in Nat
          /\ \A i \in 1..Len(journal) : journal'[i] = journal[i]
      BY <1>1, <2>2
    <3>2. SUFFICES ASSUME NEW i \in DOMAIN journal', NEW k \in DOMAIN journal', i < k
                   PROVE  /\ journal'[i].time <= journal'[k].time
                          /\ journal'[i].kind = State /\ journal'[k].kind = State
                               => journal'[i].time < journal'[k].time
      BY DEF InOrder
    <3>3. i \in DOMAIN journal
      BY <3>1, <3>2
    <3>4. CASE k \in DOMAIN journal
      BY <3>1, <3>2, <3>3, <3>4 DEF PInv, InOrder
    <3>5. CASE k = Len(journal) + 1
      <4>1. journal'[k].time = now /\ journal'[i] = journal[i]
        BY <3>1, <3>3, <3>5
      <4>2. journal[i].time <= clock /\ journal[i].time \in Nat
        BY <1>2, <3>3
      <4> QED BY <1>1, <4>1, <4>2
    <3> QED BY <3>1, <3>4, <3>5
  <2> QED BY <1>4, <2>1, <2>2
<1>7. /\ Times' \subseteq 1..now /\ readings' = [t \in Times' |-> readings'[t]]
      /\ \A t \in Times' : readings'[t] \in Line /\ readings'[t].lost <= changes
      /\ collecting => Times' = Times \cup {now} /\ readings'[now] = line
      /\ ~collecting => Times' = Times
      /\ \A t \in Times : readings'[t] = readings[t]
  <2>1. CASE collecting
    <3>1. readings' = [t \in Times \cup {now} |-> IF t = now THEN line ELSE readings[t]]
      BY <1>1, <2>1 DEF Beat
    <3>2. now \notin Times
      BY <1>1
    <3>3. Times' = Times \cup {now} /\ readings'[now] = line /\ \A t \in Times : readings'[t] = readings[t]
      BY <3>1, <3>2 DEF Times
    <3> QED BY <1>1, <2>1, <3>1, <3>3 DEF PInv, Tables
  <2>2. CASE ~collecting
    <3>1. readings' = readings /\ Times' = Times
      BY <2>2 DEF Beat, Times
    <3>2. 1..clock \subseteq 1..now
      BY <1>1
    <3> QED BY <1>1, <2>2, <3>1, <3>2 DEF PInv, Tables
  <2> QED BY <2>1, <2>2
<1>8. samples' \subseteq 0..now /\ samples \subseteq samples'
  <2>1. BucketOf(clock) \in 0..clock
    BY <1>1, BucketIsBefore
  <2>2. samples' = samples \/ samples' = samples \cup {BucketOf(clock)}
    BY DEF Beat
  <2>3. 0..clock \subseteq 0..now
    BY <1>1
  <2> QED BY <1>1, <2>1, <2>2, <2>3
<1>9. Tables'
  <2>1. \A i \in DOMAIN outages : outages[i].start <= now /\ outages[i].end <= now
    <3>1. \A i \in DOMAIN outages : outages[i] \in Outage
      BY DEF PInv, Tables
    <3>2. \A i \in DOMAIN outages : outages[i].start \in Int /\ outages[i].end \in Int
      BY <3>1 DEF Outage, Open
    <3> QED BY <1>1, <3>2 DEF PInv, Tables
  <2>2. \A i \in DOMAIN micro : micro[i].time <= now
    <3>1. \A i \in DOMAIN micro : micro[i] \in Micro
      BY DEF PInv, Tables
    <3>2. \A i \in DOMAIN micro : micro[i].time \in Int
      BY <3>1 DEF Micro
    <3> QED BY <1>1, <3>2 DEF PInv, Tables
  <2>3. \A i \in DOMAIN tests : tests[i].time <= now
    <3>1. \A i \in DOMAIN tests : tests[i] \in Test
      BY DEF PInv, Tables
    <3>2. \A i \in DOMAIN tests : tests[i].time \in Int
      BY <3>1 DEF Test
    <3> QED BY <1>1, <3>2 DEF PInv, Tables
  <2>4. clock' \in 0..MaxTime
    BY <1>1, Lengths
  <2> HIDE DEF now, e
  <2> QED BY <1>1, <1>5, <1>7, <1>8, <2>1, <2>2, <2>3, <2>4 DEF PInv, Tables
<1>10. OneAtATime' /\ Written'
  BY <1>1, <1>8 DEF PInv, OneAtATime, Written
<1>11. TellsTheReadings'
  <2>1. SUFFICES ASSUME NEW t \in 1..now, NEW u \in Times', u <= t
                 PROVE  LevelIn(journal', t + 1) = SeenAt(t)'
    BY <1>1, LevelIsIn DEF TellsTheReadings, LevelBefore, LevelIn, Tellers
  <2>2. CASE t <= clock
    <3>1. t \in 1..clock /\ u \in Times
      BY <1>1, <1>7, <2>1, <2>2
    <3>2. LevelIn(journal, t + 1) = SeenAt(t)
      BY <2>1, <3>1, LevelIsIn DEF PInv, TellsTheReadings
    <3>3. LevelIn(journal', t + 1) = LevelIn(journal, t + 1)
      <4>1. e.time >= t + 1 /\ t + 1 \in Int
        BY <1>1, <3>1
      <4> QED BY <1>1, <1>4, <4>1, LevelAppended
    <3>4. {v \in Times' : v <= t} = {v \in Times : v <= t}
      BY <1>1, <1>7, <3>1
    <3>5. Max({v \in Times : v <= t}) \in Times
      <4>1. {v \in Times : v <= t} # {} /\ {v \in Times : v <= t} \subseteq 1..clock
        BY <1>1, <2>1, <3>1
      <4> QED BY <1>1, <4>1, LastOne
    <3>6. SeenAt(t)' = SeenAt(t)
      BY <1>7, <3>4, <3>5 DEF SeenAt
    <3> QED BY <3>2, <3>3, <3>6
  <2>3. CASE t = now /\ collecting
    <3>1. Max({v \in Times' : v <= t}) = now
      <4>1. {v \in Times' : v <= t} \subseteq Int /\ now \in {v \in Times' : v <= t}
        BY <1>1, <1>7, <2>3
      <4>2. \A v \in {v \in Times' : v <= t} : v <= now
        BY <2>3
      <4> HIDE DEF now
      <4> QED BY <4>1, <4>2, MaxIs
    <3>2. SeenAt(t)' = line.level
      BY <1>7, <2>3, <3>1 DEF SeenAt
    <3>3. LevelIn(journal, t + 1) = LevelIn(journal, now)
      <4>1. t + 1 \in Int /\ clock < t + 1
        BY <1>1, <2>3
      <4> QED BY <1>1, <1>2, <4>1, LevelFromNow
    <3>4. journal' = Append(journal, e) => LevelIn(journal', t + 1) = line.level
      <4>1. e.kind = State /\ e.time < t + 1 /\ e.level = line.level /\ t + 1 \in Int
        BY <1>1, <2>3
      <4> QED BY <1>1, <4>1, LevelAppended
    <3> QED BY <1>4, <2>3, <3>2, <3>3, <3>4
  <2>4. CASE t = now /\ ~collecting
    <3>1. u \in Times /\ u <= clock /\ clock \in 1..clock
      BY <1>1, <1>7, <2>4
    <3>2. LevelIn(journal, now) = SeenAt(clock)
      BY <3>1, LevelIsIn DEF PInv, TellsTheReadings
    <3>3. LevelIn(journal', t + 1) = LevelIn(journal, now)
      <4>1. t + 1 \in Int /\ clock < t + 1 /\ journal' = journal
        BY <1>1, <1>4, <2>4
      <4> QED BY <1>1, <1>2, <4>1, LevelFromNow
    <3>4. {v \in Times' : v <= t} = {v \in Times : v <= clock}
      BY <1>1, <1>7, <2>4
    <3>5. readings' = readings
      BY <2>4 DEF Beat
    <3>6. SeenAt(t)' = SeenAt(clock)
      BY <3>4, <3>5 DEF SeenAt
    <3> QED BY <3>2, <3>3, <3>6
  <2> QED BY <1>1, <2>2, <2>3, <2>4
<1> QED BY <1>6, <1>9, <1>10, <1>11 DEF PInv

(* An event of another kind is in its place, and says nothing of the level. *)
LEMMA TellStep ==
    ASSUME PInv, NEW k \in OtherKinds, Tell(k)
    PROVE  PInv'
<1> DEFINE e == [time |-> clock, kind |-> k, level |-> Good]
           n == Len(journal) + 1
<1>1. /\ changes \in Nat /\ changes < MaxChanges /\ changes' = changes + 1 /\ journal' = Append(journal, e)
      /\ UNCHANGED <<clock, line, collecting, probing, readings, outages, micro, tests, samples>>
  BY TableFacts, Lengths DEF Tell, Happens
<1>2. /\ clock \in Nat /\ line \in Line /\ journal \in Seq(Told1) /\ k # State
      /\ \A t \in Times : readings[t] \in Line
  BY TableFacts, Lengths
<1>3. e \in Told1 /\ e.time = clock /\ e.kind = k
  BY <1>2, Lengths DEF Told1
<1>4. \A i \in DOMAIN journal : journal[i].time \in Nat /\ journal[i].time <= clock
  BY <1>2, EventFacts DEF PInv, Tables
<1>5. /\ DOMAIN journal' = 1..n /\ journal'[n] = e /\ DOMAIN journal = 1..Len(journal) /\ Len(journal) \in Nat
      /\ \A i \in 1..Len(journal) : journal'[i] = journal[i]
  BY <1>1, <1>2
<1> HIDE DEF e
<1>6. \A i \in DOMAIN journal' : i = n \/ i \in DOMAIN journal
  BY <1>5
<1>7. journal' \in Seq(Told1) /\ \A i \in DOMAIN journal' : journal'[i].time <= clock
  <2>1. journal' \in Seq(Told1)
    BY <1>1, <1>2, <1>3
  <2> QED BY <1>2, <1>3, <1>4, <1>5, <1>6, <2>1
<1>8. Tables'
  <2>1. changes' \in 0..MaxChanges
    BY <1>1, Lengths
  <2>2. line.lost <= changes' /\ \A t \in Times : readings[t].lost <= changes'
    BY <1>1, <1>2 DEF PInv, Tables, Line
  <2> QED BY <1>1, <1>7, <2>1, <2>2 DEF PInv, Tables, Times
<1>9. InOrder'
  <2> SUFFICES ASSUME NEW i \in DOMAIN journal', NEW l \in DOMAIN journal', i < l
               PROVE  /\ journal'[i].time <= journal'[l].time
                      /\ journal'[i].kind = State /\ journal'[l].kind = State
                           => journal'[i].time < journal'[l].time
    BY DEF InOrder
  <2>1. i \in DOMAIN journal
    BY <1>5
  <2>2. CASE l \in DOMAIN journal
    BY <1>5, <2>1, <2>2 DEF PInv, InOrder
  <2>3. CASE l = n
    BY <1>2, <1>3, <1>4, <1>5, <2>1, <2>3
  <2> QED BY <1>6, <2>2, <2>3
<1>10. TellsTheReadings'
  <2> SUFFICES ASSUME NEW t \in 1..clock, NEW u \in Times, u <= t
               PROVE  LevelIn(journal', t + 1) = SeenAt(t)
    BY <1>1, LevelIsIn DEF TellsTheReadings, LevelBefore, LevelIn, Tellers, SeenAt, Times
  <2>1. LevelIn(journal, t + 1) = SeenAt(t)
    BY LevelIsIn DEF PInv, TellsTheReadings
  <2>2. LevelIn(journal', t + 1) = LevelIn(journal, t + 1)
    BY <1>1, <1>2, <1>3, LevelAppended
  <2> QED BY <2>1, <2>2
<1>11. OneAtATime' /\ Written'
  BY <1>1 DEF PInv, OneAtATime, Written
<1> QED BY <1>8, <1>9, <1>10, <1>11 DEF PInv

(* What the probe writes leaves the line as it is. *)
ProbeFrame ==
    /\ UNCHANGED <<clock, line, collecting, readings, journal>>
    /\ changes \in Nat /\ changes' = changes + 1 /\ changes' \in 0..MaxChanges

LEMMA ProbeTypes ==
    ASSUME PInv, ProbeFrame, probing' \in BOOLEAN,
           outages' \in Seq(Outage), \A i \in DOMAIN outages' : outages'[i].start <= clock /\ outages'[i].end <= clock,
           micro' \in Seq(Micro), \A i \in DOMAIN micro' : micro'[i].time <= clock,
           tests' \in Seq(Test), \A i \in DOMAIN tests' : tests'[i].time <= clock,
           samples' \subseteq 0..clock
    PROVE  Tables' /\ InOrder' /\ TellsTheReadings'
<1>1. line.lost <= changes' /\ \A t \in Times : readings[t].lost <= changes'
  BY DEF PInv, Tables, Line, ProbeFrame
<1>2. Tables'
  BY <1>1 DEF PInv, Tables, Times, ProbeFrame
<1> QED BY <1>2, LineFrame DEF ProbeFrame

LEMMA Happened ==
    ASSUME PInv, Happens, UNCHANGED <<clock, line, collecting, readings, journal>>
    PROVE  /\ ProbeFrame /\ clock \in Nat /\ probing \in BOOLEAN
           /\ outages \in Seq(Outage) /\ \A i \in DOMAIN outages : outages[i].start <= clock /\ outages[i].end <= clock
           /\ micro \in Seq(Micro) /\ \A i \in DOMAIN micro : micro[i].time <= clock
           /\ tests \in Seq(Test) /\ \A i \in DOMAIN tests : tests[i].time <= clock
           /\ samples \subseteq 0..clock
BY TableFacts, Lengths DEF Happens, ProbeFrame

LEMMA MicroStep ==
    ASSUME PInv, NEW k \in Kinds, MicroCut(k)
    PROVE  PInv'
<1> DEFINE e == [time |-> clock, kind |-> k]
           n == Len(micro) + 1
<1>1. Happens /\ micro' = Append(micro, e) /\ UNCHANGED <<clock, line, collecting, probing, readings, journal, outages, tests, samples>>
  BY DEF MicroCut
<1>2. ProbeFrame /\ clock \in Nat /\ micro \in Seq(Micro) /\ \A i \in DOMAIN micro : micro[i].time <= clock
  BY <1>1, Happened
<1>3. e \in Micro /\ e.time <= clock
  BY <1>2 DEF Micro
<1> HIDE DEF e
<1>4. micro' \in Seq(Micro) /\ \A i \in DOMAIN micro' : micro'[i].time <= clock
  BY <1>1, <1>2, <1>3
<1>5. Tables' /\ InOrder' /\ TellsTheReadings'
  BY <1>1, <1>2, <1>4, Happened, ProbeTypes
<1>6. OneAtATime' /\ Written'
  BY <1>1 DEF PInv, OneAtATime, Written
<1> QED BY <1>5, <1>6 DEF PInv

LEMMA SpeedStep ==
    ASSUME PInv, NEW v \in Speeds, SpeedTested(v)
    PROVE  PInv'
<1> DEFINE e == [time |-> clock, down |-> v]
<1>1. Happens /\ tests' = Append(tests, e) /\ UNCHANGED <<clock, line, collecting, probing, readings, journal, outages, micro, samples>>
  BY DEF SpeedTested
<1>2. ProbeFrame /\ clock \in Nat /\ tests \in Seq(Test) /\ \A i \in DOMAIN tests : tests[i].time <= clock
  BY <1>1, Happened
<1>3. e \in Test /\ e.time <= clock
  BY <1>2 DEF Test
<1> HIDE DEF e
<1>4. tests' \in Seq(Test) /\ \A i \in DOMAIN tests' : tests'[i].time <= clock
  BY <1>1, <1>2, <1>3
<1>5. Tables' /\ InOrder' /\ TellsTheReadings'
  BY <1>1, <1>2, <1>4, Happened, ProbeTypes
<1>6. OneAtATime' /\ Written'
  BY <1>1 DEF PInv, OneAtATime, Written
<1> QED BY <1>5, <1>6 DEF PInv

(* An outage begins after the end of the others. *)
LEMMA BeginsStep ==
    ASSUME PInv, NEW k \in Kinds, OutageBegins(k)
    PROVE  PInv'
<1> DEFINE e == [start |-> clock, end |-> Open, kind |-> k]
           n == Len(outages) + 1
<1>1. /\ Happens /\ outages' = Append(outages, e) /\ ~IsOpen
      /\ UNCHANGED <<clock, line, collecting, probing, readings, journal, micro, tests, samples>>
  BY DEF OutageBegins
<1>2. /\ ProbeFrame /\ clock \in Nat /\ outages \in Seq(Outage)
      /\ \A i \in DOMAIN outages : outages[i].start <= clock /\ outages[i].end <= clock
  BY <1>1, Happened
<1>3. e \in Outage /\ e.start <= clock /\ e.end <= clock /\ e.end = Open
  BY <1>2 DEF Outage, Open
<1> HIDE DEF e
<1>4. /\ DOMAIN outages' = 1..n /\ outages'[n] = e /\ DOMAIN outages = 1..Len(outages) /\ Len(outages) \in Nat
      /\ \A i \in 1..Len(outages) : outages'[i] = outages[i]
      /\ Len(outages') = n
  BY <1>1, <1>2
<1>5. outages' \in Seq(Outage) /\ \A i \in DOMAIN outages' : outages'[i].start <= clock /\ outages'[i].end <= clock
  BY <1>1, <1>2, <1>3
<1>6. Tables' /\ InOrder' /\ TellsTheReadings'
  BY <1>1, <1>2, <1>5, Happened, ProbeTypes
<1>7. \A i \in DOMAIN outages : outages[i].end # Open
  <2> SUFFICES ASSUME NEW i \in DOMAIN outages, outages[i].end = Open PROVE FALSE
    OBVIOUS
  <2>1. i = Len(outages) /\ outages # <<>>
    BY <1>4 DEF PInv, OneAtATime
  <2> QED BY <1>1, <2>1 DEF IsOpen, Ongoing
<1>8. OneAtATime'
  BY <1>3, <1>4, <1>7 DEF PInv, OneAtATime
<1>9. Written'
  BY <1>1 DEF PInv, Written
<1> QED BY <1>6, <1>8, <1>9 DEF PInv

(* The end of the outage under way, wherever it is put after its start. *)
LEMMA Closed ==
    ASSUME PInv, IsOpen, NEW end \in Nat, outages[Len(outages)].start <= end, end <= clock, CloseAt(end)
    PROVE  /\ outages' \in Seq(Outage) /\ OneAtATime'
           /\ \A i \in DOMAIN outages' : outages'[i].start <= clock /\ outages'[i].end <= clock
<1> DEFINE n == Len(outages)
<1>1. outages \in Seq(Outage) /\ \A i \in DOMAIN outages : outages[i].start <= clock /\ outages[i].end <= clock
  BY DEF PInv, Tables
<1>2. n \in DOMAIN outages /\ DOMAIN outages = 1..n /\ n \in Nat
  BY <1>1 DEF IsOpen
<1>3. /\ DOMAIN outages' = 1..n /\ Len(outages') = n /\ outages'[n] = [outages[n] EXCEPT !.end = end]
      /\ \A i \in 1..n : i # n => outages'[i] = outages[i]
  BY <1>1, <1>2 DEF CloseAt
<1>4. outages[n] \in Outage
  BY <1>1, <1>2
<1>5. outages'[n] \in Outage /\ outages'[n].start = outages[n].start /\ outages'[n].end = end
  BY <1>3, <1>4 DEF Outage
<1>6. outages' \in Seq(Outage)
  <2>1. \A i \in 1..n : outages'[i] \in Outage
    BY <1>1, <1>2, <1>3, <1>5
  <2>2. outages' = [i \in 1..n |-> outages'[i]]
    BY <1>2, <1>3 DEF CloseAt
  <2> QED BY <1>2, <2>1, <2>2
<1>7. \A i \in DOMAIN outages' : outages'[i].start <= clock /\ outages'[i].end <= clock
  BY <1>1, <1>2, <1>3, <1>5
<1>8. OneAtATime'
  BY <1>2, <1>3, <1>5 DEF PInv, OneAtATime
<1> QED BY <1>6, <1>7, <1>8

LEMMA EndsStep ==
    ASSUME PInv, OutageEnds
    PROVE  PInv'
<1>1. /\ Happens /\ IsOpen /\ outages[Len(outages)].start < clock /\ CloseAt(clock)
      /\ UNCHANGED <<clock, line, collecting, probing, readings, journal, micro, tests, samples>>
  BY DEF OutageEnds
<1>2. ProbeFrame /\ clock \in Nat /\ outages \in Seq(Outage) /\ Len(outages) \in DOMAIN outages
  <2>1. outages \in Seq(Outage) /\ outages # <<>>
    BY <1>1, Happened DEF IsOpen
  <2> QED BY <1>1, <2>1, Happened
<1>3. outages[Len(outages)] \in Outage
  BY <1>2
<1>4. outages[Len(outages)].start <= clock
  BY <1>1, <1>2, <1>3 DEF Outage
<1>5. /\ outages' \in Seq(Outage) /\ OneAtATime'
      /\ \A i \in DOMAIN outages' : outages'[i].start <= clock /\ outages'[i].end <= clock
  BY <1>1, <1>2, <1>4, Closed
<1>6. Tables' /\ InOrder' /\ TellsTheReadings'
  BY <1>1, <1>2, <1>5, Happened, ProbeTypes
<1>7. Written'
  BY <1>1 DEF PInv, Written
<1> QED BY <1>5, <1>6, <1>7 DEF PInv

LEMMA StopsStep ==
    ASSUME PInv, ProbeStops
    PROVE  PInv'
<1>1. /\ Happens /\ probing' = FALSE /\ samples' = samples \cup {BucketOf(clock)}
      /\ UNCHANGED <<clock, line, collecting, readings, journal, outages, micro, tests>>
  BY DEF ProbeStops
<1>2. ProbeFrame /\ clock \in Nat /\ samples \subseteq 0..clock
  BY <1>1, Happened
<1>3. samples' \subseteq 0..clock /\ samples' # {}
  BY <1>1, <1>2, BucketIsBefore
<1>4. Tables' /\ InOrder' /\ TellsTheReadings'
  BY <1>1, <1>2, <1>3, Happened, ProbeTypes
<1>5. OneAtATime' /\ Written'
  BY <1>1, <1>3 DEF PInv, OneAtATime, Written
<1> QED BY <1>4, <1>5 DEF PInv

(* An outage resumed ends at its start at the earliest, and now at the latest. *)
LEMMA StartsStep ==
    ASSUME PInv, ProbeStarts
    PROVE  PInv'
<1> DEFINE start == outages[Len(outages)].start
           last == Max(samples) + Bucket
           end == IF last < start \/ last > clock THEN start ELSE last
<1>1. /\ Happens /\ ~probing /\ probing' = TRUE
      /\ UNCHANGED <<clock, line, collecting, readings, journal, micro, tests, samples>>
      /\ IsOpen => CloseAt(end)
      /\ ~IsOpen => UNCHANGED outages
  BY DEF ProbeStarts
<1>2. ProbeFrame /\ clock \in Nat /\ samples \subseteq 0..clock /\ outages \in Seq(Outage)
  BY <1>1, Happened
<1>3. ASSUME IsOpen
      PROVE  end \in Nat /\ start <= end /\ end <= clock
  <2>1. start \in Nat /\ start <= clock
    <3>1. outages # <<>>
      BY <1>3 DEF IsOpen
    <3>2. Len(outages) \in DOMAIN outages
      BY <1>2, <3>1
    <3>3. outages[Len(outages)] \in Outage
      BY <1>2, <3>2
    <3> QED BY <1>1, <3>2, <3>3, Happened DEF Outage
  <2>2. Max(samples) \in 0..clock
    <3>1. samples # {}
      BY <1>1 DEF PInv, Written
    <3>2. IsFiniteSet(0..clock)
      BY <1>2, FS_Interval
    <3>3. IsFiniteSet(samples)
      BY <1>2, <3>2, FS_Subset
    <3>4. samples \subseteq Int
      BY <1>2
    <3>5. Max(samples) \in samples
      BY <3>1, <3>3, <3>4, MaxExists
    <3> QED BY <1>2, <3>5
  <2>3. last \in Nat
    BY <2>2, Lengths
  <2> HIDE DEF start, last
  <2> QED BY <1>2, <2>1, <2>3
<1> HIDE DEF end
<1>4. /\ outages' \in Seq(Outage) /\ OneAtATime'
      /\ \A i \in DOMAIN outages' : outages'[i].start <= clock /\ outages'[i].end <= clock
  <2>1. CASE IsOpen
    BY <1>1, <1>3, <2>1, Closed
  <2>2. CASE ~IsOpen
    BY <1>1, <1>2, <2>2, Happened DEF PInv, OneAtATime
  <2> QED BY <2>1, <2>2
<1>5. Tables' /\ InOrder' /\ TellsTheReadings'
  BY <1>1, <1>2, <1>4, Happened, ProbeTypes
<1>6. Written'
  BY <1>1 DEF Written
<1> QED BY <1>4, <1>5, <1>6 DEF PInv

LEMMA NextPInv == PInv /\ [PeriodsNext]_periodsVars => PInv'
<1> SUFFICES ASSUME PInv, [PeriodsNext]_periodsVars PROVE PInv'
  OBVIOUS
<1>1. CASE Beat
  BY <1>1, BeatStep
<1>2. CASE (\E l \in Levels, out \in BOOLEAN : LineMoves(l, out)) \/ LineLoses \/ CollectOnOff
  BY <1>2, LineStep
<1>3. CASE \E k \in OtherKinds : Tell(k)
  BY <1>3, TellStep
<1>4. CASE \E k \in Kinds : OutageBegins(k)
  BY <1>4, BeginsStep
<1>5. CASE OutageEnds
  BY <1>5, EndsStep
<1>6. CASE \E k \in Kinds : MicroCut(k)
  BY <1>6, MicroStep
<1>7. CASE \E v \in Speeds : SpeedTested(v)
  BY <1>7, SpeedStep
<1>8. CASE ProbeStops
  BY <1>8, StopsStep
<1>9. CASE ProbeStarts
  BY <1>9, StartsStep
<1>10. CASE UNCHANGED periodsVars
  <2>1. UNCHANGED <<clock, line, collecting, probing, readings, journal, outages, micro, tests, samples, changes>>
    BY <1>10 DEF periodsVars
  <2>2. Tables'
    BY <2>1 DEF PInv, Tables, Times
  <2>3. InOrder' /\ TellsTheReadings'
    BY <2>1, LineFrame
  <2>4. OneAtATime' /\ Written'
    BY <2>1 DEF PInv, OneAtATime, Written
  <2> QED BY <2>2, <2>3, <2>4 DEF PInv
<1> QED BY <1>1, <1>2, <1>3, <1>4, <1>5, <1>6, <1>7, <1>8, <1>9, <1>10 DEF PeriodsNext

LEMMA TypesOfPInv == PInv => PeriodsTypeOK
<1> SUFFICES ASSUME PInv PROVE PeriodsTypeOK
  OBVIOUS
<1>1. clock \in Nat /\ changes \in 0..MaxChanges /\ MaxChanges \in Nat /\ changes <= MaxChanges
  BY TableFacts, Lengths
<1>2. ASSUME NEW l \in Line, l.lost <= changes
      PROVE  l \in [level : Levels, lost : 0..MaxChanges, out : BOOLEAN]
  BY <1>1, <1>2 DEF Line
<1>3. \A i \in DOMAIN journal : journal[i] \in [time : 0..clock, kind : OtherKinds \cup {State}, level : Levels]
  <2> SUFFICES ASSUME NEW i \in DOMAIN journal
               PROVE  journal[i] \in [time : 0..clock, kind : OtherKinds \cup {State}, level : Levels]
    OBVIOUS
  <2>1. journal[i] \in Told1 /\ journal[i].time <= clock
    BY DEF PInv, Tables
  <2> QED BY <1>1, <2>1 DEF Told1
<1>4. \A i \in DOMAIN outages : outages[i] \in [start : 0..clock, end : {Open} \cup 0..clock, kind : Kinds]
  <2> SUFFICES ASSUME NEW i \in DOMAIN outages
               PROVE  outages[i] \in [start : 0..clock, end : {Open} \cup 0..clock, kind : Kinds]
    OBVIOUS
  <2>1. outages[i] \in Outage /\ outages[i].start <= clock /\ outages[i].end <= clock
    BY DEF PInv, Tables
  <2>2. outages[i].end \in {Open} \cup 0..clock
    BY <1>1, <2>1 DEF Outage
  <2> QED BY <1>1, <2>1, <2>2 DEF Outage
<1>5. \A i \in DOMAIN micro : micro[i] \in [time : 0..clock, kind : Kinds]
  <2> SUFFICES ASSUME NEW i \in DOMAIN micro PROVE micro[i] \in [time : 0..clock, kind : Kinds]
    OBVIOUS
  <2>1. micro[i] \in Micro /\ micro[i].time <= clock
    BY DEF PInv, Tables
  <2> QED BY <1>1, <2>1 DEF Micro
<1>6. \A i \in DOMAIN tests : tests[i] \in [time : 0..clock, down : Speeds]
  <2> SUFFICES ASSUME NEW i \in DOMAIN tests PROVE tests[i] \in [time : 0..clock, down : Speeds]
    OBVIOUS
  <2>1. tests[i] \in Test /\ tests[i].time <= clock
    BY DEF PInv, Tables
  <2> QED BY <1>1, <2>1 DEF Test
<1> QED BY <1>2, <1>3, <1>4, <1>5, <1>6 DEF PInv, Tables, PeriodsTypeOK

(* The tables keep their order, and the journal tells what was read. *)
THEOREM PeriodsInvariance == PeriodsSpec => []PInv
BY InitPInv, NextPInv, PTL DEF PeriodsSpec

(* Dates, levels and errors are what the tables may hold. *)
THEOREM PeriodsTypeCorrect == PeriodsSpec => []PeriodsTypeOK
BY PeriodsInvariance, TypesOfPInv, PTL

-----------------------------------------------------------------------------
(***************************************************************************)
(* The present status.                                                     *)
(***************************************************************************)

(* What holds at 0 and of the next of each is true of all numbers. *)
LEMMA Counting ==
    ASSUME NEW G, 0 \in G, \A n \in Nat : n \in G => n + 1 \in G
    PROVE  \A n \in Nat : n \in G
<1> DEFINE F == Nat \ G
<1>1. SUFFICES ASSUME F # {} PROVE FALSE
  OBVIOUS
<1>2. PICK n \in F : \A m \in F : n <= m
  <2> HIDE DEF F
  <2>1. F \subseteq Nat
    BY DEF F
  <2> QED BY <1>1, <2>1, Least
<1>3. n \in Nat /\ n # 0 /\ n \notin G
  OBVIOUS
<1>4. n - 1 \in Nat /\ n - 1 + 1 = n
  BY <1>3
<1>5. n - 1 \in G
  BY <1>2, <1>4
<1> QED BY <1>3, <1>4, <1>5

LEMMA FiniteTables ==
    ASSUME PInv
    PROVE  /\ IsFiniteSet(Times) /\ IsFiniteSet(DOMAIN journal) /\ IsFiniteSet(DOMAIN outages)
           /\ IsFiniteSet(DOMAIN micro) /\ IsFiniteSet(DOMAIN tests) /\ IsFiniteSet(samples)
<1>1. /\ clock \in Nat /\ Times \subseteq 1..clock /\ samples \subseteq 0..clock
      /\ journal \in Seq(Told1) /\ outages \in Seq(Outage) /\ micro \in Seq(Micro) /\ tests \in Seq(Test)
  BY TableFacts, Lengths
<1>2. /\ DOMAIN journal = 1..Len(journal) /\ Len(journal) \in Nat
      /\ DOMAIN outages = 1..Len(outages) /\ Len(outages) \in Nat
      /\ DOMAIN micro = 1..Len(micro) /\ Len(micro) \in Nat
      /\ DOMAIN tests = 1..Len(tests) /\ Len(tests) \in Nat
  BY <1>1
<1>3. IsFiniteSet(1..clock) /\ IsFiniteSet(0..clock)
  BY <1>1, FS_Interval
<1>4. IsFiniteSet(Times) /\ IsFiniteSet(samples)
  BY <1>1, <1>3, FS_Subset
<1>5. \A n \in Nat : IsFiniteSet(1..n)
  BY FS_Interval
<1> QED BY <1>2, <1>4, <1>5

LEMMA CountSplit ==
    ASSUME NEW A, NEW B, IsFiniteSet(A), IsFiniteSet(B), A \cap B = {}
    PROVE  Cardinality(A) + Cardinality(B) = Cardinality(A \cup B)
<1>1. Cardinality(A) \in Nat /\ Cardinality(B) \in Nat /\ Cardinality({}) = 0
  BY FS_CardinalityType, FS_EmptySet
<1>2. Cardinality(A \cup B) = Cardinality(A) + Cardinality(B) - Cardinality({})
  BY FS_Union
<1> QED BY <1>1, <1>2

LEMMA CountTwice ==
    ASSUME NEW A, NEW B, IsFiniteSet(A), IsFiniteSet(B)
    PROVE  Cardinality(A) + Cardinality(B) = Cardinality(A \cup B) + Cardinality(A \cap B)
<1>1. IsFiniteSet(A \cap B)
  BY FS_Subset
<1>2. Cardinality(A) \in Nat /\ Cardinality(B) \in Nat /\ Cardinality(A \cap B) \in Nat
  BY <1>1, FS_CardinalityType
<1>3. Cardinality(A \cup B) = Cardinality(A) + Cardinality(B) - Cardinality(A \cap B)
  BY FS_Union
<1> QED BY <1>2, <1>3

-----------------------------------------------------------------------------
(* The present status. *)

LEMMA OutageFacts ==
    ASSUME PInv, NEW i \in DOMAIN outages
    PROVE  /\ outages[i] \in Outage /\ outages[i].start \in Nat /\ outages[i].start <= clock
           /\ outages[i].end = Open \/ (outages[i].end \in Nat /\ outages[i].start <= outages[i].end)
           /\ outages[i].end <= clock /\ outages[i].end \in Int /\ clock \in Nat
           /\ outages[i].end = Open => i = Len(outages)
           /\ outages[i].kind \in Kinds
<1>1. outages[i] \in Outage /\ outages[i].start <= clock /\ outages[i].end <= clock /\ clock \in Nat
  BY TableFacts, Lengths
<1>2. outages[i].start \in Nat /\ outages[i].end \in {Open} \cup Nat /\ outages[i].kind \in Kinds
  BY <1>1 DEF Outage
<1>3. outages[i].end \in Int
  BY <1>2 DEF Open
<1> QED BY <1>1, <1>2, <1>3 DEF PInv, OneAtATime

LEMMA MicroFacts ==
    ASSUME PInv, NEW i \in DOMAIN micro
    PROVE  micro[i].time \in Nat /\ micro[i].time <= clock /\ micro[i].kind \in Kinds /\ clock \in Nat
<1>1. micro[i] \in Micro /\ micro[i].time <= clock /\ clock \in Nat
  BY TableFacts, Lengths
<1> QED BY <1>1 DEF Micro

LEMMA OutagesOfTheDay ==
    ASSUME PInv
    PROVE  {i \in OfLine(outages, OutagesIn(clock - Month, clock)) : Recent(outages[i])}
           = OfLine(outages, OutagesIn(clock - Day + 1, clock + 1))
<1>1. Day \in Nat /\ Month \in Nat /\ Day <= Month
  BY Lengths
<1>2. ASSUME NEW i \in DOMAIN outages
      PROVE  /\ i \in OutagesIn(clock - Month, clock) /\ Recent(outages[i]) <=> i \in OutagesIn(clock - Day + 1, clock + 1)
  BY <1>1, OutageFacts DEF OutagesIn, Recent, Ongoing
<1> QED BY <1>2 DEF OfLine, OutagesIn

LEMMA MicroOfTheDay ==
    ASSUME PInv
    PROVE  {i \in OfLine(micro, MicroCuts(clock - Month, clock + 1)) : micro[i].time > clock - Day}
           = OfLine(micro, MicroCuts(clock - Day + 1, clock + 1))
<1>1. Day \in Nat /\ Month \in Nat /\ Day <= Month
  BY Lengths
<1>2. ASSUME NEW i \in DOMAIN micro
      PROVE  /\ i \in MicroCuts(clock - Month, clock + 1) /\ micro[i].time > clock - Day
                <=> i \in MicroCuts(clock - Day + 1, clock + 1)
  BY <1>1, MicroFacts DEF MicroCuts
<1> QED BY <1>2 DEF OfLine, MicroCuts

LEMMA OpenIsPublished ==
    ASSUME PInv, IsOpen, outages[Len(outages)].kind = "line"
    PROVE  Status.outage /\ Status.last = Len(outages) /\ Status.outages24h > 0
<1> DEFINE n == Len(outages)
           known == OfLine(outages, OutagesIn(clock - Month, clock))
           recent == {i \in known : Recent(outages[i])}
<1>1. outages \in Seq(Outage) /\ outages # <<>> /\ outages[n].end = Open
  BY DEF PInv, Tables, IsOpen, Ongoing
<1>2. DOMAIN outages = 1..n /\ n \in DOMAIN outages /\ n \in Nat
  BY <1>1
<1>3. n \in known /\ n \in recent
  BY <1>1, <1>2, OutageFacts DEF OfLine, OutagesIn, Recent, Ongoing
<1>4. known \subseteq DOMAIN outages /\ recent \subseteq DOMAIN outages
  BY DEF OfLine, OutagesIn
<1> HIDE DEF known, recent
<1>5. Max(known) = n
  <2>1. known \subseteq Int /\ \A i \in known : i <= n
    BY <1>2, <1>4
  <2> HIDE DEF n
  <2> QED BY <1>3, <2>1, MaxIs
<1>6. Cardinality(recent) \in Nat /\ Cardinality(recent) # 0
  <2>1. IsFiniteSet(recent)
    BY <1>4, FiniteTables, FS_Subset
  <2> QED BY <1>3, <2>1, FS_CardinalityType, FS_EmptySet
<1>7. Status.outage = (\E i \in DOMAIN outages : Ongoing(outages[i]))
  BY DEF Status
<1>8. Status.last = (IF known = {} THEN 0 ELSE Max(known)) /\ Status.outages24h = Cardinality(recent)
  BY DEF Status, known, recent
<1> QED BY <1>1, <1>2, <1>3, <1>5, <1>6, <1>7, <1>8 DEF Ongoing

LEMMA StatusOfPInv == PInv => StatusAgrees
<1> SUFFICES ASSUME PInv PROVE StatusAgrees
  OBVIOUS
<1> DEFINE s == Status
           lastDay == Report(clock - Day + 1, clock + 1)
<1>1. s.outages24h = lastDay.cuts
  BY OutagesOfTheDay DEF Status, Report
<1>2. s.micro24h = lastDay.micro
  BY MicroOfTheDay DEF Status, Report
<1>3. s.outages30d = Report(clock - Month, clock).cuts
  BY DEF Status, Report
<1>4. s.micro30d = Report(clock - Month, clock + 1).micro
  BY DEF Status, Report
<1>5. s.uncorr24h = Report(clock - Day, clock).uncorr
  <2>1. Times = {} => ErrorTotals(clock - Day, clock) = 0
    BY DEF ErrorTotals
  <2>2. s.uncorr24h = IF Times = {} THEN 0 ELSE ErrorTotals(clock - Day, clock)
    BY DEF Status
  <2>3. Report(clock - Day, clock).uncorr = ErrorTotals(clock - Day, clock)
    BY DEF Report
  <2> QED BY <2>1, <2>2, <2>3
<1>6. Overview.banner = "outage" <=> \E i \in DOMAIN outages : Ongoing(outages[i])
  BY DEF Overview, Banner
<1>7. s.outage = (\E i \in DOMAIN outages : Ongoing(outages[i])) /\ s.outage \in BOOLEAN
  BY DEF Status
<1>8. HomeState(s).internet = InternetOf(s) /\ (InternetOf(s) = "OFF" <=> s.outage)
  BY <1>7 DEF HomeState, InternetOf
<1>9. Metrics(s).internetUp = 0 <=> s.outage
  BY <1>7 DEF Metrics
<1>10. Overview.banner = "silent" => HomeState(s).modem = "OFF" /\ Metrics(s).modemUp = 0
  <2> SUFFICES ASSUME Overview.banner = "silent" PROVE HomeState(s).modem = "OFF" /\ Metrics(s).modemUp = 0
    OBVIOUS
  <2>1. Times # {} /\ clock - Max(Times) > StaleAfter
    BY DEF Overview, Banner
  <2>2. Max(Times) \in Int /\ clock \in Int /\ StaleAfter \in Int
    <3>1. clock \in Nat /\ Times \subseteq 1..clock /\ StaleAfter \in Int
      BY TableFacts, Lengths
    <3>2. Max(Times) \in Times
      BY <2>1, <3>1, LastOne
    <3>3. Max(Times) \in 1..clock
      BY <3>1, <3>2
    <3> QED BY <3>1, <3>3
  <2>3. s.fresh = (Times # {} /\ clock - Max(Times) <= StaleAfter) /\ s.hasData = (Times # {})
    BY DEF Status
  <2>4. ~ (clock - Max(Times) <= StaleAfter)
    BY <2>1, <2>2
  <2>5. ~ s.fresh /\ s.hasData
    <3> HIDE DEF s
    <3> QED BY <2>1, <2>3, <2>4
  <2> QED BY <2>5 DEF HomeState, Metrics
<1>11. Overview.verdict = HomeState(s).line /\ Metrics(s).level = Overview.verdict
  BY DEF Overview, LineVerdict, HomeState, Metrics, Status
<1> QED BY <1>1, <1>2, <1>3, <1>4, <1>5, <1>6, <1>7, <1>8, <1>9, <1>10, <1>11, OpenIsPublished DEF StatusAgrees

-----------------------------------------------------------------------------
(***************************************************************************)
(* The time a report gives to a level.                                     *)
(***************************************************************************)

Changed(s, e) == EventsBetween(s, e, {State})
Until(i, s, e) ==
    LET later == {j \in Changed(s, e) : j > i} IN IF later = {} THEN e ELSE journal[Min(later)].time
FirstStretch(s, e) == (IF Changed(s, e) = {} THEN e ELSE journal[Min(Changed(s, e))].time) - s
ChangedTo(l, s, e) == {i \in Changed(s, e) : journal[i].level = l}
Lasting(l, s, e) == [i \in ChangedTo(l, s, e) |-> Until(i, s, e) - journal[i].time]
Spent(l, s, e) == {t \in s..(e - 1) : LevelBefore(t + 1) = l}

LEMMA ShareIs ==
    ASSUME NEW l, NEW s, NEW e
    PROVE  Share(l, s, e) = (IF LevelBefore(s) = l THEN FirstStretch(s, e) ELSE 0) + SumOf(Lasting(l, s, e), ChangedTo(l, s, e))
<1> DEFINE f(i) == (LET later == {j \in Changed(s, e) : j > i}
                    IN IF later = {} THEN e ELSE journal[Min(later)].time) - journal[i].time
<1>1. MapThenSumSet(f, ChangedTo(l, s, e)) = SumOf([i \in ChangedTo(l, s, e) |-> f(i)], ChangedTo(l, s, e))
  BY SumOfFunction
<1>2. [i \in ChangedTo(l, s, e) |-> f(i)] = Lasting(l, s, e)
  BY DEF Lasting, Until
<1>3. Share(l, s, e) = (IF LevelBefore(s) = l THEN FirstStretch(s, e) ELSE 0) + MapThenSumSet(f, ChangedTo(l, s, e))
  BY DEF Share, FirstStretch, ChangedTo, Changed
<1> QED BY <1>1, <1>2, <1>3

LEMMA JournalFacts ==
    ASSUME PInv
    PROVE  /\ journal \in Seq(Told1) /\ DOMAIN journal = 1..Len(journal) /\ Len(journal) \in Nat /\ clock \in Nat
           /\ \A i \in DOMAIN journal : journal[i].time \in Nat /\ journal[i].time <= clock /\ journal[i].level \in Levels
           /\ \A i \in DOMAIN journal : \A j \in DOMAIN journal : i < j => journal[i].time <= journal[j].time
           /\ \A i \in DOMAIN journal : \A j \in DOMAIN journal :
                i < j /\ journal[i].kind = State /\ journal[j].kind = State => journal[i].time < journal[j].time
<1>1. journal \in Seq(Told1) /\ clock \in Nat /\ \A i \in DOMAIN journal : journal[i].time <= clock
  BY TableFacts, Lengths
<1>2. \A i \in DOMAIN journal : journal[i].time \in Nat /\ journal[i].level \in Levels
  BY <1>1, EventFacts
<1> QED BY <1>1, <1>2 DEF PInv, InOrder

LEMMA ChangedFacts ==
    ASSUME PInv, NEW s \in Int, NEW e \in Int
    PROVE  /\ Changed(s, e) \subseteq 1..Len(journal) /\ Len(journal) \in Nat
           /\ \A i \in DOMAIN journal : i \in Changed(s, e) <=>
                journal[i].kind = State /\ s <= journal[i].time /\ journal[i].time < e
           /\ \A i \in Changed(s, e) : i \in Nat /\ i \in DOMAIN journal
BY JournalFacts DEF Changed, EventsBetween

(* One more date: the change told then ends the stretch before it, and the   *)
(* stretch under way is a date longer.                                       *)
LEMMA OneMoreDate ==
    ASSUME PInv, NEW s \in Nat, NEW e \in Nat, s <= e
    PROVE  \/ /\ Changed(s, e + 1) = Changed(s, e)
              /\ \A i \in DOMAIN journal : ~(journal[i].kind = State /\ journal[i].time = e)
           \/ \E n \in DOMAIN journal :
                /\ Changed(s, e + 1) = Changed(s, e) \cup {n} /\ n \notin Changed(s, e)
                /\ journal[n].kind = State /\ journal[n].time = e
                /\ \A i \in Changed(s, e) : i < n
<1>1. CASE \A i \in DOMAIN journal : ~(journal[i].kind = State /\ journal[i].time = e)
  <2>1. \A i \in DOMAIN journal : i \in Changed(s, e + 1) <=> i \in Changed(s, e)
    BY <1>1, ChangedFacts, JournalFacts
  <2>2. Changed(s, e + 1) \subseteq DOMAIN journal /\ Changed(s, e) \subseteq DOMAIN journal
    BY DEF Changed, EventsBetween
  <2> QED BY <1>1, <2>1, <2>2
<1>2. ASSUME NEW n \in DOMAIN journal, journal[n].kind = State, journal[n].time = e
      PROVE  /\ Changed(s, e + 1) = Changed(s, e) \cup {n} /\ n \notin Changed(s, e)
             /\ \A i \in Changed(s, e) : i < n
  <2>1. \A i \in DOMAIN journal : journal[i].kind = State /\ journal[i].time = e => i = n
    BY <1>2, JournalFacts
  <2>2. ASSUME NEW i \in DOMAIN journal
        PROVE  i \in Changed(s, e + 1) <=> i \in Changed(s, e) \/ i = n
    <3>1. i \in Changed(s, e + 1) <=> journal[i].kind = State /\ s <= journal[i].time /\ journal[i].time < e + 1
      BY DEF Changed, EventsBetween
    <3>2. i \in Changed(s, e) <=> journal[i].kind = State /\ s <= journal[i].time /\ journal[i].time < e
      BY DEF Changed, EventsBetween
    <3>3. journal[i].time \in Int
      BY JournalFacts
    <3>4. journal[i].time < e + 1 <=> journal[i].time < e \/ journal[i].time = e
      BY <3>3
    <3> QED BY <1>2, <2>1, <3>1, <3>2, <3>4
  <2>3. Changed(s, e + 1) \subseteq DOMAIN journal /\ Changed(s, e) \subseteq DOMAIN journal
    BY DEF Changed, EventsBetween
  <2>4. n \notin Changed(s, e)
    BY <1>2, ChangedFacts
  <2>5. ASSUME NEW i \in Changed(s, e) PROVE i < n
    <3>1. i \in DOMAIN journal /\ journal[i].time < e /\ i # n /\ journal[i].kind = State /\ i \in Nat /\ n \in Nat
      BY <2>3, <2>4, ChangedFacts, JournalFacts
    <3>2. n < i => FALSE
      BY <1>2, <3>1, JournalFacts
    <3> QED BY <3>1, <3>2
  <2> QED BY <1>2, <2>2, <2>3, <2>4, <2>5
<1> QED BY <1>1, <1>2

(* The level at a date is that of the last change told in the period, or     *)
(* that of before the period.                                                *)
LEMMA LevelWithin ==
    ASSUME PInv, NEW s \in Int, NEW e \in Int, s <= e
    PROVE  /\ Changed(s, e) = {} => LevelBefore(e) = LevelBefore(s)
           /\ Changed(s, e) # {} =>
                /\ Max(Changed(s, e)) \in Changed(s, e) /\ \A i \in Changed(s, e) : i <= Max(Changed(s, e))
                /\ LevelBefore(e) = journal[Max(Changed(s, e))].level
<1> DEFINE C == Changed(s, e)
           T == Tellers(journal, e)
<1>1. C \subseteq T /\ T \subseteq DOMAIN journal /\ DOMAIN journal = 1..Len(journal) /\ Len(journal) \in Nat
  BY JournalFacts DEF Changed, EventsBetween, Tellers
<1>2. ASSUME C = {} PROVE LevelBefore(e) = LevelBefore(s)
  <2>1. \A i \in DOMAIN journal : i \in T <=> i \in Tellers(journal, s)
    BY <1>2, ChangedFacts, JournalFacts DEF Tellers
  <2>2. T = Tellers(journal, s)
    BY <2>1 DEF Tellers
  <2> QED BY <2>2, LevelIsIn DEF LevelIn
<1>3. ASSUME C # {}
      PROVE  Max(C) \in C /\ (\A i \in C : i <= Max(C)) /\ LevelBefore(e) = journal[Max(C)].level
  <2>1. Max(C) \in C /\ \A i \in C : i <= Max(C)
    <3> HIDE DEF C, T
    <3>1. C \subseteq 1..Len(journal) /\ Len(journal) \in Nat
      BY <1>1
    <3> QED BY <1>3, <3>1, LastOne
  <2>2. \A i \in T : i <= Max(C)
    <3> SUFFICES ASSUME NEW i \in T, i > Max(C) PROVE FALSE
      BY <1>1, <2>1
    <3>1. i \in DOMAIN journal /\ journal[i].kind = State /\ journal[i].time < e /\ Max(C) \in DOMAIN journal /\ Max(C) < i
      BY <1>1, <2>1 DEF Tellers
    <3>2. s <= journal[Max(C)].time /\ journal[Max(C)].time <= journal[i].time
      BY <2>1, <3>1, ChangedFacts, JournalFacts
    <3>3. i \in C
      BY <3>1, <3>2, ChangedFacts, JournalFacts
    <3> QED BY <1>1, <2>1, <3>1, <3>3
  <2>3. Max(T) = Max(C)
    <3>1. T \subseteq Int /\ Max(C) \in T
      BY <1>1, <2>1
    <3> HIDE DEF C, T
    <3> QED BY <2>2, <3>1, MaxIs
  <2> QED BY <1>1, <2>1, <2>3, LevelIsIn DEF LevelIn
<1> QED BY <1>2, <1>3

LEMMA Finitely ==
    ASSUME PInv, NEW l, NEW s \in Int, NEW e \in Int
    PROVE  /\ IsFiniteSet(Changed(s, e)) /\ IsFiniteSet(ChangedTo(l, s, e))
           /\ Changed(s, e) \subseteq Int /\ ChangedTo(l, s, e) \subseteq Changed(s, e)
<1>1. Changed(s, e) \subseteq DOMAIN journal /\ ChangedTo(l, s, e) \subseteq Changed(s, e)
  BY DEF Changed, EventsBetween, ChangedTo
<1>2. IsFiniteSet(Changed(s, e))
  BY <1>1, FiniteTables, FS_Subset
<1>3. IsFiniteSet(ChangedTo(l, s, e))
  BY <1>1, <1>2, FS_Subset
<1>4. Changed(s, e) \subseteq Int
  BY ChangedFacts
<1> QED BY <1>1, <1>2, <1>3, <1>4

LEMMA UntilIsInt ==
    ASSUME PInv, NEW s \in Int, NEW e \in Int, NEW i \in Changed(s, e)
    PROVE  Until(i, s, e) \in Int /\ journal[i].time \in Int
<1> DEFINE later == {j \in Changed(s, e) : j > i}
<1>1. later \subseteq DOMAIN journal /\ i \in DOMAIN journal
  BY DEF Changed, EventsBetween
<1>2. later # {} => Min(later) \in later
  <2>1. IsFiniteSet(later)
    BY <1>1, FiniteTables, FS_Subset
  <2>2. later \subseteq Int
    BY ChangedFacts
  <2> HIDE DEF later
  <2> QED BY <2>1, <2>2, MinExists
<1>3. later # {} => journal[Min(later)].time \in Int
  <2> HIDE DEF later
  <2> QED BY <1>1, <1>2, JournalFacts
<1>4. Until(i, s, e) = IF later = {} THEN e ELSE journal[Min(later)].time
  BY DEF Until
<1> HIDE DEF later
<1> QED BY <1>1, <1>3, <1>4, JournalFacts

(* No change at that date: only the stretch under way is longer. *)
LEMMA StretchGoesOn ==
    ASSUME PInv, NEW l, NEW s \in Nat, NEW e \in Nat, s <= e, Changed(s, e + 1) = Changed(s, e)
    PROVE  Share(l, s, e + 1) = Share(l, s, e) + (IF LevelBefore(e + 1) = l THEN 1 ELSE 0)
<1> DEFINE C == Changed(s, e)
           L == ChangedTo(l, s, e)
           g == Lasting(l, s, e)
           h == Lasting(l, s, e + 1)
           m == Max(C)
<1>0. ChangedTo(l, s, e + 1) = L
  BY DEF ChangedTo
<1>1. Share(l, s, e) = (IF LevelBefore(s) = l THEN FirstStretch(s, e) ELSE 0) + SumOf(g, L)
  BY ShareIs
<1>2. Share(l, s, e + 1) = (IF LevelBefore(s) = l THEN FirstStretch(s, e + 1) ELSE 0) + SumOf(h, L)
  BY <1>0, ShareIs
<1>3. IsFiniteSet(L) /\ IsFiniteSet(C) /\ C \subseteq Int /\ L \subseteq C
  BY Finitely
<1>4. e + 1 \in Int /\ s <= e + 1
  OBVIOUS
<1>5. CASE C = {}
  <2>1. L = {}
    BY <1>3, <1>5
  <2>2. LevelBefore(e + 1) = LevelBefore(s)
    BY <1>4, <1>5, LevelWithin
  <2>3. SumOf(g, L) = 0 /\ SumOf(h, L) = 0
    BY <2>1, SumUnfolds, FS_EmptySet
  <2>4. FirstStretch(s, e) = e - s /\ FirstStretch(s, e + 1) = e + 1 - s
    BY <1>5 DEF FirstStretch
  <2> HIDE DEF g, h, L
  <2> QED BY <1>1, <1>2, <2>2, <2>3, <2>4
<1>6. CASE C # {}
  <2>1. m \in C /\ (\A i \in C : i <= m) /\ LevelBefore(e + 1) = journal[m].level
    BY <1>4, <1>6, LevelWithin
  <2>2. FirstStretch(s, e) = FirstStretch(s, e + 1) /\ FirstStretch(s, e) \in Int
    <3>1. FirstStretch(s, e) = journal[Min(C)].time - s /\ FirstStretch(s, e + 1) = journal[Min(C)].time - s
      BY <1>6 DEF FirstStretch
    <3>2. Min(C) \in C
      <4> HIDE DEF C
      <4> QED BY <1>3, <1>6, MinExists
    <3>3. journal[Min(C)].time \in Int
      BY <3>2, UntilIsInt
    <3> QED BY <3>1, <3>3
  <2>3. ASSUME NEW i \in C, i # m PROVE Until(i, s, e + 1) = Until(i, s, e)
    <3>1. m > i
      BY <1>3, <2>1, <2>3
    <3>2. {j \in C : j > i} # {}
      BY <2>1, <3>1
    <3> QED BY <3>2 DEF Until
  <2>4. Until(m, s, e) = e /\ Until(m, s, e + 1) = e + 1
    <3>1. \A j \in C : ~(j > m)
      BY <1>3, <2>1
    <3>2. {j \in C : j > m} = {}
      BY <3>1
    <3> QED BY <3>2 DEF Until
  <2>5. \A i \in L : g[i] = Until(i, s, e) - journal[i].time /\ h[i] = Until(i, s, e + 1) - journal[i].time
    BY <1>0 DEF Lasting
  <2>6. \A i \in L : g[i] \in Int /\ h[i] \in Int
    BY <1>3, <1>4, <2>5, UntilIsInt
  <2>7. \A i \in L : i # m => g[i] = h[i]
    BY <1>3, <2>3, <2>5
  <2>8. CASE journal[m].level = l
    <3>1. m \in L
      BY <2>1, <2>8 DEF ChangedTo
    <3>2. h[m] = g[m] + 1
      BY <1>4, <2>1, <2>4, <2>5, <3>1, UntilIsInt
    <3> DEFINE M == L \ {m}
    <3>3. IsFiniteSet(M) /\ \A i \in M : g[i] \in Int /\ h[i] \in Int /\ g[i] = h[i]
      BY <1>3, <2>6, <2>7, FS_Subset
    <3>4. SumOf(g, L) = g[m] + SumOf(g, M)
      <4> HIDE DEF g, L
      <4> QED BY <1>3, <2>6, <3>1, SumTakesOut
    <3>5. SumOf(h, L) = h[m] + SumOf(h, M)
      <4> HIDE DEF h, L
      <4> QED BY <1>3, <2>6, <3>1, SumTakesOut
    <3>6. SumOf(g, M) = SumOf(h, M) /\ SumOf(g, M) \in Int
      <4> HIDE DEF g, h, M
      <4> QED BY <3>3, SumEqual, SumTakesOut
    <3>7. g[m] \in Int
      BY <2>6, <3>1
    <3> HIDE DEF g, h, L, M
    <3>8. SumOf(h, L) = SumOf(g, L) + 1 /\ SumOf(g, L) \in Int
      BY <3>2, <3>4, <3>5, <3>6, <3>7
    <3> QED BY <1>1, <1>2, <2>1, <2>2, <2>8, <3>8
  <2>9. CASE journal[m].level # l
    <3>1. m \notin L
      BY <2>9 DEF ChangedTo
    <3>2. SumOf(g, L) = SumOf(h, L) /\ SumOf(g, L) \in Int
      <4>1. \A i \in L : g[i] \in Int /\ g[i] = h[i]
        BY <2>6, <2>7, <3>1
      <4> HIDE DEF g, h, L
      <4> QED BY <1>3, <4>1, SumEqual, SumTakesOut
    <3> HIDE DEF g, h, L
    <3> QED BY <1>1, <1>2, <2>1, <2>2, <2>9, <3>2
  <2> QED BY <2>8, <2>9
<1> QED BY <1>5, <1>6

(* A change at that date ends the stretch before it and begins one. *)
LEMMA StretchEnds ==
    ASSUME PInv, NEW l, NEW s \in Nat, NEW e \in Nat, s <= e, NEW n \in DOMAIN journal,
           Changed(s, e + 1) = Changed(s, e) \cup {n}, n \notin Changed(s, e),
           journal[n].time = e, \A i \in Changed(s, e) : i < n
    PROVE  Share(l, s, e + 1) = Share(l, s, e) + (IF LevelBefore(e + 1) = l THEN 1 ELSE 0)
<1> DEFINE C == Changed(s, e)
           D == Changed(s, e + 1)
           L == ChangedTo(l, s, e)
           M == ChangedTo(l, s, e + 1)
           g == Lasting(l, s, e)
           h == Lasting(l, s, e + 1)
<1>1. Share(l, s, e) = (IF LevelBefore(s) = l THEN FirstStretch(s, e) ELSE 0) + SumOf(g, L)
  BY ShareIs
<1>2. Share(l, s, e + 1) = (IF LevelBefore(s) = l THEN FirstStretch(s, e + 1) ELSE 0) + SumOf(h, M)
  BY ShareIs
<1>3. /\ IsFiniteSet(L) /\ IsFiniteSet(C) /\ C \subseteq Int /\ L \subseteq C
      /\ IsFiniteSet(M) /\ IsFiniteSet(D) /\ D \subseteq Int /\ M \subseteq D
      /\ n \in Int /\ e + 1 \in Int /\ s <= e + 1 /\ n \in D
  BY Finitely, JournalFacts
<1>4. LevelBefore(e + 1) = journal[n].level
  <2>1. Max(D) = n
    <3>1. \A i \in D : i <= n
      BY <1>3
    <3> HIDE DEF D
    <3> QED BY <1>3, <3>1, MaxIs
  <2>2. D # {}
    BY <1>3
  <2> QED BY <1>3, <2>1, <2>2, LevelWithin
<1>5. FirstStretch(s, e + 1) = FirstStretch(s, e) /\ FirstStretch(s, e) \in Int
  <2>1. CASE C = {}
    <3>1. D = {n} /\ Min(D) = n
      <4>1. D = {n}
        BY <2>1
      <4> HIDE DEF D
      <4> QED BY <1>3, <4>1, MinIs
    <3>2. FirstStretch(s, e) = e - s
      BY <2>1 DEF FirstStretch
    <3>3. FirstStretch(s, e + 1) = journal[Min(D)].time - s
      BY <3>1 DEF FirstStretch
    <3> QED BY <3>1, <3>2, <3>3
  <2>2. CASE C # {}
    <3>1. Min(C) \in C /\ \A i \in C : Min(C) <= i
      <4> HIDE DEF C
      <4> QED BY <1>3, <2>2, MinExists
    <3>2. Min(D) = Min(C)
      <4>1. Min(C) \in D /\ \A i \in D : Min(C) <= i
        BY <1>3, <3>1
      <4> HIDE DEF C, D
      <4> QED BY <1>3, <4>1, MinIs
    <3>3. journal[Min(C)].time \in Int
      BY <3>1, UntilIsInt
    <3>4. FirstStretch(s, e) = journal[Min(C)].time - s
      BY <2>2 DEF FirstStretch
    <3>5. FirstStretch(s, e + 1) = journal[Min(D)].time - s
      BY <1>3 DEF FirstStretch
    <3> QED BY <3>2, <3>3, <3>4, <3>5
  <2> QED BY <2>1, <2>2
<1>6. ASSUME NEW i \in C PROVE Until(i, s, e + 1) = Until(i, s, e)
  <2> DEFINE A == {j \in C : j > i}
             B == {j \in D : j > i}
  <2>1. B = A \cup {n} /\ A \subseteq Int /\ B \subseteq Int /\ \A j \in A : j < n
    BY <1>3
  <2>2. Until(i, s, e) = (IF A = {} THEN e ELSE journal[Min(A)].time) /\ Until(i, s, e + 1) = (IF B = {} THEN e + 1 ELSE journal[Min(B)].time)
    BY DEF Until
  <2>3. CASE A = {}
    <3>1. Min(B) = n /\ B # {}
      <4>1. B = {n}
        BY <2>1, <2>3
      <4> HIDE DEF A, B, C, D
      <4> QED BY <1>3, <4>1, MinIs
    <3> HIDE DEF A, B
    <3> QED BY <2>2, <2>3, <3>1
  <2>4. CASE A # {}
    <3>0. IsFiniteSet(A)
      BY <1>3, FS_Subset
    <3>1. Min(A) \in A /\ \A j \in A : Min(A) <= j
      <4> HIDE DEF A
      <4> QED BY <2>1, <2>4, <3>0, MinExists
    <3>2. Min(B) = Min(A) /\ B # {}
      <4> HIDE DEF A, B
      <4>1. Min(A) \in B /\ \A j \in B : Min(A) <= j
        BY <1>3, <2>1, <3>1
      <4> QED BY <2>1, <4>1, MinIs
    <3> HIDE DEF A, B
    <3> QED BY <2>2, <2>4, <3>2
  <2> QED BY <2>3, <2>4
<1>7. Until(n, s, e + 1) = e + 1
  <2>1. \A j \in D : ~(j > n)
    BY <1>3
  <2>2. {j \in D : j > n} = {}
    BY <2>1
  <2> QED BY <2>2 DEF Until
<1>8. M = IF journal[n].level = l THEN L \cup {n} ELSE L
  BY DEF ChangedTo
<1>9. /\ \A i \in L : g[i] = Until(i, s, e) - journal[i].time
      /\ \A i \in M : h[i] = Until(i, s, e + 1) - journal[i].time
  BY DEF Lasting
<1>10. /\ \A i \in L : g[i] \in Int /\ g[i] = h[i]
       /\ \A i \in M : h[i] \in Int
  <2>1. \A i \in L : i \in M /\ i \in C
    BY <1>3, <1>8
  <2>2. \A i \in L : g[i] \in Int
    BY <1>3, <1>9, <2>1, UntilIsInt
  <2>3. \A i \in M : h[i] \in Int
    BY <1>3, <1>9, UntilIsInt
  <2> QED BY <1>6, <1>9, <2>1, <2>2, <2>3
<1>11. SumOf(g, L) = SumOf(h, L) /\ SumOf(g, L) \in Int
  <2> HIDE DEF g, h, L
  <2> QED BY <1>3, <1>10, SumEqual, SumTakesOut
<1>12. CASE journal[n].level = l
  <2>1. n \in M /\ M \ {n} = L
    BY <1>3, <1>8, <1>12
  <2>2. SumOf(h, M) = h[n] + SumOf(h, L)
    <3> HIDE DEF h, L, M
    <3> QED BY <1>3, <1>10, <2>1, SumTakesOut
  <2>3. h[n] = 1
    BY <1>7, <1>9, <2>1
  <2> HIDE DEF g, h, L, M
  <2>4. SumOf(h, M) = SumOf(g, L) + 1
    BY <1>11, <2>2, <2>3
  <2> QED BY <1>1, <1>2, <1>4, <1>5, <1>11, <1>12, <2>4
<1>13. CASE journal[n].level # l
  <2>1. M = L
    BY <1>8, <1>13
  <2>2. SumOf(h, M) = SumOf(g, L)
    BY <1>11, <2>1
  <2> HIDE DEF g, h, L, M
  <2> QED BY <1>1, <1>2, <1>4, <1>5, <1>11, <1>13, <2>2
<1> QED BY <1>12, <1>13

LEMMA ShareGrows ==
    ASSUME PInv, NEW l, NEW s \in Nat, NEW e \in Nat, s <= e
    PROVE  Share(l, s, e + 1) = Share(l, s, e) + (IF LevelBefore(e + 1) = l THEN 1 ELSE 0)
BY OneMoreDate, StretchGoesOn, StretchEnds

(* The time given to a level is the time the journal tells it. *)
LEMMA ShareCounts ==
    ASSUME PInv, NEW l, NEW s \in Nat, NEW e \in Nat, s <= e
    PROVE  Share(l, s, e) = Cardinality(Spent(l, s, e)) /\ IsFiniteSet(Spent(l, s, e))
<1> DEFINE G == {n \in Nat : Share(l, s, s + n) = Cardinality(Spent(l, s, s + n)) /\ IsFiniteSet(Spent(l, s, s + n))}
<1>1. 0 \in G
  <2>1. Changed(s, s) = {}
    <3>1. \A i \in DOMAIN journal : i \notin Changed(s, s)
      BY ChangedFacts, JournalFacts
    <3> QED BY <3>1 DEF Changed, EventsBetween
  <2>2. ChangedTo(l, s, s) = {} /\ FirstStretch(s, s) = 0
    BY <2>1 DEF ChangedTo, FirstStretch
  <2>3. SumOf(Lasting(l, s, s), {}) = 0
    BY SumUnfolds, FS_EmptySet
  <2>4. Share(l, s, s) = 0
    BY <2>2, <2>3, ShareIs
  <2>5. Spent(l, s, s) = {}
    BY DEF Spent
  <2>6. s + 0 = s
    OBVIOUS
  <2> QED BY <2>4, <2>5, <2>6, FS_EmptySet
<1>2. ASSUME NEW n \in Nat, n \in G PROVE n + 1 \in G
  <2> DEFINE d == s + n
  <2>1. d \in Nat /\ s <= d /\ s + (n + 1) = d + 1 /\ n + 1 \in Nat
    OBVIOUS
  <2>2. Share(l, s, d) = Cardinality(Spent(l, s, d)) /\ IsFiniteSet(Spent(l, s, d))
    BY <1>2
  <2> HIDE DEF d
  <2>3. Share(l, s, d + 1) = Share(l, s, d) + (IF LevelBefore(d + 1) = l THEN 1 ELSE 0)
    BY <2>1, ShareGrows
  <2>4. Spent(l, s, d + 1) = (IF LevelBefore(d + 1) = l THEN Spent(l, s, d) \cup {d} ELSE Spent(l, s, d)) /\ d \notin Spent(l, s, d)
    <3>1. \A t \in s..(d + 1 - 1) : t \in s..(d - 1) \/ t = d
      BY <2>1
    <3>2. \A t \in s..(d - 1) : t \in s..(d + 1 - 1) /\ t # d
      BY <2>1
    <3>3. d \in s..(d + 1 - 1)
      BY <2>1
    <3> QED BY <3>1, <3>2, <3>3 DEF Spent
  <2>5. Cardinality(Spent(l, s, d)) \in Nat
    BY <2>2, FS_CardinalityType
  <2>6. Share(l, s, d + 1) = Cardinality(Spent(l, s, d + 1)) /\ IsFiniteSet(Spent(l, s, d + 1))
    BY <2>2, <2>3, <2>4, <2>5, FS_AddElement
  <2> QED BY <2>1, <2>6
<1>3. \A n \in Nat : n \in G
  <2> HIDE DEF G
  <2> QED BY <1>1, <1>2, Counting
<1>4. e - s \in Nat /\ s + (e - s) = e
  OBVIOUS
<1>5. e - s \in G
  <2> HIDE DEF G
  <2> QED BY <1>3, <1>4
<1> QED BY <1>4, <1>5

LEMMA FirstIsRead ==
    ASSUME PInv, Times # {}
    PROVE  /\ FirstReading \in Times /\ FirstReading \in Nat /\ FirstReading >= 1 /\ FirstReading <= clock
           /\ \A u \in Times : FirstReading <= u
<1>1. Times \subseteq 1..clock /\ clock \in Nat
  BY TableFacts, Lengths
<1>2. Min(Times) \in Times /\ \A u \in Times : Min(Times) <= u
  BY <1>1, FirstOne
<1>3. Min(Times) \in 1..clock
  BY <1>1, <1>2
<1> QED BY <1>1, <1>2, <1>3 DEF FirstReading

(* What a report gives to a level is what was found. *)
LEMMA SharesOfPInv == PInv => SharesAreTrue
<1> SUFFICES ASSUME PInv, NEW w \in Asked, Report(w[1], w[2]).covered > 0, NEW l \in Levels
             PROVE  Report(w[1], w[2]).shares[l]
                    = Cardinality({t \in StartOf(w[1])..(EndOf(w[2]) - 1) : SeenAt(t) = l})
  BY DEF SharesAreTrue
<1> DEFINE from == w[1]
           to == w[2]
           s == StartOf(from)
           e == EndOf(to)
           read == ReadingsIn(from, to) # {} /\ e > s
<1>1. from \in Nat /\ to \in Nat /\ from < to /\ clock \in Nat
  BY TableFacts, Lengths DEF Asked
<1>2. Report(from, to).covered = (IF read THEN e - s ELSE 0) /\ Report(from, to).shares[l] = (IF read THEN Share(l, s, e) ELSE 0)
  BY DEF Report
<1>3. read
  BY <1>2
<1>4. Times # {} /\ Times \subseteq 1..clock
  BY <1>3, TableFacts DEF ReadingsIn
<1>5. FirstReading \in Times /\ FirstReading \in Nat /\ \A u \in Times : FirstReading <= u
  BY <1>4, FirstIsRead
<1>6. s \in Nat /\ FirstReading <= s /\ e \in Nat /\ e <= clock /\ s <= e
  <2>1. s \in Nat /\ FirstReading <= s
    BY <1>1, <1>4, <1>5 DEF StartOf
  <2>2. e \in Nat /\ e <= clock
    BY <1>1 DEF EndOf
  <2> HIDE DEF s, e
  <2> QED BY <1>3, <2>1, <2>2
<1> HIDE DEF s, e, from, to
<1>7. \A t \in s..(e - 1) : LevelBefore(t + 1) = SeenAt(t)
  <2> SUFFICES ASSUME NEW t \in s..(e - 1) PROVE LevelBefore(t + 1) = SeenAt(t)
    OBVIOUS
  <2>1. t \in 1..clock /\ FirstReading <= t
    BY <1>1, <1>4, <1>5, <1>6
  <2> QED BY <1>5, <2>1 DEF PInv, TellsTheReadings
<1>8. Spent(l, s, e) = {t \in s..(e - 1) : SeenAt(t) = l}
  BY <1>7 DEF Spent
<1>9. Share(l, s, e) = Cardinality(Spent(l, s, e))
  BY <1>6, ShareCounts
<1> QED BY <1>2, <1>3, <1>8, <1>9 DEF from, to, s, e

-----------------------------------------------------------------------------
(***************************************************************************)
(* The strip of the chronology.                                            *)
(***************************************************************************)

Shown(from, to) == {i \in NewestEvents(from, to) : journal[i].kind = State}

(* With no more events than a query returns, none of the period is missed. *)
LEMMA AllAreShown ==
    ASSUME PInv, Len(journal) <= EventLimit, NEW from \in Int, NEW to \in Int
    PROVE  Shown(from, to) = {i \in DOMAIN journal :
                journal[i].kind = State /\ from <= journal[i].time /\ journal[i].time <= to}
<1> DEFINE found == {i \in DOMAIN journal : from <= journal[i].time /\ journal[i].time <= to}
<1>1. ASSUME NEW i \in found PROVE Cardinality({j \in found : j > i}) < EventLimit
  <2> DEFINE newer == {j \in found : j > i}
  <2>1. newer \subseteq DOMAIN journal /\ i \in DOMAIN journal /\ i \notin newer
    BY JournalFacts
  <2>2. Cardinality(DOMAIN journal) = Len(journal)
    <3>1. DOMAIN journal = 1..Len(journal) /\ Len(journal) \in Nat
      BY JournalFacts
    <3>2. Cardinality(1..Len(journal)) = IF 1 > Len(journal) THEN 0 ELSE Len(journal) - 1 + 1
      BY <3>1, FS_Interval
    <3> QED BY <3>1, <3>2
  <2> HIDE DEF newer
  <2>3. Cardinality(newer) <= Cardinality(DOMAIN journal) /\ IsFiniteSet(newer)
    BY <2>1, FiniteTables, FS_Subset
  <2>4. Cardinality(newer) # Cardinality(DOMAIN journal)
    BY <2>1, FiniteTables, FS_Subset
  <2>5. Cardinality(newer) \in Nat
    BY <2>3, FS_CardinalityType
  <2> QED BY <2>2, <2>3, <2>4, <2>5, JournalFacts, Lengths DEF newer
<1>2. NewestEvents(from, to) = found
  BY <1>1 DEF NewestEvents
<1> QED BY <1>2 DEF Shown

(* What is painted is the level the journal tells. *)
LEMMA ToldIsLevel ==
    ASSUME PInv, Len(journal) <= EventLimit, NEW from \in Int, NEW to \in Int, NEW t \in Int, from <= t, t <= to
    PROVE  Told(Shown(from, to), from, t) = LevelBefore(t + 1)
<1> DEFINE past == {i \in Shown(from, to) : journal[i].time <= t}
<1>1. past = Changed(from, t + 1)
  <2>1. \A i \in DOMAIN journal : i \in past <=> i \in Changed(from, t + 1)
    <3>1. \A i \in DOMAIN journal : journal[i].time \in Int
      BY JournalFacts
    <3>2. \A i \in DOMAIN journal : i \in past <=>
             journal[i].kind = State /\ from <= journal[i].time /\ journal[i].time <= to /\ journal[i].time <= t
      BY AllAreShown
    <3> HIDE DEF past
    <3> QED BY <3>1, <3>2, ChangedFacts
  <2>2. past \subseteq DOMAIN journal
    BY DEF Shown, NewestEvents
  <2>3. Changed(from, t + 1) \subseteq DOMAIN journal
    BY DEF Changed, EventsBetween
  <2> QED BY <2>1, <2>2, <2>3
<1>2. Told(Shown(from, to), from, t) = IF past = {} THEN LevelBefore(from) ELSE journal[Max(past)].level
  BY DEF Told
<1>3. t + 1 \in Int /\ from <= t + 1
  OBVIOUS
<1> HIDE DEF past
<1> QED BY <1>1, <1>2, <1>3, LevelWithin

-----------------------------------------------------------------------------
(* The stretches covered by readings. *)

IsStart(P, p) == \A q \in P : q < p => p - q > GapAfter
IsEnd(P, p) == \A q \in P : q > p => q - p > GapAfter
Begins(P, from, p) == IF p = Min(P) /\ p - from <= GapAfter THEN from ELSE p
Ends(P, to, p) == IF p = Max(P) /\ to - p <= GapAfter THEN to ELSE p
EndOfSegment(P, p) == Min({q \in P : q >= p /\ IsEnd(P, q)})

LEMMA SegmentsAre ==
    ASSUME NEW from, NEW to
    PROVE  Segments(from, to) =
             {[from |-> Begins(Points(from, to), from, p), to |-> Ends(Points(from, to), to, EndOfSegment(Points(from, to), p))]
                : p \in {q \in Points(from, to) : IsStart(Points(from, to), q)}}
BY DEF Segments, Begins, Ends, EndOfSegment, IsStart, IsEnd

(* Subsets of a finite set of numbers have extremes. *)
LEMMA Extremes ==
    ASSUME NEW P, P \subseteq Int, IsFiniteSet(P), NEW Q \in SUBSET P, Q # {}
    PROVE  /\ Min(Q) \in Q /\ Min(Q) \in Int /\ \A q \in Q : Min(Q) <= q
           /\ Max(Q) \in Q /\ Max(Q) \in Int /\ \A q \in Q : q <= Max(Q)
<1>1. Q \subseteq Int /\ IsFiniteSet(Q)
  BY FS_Subset
<1>2. Min(Q) \in Q /\ Max(Q) \in Q /\ (\A q \in Q : Min(Q) <= q) /\ (\A q \in Q : q <= Max(Q))
  BY <1>1, MinExists, MaxExists
<1> QED BY <1>1, <1>2

(* Every reading is in a segment: from the last start before it to the first *)
(* end after it, none of which is between them.                              *)
LEMMA InASegment ==
    ASSUME NEW P, P \subseteq Int, IsFiniteSet(P), NEW a \in P
    PROVE  \E p \in P : IsStart(P, p) /\ p <= a /\ EndOfSegment(P, p) \in P /\ a <= EndOfSegment(P, p)
                        /\ IsEnd(P, EndOfSegment(P, p))
<1> DEFINE S == {p \in P : IsStart(P, p) /\ p <= a}
           p == Max(S)
           E == {q \in P : q >= p /\ IsEnd(P, q)}
           e == Min(E)
<1>0. GapAfter \in Nat /\ a \in Int
  BY Lengths
<1>1. S # {}
  <2>1. Min(P) \in P /\ Min(P) \in Int /\ \A q \in P : Min(P) <= q
    BY Extremes
  <2>2. \A q \in P : ~(q < Min(P))
    <3> SUFFICES ASSUME NEW q \in P PROVE ~(q < Min(P))
      OBVIOUS
    <3>1. q \in Int /\ Min(P) <= q
      BY <2>1
    <3> QED BY <2>1, <3>1
  <2>3. IsStart(P, Min(P)) /\ Min(P) <= a
    BY <2>1, <2>2 DEF IsStart
  <2> QED BY <2>1, <2>3
<1>2. p \in P /\ IsStart(P, p) /\ p <= a /\ p \in Int /\ \A q \in S : q <= p
  <2>1. S \in SUBSET P
    OBVIOUS
  <2>2. p \in S /\ p \in Int /\ \A q \in S : q <= p
    <3> HIDE DEF S
    <3> QED BY <1>1, <2>1, Extremes
  <2> QED BY <2>2
<1>3. E # {}
  <2>1. Max(P) \in P /\ Max(P) \in Int /\ \A q \in P : q <= Max(P)
    BY Extremes
  <2>2. \A q \in P : ~(q > Max(P))
    <3> SUFFICES ASSUME NEW q \in P PROVE ~(q > Max(P))
      OBVIOUS
    <3>1. q \in Int /\ q <= Max(P)
      BY <2>1
    <3> QED BY <2>1, <3>1
  <2>3. IsEnd(P, Max(P)) /\ Max(P) >= p
    BY <1>2, <2>1, <2>2 DEF IsEnd
  <2> QED BY <2>1, <2>3
<1>4. e \in P /\ e >= p /\ IsEnd(P, e) /\ e \in Int
  <2>1. E \in SUBSET P
    OBVIOUS
  <2>2. e \in E /\ e \in Int
    <3> HIDE DEF E
    <3> QED BY <1>3, <2>1, Extremes
  <2> QED BY <2>2
<1>5. ASSUME e < a PROVE FALSE
  <2> DEFINE N == {q \in P : q > e}
             n == Min(N)
  <2>1. N \in SUBSET P /\ a \in N
    BY <1>5
  <2>2. n \in N /\ n \in Int /\ \A q \in N : n <= q
    <3> HIDE DEF N
    <3> QED BY <2>1, Extremes
  <2>3. n \in P /\ n > e /\ n <= a /\ \A q \in P : q > e => n <= q
    BY <2>1, <2>2
  <2> HIDE DEF N, n
  <2>4. n - e > GapAfter
    BY <1>4, <2>3 DEF IsEnd
  <2>5. ASSUME NEW q \in P, q < n PROVE n - q > GapAfter
    <3>1. q \in Int /\ ~(q > e)
      BY <2>2, <2>3, <2>5
    <3> HIDE DEF e
    <3> QED BY <1>0, <1>4, <2>2, <2>4, <3>1
  <2>6. n \in S
    BY <2>3, <2>5 DEF IsStart
  <2>7. n <= p
    BY <1>2, <2>6
  <2> HIDE DEF p, e
  <2> QED BY <1>2, <1>4, <2>2, <2>3, <2>7
<1>6. e = EndOfSegment(P, p)
  BY DEF EndOfSegment
<1>7. a <= e
  <2> HIDE DEF e
  <2> QED BY <1>0, <1>4, <1>5
<1> QED BY <1>2, <1>4, <1>6, <1>7

(* A moment is covered when what is close on each side of it is a reading,   *)
(* or an end of the period.                                                  *)
Covered(P, from, to, t) ==
    \E p \in {q \in P : IsStart(P, q)} : Begins(P, from, p) <= t /\ t < Ends(P, to, EndOfSegment(P, p))
Close(P, from, to, t) ==
    \E p \in P \cup {from}, q \in P \cup {to} : p <= t /\ t < q /\ q - p <= GapAfter

LEMMA EndIsAnEnd ==
    ASSUME NEW P, P \subseteq Int, IsFiniteSet(P), NEW p \in P
    PROVE  /\ EndOfSegment(P, p) \in P /\ EndOfSegment(P, p) >= p /\ IsEnd(P, EndOfSegment(P, p))
           /\ \A q \in P : q >= p /\ q < EndOfSegment(P, p) => ~IsEnd(P, q)
<1> DEFINE E == {q \in P : q >= p /\ IsEnd(P, q)}
<1>1. E # {}
  <2>1. Max(P) \in P /\ Max(P) \in Int /\ \A q \in P : q <= Max(P)
    BY Extremes
  <2>2. \A q \in P : ~(q > Max(P))
    <3> SUFFICES ASSUME NEW q \in P PROVE ~(q > Max(P))
      OBVIOUS
    <3>1. q \in Int /\ q <= Max(P)
      BY <2>1
    <3> QED BY <2>1, <3>1
  <2>3. IsEnd(P, Max(P)) /\ Max(P) >= p
    BY <2>1, <2>2 DEF IsEnd
  <2> QED BY <2>1, <2>3
<1>2. Min(E) \in E /\ Min(E) \in Int /\ \A q \in E : Min(E) <= q
  <2>1. E \in SUBSET P
    OBVIOUS
  <2> HIDE DEF E
  <2> QED BY <1>1, <2>1, Extremes
<1>3. Min(E) = EndOfSegment(P, p)
  BY DEF EndOfSegment
<1>4. \A q \in P : q >= p /\ q < Min(E) => ~IsEnd(P, q)
  <2> SUFFICES ASSUME NEW q \in P, q >= p, q < Min(E), IsEnd(P, q) PROVE FALSE
    OBVIOUS
  <2>1. q \in E
    OBVIOUS
  <2>2. Min(E) <= q /\ q \in Int
    BY <1>2, <2>1
  <2> HIDE DEF E
  <2> QED BY <1>2, <2>2
<1> QED BY <1>2, <1>3, <1>4

LEMMA InWindow ==
    ASSUME NEW from \in Int, NEW to \in Int, NEW P, P \subseteq from..to
    PROVE  P \subseteq Int /\ IsFiniteSet(P) /\ GapAfter \in Nat /\ \A u \in P : u \in Int /\ from <= u /\ u <= to
<1>1. IsFiniteSet(from..to)
  BY FS_Interval
<1>2. IsFiniteSet(P)
  BY <1>1, FS_Subset
<1>3. \A u \in P : u \in Int /\ from <= u /\ u <= to
  OBVIOUS
<1> QED BY <1>2, <1>3, Lengths

LEMMA CoveredIsClose ==
    ASSUME NEW from \in Int, NEW to \in Int, NEW P, P \subseteq from..to, NEW t \in Int, from <= t, t < to,
           Covered(P, from, to, t)
    PROVE  Close(P, from, to, t)
<1>0. P \subseteq Int /\ IsFiniteSet(P) /\ GapAfter \in Nat
  BY InWindow
<1>1. PICK p \in P : IsStart(P, p) /\ Begins(P, from, p) <= t /\ t < Ends(P, to, EndOfSegment(P, p))
  BY DEF Covered
<1> DEFINE e == EndOfSegment(P, p)
<1>2. e \in P /\ e >= p /\ \A q \in P : q >= p /\ q < e => ~IsEnd(P, q)
  BY <1>0, EndIsAnEnd
<1>3. p \in Int /\ e \in Int
  BY <1>0, <1>2
<1> HIDE DEF e
<1>4. CASE t < p
  <2>1. p - from <= GapAfter
    BY <1>1, <1>3, <1>4 DEF Begins
  <2> QED BY <1>4, <2>1 DEF Close
<1>5. CASE t >= e
  <2>1. to - e <= GapAfter
    BY <1>1, <1>3, <1>5 DEF Ends, e
  <2> QED BY <1>2, <1>5, <2>1 DEF Close
<1>6. CASE p <= t /\ t < e
  <2> DEFINE A == {u \in P : u <= t}
             a == Max(A)
  <2>1. A \in SUBSET P /\ p \in A
    BY <1>6
  <2>2. a \in A /\ a \in Int /\ \A u \in A : u <= a
    <3> HIDE DEF A
    <3> QED BY <1>0, <2>1, Extremes
  <2>3. a \in P /\ a <= t /\ p <= a /\ \A u \in P : u <= t => u <= a
    BY <2>1, <2>2
  <2> HIDE DEF A, a
  <2>4. ~IsEnd(P, a)
    BY <1>2, <1>3, <1>6, <2>2, <2>3
  <2>5. PICK q \in P : q > a /\ ~(q - a > GapAfter)
    BY <2>4 DEF IsEnd
  <2>6. q \in Int /\ q > t /\ q - a <= GapAfter
    BY <1>0, <2>2, <2>3, <2>5
  <2> QED BY <2>3, <2>6 DEF Close
<1> QED BY <1>3, <1>4, <1>5, <1>6

LEMMA CloseIsCovered ==
    ASSUME NEW from \in Int, NEW to \in Int, NEW P, P \subseteq from..to, P # {}, NEW t \in Int, from <= t, t < to,
           Close(P, from, to, t)
    PROVE  Covered(P, from, to, t)
<1>0. P \subseteq Int /\ IsFiniteSet(P) /\ GapAfter \in Nat /\ \A u \in P : u \in Int /\ from <= u /\ u <= to
  BY InWindow
<1>1. PICK p \in P \cup {from}, q \in P \cup {to} : p <= t /\ t < q /\ q - p <= GapAfter
  BY DEF Close
<1>2. p \in Int /\ q \in Int /\ from <= p /\ q <= to
  BY <1>0, <1>1
<1>3. CASE \A u \in P : u > t
  <2> DEFINE b == Min(P)
  <2>1. b \in P /\ b \in Int /\ \A u \in P : b <= u
    BY <1>0, Extremes
  <2> HIDE DEF b
  <2>2. b <= q /\ p = from
    <3>1. p = from
      BY <1>0, <1>1, <1>2, <1>3
    <3>2. q \in P => b <= q
      BY <2>1
    <3>3. q = to => b <= q
      BY <1>0, <2>1
    <3> QED BY <1>1, <3>1, <3>2, <3>3
  <2>3. b - from <= GapAfter
    BY <1>0, <1>1, <1>2, <2>1, <2>2
  <2>4. IsStart(P, b)
    <3>1. \A u \in P : ~(u < b)
      BY <1>0, <2>1
    <3> QED BY <3>1 DEF IsStart
  <2>5. Begins(P, from, b) <= t
    BY <2>3 DEF Begins, b
  <2>6. EndOfSegment(P, b) \in P /\ EndOfSegment(P, b) >= b
    BY <1>0, <2>1, EndIsAnEnd
  <2>7. t < EndOfSegment(P, b) /\ EndOfSegment(P, b) \in Int
    BY <1>0, <1>3, <2>6
  <2>8. t < Ends(P, to, EndOfSegment(P, b))
    BY <2>7 DEF Ends
  <2> QED BY <2>1, <2>4, <2>5, <2>8 DEF Covered
<1>4. CASE \E u \in P : ~(u > t)
  <2> DEFINE A == {u \in P : u <= t}
             a == Max(A)
  <2>1. A \in SUBSET P /\ A # {}
    BY <1>0, <1>4
  <2>2. a \in A /\ a \in Int /\ \A u \in A : u <= a
    <3> HIDE DEF A
    <3> QED BY <1>0, <2>1, Extremes
  <2>3. a \in P /\ a <= t /\ \A u \in P : u <= t => u <= a
    BY <2>2
  <2> HIDE DEF A, a
  <2>4. p <= a
    <3>1. p \in P => p <= a
      BY <1>1, <2>3
    <3>2. p = from => p <= a
      BY <1>0, <2>3
    <3> QED BY <1>1, <3>1, <3>2
  <2>5. PICK s \in P : IsStart(P, s) /\ s <= a /\ EndOfSegment(P, s) \in P /\ a <= EndOfSegment(P, s) /\ IsEnd(P, EndOfSegment(P, s))
    BY <1>0, <2>3, InASegment
  <2> DEFINE e == EndOfSegment(P, s)
  <2>6. s \in Int /\ e \in Int /\ e \in P /\ a <= e /\ IsEnd(P, e) /\ from <= s
    BY <1>0, <2>5
  <2>7. Begins(P, from, s) <= t
    <3>1. from <= t /\ s <= t
      BY <2>2, <2>3, <2>5, <2>6
    <3> QED BY <3>1 DEF Begins
  <2> HIDE DEF e
  <2>8. t < Ends(P, to, e)
    <3>1. CASE e > t
      <4>1. Ends(P, to, e) = e \/ Ends(P, to, e) = to
        BY DEF Ends
      <4> QED BY <2>6, <3>1, <4>1
    <3>2. CASE ~(e > t)
      <4>1. e = a
        BY <2>2, <2>3, <2>6, <3>2
      <4>2. \A u \in P : u > a => u - a > GapAfter
        BY <2>6, <4>1 DEF IsEnd
      <4>3. ASSUME NEW u \in P, u > t, u <= q PROVE FALSE
        <5>1. u \in Int /\ u > a
          BY <1>0, <2>2, <2>3, <4>3
        <5>2. u - a > GapAfter
          BY <4>2, <5>1
        <5> QED BY <1>0, <1>1, <1>2, <2>2, <2>4, <4>3, <5>1, <5>2
      <4>4. q = to /\ \A u \in P : u <= t
        <5>1. q \notin P
          BY <1>1, <1>2, <4>3
        <5>2. q = to
          BY <1>1, <5>1
        <5>3. \A u \in P : u <= q /\ u \in Int
          BY <1>0, <5>2
        <5> QED BY <4>3, <5>2, <5>3
      <4>5. e = Max(P)
        <5>1. \A u \in P : u <= e
          BY <2>3, <4>1, <4>4
        <5> QED BY <1>0, <2>6, <5>1, MaxIs
      <4>6. to - e <= GapAfter
        BY <1>0, <1>1, <1>2, <2>2, <2>4, <4>1, <4>4
      <4>7. Ends(P, to, e) = to
        BY <4>5, <4>6 DEF Ends
      <4> QED BY <4>7
    <3> QED BY <3>1, <3>2
  <2> QED BY <2>5, <2>7, <2>8 DEF Covered, e
<1> QED BY <1>3, <1>4

LEMMA SegmentsCover ==
    ASSUME NEW from, NEW to, NEW t
    PROVE  (\E s \in Segments(from, to) : s.from <= t /\ t < s.to) <=> Covered(Points(from, to), from, to, t)
<1> DEFINE P == Points(from, to)
           S == {q \in P : IsStart(P, q)}
           f(p) == [from |-> Begins(P, from, p), to |-> Ends(P, to, EndOfSegment(P, p))]
<1>1. Segments(from, to) = {f(p) : p \in S}
  BY SegmentsAre
<1>2. \A p \in S : f(p).from = Begins(P, from, p) /\ f(p).to = Ends(P, to, EndOfSegment(P, p))
  OBVIOUS
<1>3. Covered(P, from, to, t) <=> \E p \in S : Begins(P, from, p) <= t /\ t < Ends(P, to, EndOfSegment(P, p))
  BY DEF Covered
<1> HIDE DEF P, S, f
<1> QED BY <1>1, <1>2, <1>3 DEF P

LEMMA PastWindow ==
    ASSUME PInv, NEW w \in Past
    PROVE  w[1] \in Nat /\ w[2] \in Nat /\ w[1] < w[2] /\ w[2] <= clock /\ clock \in Nat
BY TableFacts, Lengths DEF Past

LEMMA PointsIn ==
    ASSUME PInv, NEW from \in Int, NEW to \in Int
    PROVE  Points(from, to) \subseteq from..to /\ Points(from, to) \subseteq Times /\ Times \subseteq 1..clock /\ clock \in Nat
<1>1. Times \subseteq 1..clock /\ clock \in Nat
  BY TableFacts, Lengths
<1>2. Points(from, to) \subseteq Times /\ \A t \in Points(from, to) : t \in 1..clock /\ from <= t /\ t <= to
  BY <1>1 DEF Points
<1>3. \A t \in Points(from, to) : t \in from..to
  BY <1>1, <1>2
<1> QED BY <1>1, <1>2, <1>3

(* What is painted was found, and what nothing covers is not painted. *)
LEMMA StripOfPInv == PInv /\ Len(journal) <= EventLimit => StripIsTrue
<1> SUFFICES ASSUME PInv, Len(journal) <= EventLimit, NEW w \in Past, Points(w[1], w[2]) # {}, NEW t \in w[1]..(w[2] - 1)
             PROVE  /\ Strip(w[1], w[2])[t] # Unknown <=> Close(Points(w[1], w[2]), w[1], w[2], t)
                    /\ Strip(w[1], w[2])[t] # Unknown /\ FirstReading <= t => Strip(w[1], w[2])[t] = SeenAt(t)
  BY DEF StripIsTrue, Close
<1> DEFINE from == w[1]
           to == w[2]
           P == Points(from, to)
<1>1. from \in Int /\ to \in Int /\ t \in Int /\ from <= t /\ t < to /\ t <= to /\ from >= 0 /\ to <= clock /\ clock \in Nat
  BY PastWindow
<1>2. Times \subseteq 1..clock /\ P \subseteq from..to
  BY <1>1, PointsIn
<1> DEFINE painted == \E s \in Segments(from, to) : s.from <= t /\ t < s.to
<1>3. Strip(from, to)[t] = IF painted THEN Told(Shown(from, to), from, t) ELSE Unknown
  BY DEF Strip, Shown
<1>4. painted <=> Covered(P, from, to, t)
  BY SegmentsCover
<1> HIDE DEF from, to, P, painted
<1>5. painted <=> Close(P, from, to, t)
  <2>1. P # {}
    BY DEF P, from, to
  <2> QED BY <1>1, <1>2, <1>4, <2>1, CoveredIsClose, CloseIsCovered
<1>6. Told(Shown(from, to), from, t) = LevelBefore(t + 1)
  BY <1>1, ToldIsLevel
<1>7. LevelBefore(t + 1) \in Levels
  BY JournalFacts, LevelIsIn, LevelIsLevel
<1>8. Strip(from, to)[t] # Unknown <=> Close(P, from, to, t)
  BY <1>3, <1>5, <1>6, <1>7, Lengths
<1>9. ASSUME Strip(from, to)[t] # Unknown, FirstReading <= t
      PROVE  Strip(from, to)[t] = SeenAt(t)
  <2>1. Times # {}
    BY DEF P, from, to, Points
  <2>2. FirstReading \in Times /\ FirstReading >= 1 /\ FirstReading \in Nat
    BY <2>1, FirstIsRead
  <2>3. t \in 1..clock
    BY <1>1, <1>9, <2>2
  <2>4. LevelBefore(t + 1) = SeenAt(t)
    BY <1>9, <2>2, <2>3 DEF PInv, TellsTheReadings
  <2> QED BY <1>3, <1>6, <1>9, <2>4
<1> QED BY <1>8, <1>9 DEF from, to, P

-----------------------------------------------------------------------------
(***************************************************************************)
(* Reports of neighbouring periods.                                        *)
(***************************************************************************)

(* The time without Internet. *)

PartOf(from, to, now) == [i \in DOMAIN outages |-> Part(outages[i], from, to, now)]

LEMMA PartFacts ==
    ASSUME PInv, NEW from \in Int, NEW to \in Int, NEW now \in Int, NEW i \in DOMAIN outages
    PROVE  /\ PartOf(from, to, now)[i] = Part(outages[i], from, to, now)
           /\ Part(outages[i], from, to, now) \in Int
           /\ from <= to /\ i \notin OutagesIn(from, to) => Part(outages[i], from, to, now) = 0
<1> DEFINE o == outages[i]
<1>1. o.start \in Int /\ o.end \in Int
  BY OutageFacts
<1>2. PartOf(from, to, now)[i] = Part(o, from, to, now)
  BY DEF PartOf
<1>3. i \in OutagesIn(from, to) <=> o.start <= to /\ (o.end = Open \/ o.end >= from)
  BY DEF OutagesIn
<1> HIDE DEF o
<1>4. Part(o, from, to, now) \in Int
  BY <1>1 DEF Part, Ongoing
<1>5. ASSUME from <= to, i \notin OutagesIn(from, to)
      PROVE  Part(o, from, to, now) = 0
  BY <1>1, <1>3, <1>5 DEF Part, Ongoing
<1> QED BY <1>2, <1>4, <1>5 DEF o

LEMMA PartsAdd ==
    ASSUME PInv, NEW from \in Int, NEW mid \in Int, NEW to \in Int, NEW now \in Int, from <= mid, mid <= to,
           NEW i \in DOMAIN outages
    PROVE  Part(outages[i], from, to, now) = Part(outages[i], from, mid, now) + Part(outages[i], mid, to, now)
<1> DEFINE o == outages[i]
           z == IF Ongoing(o) THEN now ELSE o.end
<1>1. o.start \in Int /\ z \in Int
  BY OutageFacts
<1> DEFINE First(a) == IF o.start < a THEN a ELSE o.start
           Last1(b) == IF z > b THEN b ELSE z
<1>2. \A a \in Int, b \in Int : Part(o, a, b, now) = IF Last1(b) > First(a) THEN Last1(b) - First(a) ELSE 0
  BY DEF Part
<1>3. /\ Part(o, from, to, now) = IF Last1(to) > First(from) THEN Last1(to) - First(from) ELSE 0
      /\ Part(o, from, mid, now) = IF Last1(mid) > First(from) THEN Last1(mid) - First(from) ELSE 0
      /\ Part(o, mid, to, now) = IF Last1(to) > First(mid) THEN Last1(to) - First(mid) ELSE 0
  <2> HIDE DEF o, z, First, Last1
  <2> QED BY <1>2
<1>4. PICK b \in Int : b = o.start
  BY <1>1
<1>5. PICK c \in Int : c = z
  BY <1>1
<1>6. /\ First(from) = (IF b < from THEN from ELSE b) /\ First(mid) = (IF b < mid THEN mid ELSE b)
      /\ Last1(mid) = (IF c > mid THEN mid ELSE c) /\ Last1(to) = (IF c > to THEN to ELSE c)
  BY <1>4, <1>5
<1> HIDE DEF o, z, First, Last1
<1>7. Part(o, from, to, now) = Part(o, from, mid, now) + Part(o, mid, to, now)
  BY <1>3, <1>6
<1> QED BY <1>7 DEF o

LEMMA AllParts ==
    ASSUME PInv, NEW from \in Int, NEW to \in Int, NEW now \in Int
    PROVE  \A i \in DOMAIN outages :
              PartOf(from, to, now)[i] = Part(outages[i], from, to, now) /\ PartOf(from, to, now)[i] \in Int
<1> SUFFICES ASSUME NEW i \in DOMAIN outages
             PROVE  PartOf(from, to, now)[i] = Part(outages[i], from, to, now) /\ PartOf(from, to, now)[i] \in Int
  OBVIOUS
<1>1. PartOf(from, to, now)[i] = Part(outages[i], from, to, now) /\ Part(outages[i], from, to, now) \in Int
  BY PartFacts
<1> QED BY <1>1

LEMMA AllPartsAdd ==
    ASSUME PInv, NEW from \in Int, NEW mid \in Int, NEW to \in Int, NEW now \in Int, from <= mid, mid <= to
    PROVE  \A i \in DOMAIN outages :
              Part(outages[i], from, to, now) = Part(outages[i], from, mid, now) + Part(outages[i], mid, to, now)
BY PartsAdd

LEMMA DownTimeIs ==
    ASSUME PInv, NEW S \in SUBSET DOMAIN outages, NEW from \in Int, NEW to \in Int, NEW now \in Int
    PROVE  /\ DownTime(S, from, to, now) = SumOf(PartOf(from, to, now), S)
           /\ DownTime(S, from, to, now) \in Int /\ IsFiniteSet(S)
<1> DEFINE f(i) == Part(outages[i], from, to, now)
           h == [i \in S |-> f(i)]
           g == PartOf(from, to, now)
<1>1. IsFiniteSet(S)
  BY FiniteTables, FS_Subset
<1>2. MapThenSumSet(f, S) = SumOf([i \in S |-> f(i)], S)
  BY SumOfFunction
<1>3. DownTime(S, from, to, now) = MapThenSumSet(f, S)
  BY DEF DownTime
<1>4. ASSUME NEW i \in S PROVE h[i] \in Int /\ h[i] = g[i] /\ g[i] \in Int
  <2>1. i \in DOMAIN outages /\ h[i] = Part(outages[i], from, to, now)
    OBVIOUS
  <2>2. g[i] = Part(outages[i], from, to, now) /\ g[i] \in Int
    BY <2>1, AllParts
  <2> HIDE DEF g, h
  <2> QED BY <2>1, <2>2
<1>5. DownTime(S, from, to, now) = SumOf(h, S)
  BY <1>2, <1>3
<1> HIDE DEF h, g
<1>6. SumOf(h, S) = SumOf(g, S) /\ SumOf(g, S) \in Int
  BY <1>1, <1>4, SumEqual, SumTakesOut
<1> QED BY <1>1, <1>5, <1>6 DEF g

(* Whatever the kind: the outages of a kind are those of K.                  *)
LEMMA DownTimesAdd ==
    ASSUME PInv, NEW from \in Int, NEW mid \in Int, NEW to \in Int, NEW now \in Int, from <= mid, mid <= to,
           NEW K \in SUBSET DOMAIN outages
    PROVE  DownTime(K \cap OutagesIn(from, mid), from, mid, now) + DownTime(K \cap OutagesIn(mid, to), mid, to, now)
           = DownTime(K \cap OutagesIn(from, to), from, to, now)
<1> DEFINE g == PartOf(from, mid, now)
           h == PartOf(mid, to, now)
           k == PartOf(from, to, now)
           A == K \cap OutagesIn(from, mid)
           B == K \cap OutagesIn(mid, to)
           C == K \cap OutagesIn(from, to)
<1>0. from <= to
  OBVIOUS
<1>1. A \in SUBSET K /\ B \in SUBSET K /\ C \in SUBSET K /\ IsFiniteSet(K)
  BY FiniteTables, FS_Subset
<1>2. /\ DownTime(A, from, mid, now) = SumOf(g, A)
      /\ DownTime(B, mid, to, now) = SumOf(h, B)
      /\ DownTime(C, from, to, now) = SumOf(k, C)
  BY DownTimeIs
<1>p. \A i \in DOMAIN outages : g[i] = Part(outages[i], from, mid, now) /\ g[i] \in Int
  BY AllParts
<1>q. \A i \in DOMAIN outages : h[i] = Part(outages[i], mid, to, now) /\ h[i] \in Int
  BY AllParts
<1>r. \A i \in DOMAIN outages : k[i] = Part(outages[i], from, to, now) /\ k[i] \in Int
  BY AllParts
<1>s. \A i \in DOMAIN outages :
        Part(outages[i], from, to, now) = Part(outages[i], from, mid, now) + Part(outages[i], mid, to, now)
  BY AllPartsAdd
<1>3. ASSUME NEW i \in K PROVE g[i] \in Int /\ h[i] \in Int /\ k[i] = g[i] + h[i] /\ k[i] \in Int
  <2>1. i \in DOMAIN outages
    OBVIOUS
  <2> HIDE DEF A, B, C
  <2>2. g[i] = Part(outages[i], from, mid, now) /\ g[i] \in Int
    BY <1>p, <2>1
  <2>3. h[i] = Part(outages[i], mid, to, now) /\ h[i] \in Int
    BY <1>q, <2>1
  <2>4. k[i] = Part(outages[i], from, to, now) /\ k[i] \in Int
    BY <1>r, <2>1
  <2>5. Part(outages[i], from, to, now) = Part(outages[i], from, mid, now) + Part(outages[i], mid, to, now)
    BY <1>s, <2>1
  <2> HIDE DEF g, h, k
  <2> QED BY <2>2, <2>3, <2>4, <2>5
<1>4. /\ \A i \in K \ A : g[i] = 0
      /\ \A i \in K \ B : h[i] = 0
      /\ \A i \in K \ C : k[i] = 0
  BY <1>0, PartFacts
<1> HIDE DEF g, h, k, A, B, C
<1>5. SumOf(g, A) = SumOf(g, K)
  BY <1>1, <1>3, <1>4, SumOfPart
<1>6. SumOf(h, B) = SumOf(h, K)
  BY <1>1, <1>3, <1>4, SumOfPart
<1>7. SumOf(k, C) = SumOf(k, K)
  BY <1>1, <1>3, <1>4, SumOfPart
<1>8. SumOf(k, K) = SumOf(g, K) + SumOf(h, K)
  BY <1>1, <1>3, SumPlus
<1> QED BY <1>2, <1>5, <1>6, <1>7, <1>8 DEF A, B, C

-----------------------------------------------------------------------------
(* What the outages are worth. *)

LEMMA CompensationIsInt ==
    ASSUME NEW d \in Int
    PROVE  Compensation(d) \in Int
<1>1. Day \in Nat /\ Day > 0 /\ PeriodFee \in Nat /\ Threshold \in Nat
  BY Lengths
<1>2. d \div Day \in Int /\ (d + Day - 1) \div Day \in Int
  BY <1>1
<1>3. Scale(d) \in Int
  BY <1>2 DEF Scale
<1>4. PeriodFee * ((d + Day - 1) \div Day) \in Int
  BY <1>1, <1>2
<1> DEFINE x == Scale(d)
           y == PeriodFee * ((d + Day - 1) \div Day)
<1>5. Max({x, y}) \in Int
  <2> HIDE DEF x, y
  <2>1. x \in Int /\ y \in Int
    BY <1>3, <1>4 DEF x, y
  <2>2. IsFiniteSet({x, y})
    <3>1. IsFiniteSet({x}) /\ {x} \cup {y} = {x, y}
      BY FS_Singleton
    <3> QED BY <3>1, FS_AddElement
  <2>3. Max({x, y}) \in {x, y}
    <3>1. {x, y} \subseteq Int /\ {x, y} # {}
      BY <2>1
    <3> QED BY <2>2, <3>1, MaxExists
  <2> QED BY <2>1, <2>3
<1> QED BY <1>5 DEF Compensation

WorthOf(now) == [i \in DOMAIN outages |-> Compensation(Duration(outages[i], now))]

LEMMA CompensationIs ==
    ASSUME PInv, NEW S \in SUBSET DOMAIN outages, NEW now \in Int
    PROVE  /\ CompensationTotal(S, now) = SumOf(WorthOf(now), S) /\ IsFiniteSet(S)
           /\ \A i \in S : WorthOf(now)[i] \in Int
<1> DEFINE f(i) == Compensation(Duration(outages[i], now))
           h == [i \in S |-> f(i)]
           g == WorthOf(now)
<1>1. IsFiniteSet(S)
  BY FiniteTables, FS_Subset
<1>2. MapThenSumSet(f, S) = SumOf([i \in S |-> f(i)], S)
  BY SumOfFunction
<1>3. CompensationTotal(S, now) = MapThenSumSet(f, S)
  BY DEF CompensationTotal
<1>4. ASSUME NEW i \in S PROVE h[i] \in Int /\ h[i] = g[i]
  <2>1. outages[i].start \in Int /\ outages[i].end \in Int
    BY OutageFacts
  <2>2. Duration(outages[i], now) \in Int
    BY <2>1 DEF Duration
  <2>3. f(i) \in Int
    BY <2>2, CompensationIsInt
  <2>4. g[i] = f(i)
    BY DEF WorthOf
  <2> HIDE DEF f, g
  <2> QED BY <2>3, <2>4
<1>5. CompensationTotal(S, now) = SumOf(h, S)
  BY <1>2, <1>3
<1> HIDE DEF h, g
<1>6. SumOf(h, S) = SumOf(g, S)
  BY <1>1, <1>4, SumEqual
<1> QED BY <1>1, <1>4, <1>5, <1>6 DEF g

(* The outages of two periods that meet are those of both. *)
LEMMA OutagesMeet ==
    ASSUME PInv, NEW from \in Int, NEW mid \in Int, NEW to \in Int, from <= mid, mid <= to
    PROVE  OutagesIn(from, mid) \cup OutagesIn(mid, to) = OutagesIn(from, to)
<1>1. ASSUME NEW i \in DOMAIN outages
      PROVE  i \in OutagesIn(from, mid) \/ i \in OutagesIn(mid, to) <=> i \in OutagesIn(from, to)
  <2> DEFINE o == outages[i]
  <2>1. o.start \in Int /\ o.end \in Int /\ (o.end = Open \/ o.start <= o.end)
    BY OutageFacts
  <2>2. /\ i \in OutagesIn(from, mid) <=> o.start <= mid /\ (o.end = Open \/ o.end >= from)
        /\ i \in OutagesIn(mid, to) <=> o.start <= to /\ (o.end = Open \/ o.end >= mid)
        /\ i \in OutagesIn(from, to) <=> o.start <= to /\ (o.end = Open \/ o.end >= from)
    BY DEF OutagesIn
  <2> HIDE DEF o
  <2> QED BY <2>1, <2>2
<1> QED BY <1>1 DEF OutagesIn

LEMMA CutsMeet ==
    ASSUME PInv, NEW from \in Int, NEW mid \in Int, NEW to \in Int, NEW now \in Int, from <= mid, mid <= to
    PROVE  LET A == OfLine(outages, OutagesIn(from, mid))
               B == OfLine(outages, OutagesIn(mid, to))
               C == OfLine(outages, OutagesIn(from, to))
               both == OfLine(outages, Straddling(from, mid, to))
           IN /\ Cardinality(A) + Cardinality(B) = Cardinality(C) + Cardinality(both)
              /\ CompensationTotal(A, now) + CompensationTotal(B, now)
                 = CompensationTotal(C, now) + CompensationTotal(both, now)
<1> DEFINE A == OfLine(outages, OutagesIn(from, mid))
           B == OfLine(outages, OutagesIn(mid, to))
           C == OfLine(outages, OutagesIn(from, to))
           both == OfLine(outages, Straddling(from, mid, to))
<1>1. A \cup B = C /\ A \cap B = both
  BY OutagesMeet DEF OfLine, Straddling
<1>2. A \in SUBSET DOMAIN outages /\ B \in SUBSET DOMAIN outages /\ C \in SUBSET DOMAIN outages /\ both \in SUBSET DOMAIN outages
  BY DEF OfLine, OutagesIn, Straddling
<1> HIDE DEF A, B, C, both
<1> DEFINE g == WorthOf(now)
<1>3. /\ CompensationTotal(A, now) = SumOf(g, A) /\ CompensationTotal(B, now) = SumOf(g, B)
      /\ CompensationTotal(C, now) = SumOf(g, C) /\ CompensationTotal(both, now) = SumOf(g, both)
      /\ IsFiniteSet(A) /\ IsFiniteSet(B) /\ \A i \in C : g[i] \in Int
  BY <1>2, CompensationIs
<1> HIDE DEF g
<1>4. SumOf(g, A) + SumOf(g, B) = SumOf(g, C) + SumOf(g, both)
  BY <1>1, <1>3, SumOverlap
<1>5. Cardinality(A) + Cardinality(B) = Cardinality(C) + Cardinality(both)
  BY <1>1, <1>3, CountTwice
<1> QED BY <1>3, <1>4, <1>5 DEF A, B, C, both

-----------------------------------------------------------------------------
(* The errors. *)

GrowthOf == [t \in Times |-> Growth(t)]
Before(from) == {t \in Times : t < from}
StartAt(from) == IF Before(from) = {} THEN from ELSE Max(Before(from))
Span(from, to) == {t \in Times : StartAt(from) <= t /\ t <= to}

LEMMA ErrorsOfSpan ==
    ASSUME NEW from, NEW to
    PROVE  ErrorTotals(from, to) = IF Span(from, to) = {} THEN 0
                                   ELSE readings[Max(Span(from, to))].lost - readings[Min(Span(from, to))].lost
BY DEF ErrorTotals, Span, StartAt, Before

LEMMA ReadingFacts ==
    ASSUME PInv
    PROVE  /\ Times \subseteq 1..clock /\ clock \in Nat /\ IsFiniteSet(Times) /\ Times \subseteq Int
           /\ \A t \in Times : t \in Nat /\ readings[t].lost \in Nat
<1>1. Times \subseteq 1..clock /\ clock \in Nat /\ \A t \in Times : readings[t] \in Line
  BY TableFacts, Lengths
<1>2. \A t \in Times : readings[t].lost \in Nat
  BY <1>1 DEF Line
<1>3. \A t \in Times : t \in Nat
  BY <1>1
<1>4. IsFiniteSet(Times)
  BY FiniteTables
<1> QED BY <1>1, <1>2, <1>3, <1>4

LEMMA GrowthIsInt ==
    ASSUME PInv
    PROVE  \A t \in Times : GrowthOf[t] = Growth(t) /\ Growth(t) \in Int
<1> SUFFICES ASSUME NEW t \in Times PROVE GrowthOf[t] = Growth(t) /\ Growth(t) \in Int
  OBVIOUS
<1>1. GrowthOf[t] = Growth(t)
  BY DEF GrowthOf
<1>2. Growth(t) = IF Before(t) = {} THEN 0 ELSE readings[t].lost - readings[Max(Before(t))].lost
  BY DEF Growth, Before
<1>3. Before(t) \in SUBSET Times
  BY DEF Before
<1>4. Before(t) # {} => Max(Before(t)) \in Times
  BY <1>3, ReadingFacts, Extremes
<1> QED BY <1>1, <1>2, <1>4, ReadingFacts

(* The dates a period counts from. *)
LEMMA StartFacts ==
    ASSUME PInv, NEW from \in Int
    PROVE  /\ StartAt(from) \in Int /\ StartAt(from) <= from
           /\ Before(from) # {} => StartAt(from) \in Times /\ StartAt(from) < from
           /\ \A u \in Times : u < from => u <= StartAt(from) /\ Before(from) # {}
<1>1. Before(from) \in SUBSET Times
  BY DEF Before
<1>2. CASE Before(from) = {}
  BY <1>2 DEF StartAt, Before
<1>3. CASE Before(from) # {}
  <2>1. Max(Before(from)) \in Before(from) /\ Max(Before(from)) \in Int /\ \A u \in Before(from) : u <= Max(Before(from))
    BY <1>1, <1>3, ReadingFacts, Extremes
  <2>2. StartAt(from) = Max(Before(from))
    BY <1>3 DEF StartAt
  <2> QED BY <1>3, <2>1, <2>2 DEF Before
<1> QED BY <1>2, <1>3

LEMMA NoErrorsYet ==
    ASSUME PInv, NEW from \in Int
    PROVE  ErrorTotals(from, from - 1) = 0
<1> DEFINE S == Span(from, from - 1)
<1>1. CASE Before(from) = {}
  <2>1. \A t \in Times : ~(StartAt(from) <= t /\ t <= from - 1)
    BY <1>1, StartFacts, ReadingFacts
  <2>2. S = {}
    BY <2>1 DEF Span
  <2> QED BY <2>2, ErrorsOfSpan
<1>2. CASE Before(from) # {}
  <2> DEFINE m == StartAt(from)
  <2>1. m \in Times /\ m < from /\ m \in Int /\ \A u \in Times : u < from => u <= m
    BY <1>2, StartFacts
  <2>2. \A u \in Times : m <= u /\ u <= from - 1 <=> u = m
    BY <2>1, ReadingFacts
  <2>3. S = {m}
    BY <2>1, <2>2 DEF Span
  <2> HIDE DEF m
  <2>4. Max({m}) = m /\ Min({m}) = m
    <3>1. {m} \subseteq Int /\ m \in {m} /\ (\A y \in {m} : y <= m) /\ \A y \in {m} : m <= y
      BY <2>1
    <3> QED BY <3>1, MaxIs, MinIs
  <2>5. ErrorTotals(from, from - 1) = readings[m].lost - readings[m].lost
    BY <2>3, <2>4, ErrorsOfSpan
  <2>6. readings[m].lost \in Nat
    BY <2>1, ReadingFacts
  <2> QED BY <2>5, <2>6
<1> QED BY <1>1, <1>2

(* One more reading adds what it found. *)
LEMMA OneMoreReading ==
    ASSUME PInv, NEW from \in Int, NEW to \in Int, from <= to + 1
    PROVE  /\ to + 1 \notin Times => ErrorTotals(from, to + 1) = ErrorTotals(from, to)
           /\ to + 1 \in Times => ErrorTotals(from, to + 1) = ErrorTotals(from, to) + Growth(to + 1)
           /\ ErrorTotals(from, to) \in Int
<1> DEFINE n == to + 1
           S == Span(from, to)
           T == Span(from, n)
<1>1. n \in Int /\ S \in SUBSET Times /\ T \in SUBSET Times
  BY DEF Span
<1>2. ASSUME n \notin Times PROVE T = S
  <2>1. \A t \in Times : t <= n <=> t <= to
    BY <1>2, ReadingFacts
  <2> QED BY <2>1 DEF Span
<1>3. S # {} => /\ Min(S) \in S /\ Min(S) \in Int /\ \A q \in S : Min(S) <= q
                /\ Max(S) \in S /\ Max(S) \in Int /\ \A q \in S : q <= Max(S)
  BY <1>1, ReadingFacts, Extremes
<1>4. ErrorTotals(from, to) \in Int
  <2>1. S # {} => readings[Max(S)].lost \in Nat /\ readings[Min(S)].lost \in Nat
    <3> HIDE DEF S
    <3> QED BY <1>1, <1>3, ReadingFacts
  <2>2. ErrorTotals(from, to) = IF S = {} THEN 0 ELSE readings[Max(S)].lost - readings[Min(S)].lost
    BY ErrorsOfSpan
  <2> HIDE DEF S
  <2> QED BY <2>1, <2>2
<1>5. ASSUME n \in Times
      PROVE  ErrorTotals(from, n) = ErrorTotals(from, to) + Growth(n)
  <2>1. T = S \cup {n} /\ \A q \in S : q < n
    <3>1. StartAt(from) <= n
      BY StartFacts
    <3>2. \A t \in Times : t <= n <=> t <= to \/ t = n
      BY ReadingFacts
    <3>3. \A t \in Times : t <= to => t < n
      BY ReadingFacts
    <3> QED BY <1>5, <3>1, <3>2, <3>3 DEF Span
  <2>2. Growth(n) = IF Before(n) = {} THEN 0 ELSE readings[n].lost - readings[Max(Before(n))].lost
    BY DEF Growth, Before
  <2>3. readings[n].lost \in Nat
    BY <1>5, ReadingFacts
  <2>4. Max(T) = n
    <3>1. T \subseteq Int /\ n \in T /\ \A y \in T : y <= n
      BY <1>1, <2>1, ReadingFacts
    <3> HIDE DEF T, n
    <3> QED BY <3>1, MaxIs
  <2>5. ErrorTotals(from, n) = readings[n].lost - readings[Min(T)].lost
    <3>1. T # {}
      BY <2>1
    <3> QED BY <2>4, <3>1, ErrorsOfSpan
  <2>6. CASE S = {}
    <3>1. Before(n) = {}
      <4> SUFFICES ASSUME NEW u \in Times, u < n PROVE FALSE
        BY DEF Before
      <4>1. u \in Int /\ u <= to
        BY ReadingFacts
      <4>2. CASE u < from
        <5>1. StartAt(from) \in Times /\ StartAt(from) < from /\ StartAt(from) \in Int
          BY <4>2, StartFacts
        <5>2. StartAt(from) <= StartAt(from) /\ StartAt(from) <= to
          BY <5>1
        <5>3. StartAt(from) \in S
          BY <5>1, <5>2 DEF Span
        <5> QED BY <2>6, <5>3
      <4>3. CASE u >= from
        <5>1. StartAt(from) <= u
          BY <4>1, <4>3, StartFacts
        <5> QED BY <2>6, <4>1, <5>1 DEF Span
      <4> QED BY <4>1, <4>2, <4>3
    <3>2. Min(T) = n
      <4>1. T = {n}
        BY <2>1, <2>6
      <4> HIDE DEF T, n
      <4>2. {n} \subseteq Int /\ n \in {n} /\ \A y \in {n} : n <= y
        BY <1>1
      <4> QED BY <4>1, <4>2, MinIs
    <3>3. ErrorTotals(from, to) = 0
      BY <2>6, ErrorsOfSpan
    <3> HIDE DEF n, S, T
    <3> QED BY <2>2, <2>3, <2>5, <3>1, <3>2, <3>3
  <2>7. CASE S # {}
    <3>1. Min(T) = Min(S)
      <4>1. T \subseteq Int /\ Min(S) \in T /\ \A y \in T : Min(S) <= y
        <5>1. Min(S) < n
          BY <1>3, <2>1, <2>7
        <5>2. \A y \in T : Min(S) <= y
          <6> HIDE DEF S, T, n
          <6> QED BY <1>1, <1>3, <2>1, <2>7, <5>1
        <5> HIDE DEF S, T, n
        <5> QED BY <1>1, <1>3, <2>1, <2>7, <5>2, ReadingFacts
      <4> HIDE DEF S, T
      <4> QED BY <4>1, MinIs
    <3>2. Before(n) # {} /\ Max(Before(n)) = Max(S)
      <4>1. Max(S) \in Before(n)
        <5> HIDE DEF S, n
        <5> QED BY <1>1, <1>3, <2>1, <2>7 DEF Before
      <4>2. \A u \in Before(n) : u <= Max(S)
        <5> SUFFICES ASSUME NEW u \in Times, u < n PROVE u <= Max(S)
          BY DEF Before
        <5>1. u \in Int /\ u <= to
          BY ReadingFacts
        <5>2. CASE StartAt(from) <= u
          <6>1. u \in S
            BY <5>1, <5>2 DEF Span
          <6> QED BY <1>3, <2>7, <6>1
        <5>3. CASE ~(StartAt(from) <= u)
          <6>1. StartAt(from) <= Max(S) /\ StartAt(from) \in Int
            BY <1>3, <2>7, StartFacts DEF Span
          <6> HIDE DEF S
          <6> QED BY <1>3, <2>7, <5>1, <5>3, <6>1
        <5> QED BY <5>2, <5>3
      <4>3. Before(n) \subseteq Int
        BY ReadingFacts DEF Before
      <4> HIDE DEF S, n
      <4> QED BY <4>1, <4>2, <4>3, MaxIs
    <3>3. ErrorTotals(from, to) = readings[Max(S)].lost - readings[Min(S)].lost
      BY <2>7, ErrorsOfSpan
    <3>4. readings[Max(S)].lost \in Nat /\ readings[Min(S)].lost \in Nat
      <4> HIDE DEF S
      <4> QED BY <1>1, <1>3, <2>7, ReadingFacts
    <3>5. ErrorTotals(from, n) = readings[n].lost - readings[Min(S)].lost
      BY <2>5, <3>1
    <3>6. Growth(n) = readings[n].lost - readings[Max(S)].lost
      BY <2>2, <3>2
    <3> HIDE DEF n, S, T
    <3> QED BY <2>3, <3>3, <3>4, <3>5, <3>6
  <2> QED BY <2>6, <2>7
<1>6. n \notin Times => ErrorTotals(from, n) = ErrorTotals(from, to)
  BY <1>2, ErrorsOfSpan
<1> QED BY <1>4, <1>5, <1>6

(* The errors of a period are those its readings found. *)
LEMMA ErrorsAre ==
    ASSUME PInv, NEW from \in Int, NEW to \in Int, from <= to + 1
    PROVE  ErrorTotals(from, to) = SumOf(GrowthOf, Points(from, to))
<1> DEFINE G == {n \in Nat : ErrorTotals(from, from - 1 + n) = SumOf(GrowthOf, Points(from, from - 1 + n))}
<1>1. 0 \in G
  <2>1. from - 1 + 0 = from - 1 /\ 0 \in Nat
    OBVIOUS
  <2>2. Points(from, from - 1) = {}
    <3>1. \A t \in Times : ~(from <= t /\ t <= from - 1)
      BY ReadingFacts
    <3> QED BY <3>1 DEF Points
  <2>3. SumOf(GrowthOf, {}) = 0
    BY SumUnfolds, FS_EmptySet
  <2> QED BY <2>1, <2>2, <2>3, NoErrorsYet
<1>2. ASSUME NEW n \in Nat, n \in G PROVE n + 1 \in G
  <2> DEFINE d == from - 1 + n
             P == Points(from, d)
             Q == Points(from, d + 1)
  <2>1. d \in Int /\ from - 1 + (n + 1) = d + 1 /\ n + 1 \in Nat /\ from <= d + 1
    OBVIOUS
  <2>2. ErrorTotals(from, d) = SumOf(GrowthOf, P)
    BY <1>2
  <2> HIDE DEF d
  <2>3. CASE d + 1 \notin Times
    <3>1. \A t \in Times : t <= d + 1 <=> t <= d
      BY <2>1, <2>3, ReadingFacts
    <3>2. Q = P
      BY <3>1 DEF Points
    <3>3. ErrorTotals(from, d + 1) = ErrorTotals(from, d)
      BY <2>1, <2>3, OneMoreReading
    <3> QED BY <2>1, <2>2, <3>2, <3>3
  <2>4. CASE d + 1 \in Times
    <3>1. \A t \in Times : t <= d + 1 <=> t <= d \/ t = d + 1
      BY <2>1, ReadingFacts
    <3>2. d + 1 \in Q /\ Q \ {d + 1} = P
      <4>1. ~(d + 1 <= d)
        BY <2>1
      <4> QED BY <2>1, <2>4, <3>1, <4>1 DEF Points
    <3>3. Q \in SUBSET Times
      BY DEF Points
    <3> HIDE DEF P, Q
    <3>4. IsFiniteSet(Q) /\ \A t \in Q : GrowthOf[t] \in Int
      BY <3>3, ReadingFacts, FS_Subset, GrowthIsInt
    <3>5. SumOf(GrowthOf, Q) = GrowthOf[d + 1] + SumOf(GrowthOf, P)
      BY <3>2, <3>4, SumTakesOut
    <3>6. ErrorTotals(from, d + 1) = ErrorTotals(from, d) + Growth(d + 1) /\ ErrorTotals(from, d) \in Int
      BY <2>1, <2>4, OneMoreReading
    <3>7. GrowthOf[d + 1] = Growth(d + 1) /\ Growth(d + 1) \in Int
      BY <2>4, GrowthIsInt
    <3>8. ErrorTotals(from, d + 1) = SumOf(GrowthOf, Q)
      BY <2>2, <3>5, <3>6, <3>7
    <3> QED BY <2>1, <3>8 DEF Q
  <2> QED BY <2>3, <2>4
<1>3. \A n \in Nat : n \in G
  <2> HIDE DEF G
  <2> QED BY <1>1, <1>2, Counting
<1>4. to - (from - 1) \in Nat /\ from - 1 + (to - (from - 1)) = to
  OBVIOUS
<1>5. to - (from - 1) \in G
  <2> HIDE DEF G
  <2> QED BY <1>3, <1>4
<1> QED BY <1>4, <1>5

LEMMA PointsMeet ==
    ASSUME PInv, NEW from \in Int, NEW mid \in Int, NEW to \in Int, from <= mid, mid <= to
    PROVE  ErrorTotals(from, mid) + ErrorTotals(mid, to)
           = ErrorTotals(from, to) + (IF mid \in Times THEN Growth(mid) ELSE 0)
<1> DEFINE A == Points(from, mid)
           B == Points(mid, to)
           C == Points(from, to)
           D == {mid} \cap Times
<1>1. A \cup B = C /\ A \cap B = D
  <2>1. \A t \in Times : (from <= t /\ t <= mid) \/ (mid <= t /\ t <= to) <=> from <= t /\ t <= to
    BY ReadingFacts
  <2>2. \A t \in Times : (from <= t /\ t <= mid) /\ (mid <= t /\ t <= to) <=> t = mid
    BY ReadingFacts
  <2> QED BY <2>1, <2>2 DEF Points
<1>2. A \in SUBSET Times /\ B \in SUBSET Times /\ D \in SUBSET Times
  BY DEF Points
<1>3. from <= to /\ from <= mid + 1 /\ mid <= to + 1 /\ from <= to + 1
  OBVIOUS
<1>4. ErrorTotals(from, mid) = SumOf(GrowthOf, A) /\ ErrorTotals(mid, to) = SumOf(GrowthOf, B) /\ ErrorTotals(from, to) = SumOf(GrowthOf, C)
  BY <1>3, ErrorsAre
<1>5. SumOf(GrowthOf, D) = IF mid \in Times THEN Growth(mid) ELSE 0
  <2>1. CASE mid \notin Times
    <3>1. D = {}
      BY <2>1
    <3> QED BY <2>1, <3>1, SumUnfolds, FS_EmptySet
  <2>2. CASE mid \in Times
    <3>1. D = {mid} /\ D \ {mid} = {}
      BY <2>2
    <3>2. IsFiniteSet(D) /\ \A t \in D : GrowthOf[t] \in Int
      BY <1>2, ReadingFacts, FS_Subset, GrowthIsInt
    <3> HIDE DEF D
    <3>3. SumOf(GrowthOf, D) = GrowthOf[mid] + SumOf(GrowthOf, {})
      BY <3>1, <3>2, SumTakesOut
    <3>4. SumOf(GrowthOf, {}) = 0
      BY SumUnfolds, FS_EmptySet
    <3>5. GrowthOf[mid] = Growth(mid) /\ Growth(mid) \in Int
      BY <2>2, GrowthIsInt
    <3> QED BY <2>2, <3>3, <3>4, <3>5
  <2> QED BY <2>1, <2>2
<1> HIDE DEF A, B, C, D
<1>6. IsFiniteSet(A) /\ IsFiniteSet(B) /\ \A t \in A \cup B : GrowthOf[t] \in Int
  <2>1. IsFiniteSet(A) /\ IsFiniteSet(B)
    BY <1>2, ReadingFacts, FS_Subset
  <2> QED BY <1>2, <2>1, GrowthIsInt
<1>7. SumOf(GrowthOf, A) + SumOf(GrowthOf, B) = SumOf(GrowthOf, A \cup B) + SumOf(GrowthOf, A \cap B)
  BY <1>6, SumOverlap
<1> QED BY <1>1, <1>4, <1>5, <1>7

-----------------------------------------------------------------------------
(* Two reports of neighbouring periods. *)

(* What is counted from the beginning of a period to just before its end is  *)
(* counted in one period only.                                               *)
LEMMA RowsSplit ==
    ASSUME NEW D, NEW f, IsFiniteSet(D), \A i \in D : f[i] \in Int,
           NEW from \in Int, NEW mid \in Int, NEW to \in Int, from <= mid, mid <= to
    PROVE  Cardinality({i \in D : from <= f[i] /\ f[i] < mid}) + Cardinality({i \in D : mid <= f[i] /\ f[i] < to})
           = Cardinality({i \in D : from <= f[i] /\ f[i] < to})
<1> DEFINE A == {i \in D : from <= f[i] /\ f[i] < mid}
           B == {i \in D : mid <= f[i] /\ f[i] < to}
           C == {i \in D : from <= f[i] /\ f[i] < to}
<1>1. A \in SUBSET D /\ B \in SUBSET D
  OBVIOUS
<1>2. IsFiniteSet(A) /\ IsFiniteSet(B)
  BY <1>1, FS_Subset
<1>3. \A i \in D : ~(f[i] < mid /\ mid <= f[i]) /\ (f[i] < mid \/ mid <= f[i])
  OBVIOUS
<1>4. \A i \in D : from <= f[i] /\ f[i] < to <=> (from <= f[i] /\ f[i] < mid) \/ (mid <= f[i] /\ f[i] < to)
  OBVIOUS
<1>5. A \cap B = {} /\ A \cup B = C
  BY <1>3, <1>4
<1> HIDE DEF A, B, C
<1>6. Cardinality(A) + Cardinality(B) = Cardinality(A \cup B)
  BY <1>2, <1>5, CountSplit
<1> QED BY <1>5, <1>6 DEF A, B, C

LEMMA ReadingsSplit ==
    ASSUME PInv, NEW from \in Int, NEW mid \in Int, NEW to \in Int, from <= mid, mid <= to
    PROVE  /\ Cardinality(ReadingsIn(from, mid)) + Cardinality(ReadingsIn(mid, to)) = Cardinality(ReadingsIn(from, to))
           /\ OutOfBand(from, mid) + OutOfBand(mid, to) = OutOfBand(from, to)
<1> DEFINE f == [t \in Times |-> t]
           O == {t \in Times : readings[t].out}
<1>1. /\ \A t \in Times : f[t] = t /\ f[t] \in Int
      /\ \A t \in O : f[t] = t /\ f[t] \in Int
      /\ IsFiniteSet(Times)
  BY ReadingFacts
<1>2. IsFiniteSet(O)
  <2>1. O \in SUBSET Times
    OBVIOUS
  <2> HIDE DEF O
  <2> QED BY <1>1, <2>1, FS_Subset
<1>3. \A a \in Int : \A b \in Int :
        /\ ReadingsIn(a, b) = {t \in Times : a <= f[t] /\ f[t] < b}
        /\ OutOfBand(a, b) = Cardinality({t \in O : a <= f[t] /\ f[t] < b})
  <2> SUFFICES ASSUME NEW a \in Int, NEW b \in Int
               PROVE  /\ ReadingsIn(a, b) = {t \in Times : a <= f[t] /\ f[t] < b}
                      /\ OutOfBand(a, b) = Cardinality({t \in O : a <= f[t] /\ f[t] < b})
    OBVIOUS
  <2>1. ReadingsIn(a, b) = {t \in Times : a <= f[t] /\ f[t] < b}
    BY DEF ReadingsIn
  <2>2. {t \in ReadingsIn(a, b) : readings[t].out} = {t \in O : a <= f[t] /\ f[t] < b}
    BY DEF ReadingsIn
  <2> QED BY <2>1, <2>2 DEF OutOfBand
<1> HIDE DEF f, O
<1>4. Cardinality({t \in Times : from <= f[t] /\ f[t] < mid}) + Cardinality({t \in Times : mid <= f[t] /\ f[t] < to})
      = Cardinality({t \in Times : from <= f[t] /\ f[t] < to})
  <2>1. IsFiniteSet(Times) /\ \A t \in Times : f[t] \in Int
    BY <1>1
  <2> QED BY <2>1, RowsSplit
<1>5. Cardinality({t \in O : from <= f[t] /\ f[t] < mid}) + Cardinality({t \in O : mid <= f[t] /\ f[t] < to})
      = Cardinality({t \in O : from <= f[t] /\ f[t] < to})
  BY <1>1, <1>2, RowsSplit
<1> QED BY <1>3, <1>4, <1>5

LEMMA MicroSplit ==
    ASSUME PInv, NEW from \in Int, NEW mid \in Int, NEW to \in Int, from <= mid, mid <= to
    PROVE  /\ Cardinality(OfLine(micro, MicroCuts(from, mid))) + Cardinality(OfLine(micro, MicroCuts(mid, to)))
              = Cardinality(OfLine(micro, MicroCuts(from, to)))
           /\ Cardinality(OfLocal(micro, MicroCuts(from, mid))) + Cardinality(OfLocal(micro, MicroCuts(mid, to)))
              = Cardinality(OfLocal(micro, MicroCuts(from, to)))
<1> DEFINE f == [i \in DOMAIN micro |-> micro[i].time]
           L == {i \in DOMAIN micro : micro[i].kind # "local"}
           M == {i \in DOMAIN micro : micro[i].kind = "local"}
<1>1. \A i \in DOMAIN micro : f[i] = micro[i].time /\ f[i] \in Int
  BY MicroFacts
<1>2. IsFiniteSet(L) /\ IsFiniteSet(M) /\ (\A i \in L : f[i] \in Int) /\ \A i \in M : f[i] \in Int
  <2>1. L \in SUBSET DOMAIN micro /\ M \in SUBSET DOMAIN micro
    OBVIOUS
  <2> HIDE DEF f, L, M
  <2>2. IsFiniteSet(L) /\ IsFiniteSet(M)
    BY <2>1, FiniteTables, FS_Subset
  <2> QED BY <1>1, <2>1, <2>2
<1>3. \A a \in Int : \A b \in Int :
        /\ OfLine(micro, MicroCuts(a, b)) = {i \in L : a <= f[i] /\ f[i] < b}
        /\ OfLocal(micro, MicroCuts(a, b)) = {i \in M : a <= f[i] /\ f[i] < b}
  BY DEF OfLine, OfLocal, MicroCuts
<1> HIDE DEF f, L, M
<1>4. Cardinality({i \in L : from <= f[i] /\ f[i] < mid}) + Cardinality({i \in L : mid <= f[i] /\ f[i] < to})
      = Cardinality({i \in L : from <= f[i] /\ f[i] < to})
  <2>1. IsFiniteSet(L) /\ \A i \in L : f[i] \in Int
    BY <1>2
  <2> QED BY <2>1, RowsSplit
<1>5. Cardinality({i \in M : from <= f[i] /\ f[i] < mid}) + Cardinality({i \in M : mid <= f[i] /\ f[i] < to})
      = Cardinality({i \in M : from <= f[i] /\ f[i] < to})
  <2>1. IsFiniteSet(M) /\ \A i \in M : f[i] \in Int
    BY <1>2
  <2> QED BY <2>1, RowsSplit
<1> QED BY <1>3, <1>4, <1>5

LEMMA TestsSplit ==
    ASSUME PInv, NEW from \in Int, NEW mid \in Int, NEW to \in Int, from <= mid, mid <= to
    PROVE  Cardinality(SpeedTests(from, mid)) + Cardinality(SpeedTests(mid, to)) = Cardinality(SpeedTests(from, to))
<1> DEFINE f == [i \in DOMAIN tests |-> tests[i].time]
<1>1. IsFiniteSet(DOMAIN tests) /\ \A i \in DOMAIN tests : f[i] \in Int
  <2>1. IsFiniteSet(DOMAIN tests) /\ \A i \in DOMAIN tests : tests[i] \in Test
    BY FiniteTables, TableFacts
  <2> QED BY <2>1 DEF Test
<1>2. \A a \in Int : \A b \in Int : SpeedTests(a, b) = {i \in DOMAIN tests : a <= f[i] /\ f[i] < b}
  BY DEF SpeedTests
<1> HIDE DEF f
<1>3. Cardinality({i \in DOMAIN tests : from <= f[i] /\ f[i] < mid}) + Cardinality({i \in DOMAIN tests : mid <= f[i] /\ f[i] < to})
      = Cardinality({i \in DOMAIN tests : from <= f[i] /\ f[i] < to})
  BY <1>1, RowsSplit
<1> QED BY <1>2, <1>3

LEMMA ToldSplit ==
    ASSUME PInv, NEW from \in Int, NEW mid \in Int, NEW to \in Int, from <= mid, mid <= to, NEW k
    PROVE  Cardinality(EventsBetween(from, mid, {k})) + Cardinality(EventsBetween(mid, to, {k}))
           = Cardinality(EventsBetween(from, to, {k}))
<1> DEFINE f == [i \in DOMAIN journal |-> journal[i].time]
           K == {i \in DOMAIN journal : journal[i].kind = k}
<1>1. IsFiniteSet(K) /\ \A i \in K : f[i] \in Int
  <2>1. K \in SUBSET DOMAIN journal
    OBVIOUS
  <2>2. \A i \in DOMAIN journal : f[i] \in Int
    BY JournalFacts
  <2> HIDE DEF f, K
  <2>3. IsFiniteSet(K)
    BY <2>1, FiniteTables, FS_Subset
  <2> QED BY <2>1, <2>2, <2>3
<1>2. \A a \in Int : \A b \in Int : EventsBetween(a, b, {k}) = {i \in K : a <= f[i] /\ f[i] < b}
  BY DEF EventsBetween
<1> HIDE DEF f, K
<1>3. Cardinality({i \in K : from <= f[i] /\ f[i] < mid}) + Cardinality({i \in K : mid <= f[i] /\ f[i] < to})
      = Cardinality({i \in K : from <= f[i] /\ f[i] < to})
  BY <1>1, RowsSplit
<1> QED BY <1>2, <1>3

LEMMA SharesSplit ==
    ASSUME PInv, NEW l, NEW s \in Nat, NEW mid \in Nat, NEW e \in Nat, s <= mid, mid <= e
    PROVE  Share(l, s, mid) + Share(l, mid, e) = Share(l, s, e)
<1> DEFINE A == Spent(l, s, mid)
           B == Spent(l, mid, e)
           C == Spent(l, s, e)
<1>0. s <= e
  OBVIOUS
<1>1. Share(l, s, mid) = Cardinality(A) /\ Share(l, mid, e) = Cardinality(B) /\ Share(l, s, e) = Cardinality(C)
      /\ IsFiniteSet(A) /\ IsFiniteSet(B)
  BY <1>0, ShareCounts
<1>2. /\ \A t \in s..(mid - 1) : t \in s..(e - 1) /\ t \notin mid..(e - 1)
      /\ \A t \in mid..(e - 1) : t \in s..(e - 1)
      /\ \A t \in s..(e - 1) : t \in s..(mid - 1) \/ t \in mid..(e - 1)
  OBVIOUS
<1>3. A \cap B = {} /\ A \cup B = C
  BY <1>2 DEF Spent
<1> HIDE DEF A, B, C
<1> QED BY <1>1, <1>3, CountSplit

LEMMA AskedWindow ==
    ASSUME PInv, NEW w \in Asked
    PROVE  /\ w[1] \in Nat /\ w[2] \in Nat /\ w[1] < w[2] /\ w[2] <= clock + 1 /\ clock \in Nat
           /\ \A mid \in (w[1] + 1)..(w[2] - 1) :
                mid \in Nat /\ w[1] < mid /\ mid < w[2] /\ mid <= clock
<1>1. clock \in Nat
  BY TableFacts, Lengths
<1>2. w[1] \in 0..(clock + 1) /\ w[2] \in 0..(clock + 1) /\ w[1] < w[2]
  BY DEF Asked
<1>3. ASSUME NEW mid \in (w[1] + 1)..(w[2] - 1)
      PROVE  mid \in Nat /\ w[1] < mid /\ mid < w[2] /\ mid <= clock
  BY <1>1, <1>2
<1> QED BY <1>1, <1>2, <1>3

(* When the line was read before the boundary and goes on being read after   *)
(* it, the first stretch ends and the second begins at the boundary.         *)
LEMMA StretchesMeet ==
    ASSUME PInv, NEW from \in Nat, NEW mid \in Nat, NEW to \in Nat, from < mid, mid < to, mid <= clock, NEW l \in Levels,
           Report(from, mid).readings > 0, Report(mid, to).covered > 0
    PROVE  /\ Report(from, mid).covered + Report(mid, to).covered = Report(from, to).covered
           /\ Report(from, mid).shares[l] + Report(mid, to).shares[l] = Report(from, to).shares[l]
<1> DEFINE readA == ReadingsIn(from, mid) # {} /\ EndOf(mid) > StartOf(from)
           readB == ReadingsIn(mid, to) # {} /\ EndOf(to) > StartOf(mid)
           readC == ReadingsIn(from, to) # {} /\ EndOf(to) > StartOf(from)
           s == StartOf(from)
           e == EndOf(to)
<1>1. /\ Report(from, mid).covered = (IF readA THEN EndOf(mid) - s ELSE 0)
      /\ Report(from, mid).shares[l] = (IF readA THEN Share(l, s, EndOf(mid)) ELSE 0)
      /\ Report(mid, to).covered = (IF readB THEN e - StartOf(mid) ELSE 0)
      /\ Report(mid, to).shares[l] = (IF readB THEN Share(l, StartOf(mid), e) ELSE 0)
      /\ Report(from, to).covered = (IF readC THEN e - s ELSE 0)
      /\ Report(from, to).shares[l] = (IF readC THEN Share(l, s, e) ELSE 0)
      /\ Report(from, mid).readings = Cardinality(ReadingsIn(from, mid))
  BY DEF Report
<1>2. readB
  BY <1>1
<1>3. PICK t \in Times : from <= t /\ t < mid
  <2>1. ReadingsIn(from, mid) # {}
    <3>1. Cardinality({}) = 0
      BY FS_EmptySet
    <3>2. Cardinality(ReadingsIn(from, mid)) > 0
      BY <1>1
    <3> QED BY <3>1, <3>2
  <2> QED BY <2>1 DEF ReadingsIn
<1>4. clock \in Nat /\ t \in Nat /\ FirstReading \in Nat /\ FirstReading <= t /\ Times # {}
  BY ReadingFacts, FirstIsRead
<1>5. EndOf(mid) = mid /\ StartOf(mid) = mid
  BY <1>3, <1>4 DEF EndOf, StartOf
<1>6. s \in Nat /\ s < mid /\ e \in Nat /\ mid < e
  <2>1. s \in Nat /\ s < mid
    BY <1>3, <1>4 DEF StartOf
  <2>2. e \in Nat
    BY <1>4 DEF EndOf
  <2> QED BY <1>2, <1>5, <2>1, <2>2
<1>7. readA /\ readC
  <2>1. t \in ReadingsIn(from, mid) /\ t \in ReadingsIn(from, to)
    BY <1>3, <1>4 DEF ReadingsIn
  <2> QED BY <1>5, <1>6, <2>1
<1> HIDE DEF readA, readB, readC, s, e
<1>8. Share(l, s, mid) + Share(l, mid, e) = Share(l, s, e)
  BY <1>6, SharesSplit
<1> QED BY <1>1, <1>2, <1>5, <1>6, <1>7, <1>8

(* What is counted by kind. *)
LEMMA CountsMeet ==
    ASSUME PInv, NEW from \in Int, NEW mid \in Int, NEW to \in Int, from <= mid, mid <= to
    PROVE  /\ Report(from, mid).down + Report(mid, to).down = Report(from, to).down
           /\ Report(from, mid).localDown + Report(mid, to).localDown = Report(from, to).localDown
           /\ Report(from, mid).micro + Report(mid, to).micro = Report(from, to).micro
           /\ Report(from, mid).microLocal + Report(mid, to).microLocal = Report(from, to).microLocal
           /\ Report(from, mid).readings + Report(mid, to).readings = Report(from, to).readings
           /\ Report(from, mid).outOfBand + Report(mid, to).outOfBand = Report(from, to).outOfBand
           /\ Report(from, mid).speed.count + Report(mid, to).speed.count = Report(from, to).speed.count
           /\ \A k \in OtherKinds : Report(from, mid).told[k] + Report(mid, to).told[k] = Report(from, to).told[k]
<1>1. clock \in Int
  BY ReadingFacts
<1> DEFINE L == {i \in DOMAIN outages : outages[i].kind # "local"}
           M == {i \in DOMAIN outages : outages[i].kind = "local"}
<1>2. L \in SUBSET DOMAIN outages /\ M \in SUBSET DOMAIN outages
  OBVIOUS
<1>3. \A a : \A b : OfLine(outages, OutagesIn(a, b)) = L \cap OutagesIn(a, b) /\ OfLocal(outages, OutagesIn(a, b)) = M \cap OutagesIn(a, b)
  BY DEF OfLine, OfLocal, OutagesIn
<1>4. \A a : \A b : /\ Report(a, b).down = DownTime(L \cap OutagesIn(a, b), a, b, clock)
                    /\ Report(a, b).localDown = DownTime(M \cap OutagesIn(a, b), a, b, clock)
  <2>1. \A a : \A b : /\ Report(a, b).down = DownTime(OfLine(outages, OutagesIn(a, b)), a, b, clock)
                      /\ Report(a, b).localDown = DownTime(OfLocal(outages, OutagesIn(a, b)), a, b, clock)
    BY DEF Report
  <2> HIDE DEF L, M
  <2> QED BY <1>3, <2>1
<1> HIDE DEF L, M
<1>5. /\ Report(from, mid).down + Report(mid, to).down = Report(from, to).down
      /\ Report(from, mid).localDown + Report(mid, to).localDown = Report(from, to).localDown
  <2>0. \A K \in SUBSET DOMAIN outages :
           DownTime(K \cap OutagesIn(from, mid), from, mid, clock) + DownTime(K \cap OutagesIn(mid, to), mid, to, clock)
           = DownTime(K \cap OutagesIn(from, to), from, to, clock)
    <3>1. PICK now \in Int : now = clock
      BY <1>1
    <3>2. \A K \in SUBSET DOMAIN outages :
            DownTime(K \cap OutagesIn(from, mid), from, mid, now) + DownTime(K \cap OutagesIn(mid, to), mid, to, now)
            = DownTime(K \cap OutagesIn(from, to), from, to, now)
      BY DownTimesAdd
    <3> QED BY <3>1, <3>2
  <2>1. DownTime(L \cap OutagesIn(from, mid), from, mid, clock) + DownTime(L \cap OutagesIn(mid, to), mid, to, clock)
        = DownTime(L \cap OutagesIn(from, to), from, to, clock)
    BY <1>2, <2>0
  <2>2. DownTime(M \cap OutagesIn(from, mid), from, mid, clock) + DownTime(M \cap OutagesIn(mid, to), mid, to, clock)
        = DownTime(M \cap OutagesIn(from, to), from, to, clock)
    BY <1>2, <2>0
  <2> QED BY <1>4, <2>1, <2>2
<1>6. /\ Report(from, mid).micro + Report(mid, to).micro = Report(from, to).micro
      /\ Report(from, mid).microLocal + Report(mid, to).microLocal = Report(from, to).microLocal
  <2>1. \A a : \A b : /\ Report(a, b).micro = Cardinality(OfLine(micro, MicroCuts(a, b)))
                      /\ Report(a, b).microLocal = Cardinality(OfLocal(micro, MicroCuts(a, b)))
    BY DEF Report
  <2> QED BY <1>1, <2>1, MicroSplit
<1>7. /\ Report(from, mid).readings + Report(mid, to).readings = Report(from, to).readings
      /\ Report(from, mid).outOfBand + Report(mid, to).outOfBand = Report(from, to).outOfBand
  <2>1. \A a : \A b : /\ Report(a, b).readings = Cardinality(ReadingsIn(a, b))
                      /\ Report(a, b).outOfBand = OutOfBand(a, b)
    BY DEF Report
  <2> QED BY <1>1, <2>1, ReadingsSplit
<1>8. Report(from, mid).speed.count + Report(mid, to).speed.count = Report(from, to).speed.count
  <2>1. \A a : \A b : Report(a, b).speed.count = Cardinality(SpeedTests(a, b))
    BY DEF Report, SpeedStats
  <2> QED BY <1>1, <2>1, TestsSplit
<1>9. ASSUME NEW k \in OtherKinds
      PROVE  Report(from, mid).told[k] + Report(mid, to).told[k] = Report(from, to).told[k]
  <2>1. \A a : \A b : Report(a, b).told[k] = Cardinality(EventsBetween(a, b, {k}))
    BY DEF Report
  <2>2. Cardinality(EventsBetween(from, mid, {k})) + Cardinality(EventsBetween(mid, to, {k}))
        = Cardinality(EventsBetween(from, to, {k}))
    BY <1>1, ToldSplit
  <2> QED BY <2>1, <2>2
<1> QED BY <1>5, <1>6, <1>7, <1>8, <1>9

(* Two reports add up to that of both. *)
LEMMA AddsOfPInv == PInv => ReportsAdd
<1> SUFFICES ASSUME PInv PROVE ReportsAdd
  OBVIOUS
<1>1. ASSUME NEW w \in Asked, NEW mid \in (w[1] + 1)..(w[2] - 1)
      PROVE  LET a == Report(w[1], mid)
                 b == Report(mid, w[2])
                 whole == Report(w[1], w[2])
                 both == OfLine(outages, Straddling(w[1], mid, w[2]))
             IN /\ \A f \in {"down", "localDown", "micro", "microLocal", "readings", "outOfBand"} : a[f] + b[f] = whole[f]
                /\ a.speed.count + b.speed.count = whole.speed.count
                /\ \A k \in OtherKinds : a.told[k] + b.told[k] = whole.told[k]
                /\ a.readings > 0 /\ b.covered > 0 =>
                     /\ a.covered + b.covered = whole.covered
                     /\ \A l \in Levels : a.shares[l] + b.shares[l] = whole.shares[l]
                /\ a.cuts + b.cuts = whole.cuts + Cardinality(both)
                /\ a.compensation + b.compensation = whole.compensation + CompensationTotal(both, clock)
                /\ a.uncorr + b.uncorr = whole.uncorr + (IF mid \in Times THEN Growth(mid) ELSE 0)
  <2> DEFINE from == w[1]
             to == w[2]
             a == Report(from, mid)
             b == Report(mid, to)
             whole == Report(from, to)
             both == OfLine(outages, Straddling(from, mid, to))
  <2>1. /\ from \in Nat /\ mid \in Nat /\ to \in Nat /\ from < mid /\ mid < to /\ mid <= clock /\ clock \in Nat
    BY AskedWindow
  <2>3. from \in Int /\ mid \in Int /\ to \in Int /\ clock \in Int /\ from <= mid /\ mid <= to
    BY <2>1
  <2>4. \A f \in {"down", "localDown", "micro", "microLocal", "readings", "outOfBand"} : a[f] + b[f] = whole[f]
    <3>1. /\ a.down + b.down = whole.down /\ a.localDown + b.localDown = whole.localDown
          /\ a.micro + b.micro = whole.micro /\ a.microLocal + b.microLocal = whole.microLocal
          /\ a.readings + b.readings = whole.readings /\ a.outOfBand + b.outOfBand = whole.outOfBand
      BY <2>3, CountsMeet
    <3> HIDE DEF a, b, whole
    <3> QED BY <3>1
  <2>5. a.speed.count + b.speed.count = whole.speed.count /\ \A k \in OtherKinds : a.told[k] + b.told[k] = whole.told[k]
    BY <2>3, CountsMeet
  <2>6. a.readings > 0 /\ b.covered > 0 =>
          a.covered + b.covered = whole.covered /\ \A l \in Levels : a.shares[l] + b.shares[l] = whole.shares[l]
    <3> SUFFICES ASSUME a.readings > 0, b.covered > 0
                 PROVE  a.covered + b.covered = whole.covered /\ \A l \in Levels : a.shares[l] + b.shares[l] = whole.shares[l]
      OBVIOUS
    <3>1. \A l \in Levels : a.covered + b.covered = whole.covered /\ a.shares[l] + b.shares[l] = whole.shares[l]
      BY <2>1, StretchesMeet
    <3> HIDE DEF a, b, whole
    <3> QED BY <3>1, Lengths
  <2>7. a.cuts + b.cuts = whole.cuts + Cardinality(both) /\ a.compensation + b.compensation = whole.compensation + CompensationTotal(both, clock)
    <3>1. \A x : \A y : /\ Report(x, y).cuts = Cardinality(OfLine(outages, OutagesIn(x, y)))
                        /\ Report(x, y).compensation = CompensationTotal(OfLine(outages, OutagesIn(x, y)), clock)
      BY DEF Report
    <3> QED BY <2>3, <3>1, CutsMeet
  <2>8. a.uncorr + b.uncorr = whole.uncorr + (IF mid \in Times THEN Growth(mid) ELSE 0)
    <3>1. \A x : \A y : Report(x, y).uncorr = ErrorTotals(x, y)
      BY DEF Report
    <3> QED BY <2>3, <3>1, PointsMeet
  <2> QED BY <2>4, <2>5, <2>6, <2>7, <2>8
<1>2. \A x : \A y : Report(x, y).from = x /\ Report(x, y).to = y
  BY DEF Report
<1> DEFINE reports == {Report(w[1], w[2]) : w \in Asked}
<1>3. ASSUME NEW a \in reports, NEW b \in {r \in reports : r.from = a.to},
             NEW whole \in {r \in reports : r.from = a.from /\ r.to = b.to}
      PROVE  LET mid == a.to
                 both == OfLine(outages, Straddling(a.from, mid, b.to))
             IN /\ \A f \in {"down", "localDown", "micro", "microLocal", "readings", "outOfBand"} : a[f] + b[f] = whole[f]
                /\ a.speed.count + b.speed.count = whole.speed.count
                /\ \A k \in OtherKinds : a.told[k] + b.told[k] = whole.told[k]
                /\ a.readings > 0 /\ b.covered > 0 =>
                     /\ a.covered + b.covered = whole.covered
                     /\ \A l \in Levels : a.shares[l] + b.shares[l] = whole.shares[l]
                /\ a.cuts + b.cuts = whole.cuts + Cardinality(both)
                /\ a.compensation + b.compensation = whole.compensation + CompensationTotal(both, clock)
                /\ a.uncorr + b.uncorr = whole.uncorr + (IF mid \in Times THEN Growth(mid) ELSE 0)
  <2>1. PICK u \in Asked, v \in Asked, w \in Asked :
          a = Report(u[1], u[2]) /\ b = Report(v[1], v[2]) /\ whole = Report(w[1], w[2])
    OBVIOUS
  <2>2. a.from = w[1] /\ a.to = v[1] /\ b.to = w[2] /\ u[1] = w[1] /\ u[2] = v[1] /\ v[2] = w[2]
    BY <1>2, <2>1
  <2>3. v[1] \in (w[1] + 1)..(w[2] - 1)
    <3>1. /\ u[1] < u[2] /\ v[1] < v[2] /\ v[1] \in Nat /\ w[1] \in Nat /\ w[2] \in Nat
      BY AskedWindow
    <3> QED BY <2>2, <3>1
  <2>4. a = Report(w[1], v[1]) /\ b = Report(v[1], w[2])
    BY <2>1, <2>2
  <2> HIDE DEF reports
  <2> QED BY <1>1, <2>1, <2>2, <2>3, <2>4
<1> HIDE DEF reports
<1> QED BY <1>3 DEF ReportsAdd, reports

-----------------------------------------------------------------------------
(***************************************************************************)
(* The pages about one period, and the theorems about Periods.             *)
(***************************************************************************)

(* A sum taken part by part. *)
LEMMA SumByPart ==
    ASSUME NEW g, NEW S, NEW part, NEW h, NEW n \in Nat, IsFiniteSet(S),
           \A x \in S : g[x] \in Int /\ part[x] \in 0..(n - 1),
           \A i \in 0..(n - 1) : h[i] = SumOf(g, {x \in S : part[x] = i})
    PROVE  SumOf(h, 0..(n - 1)) = SumOf(g, S)
<1> DEFINE Of(k) == {x \in S : part[x] \in 0..(k - 1)}
           In(i) == {x \in S : part[x] = i}
           G == {k \in Nat : k <= n => SumOf(h, 0..(k - 1)) = SumOf(g, Of(k))}
<1>1. /\ \A k : IsFiniteSet(Of(k)) /\ \A x \in Of(k) : g[x] \in Int
      /\ \A i : IsFiniteSet(In(i)) /\ \A x \in In(i) : g[x] \in Int
  <2>1. \A T \in SUBSET S : IsFiniteSet(T) /\ \A x \in T : g[x] \in Int
    BY FS_Subset
  <2> QED BY <2>1
<1>2. 0 \in G
  <2>1. 0..(0 - 1) = {} /\ Of(0) = {}
    OBVIOUS
  <2> HIDE DEF Of
  <2>2. SumOf(h, {}) = 0 /\ SumOf(g, {}) = 0
    BY SumUnfolds, FS_EmptySet
  <2> QED BY <2>1, <2>2
<1>3. ASSUME NEW k \in Nat, k \in G PROVE k + 1 \in G
  <2> SUFFICES ASSUME k + 1 <= n PROVE SumOf(h, 0..k) = SumOf(g, Of(k + 1))
    <3>1. k + 1 \in Nat /\ k + 1 - 1 = k
      OBVIOUS
    <3> QED BY <3>1
  <2>1. SumOf(h, 0..(k - 1)) = SumOf(g, Of(k))
    BY <1>3
  <2>2. Of(k + 1) = Of(k) \cup In(k) /\ Of(k) \cap In(k) = {}
    <3>1. \A p \in Int : p \in 0..(k + 1 - 1) <=> p \in 0..(k - 1) \/ p = k
      OBVIOUS
    <3>2. ~(k \in 0..(k - 1))
      OBVIOUS
    <3>3. \A x \in S : part[x] \in Int
      OBVIOUS
    <3> QED BY <3>1, <3>2, <3>3
  <2> HIDE DEF Of
  <2>3. SumOf(g, Of(k + 1)) = SumOf(g, Of(k)) + SumOf(g, In(k))
    <3>1. \A x \in Of(k) \cup In(k) : g[x] \in Int
      BY <1>1
    <3> HIDE DEF In
    <3> QED BY <1>1, <2>2, <3>1, SumDisjoint
  <2>4. h[k] = SumOf(g, In(k))
    <3>1. k \in 0..(n - 1)
      OBVIOUS
    <3> QED BY <3>1
  <2>5. IsFiniteSet(0..k) /\ \A i \in 0..k : h[i] \in Int
    <3>1. IsFiniteSet(0..k)
      BY FS_Interval
    <3>2. ASSUME NEW i \in 0..k PROVE h[i] \in Int
      <4>1. i \in 0..(n - 1)
        OBVIOUS
      <4>2. h[i] = SumOf(g, In(i))
        BY <4>1
      <4> HIDE DEF In
      <4>3. SumOf(g, In(i)) \in Int
        BY <1>1, SumTakesOut
      <4> QED BY <4>2, <4>3
    <3> QED BY <3>1, <3>2
  <2> DEFINE K == 0..k
  <2>6. k \in K /\ K \ {k} = 0..(k - 1) /\ IsFiniteSet(K) /\ \A i \in K : h[i] \in Int
    BY <2>5
  <2>7. SumOf(h, 0..k) = h[k] + SumOf(h, 0..(k - 1))
    <3> HIDE DEF K
    <3>1. SumOf(h, K) = h[k] + SumOf(h, K \ {k})
      BY <2>6, SumTakesOut
    <3> QED BY <2>6, <3>1 DEF K
  <2>8. SumOf(g, Of(k)) \in Int /\ SumOf(g, In(k)) \in Int
    <3> HIDE DEF In
    <3> QED BY <1>1, SumTakesOut
  <2> HIDE DEF In
  <2> QED BY <2>1, <2>3, <2>4, <2>7, <2>8
<1>4. n \in G
  <2> HIDE DEF G
  <2> QED BY <1>2, <1>3, Counting
<1>5. Of(n) = S
  OBVIOUS
<1> HIDE DEF Of
<1> QED BY <1>4, <1>5

LEMMA GrowthSum ==
    ASSUME PInv, NEW S \in SUBSET Times
    PROVE  MapThenSumSet(Growth, S) = SumOf(GrowthOf, S) /\ IsFiniteSet(S) /\ \A t \in S : GrowthOf[t] \in Int
<1> DEFINE h == [t \in S |-> Growth(t)]
<1>1. IsFiniteSet(S) /\ \A t \in S : GrowthOf[t] \in Int
  BY ReadingFacts, FS_Subset, GrowthIsInt
<1>2. MapThenSumSet(Growth, S) = SumOf([t \in S |-> Growth(t)], S)
  BY SumOfFunction
<1>3. \A t \in S : h[t] = GrowthOf[t] /\ h[t] \in Int
  BY GrowthIsInt
<1> HIDE DEF h
<1>4. SumOf(h, S) = SumOf(GrowthOf, S)
  BY <1>1, <1>3, SumEqual
<1> QED BY <1>1, <1>2, <1>4 DEF h

LEMMA QuotientBound ==
    ASSUME NEW d \in Nat, d > 0, NEW n \in Nat, NEW b \in Nat, n <= b * d
    PROVE  n \div d \in 0..b
<1> DEFINE q == n \div d
           r == n % d
<1>1. q \in Nat /\ r \in Nat /\ r < d /\ n = d * q + r
  OBVIOUS
<1> HIDE DEF q, r
<1>2. ASSUME q > b PROVE FALSE
  <2>1. PICK k \in Nat : q = b + 1 + k
    <3>1. q - (b + 1) \in Nat /\ q = b + 1 + (q - (b + 1))
      BY <1>1, <1>2
    <3> QED BY <3>1
  <2>2. d * q = b * d + d + d * k
    BY <2>1
  <2>3. d * k \in Nat /\ b * d \in Nat
    OBVIOUS
  <2>4. PICK x \in Nat, y \in Nat : x = d * k /\ y = b * d
    BY <2>3
  <2>5. n = y + d + x + r /\ n <= y
    BY <1>1, <2>2, <2>4
  <2> QED BY <1>1, <2>5
<1> QED BY <1>1, <1>2 DEF q

LEMMA SlotIsABar ==
    ASSUME NEW from \in Int, NEW to \in Int, from < to, NEW t \in Int, from <= t, t <= to
    PROVE  Slot(t, from, to) \in 0..(Bars - 1)
<1> DEFINE x == t - from
           d == to - from
<1>1. x \in Nat /\ d \in Nat /\ d > 0 /\ x <= d /\ Bars \in Nat /\ Bars > 0
  BY Lengths
<1> HIDE DEF x, d
<1>2. x * Bars <= Bars * d /\ x * Bars \in Nat
  <2>1. PICK k \in Nat : d = x + k
    <3>1. d - x \in Nat /\ d = x + (d - x)
      BY <1>1
    <3> QED BY <3>1
  <2>2. Bars * d = x * Bars + Bars * k /\ Bars * k \in Nat /\ x * Bars \in Nat
    BY <1>1, <2>1
  <2> QED BY <2>2
<1>3. (x * Bars) \div d \in 0..Bars
  BY <1>1, <1>2, QuotientBound
<1> DEFINE i == (x * Bars) \div d
<1>4. Slot(t, from, to) = IF i = Bars THEN Bars - 1 ELSE IF i < 0 \/ i > Bars THEN -1 ELSE i
  BY DEF Slot, x, d
<1> HIDE DEF i
<1>5. i \in 0..Bars
  BY <1>3 DEF i
<1> QED BY <1>1, <1>4, <1>5

(* The bars hold all the errors of the period. *)
LEMMA BarsHoldAll ==
    ASSUME PInv, NEW from \in Int, NEW to \in Int, from < to
    PROVE  MapThenSumSet(LAMBDA i : ErrorBars(from, to)[i], DOMAIN ErrorBars(from, to)) = ErrorTotals(from, to)
<1> DEFINE bars == ErrorBars(from, to)
           P == Points(from, to)
           slot == [t \in P |-> Slot(t, from, to)]
<1>1. DOMAIN bars = 0..(Bars - 1) /\ Bars \in Nat
  BY Lengths DEF ErrorBars
<1>2. MapThenSumSet(LAMBDA i : bars[i], DOMAIN bars) = SumOf(bars, DOMAIN bars)
  BY DEF SumOf
<1>3. P \in SUBSET Times /\ \A t \in P : from <= t /\ t <= to
  BY DEF Points
<1>4. IsFiniteSet(P) /\ \A t \in P : GrowthOf[t] \in Int /\ slot[t] \in 0..(Bars - 1)
  <2>1. IsFiniteSet(P) /\ \A t \in P : GrowthOf[t] \in Int
    <3> HIDE DEF P
    <3> QED BY <1>3, GrowthSum
  <2>2. \A t \in P : t \in Int
    BY <1>3, ReadingFacts
  <2>3. \A t \in P : Slot(t, from, to) \in 0..(Bars - 1)
    <3> HIDE DEF P
    <3> QED BY <1>3, <2>2, SlotIsABar
  <2> HIDE DEF P
  <2> QED BY <2>1, <2>3
<1>5. ASSUME NEW i \in 0..(Bars - 1) PROVE bars[i] = SumOf(GrowthOf, {t \in P : slot[t] = i})
  <2> DEFINE S == {t \in P : Slot(t, from, to) = i}
  <2>1. S = {t \in P : slot[t] = i} /\ S \in SUBSET Times
    BY <1>3
  <2>2. bars[i] = MapThenSumSet(Growth, S)
    BY DEF ErrorBars
  <2>3. MapThenSumSet(Growth, S) = SumOf(GrowthOf, S)
    <3> HIDE DEF S
    <3> QED BY <2>1, GrowthSum
  <2> HIDE DEF bars, S, slot
  <2> QED BY <2>1, <2>2, <2>3
<1>6. SumOf(bars, 0..(Bars - 1)) = SumOf(GrowthOf, P)
  <2> HIDE DEF bars, P, slot
  <2> QED BY <1>1, <1>4, <1>5, SumByPart
<1>7. ErrorTotals(from, to) = SumOf(GrowthOf, P)
  <2>1. from <= to + 1
    OBVIOUS
  <2> QED BY <2>1, ErrorsAre
<1> QED BY <1>1, <1>2, <1>6, <1>7

(* The column of the table of the channels, and what it leaves out. *)
LEMMA ExportsHold ==
    ASSUME PInv, NEW from \in Int, NEW to \in Int, from < to
    PROVE  ErrorTotals(from, to) = ExportedErrors(from, to)
             + MapThenSumSet(Growth, {Min(R) : R \in {ReadingsIn(from, to)} \ {{}}} \cup ({to} \cap Times))
<1> DEFINE R == ReadingsIn(from, to)
           L == {to} \cap Times
           F == {Min(Q) : Q \in {R} \ {{}}}
           rest == R \ {Min(R)}
<1>1. R \in SUBSET Times /\ to \notin R /\ Points(from, to) = R \cup L
  <2>1. \A t \in Times : from <= t /\ t <= to <=> (from <= t /\ t < to) \/ t = to
    BY ReadingFacts
  <2> QED BY <2>1 DEF ReadingsIn, Points
<1>2. ErrorTotals(from, to) = SumOf(GrowthOf, R \cup L)
  <2>1. from <= to + 1
    OBVIOUS
  <2> QED BY <1>1, <2>1, ErrorsAre
<1>3. CASE R = {}
  <2>1. F = {} /\ R \cup L = L /\ F \cup L = L
    BY <1>3
  <2>2. ExportedErrors(from, to) = 0
    BY <1>3 DEF ExportedErrors
  <2>3. MapThenSumSet(Growth, L) = SumOf(GrowthOf, L) /\ SumOf(GrowthOf, L) \in Int
    <3>1. L \in SUBSET Times
      OBVIOUS
    <3>2. MapThenSumSet(Growth, L) = SumOf(GrowthOf, L) /\ IsFiniteSet(L) /\ \A t \in L : GrowthOf[t] \in Int
      BY <3>1, GrowthSum
    <3> HIDE DEF L
    <3> QED BY <3>2, SumTakesOut
  <2> HIDE DEF R, L, F
  <2> QED BY <1>2, <2>1, <2>2, <2>3 DEF R, L, F
<1>4. CASE R # {}
  <2>1. F = {Min(R)}
    BY <1>4
  <2>2. Min(R) \in R
    <3> HIDE DEF R
    <3> QED BY <1>1, <1>4, ReadingFacts, Extremes
  <2> DEFINE E == F \cup L
  <2>3. rest \in SUBSET Times /\ E \in SUBSET Times /\ rest \cap E = {} /\ rest \cup E = R \cup L
    <3> HIDE DEF R, F
    <3> QED BY <1>1, <2>1, <2>2
  <2>4. ExportedErrors(from, to) = MapThenSumSet(Growth, rest)
    BY <1>4 DEF ExportedErrors
  <2> HIDE DEF rest, E
  <2>5. MapThenSumSet(Growth, rest) = SumOf(GrowthOf, rest) /\ MapThenSumSet(Growth, E) = SumOf(GrowthOf, E)
        /\ IsFiniteSet(rest) /\ IsFiniteSet(E) /\ \A t \in rest \cup E : GrowthOf[t] \in Int
    BY <2>3, GrowthSum
  <2>6. SumOf(GrowthOf, rest \cup E) = SumOf(GrowthOf, rest) + SumOf(GrowthOf, E)
    BY <2>3, <2>5, SumDisjoint
  <2>7. ErrorTotals(from, to) = ExportedErrors(from, to) + MapThenSumSet(Growth, E)
    BY <1>2, <2>3, <2>4, <2>5, <2>6
  <2> QED BY <2>7 DEF E, F, R, L
<1> QED BY <1>3, <1>4

(* The Internet page splits nothing. *)
LEMMA DownAgree ==
    ASSUME PInv, NEW from \in Int, NEW to \in Int, from < to, to <= clock
    PROVE  Internet(from, to).down = Report(from, to).down + Report(from, to).localDown
<1> DEFINE T == OutagesIn(from, to)
           A == OfLine(outages, T)
           B == OfLocal(outages, T)
           g == PartOf(from, to, to)
           h == PartOf(from, to, clock)
<1>1. A \cup B = T /\ A \cap B = {} /\ T \in SUBSET DOMAIN outages /\ A \in SUBSET DOMAIN outages /\ B \in SUBSET DOMAIN outages
  BY DEF OfLine, OfLocal, OutagesIn
<1>2. clock \in Int
  BY ReadingFacts
<1>3. Internet(from, to).down = DownTime(T, from, to, to) /\ Report(from, to).down = DownTime(A, from, to, clock)
      /\ Report(from, to).localDown = DownTime(B, from, to, clock)
  BY DEF Internet, Report
<1>4. PICK now \in Int : now = clock
  BY <1>2
<1> HIDE DEF T, A, B
<1>5. DownTime(T, from, to, to) = SumOf(g, T) /\ IsFiniteSet(T)
  BY <1>1, DownTimeIs
<1>6. DownTime(A, from, to, now) = SumOf(PartOf(from, to, now), A) /\ IsFiniteSet(A)
  BY <1>1, DownTimeIs
<1>7. DownTime(B, from, to, now) = SumOf(PartOf(from, to, now), B) /\ IsFiniteSet(B)
  BY <1>1, DownTimeIs
<1>8. \A i \in DOMAIN outages : PartOf(from, to, now)[i] = Part(outages[i], from, to, now) /\ PartOf(from, to, now)[i] \in Int
  BY AllParts
<1>9. \A i \in DOMAIN outages : g[i] = Part(outages[i], from, to, to) /\ g[i] \in Int
  BY AllParts
<1>10. \A i \in DOMAIN outages : Part(outages[i], from, to, to) = Part(outages[i], from, to, now)
  <2> SUFFICES ASSUME NEW i \in DOMAIN outages PROVE Part(outages[i], from, to, to) = Part(outages[i], from, to, now)
    OBVIOUS
  <2>1. to <= now
    BY <1>4
  <2> QED BY <2>1 DEF Part
<1> HIDE DEF g
<1>11. SumOf(PartOf(from, to, now), T) = SumOf(PartOf(from, to, now), A) + SumOf(PartOf(from, to, now), B)
  <2>1. \A i \in A \cup B : PartOf(from, to, now)[i] \in Int
    BY <1>1, <1>8
  <2>2. SumOf(PartOf(from, to, now), A \cup B) = SumOf(PartOf(from, to, now), A) + SumOf(PartOf(from, to, now), B)
    BY <1>1, <1>6, <1>7, <2>1, SumDisjoint
  <2> QED BY <1>1, <2>2
<1>12. SumOf(g, T) = SumOf(PartOf(from, to, now), T)
  <2>1. \A i \in T : g[i] \in Int /\ g[i] = PartOf(from, to, now)[i]
    BY <1>1, <1>8, <1>9, <1>10
  <2> QED BY <1>5, <2>1, SumEqual
<1> QED BY <1>3, <1>4, <1>5, <1>6, <1>7, <1>11, <1>12

LEMMA Some ==
    ASSUME NEW S, IsFiniteSet(S)
    PROVE  Cardinality(S) > 0 <=> S # {}
BY FS_EmptySet, FS_CardinalityType

(* A table is offered when it has rows, the last bucket of the probe aside. *)
LEMMA OffersAgree ==
    ASSUME PInv, NEW from \in Int, NEW to \in Int, from < to, NEW e \in Exports
    PROVE  e \in Offered(Report(from, to), from, to)
             <=> Rows(e, from, to) # {} \/ (e = "internet" /\ to \in samples)
<1> DEFINE r == Report(from, to)
           A == OfLine(micro, MicroCuts(from, to))
           B == OfLocal(micro, MicroCuts(from, to))
<1>1. /\ r.readings = Cardinality(ReadingsIn(from, to)) /\ r.probed = (SamplesIn(from, to) # {})
      /\ r.micro = Cardinality(A) /\ r.microLocal = Cardinality(B)
      /\ r.speed.count = Cardinality(SpeedTests(from, to))
  BY DEF Report, SpeedStats
<1>2. IsFiniteSet(ReadingsIn(from, to)) /\ IsFiniteSet(SpeedTests(from, to)) /\ IsFiniteSet(A) /\ IsFiniteSet(B)
  <2>1. /\ ReadingsIn(from, to) \subseteq Times /\ SpeedTests(from, to) \subseteq DOMAIN tests
        /\ A \subseteq DOMAIN micro /\ B \subseteq DOMAIN micro
    BY DEF ReadingsIn, SpeedTests, MicroCuts, OfLine, OfLocal
  <2> HIDE DEF A, B
  <2> QED BY <2>1, FiniteTables, FS_Subset
<1>3. A \cup B = MicroCuts(from, to)
  BY DEF OfLine, OfLocal
<1> HIDE DEF A, B
<1>4. r.micro + r.microLocal > 0 <=> MicroCuts(from, to) # {}
  <2>1. Cardinality(A) \in Nat /\ Cardinality(B) \in Nat
    BY <1>2, FS_CardinalityType
  <2>2. Cardinality(A) > 0 <=> A # {}
    BY <1>2, Some
  <2>3. Cardinality(B) > 0 <=> B # {}
    BY <1>2, Some
  <2>4. Cardinality(A) + Cardinality(B) > 0 <=> Cardinality(A) > 0 \/ Cardinality(B) > 0
    BY <2>1
  <2> QED BY <1>1, <1>3, <2>2, <2>3, <2>4
<1>5. r.readings > 0 <=> ReadingsIn(from, to) # {}
  BY <1>1, <1>2, Some
<1>6. r.speed.count > 0 <=> SpeedTests(from, to) # {}
  BY <1>1, <1>2, Some
<1>7. r.probed <=> ExportedSamples(from, to) # {} \/ to \in samples
  <2>1. \A t \in samples : t \in Int
    BY TableFacts, Lengths
  <2>2. \A t \in samples : from <= t /\ t <= to <=> (from <= t /\ t < to) \/ t = to
    BY <2>1
  <2> QED BY <1>1, <2>2 DEF SamplesIn, ExportedSamples
<1> HIDE DEF r
<1> DEFINE has(x) == CASE x = "descendant" -> r.readings > 0
                       [] x = "internet" -> r.probed
                       [] x = "coupures" -> OutagesIn(from, to) # {}
                       [] x = "micro-coupures" -> r.micro + r.microLocal > 0
                       [] x = "debit" -> r.speed.count > 0
                       [] x = "journal" -> EventsBetween(from, to, OtherKinds \cup {State}) # {}
<1>8. e \in Offered(r, from, to) <=> has(e)
  BY DEF Offered
<1>9. has(e) <=> Rows(e, from, to) # {} \/ (e = "internet" /\ to \in samples)
  <2>1. CASE e = "descendant" BY <1>5, <2>1 DEF Rows
  <2>2. CASE e = "internet" BY <1>7, <2>2 DEF Rows
  <2>3. CASE e = "coupures" BY <2>3 DEF Rows
  <2>4. CASE e = "micro-coupures" BY <1>4, <2>4 DEF Rows
  <2>5. CASE e = "debit" BY <1>6, <2>5 DEF Rows
  <2>6. CASE e = "journal" BY <2>6 DEF Rows
  <2> QED BY <2>1, <2>2, <2>3, <2>4, <2>5, <2>6 DEF Exports
<1> HIDE DEF has
<1> QED BY <1>8, <1>9 DEF r

LEMMA BarsOfPInv == PInv => BarsAgree
<1> SUFFICES ASSUME PInv, NEW w \in Past
             PROVE  /\ Internet(w[1], w[2]).down = Report(w[1], w[2]).down + Report(w[1], w[2]).localDown
                    /\ MapThenSumSet(LAMBDA i : ErrorBars(w[1], w[2])[i], DOMAIN ErrorBars(w[1], w[2]))
                         = Report(w[1], w[2]).uncorr
                    /\ \A e \in Exports : e \in Offered(Report(w[1], w[2]), w[1], w[2]) <=>
                         Rows(e, w[1], w[2]) # {} \/ (e = "internet" /\ w[2] \in samples)
                    /\ Report(w[1], w[2]).uncorr = ExportedErrors(w[1], w[2])
                         + MapThenSumSet(Growth, {Min(R) : R \in {ReadingsIn(w[1], w[2])} \ {{}}} \cup ({w[2]} \cap Times))
  BY DEF BarsAgree
<1>1. w[1] \in Int /\ w[2] \in Int /\ w[1] < w[2] /\ w[2] <= clock
  <2>1. clock \in Int
    BY ReadingFacts
  <2> QED BY <2>1 DEF Past
<1>2. Report(w[1], w[2]).uncorr = ErrorTotals(w[1], w[2])
  BY DEF Report
<1>3. PICK from \in Int, to \in Int : from = w[1] /\ to = w[2]
  BY <1>1
<1>4. from < to /\ to <= clock
  BY <1>1, <1>3
<1>5. Internet(from, to).down = Report(from, to).down + Report(from, to).localDown
  BY <1>4, DownAgree
<1>6. MapThenSumSet(LAMBDA i : ErrorBars(from, to)[i], DOMAIN ErrorBars(from, to)) = ErrorTotals(from, to)
  BY <1>4, BarsHoldAll
<1>7. \A e \in Exports : e \in Offered(Report(from, to), from, to) <=>
         Rows(e, from, to) # {} \/ (e = "internet" /\ to \in samples)
  BY <1>4, OffersAgree
<1>8. ErrorTotals(from, to) = ExportedErrors(from, to)
        + MapThenSumSet(Growth, {Min(R) : R \in {ReadingsIn(from, to)} \ {{}}} \cup ({to} \cap Times))
  BY <1>4, ExportsHold
<1> QED BY <1>2, <1>3, <1>5, <1>6, <1>7, <1>8

(* While the journal holds no more events than one query of the chronology  *)
(* returns, the report and the chronology tell of any date what the last    *)
(* reading before it found (rapport.go:90, chronologie.go:211).  Without    *)
(* that hypothesis the strip is wrong, as MCPeriodsLimit.cfg shows.         *)
THEOREM LevelsTrue == PeriodsSpec => [](Len(journal) <= EventLimit => LevelsAreTrue)
<1>1. PInv => (Len(journal) <= EventLimit => LevelsAreTrue)
  BY SharesOfPInv, StripOfPInv DEF LevelsAreTrue
<1> QED BY <1>1, PeriodsInvariance, PTL

(* The report alone does, however many events there are: the time it gives *)
(* to a level, deduced from the journal, is the time the readings found it  *)
(* (rapport.go:90-112).                                                     *)
THEOREM SharesTrue == PeriodsSpec => []SharesAreTrue
BY PeriodsInvariance, SharesOfPInv, PTL

(* The reports of two neighbouring periods add up to the report of both     *)
(* (rapport.go:77): nothing is counted twice or forgotten at the boundary   *)
(* but what touches both.                                                   *)
THEOREM ReportsAddUp == PeriodsSpec => []ReportsAdd
BY PeriodsInvariance, AddsOfPInv, PTL

(* The pages of a period, its exports, the overview, the metrics and what   *)
(* is published to Home Assistant agree (internet.go:170, bars.go:40,       *)
(* status.go:103).                                                          *)
THEOREM PagesCorrect == PeriodsSpec => []PagesAgree
<1>1. PInv => PagesAgree
  BY BarsOfPInv, StatusOfPInv DEF PagesAgree
<1> QED BY <1>1, PeriodsInvariance, PTL
=============================================================================
