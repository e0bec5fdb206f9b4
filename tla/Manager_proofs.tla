-------------------------- MODULE Manager_proofs --------------------------
(***************************************************************************)
(* Theorems about Manager, for any number of pages, settings and tasks.    *)
(*                                                                         *)
(* The tasks (Holder, Generation): whoever waits for them holds the lock   *)
(* and has cancelled them, so nothing is started beside a task that runs,  *)
(* and what runs while the lock is free is what the last holder started.   *)
(*                                                                         *)
(* The settings (AloneInv): nobody writes the table nor the state while    *)
(* the only call reads and installs them, so what it read of each setting  *)
(* is still true when it ends.                                             *)
(***************************************************************************)
EXTENDS Manager, TLAPS

(* Who waits for the tasks, or has been told to stop them, holds the lock. *)
Holder ==
    /\ \A p \in Procs : pc[p] \in {"wait", "draining"} => mu = p
    /\ mu # Nobody => live = 0

Generation == \A r \in running : r.gen = gen

(* Nothing read is blank that has a default, and reading begins at the first. *)
ReadValues ==
    /\ \A p \in Pages : pc[p] = "write" => next[p] = 1
    /\ \A p \in Procs : \A k \in Keys :
          (pc[p] = "read" /\ k < next[p]) \/ pc[p] \in {"level", "lock", "wait"}
              => Meant(k, got[p][k])

(* No page is served before the program has read its settings. *)
MainFirst ==
    pc[Main] \in {"read", "level", "lock", "wait", "failed"} => \A p \in Pages : pc[p] = "rest"

Reloading == {"read", "level", "lock", "wait", "done"}

AloneOf(p) ==
    /\ \A q \in Pages \ {p} : Idle(q)
    /\ pc[p] \in {"write"} \cup Reloading =>
          \A k \in Accepted(form[p]) : k \in todo[p] \/ table[k] = form[p][k]
    /\ pc[p] \in Reloading => todo[p] = {}
    /\ pc[p] = "read" => \A k \in Keys : k < next[p] => got[p][k] = Value(k)
    /\ pc[p] \in {"level", "lock", "wait"} => \A k \in Keys : got[p][k] = Value(k)
    /\ pc[p] \in {"lock", "wait"} => level = got[p][LevelKey]
    /\ pc[p] = "done" => conf = Loaded /\ level = conf[LevelKey]

AloneInv == \A p \in Pages : alone[p] => AloneOf(p)

IInv ==
    /\ TypeOK /\ Holder /\ Generation /\ ReadValues /\ MainFirst
    /\ TasksMatchState

USE DEF Procs, At

LEMMA ValueType ==
    ASSUME ManagerAssumption, TypeOK, NEW k \in Keys
    PROVE  Value(k) \in Vals /\ Meant(k, Value(k))
BY DEF ManagerAssumption, TypeOK, Value, Meant

LEMMA FormType ==
    ASSUME ManagerAssumption, NEW g \in Groups, NEW f \in [g -> Vals]
    PROVE  Accepted(f) \subseteq g /\ g \subseteq Keys /\ DOMAIN f = g
BY DEF ManagerAssumption, Accepted

LEMMA StartType ==
    ASSUME ManagerAssumption
    PROVE  /\ DOMAIN NoForm = {} /\ NoForm \in [{} -> Vals]
           /\ Unread \in [Keys -> Vals] /\ 1 \in Keys /\ Blank \in Vals
<1>1. DOMAIN NoForm = {} /\ NoForm \in [{} -> Vals]
  BY DEF NoForm
<1>2. Blank \in Vals /\ Unread \in [Keys -> Vals]
  BY DEF ManagerAssumption, Unread
<1>3. 1 \in Keys
  BY DEF ManagerAssumption, Keys
<1> QED BY <1>1, <1>2, <1>3

LEMMA InitIInv == ManagerAssumption /\ Init => IInv
<1> SUFFICES ASSUME ManagerAssumption, Init PROVE IInv
  OBVIOUS
<1> USE DEF Init
<1>1. /\ DOMAIN NoForm = {} /\ NoForm \in [{} -> Vals]
      /\ Unread \in [Keys -> Vals] /\ 1 \in Keys /\ Blank \in Vals
  BY StartType
<1>3. TypeOK
  BY <1>1 DEF TypeOK
<1>4. Holder /\ Generation /\ MainFirst /\ TasksMatchState
  BY DEF ManagerAssumption, Holder, Generation, MainFirst, TasksMatchState
<1>5. ReadValues
  <2>1. \A k \in Keys : ~(k < 1)
    BY DEF ManagerAssumption, Keys
  <2>2. \A p \in Procs : next[p] = 1 /\ pc[p] \in {"read", "rest"}
    OBVIOUS
  <2> QED BY <2>1, <2>2 DEF ReadValues
<1> QED BY <1>3, <1>4, <1>5 DEF IInv

-----------------------------------------------------------------------------
(* The steps of a page that saves, before the lock. *)

LEMMA SaveStep ==
    ASSUME ManagerAssumption, IInv, NEW p \in Pages, Save(p) PROVE IInv'
<1> USE DEF IInv, Save, taskVars
<1>a. PICK g \in Groups : \E f \in [g -> Vals] :
          /\ form' = [form EXCEPT ![p] = f]
          /\ todo' = [todo EXCEPT ![p] = Accepted(f)]
          /\ At(p, AfterWriting(Accepted(f)))
  OBVIOUS
<1>1. PICK f \in [g -> Vals] :
          /\ form' = [form EXCEPT ![p] = f]
          /\ todo' = [todo EXCEPT ![p] = Accepted(f)]
          /\ At(p, AfterWriting(Accepted(f)))
  BY <1>a
<1>2. Accepted(f) \subseteq DOMAIN f /\ Accepted(f) \in SUBSET Keys /\ DOMAIN f \subseteq Keys
  BY FormType
<1>3. 1 \in Keys
  BY DEF ManagerAssumption, Keys
<1>4. AfterWriting(Accepted(f)) \in {"read", "write"}
  BY DEF AfterWriting
<1>5. TypeOK'
  <2>1. form' = [q \in Pages |-> form'[q]] /\ todo' \in [Pages -> SUBSET Keys]
    BY <1>1, <1>2 DEF TypeOK
  <2>2. \A q \in Pages : /\ form'[q] \in [DOMAIN form'[q] -> Vals]
                          /\ todo'[q] \subseteq DOMAIN form'[q] /\ DOMAIN form'[q] \subseteq Keys
    BY <1>1, <1>2 DEF TypeOK
  <2>3. /\ pc' = [pc EXCEPT ![p] = AfterWriting(Accepted(f))]
        /\ next' = [next EXCEPT ![p] = 1] /\ alone' \in [Pages -> BOOLEAN]
        /\ posts' = posts + 1
        /\ UNCHANGED <<table, got, taskVars, level, faults>>
    BY <1>1
  <2> HIDE DEF Save
  <2>4. /\ pc' \in [Procs -> {"rest", "write", "read", "level", "lock", "wait", "done",
                             "failed", "closing", "draining", "stopped"}]
        /\ next' \in [Procs -> Keys]
    BY <2>3, <1>3, <1>4 DEF TypeOK
  <2> QED BY <2>1, <2>2, <2>3, <2>4 DEF TypeOK, Meant
<1>6. Holder' /\ Generation' /\ MainFirst' /\ TasksMatchState'
  BY <1>1, <1>4 DEF ManagerAssumption, TypeOK, Holder, Generation, MainFirst, TasksMatchState, Wanted
<1>7. ReadValues'
  BY <1>1, <1>4 DEF TypeOK, ReadValues, Meant, Keys
<1> QED BY <1>5, <1>6, <1>7

LEMMA WriteStep ==
    ASSUME ManagerAssumption, IInv, NEW p \in Pages, Write(p) PROVE IInv'
<1> USE DEF IInv, Write, readVars, taskVars, boundVars
<1>1. PICK k \in todo[p] :
          /\ table' = [table EXCEPT ![k] = form[p][k]]
          /\ todo' = [todo EXCEPT ![p] = @ \ {k}]
          /\ At(p, AfterWriting(todo[p] \ {k}))
  OBVIOUS
<1>2. k \in Keys /\ form[p][k] \in Vals
  <2>1. k \in DOMAIN form[p] /\ form[p] \in [DOMAIN form[p] -> Vals]
    BY DEF TypeOK
  <2> QED BY <2>1 DEF TypeOK
<1>3. AfterWriting(todo[p] \ {k}) \in {"read", "write"}
  BY DEF AfterWriting
<1>4. TypeOK'
  BY <1>1, <1>2, <1>3 DEF TypeOK, Meant
<1>5. Holder' /\ Generation' /\ MainFirst' /\ TasksMatchState'
  BY <1>1, <1>3 DEF ManagerAssumption, TypeOK, Holder, Generation, MainFirst, TasksMatchState, Wanted
<1>6. ReadValues'
  <2>1. next[p] = 1 /\ \A q \in Procs \ {p} : pc'[q] = pc[q]
    BY <1>1 DEF TypeOK, ReadValues
  <2>2. pc'[p] \in {"read", "write"} /\ \A j \in Keys : ~(j < next[p])
    BY <1>1, <1>3, <2>1 DEF TypeOK, Keys
  <2>3. \A q \in Pages : pc'[q] = "write" => next'[q] = 1
    BY <2>1 DEF ReadValues
  <2>4. \A q \in Procs : \A j \in Keys :
            (pc'[q] = "read" /\ j < next'[q]) \/ pc'[q] \in {"level", "lock", "wait"}
                => Meant(j, got'[q][j])
    BY <2>1, <2>2 DEF ReadValues
  <2> QED BY <2>3, <2>4 DEF ReadValues, Meant
<1> QED BY <1>4, <1>5, <1>6

LEMMA WriteFailsStep ==
    ASSUME ManagerAssumption, IInv, NEW p \in Pages, WriteFails(p) PROVE IInv'
<1> USE DEF IInv, WriteFails, tableVars, readVars, taskVars, Fault
<1>1. TypeOK'
  BY DEF TypeOK, Meant
<1>2. Holder' /\ Generation' /\ MainFirst' /\ TasksMatchState'
  BY DEF ManagerAssumption, TypeOK, Holder, Generation, MainFirst, TasksMatchState, Wanted
<1>3. ReadValues'
  BY DEF TypeOK, ReadValues, Meant, Keys
<1> QED BY <1>1, <1>2, <1>3

-----------------------------------------------------------------------------
(* The steps of a reload. *)

LEMMA ReadStep ==
    ASSUME ManagerAssumption, IInv, NEW p \in Procs, Read(p) PROVE IInv'
<1> USE DEF IInv, Read, tableVars, taskVars, boundVars
<1>1. next[p] \in Keys /\ Value(next[p]) \in Vals /\ Meant(next[p], Value(next[p]))
  BY ValueType DEF TypeOK
<1>2. next' \in [Procs -> Keys]
  <2>1. (IF next[p] = NKeys THEN 1 ELSE next[p] + 1) \in Keys
    BY <1>1 DEF ManagerAssumption, Keys
  <2> QED BY <2>1 DEF TypeOK
<1>3. TypeOK'
  BY <1>1, <1>2 DEF TypeOK, Meant
<1>4. Holder' /\ Generation' /\ MainFirst' /\ TasksMatchState'
  BY DEF ManagerAssumption, TypeOK, Holder, Generation, MainFirst, TasksMatchState, Wanted
<1>5. ReadValues'
  <2>1. ASSUME NEW q \in Pages, pc'[q] = "write" PROVE next'[q] = 1
    BY <2>1 DEF TypeOK, ReadValues
  <2>2. ASSUME NEW q \in Procs, NEW k \in Keys,
               (pc'[q] = "read" /\ k < next'[q]) \/ pc'[q] \in {"level", "lock", "wait"}
        PROVE  Meant(k, got'[q][k])
    <3>1. CASE q # p
      <4>1. got'[q] = got[q] /\ pc'[q] = pc[q] /\ next'[q] = next[q]
        BY <3>1 DEF TypeOK
      <4>2. Meant(k, got[q][k])
        BY <2>2, <4>1 DEF ReadValues
      <4> QED BY <4>1, <4>2
    <3>2. CASE q = p /\ k = next[p]
      <4>1. got'[q][k] = Value(next[p])
        BY <3>2 DEF TypeOK
      <4> QED BY <4>1, <3>2, <1>1
    <3>3. CASE q = p /\ k # next[p]
      <4>1. got'[q][k] = got[q][k]
        BY <3>3 DEF TypeOK
      <4>2. k < next[p]
        <5>1. CASE next[p] = NKeys
          BY <5>1, <3>3 DEF ManagerAssumption, Keys
        <5>2. CASE next[p] # NKeys
          <6>1. pc'[p] = "read" /\ next'[p] = next[p] + 1
            BY <5>2 DEF TypeOK
          <6> QED BY <6>1, <2>2, <3>3, <1>1 DEF Keys
        <5> QED BY <5>1, <5>2
      <4>3. Meant(k, got[q][k])
        BY <4>2, <3>3 DEF ReadValues
      <4> QED BY <4>1, <4>3
    <3> QED BY <3>1, <3>2, <3>3
  <2>3. \A q \in Procs : \A k \in Keys :
            (pc'[q] = "read" /\ k < next'[q]) \/ pc'[q] \in {"level", "lock", "wait"}
                => Meant(k, got'[q][k])
    BY <2>2
  <2> QED BY <2>1, <2>3 DEF ReadValues, Meant
<1> QED BY <1>3, <1>4, <1>5

LEMMA ReadFailsStep ==
    ASSUME ManagerAssumption, IInv, NEW p \in Procs, ReadFails(p) PROVE IInv'
<1> USE DEF IInv, ReadFails, tableVars, readVars, taskVars, Fault
<1>1. TypeOK'
  BY DEF TypeOK, Meant
<1>2. Holder' /\ Generation' /\ MainFirst' /\ TasksMatchState'
  BY DEF ManagerAssumption, TypeOK, Holder, Generation, MainFirst, TasksMatchState, Wanted
<1>3. ReadValues'
  BY DEF TypeOK, ReadValues, Meant, Keys
<1> QED BY <1>1, <1>2, <1>3

LEMMA SetLevelStep ==
    ASSUME ManagerAssumption, IInv, NEW p \in Procs, SetLevel(p) PROVE IInv'
<1> USE DEF IInv, SetLevel, tableVars, readVars, taskVars, boundVars
<1>1. TypeOK'
  BY DEF ManagerAssumption, TypeOK, Meant
<1>2. Holder' /\ Generation' /\ MainFirst' /\ TasksMatchState'
  BY DEF ManagerAssumption, TypeOK, Holder, Generation, MainFirst, TasksMatchState, Wanted
<1>3. ReadValues'
  BY DEF TypeOK, ReadValues, Meant, Keys
<1> QED BY <1>1, <1>2, <1>3

LEMMA LockStep ==
    ASSUME ManagerAssumption, IInv, NEW p \in Procs, Lock(p) PROVE IInv'
<1> USE DEF IInv, Lock, tableVars, readVars, boundVars, Cancelled
<1>1. TypeOK'
  BY DEF TypeOK, Meant
<1>2. Holder' /\ Generation' /\ MainFirst' /\ TasksMatchState'
  BY DEF ManagerAssumption, TypeOK, Holder, Generation, MainFirst, TasksMatchState
<1>3. ReadValues'
  BY DEF TypeOK, ReadValues, Meant, Keys
<1> QED BY <1>1, <1>2, <1>3

LEMMA InstallStep ==
    ASSUME ManagerAssumption, IInv, NEW p \in Procs, Install(p) PROVE IInv'
<1> USE DEF IInv, Install, tableVars, boundVars, Waited
<1>1. Unread \in [Keys -> Vals]
  BY StartType
<1>2. \A k \in Keys : Meant(k, got[p][k])
  BY DEF ReadValues
<1>3. Wanted(got[p]) \subseteq Tasks
  BY DEF Wanted
<1>4. TypeOK'
  BY <1>1, <1>2, <1>3 DEF TypeOK, Meant
<1>5. Holder' /\ Generation' /\ MainFirst'
  BY DEF ManagerAssumption, TypeOK, Holder, Generation, MainFirst
<1>6. TasksMatchState'
  BY DEF TypeOK, TasksMatchState, Wanted
<1>7. ReadValues'
  BY DEF TypeOK, ReadValues, Meant, Keys
<1> QED BY <1>4, <1>5, <1>6, <1>7

-----------------------------------------------------------------------------
(* The tasks, Stop and a death of the process. *)

LEMMA TaskEndsStep ==
    ASSUME ManagerAssumption, IInv, TaskEnds PROVE IInv'
<1> USE DEF IInv, TaskEnds, tableVars, readVars, boundVars
<1>1. PICK r \in running : r.gen # live /\ running' = running \ {r}
  OBVIOUS
<1>2. mu # Nobody
  BY <1>1 DEF TypeOK, TasksMatchState
<1>3. TypeOK'
  BY <1>1 DEF TypeOK, Meant
<1>4. Holder' /\ Generation' /\ MainFirst' /\ TasksMatchState'
  BY <1>1, <1>2 DEF Holder, Generation, MainFirst, TasksMatchState
<1>5. ReadValues'
  BY DEF ReadValues, Meant
<1> QED BY <1>3, <1>4, <1>5

LEMMA StopStep ==
    ASSUME ManagerAssumption, IInv, StopAsked \/ StopLock \/ Stopped PROVE IInv'
<1> USE DEF IInv, StopAsked, StopLock, Stopped, tableVars, readVars, taskVars, boundVars,
            Cancelled, Waited
<1>1. TypeOK'
  BY DEF TypeOK, Meant
<1>2. Holder' /\ Generation' /\ MainFirst'
  BY DEF ManagerAssumption, TypeOK, Holder, Generation, MainFirst
<1>3. TasksMatchState'
  BY DEF ManagerAssumption, TypeOK, Holder, TasksMatchState, Wanted
<1>4. ReadValues'
  BY DEF ManagerAssumption, TypeOK, ReadValues, Meant, Keys
<1> QED BY <1>1, <1>2, <1>3, <1>4

LEMMA CrashStep ==
    ASSUME ManagerAssumption, IInv, Crash PROVE IInv'
<1> USE DEF IInv, Crash, Fault
<1>1. /\ DOMAIN NoForm = {} /\ NoForm \in [{} -> Vals]
      /\ Unread \in [Keys -> Vals] /\ 1 \in Keys /\ Blank \in Vals
  BY StartType
<1>2. TypeOK'
  BY <1>1 DEF TypeOK
<1>3. Holder' /\ Generation' /\ MainFirst' /\ TasksMatchState'
  BY DEF ManagerAssumption, Holder, Generation, MainFirst, TasksMatchState
<1>4. ReadValues'
  BY DEF ManagerAssumption, ReadValues, Keys
<1> QED BY <1>2, <1>3, <1>4

LEMMA NextIInv == ManagerAssumption /\ IInv /\ [Next]_vars => IInv'
<1> SUFFICES ASSUME ManagerAssumption, IInv, [Next]_vars PROVE IInv'
  OBVIOUS
<1>1. ASSUME NEW p \in Pages, Save(p) \/ Write(p) \/ WriteFails(p) PROVE IInv'
  BY <1>1, SaveStep, WriteStep, WriteFailsStep
<1>2. ASSUME NEW p \in Procs,
             Read(p) \/ ReadFails(p) \/ SetLevel(p) \/ Lock(p) \/ Install(p)
      PROVE  IInv'
  BY <1>2, ReadStep, ReadFailsStep, SetLevelStep, LockStep, InstallStep
<1>3. ASSUME TaskEnds \/ StopAsked \/ StopLock \/ Stopped \/ Crash PROVE IInv'
  BY <1>3, TaskEndsStep, StopStep, CrashStep
<1>4. CASE UNCHANGED vars
  BY <1>4 DEF vars, tableVars, readVars, taskVars, boundVars, IInv, TypeOK, Holder, Generation,
              ReadValues, MainFirst, TasksMatchState, Wanted, Meant
<1> QED BY <1>1, <1>2, <1>3, <1>4 DEF Next

(* The invariant the others rest on. *)
THEOREM Invariance == Spec => []IInv
<1>1. Init => IInv
  BY ManagerAssumption, InitIInv
<1>2. IInv /\ [Next]_vars => IInv'
  BY ManagerAssumption, NextIInv
<1> QED BY <1>1, <1>2, PTL DEF Spec

(* The state keeps its types, and no setting in force is blank that has a  *)
(* default (settings.Load).                                                *)
THEOREM TypeCorrect == Spec => []TypeOK
<1>1. IInv => TypeOK
  BY DEF IInv
<1> QED BY <1>1, Invariance, PTL

(* No task runs beside one of other settings (Manager.Reload, Stop).       *)
THEOREM OneAtATime == Spec => []OneGeneration
<1>1. IInv => OneGeneration
  BY DEF IInv, Generation, OneGeneration
<1> QED BY <1>1, Invariance, PTL

(* The tasks that run are those of Manager.state, however many reloads and *)
(* stops meet (Manager.Reload, Stop, State).                               *)
THEOREM TasksMatch == Spec => []TasksMatchState
<1>1. IInv => TasksMatchState
  BY DEF IInv
<1> QED BY <1>1, Invariance, PTL

-----------------------------------------------------------------------------
(* A save that meets no other. *)

LEMMA AloneSave ==
    ASSUME ManagerAssumption, IInv, NEW p \in Pages, NEW q \in Pages, Save(q), alone'[p]
    PROVE  AloneOf(p)'
<1> USE DEF Save
<1>1. q = p /\ \A o \in Pages : Idle(o)
  OBVIOUS
<1>a. PICK g \in Groups : \E f \in [g -> Vals] :
          /\ form' = [form EXCEPT ![p] = f]
          /\ todo' = [todo EXCEPT ![p] = Accepted(f)]
          /\ At(p, AfterWriting(Accepted(f)))
  BY <1>1
<1>2. PICK f \in [g -> Vals] :
          /\ form' = [form EXCEPT ![p] = f]
          /\ todo' = [todo EXCEPT ![p] = Accepted(f)]
          /\ At(p, AfterWriting(Accepted(f)))
  BY <1>a
<1>3. /\ form'[p] = f /\ todo'[p] = Accepted(f) /\ next'[p] = 1
      /\ pc'[p] = AfterWriting(Accepted(f)) /\ \A o \in Pages \ {p} : pc'[o] = pc[o]
  BY <1>1, <1>2 DEF IInv, TypeOK
<1>4. /\ pc'[p] \in {"read", "write"} /\ (pc'[p] = "read" => todo'[p] = {})
  BY <1>3 DEF AfterWriting
<1>5. \A k \in Keys : ~(k < next'[p])
  BY <1>3 DEF ManagerAssumption, Keys
<1>6. \A k \in Accepted(form'[p]) : k \in todo'[p]
  BY <1>3
<1>7. \A o \in Pages \ {p} : Idle(o)'
  BY <1>1, <1>3 DEF Idle
<1> QED BY <1>3, <1>4, <1>5, <1>6, <1>7 DEF AloneOf, Reloading, Accepted

LEMMA AloneWrite ==
    ASSUME ManagerAssumption, IInv, NEW p \in Pages, AloneOf(p),
           NEW q \in Pages, Write(q) \/ WriteFails(q)
    PROVE  AloneOf(p)'
<1>1. q = p
  BY DEF AloneOf, Idle, Write, WriteFails
<1>2. \A o \in Pages \ {p} : Idle(o)'
  BY <1>1 DEF AloneOf, Idle, Write, WriteFails, IInv, TypeOK
<1>3. CASE WriteFails(q)
  <2>1. pc'[p] = "failed"
    BY <1>1, <1>3 DEF WriteFails, IInv, TypeOK
  <2> QED BY <1>2, <2>1 DEF AloneOf, Reloading
<1>4. CASE Write(q)
  <2>1. PICK k \in todo[p] :
            /\ table' = [table EXCEPT ![k] = form[p][k]]
            /\ todo' = [todo EXCEPT ![p] = @ \ {k}]
            /\ At(p, AfterWriting(todo[p] \ {k}))
    BY <1>1, <1>4 DEF Write
  <2>2. /\ k \in Keys /\ todo'[p] = todo[p] \ {k} /\ form' = form /\ next'[p] = 1
        /\ pc'[p] = AfterWriting(todo'[p]) /\ pc[p] = "write"
    BY <1>1, <1>4, <2>1 DEF Write, readVars, IInv, TypeOK, ReadValues
  <2>3. pc'[p] \in {"read", "write"} /\ (pc'[p] = "read" => todo'[p] = {})
    BY <2>2 DEF AfterWriting
  <2>4. \A j \in Accepted(form[p]) : j \in todo'[p] \/ table'[j] = form[p][j]
    <3>1. SUFFICES ASSUME NEW j \in Accepted(form[p]), j \notin todo'[p]
                   PROVE  table'[j] = form[p][j]
      OBVIOUS
    <3>2. j \in Keys
      BY DEF Accepted, IInv, TypeOK
    <3>3. CASE j = k
      BY <2>1, <3>2, <3>3 DEF IInv, TypeOK
    <3>4. CASE j # k
      <4>1. j \notin todo[p]
        BY <3>1, <3>4, <2>2
      <4>2. table[j] = form[p][j]
        BY <4>1, <2>2 DEF AloneOf
      <4> QED BY <4>2, <3>4, <3>2, <2>1 DEF IInv, TypeOK
    <3> QED BY <3>3, <3>4
  <2>5. \A j \in Keys : ~(j < next'[p])
    BY <2>2 DEF ManagerAssumption, Keys
  <2>6. Accepted(form[p])' = Accepted(form[p])
    BY <2>2 DEF Accepted
  <2> QED BY <1>2, <2>2, <2>3, <2>4, <2>5, <2>6 DEF AloneOf, Reloading
<1> QED BY <1>3, <1>4

LEMMA AloneReload ==
    ASSUME ManagerAssumption, IInv, NEW p \in Pages, AloneOf(p),
           Read(p) \/ ReadFails(p) \/ SetLevel(p) \/ Lock(p) \/ Install(p)
    PROVE  AloneOf(p)'
<1>1. \A o \in Pages \ {p} : Idle(o)'
  BY DEF AloneOf, Idle, Read, ReadFails, SetLevel, Lock, Install, IInv, TypeOK
<1>2. /\ table' = table /\ form' = form /\ todo' = todo
      /\ pc[p] \in Reloading
      /\ \A k \in Keys : Value(k)' = Value(k)
  BY DEF Read, ReadFails, SetLevel, Lock, Install, tableVars, Reloading, Value
<1>3. todo'[p] = {} /\ \A k \in Accepted(form'[p]) : table'[k] = form'[p][k]
  BY <1>2 DEF AloneOf
<1>4. CASE ReadFails(p)
  <2>1. pc'[p] = "failed"
    BY <1>4 DEF ReadFails, IInv, TypeOK
  <2> QED BY <1>1, <2>1 DEF AloneOf, Reloading
<1>5. CASE Read(p)
  <2>1. /\ pc[p] = "read" /\ next[p] \in Keys
        /\ pc'[p] = IF next[p] = NKeys THEN "level" ELSE "read"
        /\ next'[p] = IF next[p] = NKeys THEN 1 ELSE next[p] + 1
    BY <1>5 DEF Read, IInv, TypeOK
  <2>2. got'[p][next[p]] = Value(next[p])
    BY <1>5, <2>1 DEF Read, IInv, TypeOK
  <2>3. \A k \in Keys : k # next[p] => got'[p][k] = got[p][k]
    BY <1>5, <2>1 DEF Read, IInv, TypeOK
  <2>4. \A k \in Keys : k <= next[p] => got'[p][k] = Value(k)'
    <3>1. SUFFICES ASSUME NEW k \in Keys, k <= next[p] PROVE got'[p][k] = Value(k)
      BY <1>2
    <3>2. k = next[p] \/ k < next[p]
      BY <3>1, <2>1 DEF Keys
    <3> QED BY <3>2, <2>1, <2>2, <2>3 DEF AloneOf, Keys
  <2>5. CASE next[p] = NKeys
    <3>1. \A k \in Keys : got'[p][k] = Value(k)'
      BY <2>4, <2>5 DEF Keys
    <3>2. pc'[p] = "level"
      BY <2>1, <2>5
    <3> QED BY <1>1, <1>3, <3>1, <3>2 DEF AloneOf
  <2>6. CASE next[p] # NKeys
    <3>1. \A k \in Keys : k < next'[p] => got'[p][k] = Value(k)'
      BY <2>1, <2>4, <2>6 DEF Keys
    <3>2. pc'[p] = "read"
      BY <2>1, <2>6
    <3> QED BY <1>1, <1>3, <3>1, <3>2 DEF AloneOf
  <2> QED BY <2>5, <2>6
<1>6. CASE SetLevel(p)
  <2>1. pc[p] = "level" /\ pc'[p] = "lock" /\ got' = got /\ level' = got[p][LevelKey]
    BY <1>6 DEF SetLevel, readVars, IInv, TypeOK
  <2>2. \A k \in Keys : got'[p][k] = Value(k)'
    BY <2>1, <1>2 DEF AloneOf
  <2> QED BY <1>1, <1>3, <2>1, <2>2 DEF AloneOf
<1>7. CASE Lock(p)
  <2>1. pc[p] = "lock" /\ pc'[p] = "wait" /\ got' = got /\ level' = level
    BY <1>7 DEF Lock, readVars, IInv, TypeOK
  <2>2. (\A k \in Keys : got'[p][k] = Value(k)') /\ level' = got'[p][LevelKey]
    BY <2>1, <1>2 DEF AloneOf
  <2> QED BY <1>1, <1>3, <2>1, <2>2 DEF AloneOf
<1>8. CASE Install(p)
  <2>1. pc[p] = "wait" /\ pc'[p] = "done" /\ conf' = got[p] /\ level' = level
    BY <1>8 DEF Install, IInv, TypeOK
  <2>2. (\A k \in Keys : got[p][k] = Value(k)') /\ level = got[p][LevelKey]
    BY <2>1, <1>2 DEF AloneOf
  <2>3. conf' = Loaded'
    BY <2>1, <2>2 DEF Loaded, IInv, TypeOK
  <2> QED BY <1>1, <1>3, <2>1, <2>2, <2>3 DEF AloneOf
<1> QED BY <1>4, <1>5, <1>6, <1>7, <1>8

LEMMA AloneBoot ==
    ASSUME ManagerAssumption, IInv, NEW p \in Pages, AloneOf(p),
           NEW q \in Procs \ {p},
           Read(q) \/ ReadFails(q) \/ SetLevel(q) \/ Lock(q) \/ Install(q)
    PROVE  AloneOf(p)'
<1>1. q = Main
  BY DEF AloneOf, Idle, Read, ReadFails, SetLevel, Lock, Install
<1>2. \A o \in Pages : pc[o] = "rest"
  BY <1>1 DEF IInv, MainFirst, Read, ReadFails, SetLevel, Lock, Install
<1>3. \A o \in Pages : pc'[o] = "rest"
  BY <1>1, <1>2 DEF ManagerAssumption, IInv, TypeOK, Read, ReadFails, SetLevel, Lock, Install
<1> QED BY <1>3 DEF AloneOf, Idle, Reloading

LEMMA AloneAround ==
    ASSUME ManagerAssumption, IInv, NEW p \in Pages, AloneOf(p),
           TaskEnds \/ StopAsked \/ StopLock \/ Stopped \/ UNCHANGED vars
    PROVE  AloneOf(p)'
<1> USE DEF TaskEnds, StopAsked, StopLock, Stopped, vars, tableVars, readVars, taskVars
<1>1. \A o \in Pages : pc'[o] = pc[o]
  BY DEF ManagerAssumption, IInv, TypeOK
<1>2. table' = table /\ form' = form /\ todo' = todo /\ got' = got /\ next' = next
  OBVIOUS
<1>3. conf' = conf /\ level' = level /\ Loaded' = Loaded /\ \A k \in Keys : Value(k)' = Value(k)
  BY <1>2 DEF Loaded, Value
<1>4. Accepted(form[p])' = Accepted(form[p])
  BY <1>2 DEF Accepted
<1>5. \A o \in Pages \ {p} : Idle(o)'
  BY <1>1 DEF AloneOf, Idle
<1> QED BY <1>1, <1>2, <1>3, <1>4, <1>5 DEF AloneOf

LEMMA NextAlone ==
    ASSUME ManagerAssumption, IInv, AloneInv, [Next]_vars PROVE AloneInv'
<1> SUFFICES ASSUME NEW p \in Pages, alone'[p] PROVE AloneOf(p)'
  BY DEF AloneInv
<1>1. CASE \E q \in Pages : Save(q)
  BY <1>1, AloneSave
<1>2. CASE Crash
  BY <1>2 DEF Crash
<1>3. CASE ~Crash /\ ~\E q \in Pages : Save(q)
  <2>1. alone' = alone
    BY <1>3 DEF Next, Write, WriteFails, Read, ReadFails, SetLevel, Lock, Install, TaskEnds,
                StopAsked, StopLock, Stopped, vars
  <2>2. AloneOf(p)
    BY <2>1 DEF AloneInv
  <2>3. ASSUME NEW q \in Pages, Write(q) \/ WriteFails(q) PROVE AloneOf(p)'
    BY <2>2, <2>3, AloneWrite
  <2>4. ASSUME NEW q \in Procs,
               Read(q) \/ ReadFails(q) \/ SetLevel(q) \/ Lock(q) \/ Install(q)
        PROVE  AloneOf(p)'
    <3>1. CASE q = p
      BY <2>2, <2>4, <3>1, AloneReload
    <3>2. CASE q # p
      BY <2>2, <2>4, <3>2, AloneBoot
    <3> QED BY <3>1, <3>2
  <2>5. CASE TaskEnds \/ StopAsked \/ StopLock \/ Stopped \/ UNCHANGED vars
    BY <2>2, <2>5, AloneAround
  <2> QED BY <1>3, <2>3, <2>4, <2>5 DEF Next
<1> QED BY <1>1, <1>2, <1>3

(* When a save that met no other ends, its settings are in force, and with *)
(* them all those of the table (saveGroup, settings.Set, Manager.Reload).  *)
THEOREM AloneApplied == Spec => []AloneIsApplied
<1>1. Init => AloneInv
  BY DEF Init, AloneInv
<1>2. IInv /\ AloneInv /\ [Next]_vars => AloneInv'
  BY ManagerAssumption, NextAlone
<1>3. TypeOK /\ AloneInv => AloneIsApplied
  <2> SUFFICES ASSUME TypeOK, AloneInv, NEW p \in Pages, pc[p] = "done", alone[p]
               PROVE  /\ conf = Loaded /\ level = conf[LevelKey]
                      /\ \A k \in DOMAIN form[p] \ DOMAIN Forced :
                            IF form[p][k] # Blank THEN conf[k] = form[p][k]
                            ELSE k \in Secrets \/ conf[k] = Default[k]
    BY DEF AloneIsApplied
  <2>1. conf = Loaded /\ level = conf[LevelKey]
    BY DEF AloneInv, AloneOf
  <2>2. \A k \in Accepted(form[p]) : table[k] = form[p][k]
    BY DEF AloneInv, AloneOf, Reloading
  <2>3. ASSUME NEW k \in DOMAIN form[p] \ DOMAIN Forced
        PROVE  IF form[p][k] # Blank THEN conf[k] = form[p][k]
               ELSE k \in Secrets \/ conf[k] = Default[k]
    <3>1. k \in Keys /\ conf[k] = IF table[k] = Blank THEN Default[k] ELSE table[k]
      BY <2>1, <2>3 DEF Loaded, Value, TypeOK
    <3>2. CASE form[p][k] = Blank /\ k \in Secrets
      BY <3>2
    <3>3. CASE ~(form[p][k] = Blank /\ k \in Secrets)
      <4>1. table[k] = form[p][k]
        BY <2>2, <2>3, <3>3 DEF Accepted
      <4> QED BY <4>1, <3>1, <3>3
    <3> QED BY <3>2, <3>3
  <2> QED BY <2>1, <2>3
<1>4. IInv => TypeOK
  BY DEF IInv
<1> QED BY <1>1, <1>2, <1>3, <1>4, Invariance, PTL DEF Spec
==========================================================================
