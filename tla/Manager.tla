----------------------------- MODULE Manager ------------------------------
(***************************************************************************)
(* The settings and the background tasks they drive: settings.Set and      *)
(* settings.Load over the table of settings, service.Manager.Reload and    *)
(* Stop, the pages that save a group and the program that starts and stops *)
(* it all.  A save of a page is                                            *)
(*                                                                         *)
(*   write* -> read* -> level -> lock -> wait -> done                      *)
(*                                                                         *)
(* a setting written or read at a time, the tasks of the settings before   *)
(* cancelled on taking the lock and waited for under it.  Any number of    *)
(* pages do so at once; only "wait" holds the lock.  The program does the  *)
(* same from "read" when it starts, and only lock and wait when it stops.  *)
(*                                                                         *)
(* The pages of a program that stops are not waited for (main.go, listen), *)
(* nor those of a demonstration that is closed: a save may go on after     *)
(* Stop.                                                                   *)
(*                                                                         *)
(* A definition whose name starts with Slip is a plausible mistake in the  *)
(* definition that follows it; no action uses it.                          *)
(***************************************************************************)
EXTENDS Integers

CONSTANTS
    Pages,     \* requests of pages, handled at once
    Main,      \* the program, or the demonstration
    Nobody,
    NKeys,     \* settings, numbered in the order they are read
    Vals,      \* their values
    Valid,     \* the values each may take, besides being left blank
    Blank,     \* the value left empty
    Default,   \* value of each setting when it is absent or blank
    Forced,    \* values imposed by the environment, by setting
    Secrets,   \* settings a form left blank does not change
    Groups,    \* sets of settings that a page saves together
    LevelKey,  \* the level of detail of the program log
    Tasks,     \* background tasks
    Switch,    \* the setting that starts each of them
    On,        \* its value that does
    MaxPosts,  \* bound on the saves
    MaxFaults  \* bound on the statements that fail and the deaths of the process

Keys == 1..NKeys
Procs == Pages \cup {Main}

ASSUME ManagerAssumption ==
    /\ Main \notin Pages /\ Nobody \notin Procs
    /\ NKeys \in Nat \ {0}
    /\ Blank \in Vals /\ Valid \in [Keys -> SUBSET Vals] /\ Default \in [Keys -> Vals]
    /\ DOMAIN Forced \subseteq Keys /\ \A k \in DOMAIN Forced : Forced[k] \in Vals
    /\ Groups \subseteq SUBSET Keys
    /\ LevelKey \in Keys
    /\ Switch \in [Tasks -> Keys]
    /\ MaxPosts \in Nat /\ MaxFaults \in Nat

VARIABLES
    table,   \* the table of settings; an absent one is blank
    pc,      \* where each call is
    form,    \* what each page was given to save
    todo,    \* what it has not written yet
    got,     \* the settings each call has read
    next,    \* the setting it reads next
    mu,      \* Manager.mu: who holds it
    live,    \* Manager.cancel: the generation of tasks not cancelled (0: nil)
    gen,     \* generations of tasks started
    running, \* the tasks that run, each with its generation
    conf,    \* Manager.state: the settings in force
    level,   \* of the program log
    posts, faults,
    alone    \* history: saves during which no other call was made

tableVars == <<table, form, todo>>
readVars == <<got, next>>
taskVars == <<mu, live, gen, running, conf>>
boundVars == <<posts, faults>>
vars == <<tableVars, pc, readVars, taskVars, level, boundVars, alone>>

At(p, s) == pc' = [pc EXCEPT ![p] = s]
Fault == faults < MaxFaults /\ faults' = faults + 1 /\ UNCHANGED posts
NoForm == [k \in {} |-> Blank]
Unread == [k \in Keys |-> Blank]
Idle(p) == pc[p] \in {"rest", "done", "failed", "stopped"}

-----------------------------------------------------------------------------
(* settings.Set: everything is checked, then written one by one, in the    *)
(* order of a Go map.  A form that is refused changes nothing.             *)

SlipAccepted(f) ==  \* only what differs from the settings in force
    {k \in DOMAIN f : k \notin DOMAIN Forced /\ ~(k \in Secrets /\ f[k] = Blank) /\ f[k] # conf[k]}
Accepted(f) ==
    {k \in DOMAIN f : k \notin DOMAIN Forced /\ ~(k \in Secrets /\ f[k] = Blank)}

AfterWriting(left) == IF left = {} THEN "read" ELSE "write"

(* A page is asked to save a group, while the program serves. *)
Save(p) ==
    /\ Idle(p) /\ pc[Main] = "done" /\ posts < MaxPosts
    /\ posts' = posts + 1
    /\ \E g \in Groups : \E f \in [g -> Vals] :
        /\ \A k \in g : f[k] \in Valid[k] \cup {Blank}
        /\ form' = [form EXCEPT ![p] = f]
        /\ todo' = [todo EXCEPT ![p] = Accepted(f)]
        /\ At(p, AfterWriting(Accepted(f)))
    /\ next' = [next EXCEPT ![p] = 1]
    /\ alone' = [q \in Pages |-> q = p /\ \A o \in Pages : Idle(o)]
    /\ UNCHANGED <<table, got, taskVars, level, faults>>

Write(p) ==
    /\ pc[p] = "write"
    /\ \E k \in todo[p] :
        /\ table' = [table EXCEPT ![k] = form[p][k]]
        /\ todo' = [todo EXCEPT ![p] = @ \ {k}]
        /\ At(p, AfterWriting(todo[p] \ {k}))
    /\ UNCHANGED <<form, readVars, taskVars, level, boundVars, alone>>

(* The statement fails, or its context ended with the request. *)
WriteFails(p) ==
    /\ pc[p] = "write" /\ Fault
    /\ At(p, "failed")
    /\ UNCHANGED <<tableVars, readVars, taskVars, level, alone>>

-----------------------------------------------------------------------------
(* Manager.Reload. *)

(* settings.Load: an imposed value, else the saved one, else the default. *)
Value(k) ==
    IF k \in DOMAIN Forced THEN Forced[k]
    ELSE IF table[k] = Blank THEN Default[k] ELSE table[k]
Loaded == [k \in Keys |-> Value(k)]

Read(p) ==
    /\ pc[p] = "read"
    /\ got' = [got EXCEPT ![p][next[p]] = Value(next[p])]
    /\ next' = [next EXCEPT ![p] = IF @ = NKeys THEN 1 ELSE @ + 1]
    /\ At(p, IF next[p] = NKeys THEN "level" ELSE "read")
    /\ UNCHANGED <<tableVars, taskVars, level, boundVars, alone>>

ReadFails(p) ==
    /\ pc[p] = "read" /\ Fault
    /\ At(p, "failed")
    /\ UNCHANGED <<tableVars, readVars, taskVars, level, alone>>

(* Journal.SetLevel, before the lock. *)
SetLevel(p) ==
    /\ pc[p] = "level"
    /\ level' = got[p][LevelKey]
    /\ At(p, "lock")
    /\ UNCHANGED <<tableVars, readVars, taskVars, boundVars, alone>>

SlipCancelled(g) == g  \* the tasks waited for and not cancelled
Cancelled(g) == 0

Lock(p) ==
    /\ pc[p] = "lock" /\ mu = Nobody
    /\ mu' = p
    /\ live' = Cancelled(live)
    /\ At(p, "wait")
    /\ UNCHANGED <<tableVars, readVars, gen, running, conf, level, boundVars, alone>>

(* A task sees its context end, and returns. *)
TaskEnds ==
    /\ \E r \in running :
        /\ r.gen # live
        /\ running' = running \ {r}
    /\ UNCHANGED <<tableVars, pc, readVars, mu, live, gen, conf, level, boundVars, alone>>

(* wg.Wait *)
SlipWaited == mu # Nobody  \* the tasks cancelled and not waited for
Waited == running = {}

SlipWanted(c) == {t \in Tasks : conf[Switch[t]] = On}  \* by the state of before
Wanted(c) == {t \in Tasks : c[Switch[t]] = On}

Install(p) ==
    /\ pc[p] = "wait" /\ Waited
    /\ gen' = gen + 1 /\ live' = gen + 1
    /\ running' = running \cup {[task |-> t, gen |-> gen + 1] : t \in Wanted(got[p])}
    /\ conf' = got[p]
    /\ got' = [got EXCEPT ![p] = Unread]
    /\ mu' = Nobody
    /\ At(p, "done")
    /\ UNCHANGED <<tableVars, next, level, boundVars, alone>>

-----------------------------------------------------------------------------
(* Manager.Stop: the program is asked to stop. *)

StopAsked ==
    /\ pc[Main] = "done"
    /\ At(Main, "closing")
    /\ UNCHANGED <<tableVars, readVars, taskVars, level, boundVars, alone>>

StopLock ==
    /\ pc[Main] = "closing" /\ mu = Nobody
    /\ mu' = Main
    /\ live' = Cancelled(live)
    /\ At(Main, "draining")
    /\ UNCHANGED <<tableVars, readVars, gen, running, conf, level, boundVars, alone>>

Stopped ==
    /\ pc[Main] = "draining" /\ Waited
    /\ mu' = Nobody
    /\ At(Main, "stopped")
    /\ UNCHANGED <<tableVars, readVars, live, gen, running, conf, level, boundVars, alone>>

(* The process dies, or has stopped, and starts again: the table is left.  *)
Crash ==
    /\ Fault
    /\ pc' = [p \in Procs |-> IF p = Main THEN "read" ELSE "rest"]
    /\ form' = [p \in Pages |-> NoForm] /\ todo' = [p \in Pages |-> {}]
    /\ got' = [p \in Procs |-> Unread] /\ next' = [p \in Procs |-> 1]
    /\ mu' = Nobody /\ live' = 0 /\ gen' = 0 /\ running' = {}
    /\ conf' = Unread /\ level' = Blank
    /\ alone' = [p \in Pages |-> FALSE]
    /\ UNCHANGED table

Init ==
    /\ table = Unread
    /\ pc = [p \in Procs |-> IF p = Main THEN "read" ELSE "rest"]
    /\ form = [p \in Pages |-> NoForm] /\ todo = [p \in Pages |-> {}]
    /\ got = [p \in Procs |-> Unread] /\ next = [p \in Procs |-> 1]
    /\ mu = Nobody /\ live = 0 /\ gen = 0 /\ running = {}
    /\ conf = Unread /\ level = Blank
    /\ posts = 0 /\ faults = 0
    /\ alone = [p \in Pages |-> FALSE]

Next ==
    \/ \E p \in Pages : Save(p) \/ Write(p) \/ WriteFails(p)
    \/ \E p \in Procs : Read(p) \/ ReadFails(p) \/ SetLevel(p) \/ Lock(p) \/ Install(p)
    \/ TaskEnds
    \/ StopAsked \/ StopLock \/ Stopped
    \/ Crash

Spec == Init /\ [][Next]_vars

(* Whoever holds the lock goes on, and a task returns when its context     *)
(* ends: each looks at it between two waits bounded by a timeout.          *)
Fairness ==
    /\ \A p \in Procs : WF_vars(Install(p))
    /\ WF_vars(TaskEnds)
    /\ WF_vars(Stopped)

FairSpec == Spec /\ Fairness

-----------------------------------------------------------------------------
(* What is promised. *)

Meant(k, v) == v = Blank => k \in DOMAIN Forced \/ Default[k] = Blank

(* Every variable keeps its type; a setting with a default is never read   *)
(* as blank ("une conservation videe ne doit pas devenir illimitee",       *)
(* settings.go:164).                                                       *)
TypeOK ==
    /\ table \in [Keys -> Vals]
    /\ pc \in [Procs -> {"rest", "write", "read", "level", "lock", "wait", "done",
                         "failed", "closing", "draining", "stopped"}]
    /\ form = [p \in Pages |-> form[p]] /\ todo \in [Pages -> SUBSET Keys]
    /\ \A p \in Pages : /\ form[p] \in [DOMAIN form[p] -> Vals]
                        /\ todo[p] \subseteq DOMAIN form[p] /\ DOMAIN form[p] \subseteq Keys
    /\ got \in [Procs -> [Keys -> Vals]] /\ next \in [Procs -> Keys]
    /\ mu \in Procs \cup {Nobody}
    /\ gen \in Nat /\ live \in {0, gen}
    /\ running \subseteq [task : Tasks, gen : 1..gen]
    /\ conf \in [Keys -> Vals] /\ level \in Vals
    /\ gen > 0 => \A k \in Keys : Meant(k, conf[k])
    /\ posts \in Nat /\ faults \in Nat /\ alone \in [Pages -> BOOLEAN]

(* A task never runs beside one started for other settings: two collection *)
(* loops would take from each other the one session the modem grants, and  *)
(* two probes write each its own outage.                                   *)
OneGeneration == \A r, s \in running : r.gen = s.gen

(* What the pages say of the tasks is what runs: while nobody holds the    *)
(* lock the tasks are those of the settings in force, or none after Stop,  *)
(* however many saves meet.                                                *)
TasksMatchState ==
    mu = Nobody => running = IF live = 0 THEN {}
                             ELSE {[task |-> t, gen |-> live] : t \in Wanted(conf)}

(* A save that no other meets is in force when it ends, whatever failed    *)
(* before it: the settings of the group, and those of the table.           *)
AloneIsApplied ==
    \A p \in Pages : pc[p] = "done" /\ alone[p] /\ pc[Main] = "done" =>
        /\ conf = Loaded /\ level = conf[LevelKey]
        /\ \A k \in DOMAIN form[p] \ DOMAIN Forced :
              IF form[p][k] # Blank THEN conf[k] = form[p][k]
              ELSE k \in Secrets \/ conf[k] = Default[k]

(* "Un changement s'applique aussitot, sans redemarrer"                    *)
(* (docs/configuration.md:5).  When no save is under way and nothing ever  *)
(* failed, the settings in force are those of the table.                   *)
SavedIsInForce ==
    faults = 0 /\ pc[Main] = "done" /\ (\A p \in Pages : Idle(p))
        => conf = Loaded

(* A save or a stop that holds the lock releases it: the tasks it waits    *)
(* for all end, and no task waits for it.  Pages read the settings in      *)
(* force under the same lock, so none of them would answer any more.       *)
LockIsReleased == mu # Nobody ~> mu = Nobody
==========================================================================
