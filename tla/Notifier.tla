----------------------------- MODULE Notifier -----------------------------
(***************************************************************************)
(* The notifications: internal/notify/notify.go, which follows the journal *)
(* (internal/store/events.go) with a cursor kept in the settings.  A poll  *)
(* reads the cursor, then the events after it page by page, sends one      *)
(* message for those that are wanted and recent, and moves the cursor:     *)
(*                                                                         *)
(*     idle --> reading* --> sending --> saving --> idle                   *)
(*       \--> arming (first poll: the past is not sent) --/                *)
(*                                                                         *)
(* Each arrow is a call to the database or to the service; the recorder    *)
(* and the prober write in the journal, the owner adds and removes notes,  *)
(* the purge removes old events in between, and the notifier may be        *)
(* cancelled (settings saved) or killed at any point.                      *)
(*                                                                         *)
(* events.id is an INTEGER PRIMARY KEY without AUTOINCREMENT: SQLite gives *)
(* a new row the greatest identifier in the table plus one, so the         *)
(* identifier of the newest event serves again when that event is removed. *)
(*                                                                         *)
(* A definition whose name starts with Slip is a plausible mistake in the  *)
(* definition that follows it; no action uses it.                          *)
(***************************************************************************)
EXTENDS Integers, FiniteSets

CONSTANTS
    Kinds,        \* kinds of the events the program writes
    Filter,       \* the kinds the owner wants (settings)
    NoteKind,     \* the kind of the notes the owner writes
    MaxAge,       \* age past which an event is not sent: one hour
    PageLimit,    \* events read at a time: 500
    MaxLag,       \* how far before its writing an event may be dated
    MaxEvents,    \* bound on the events written
    MaxTime,      \* bound on the clock
    MaxFaults     \* bound on the failures and interruptions

ASSUME NotifierAssumption ==
    /\ NoteKind \notin Kinds
    /\ MaxAge \in Nat /\ PageLimit \in Nat \ {0} /\ MaxLag \in Nat
    /\ MaxEvents \in Nat /\ MaxTime \in Nat /\ MaxFaults \in Nat

VARIABLES
    now,       \* the clock
    journal,   \* table events
    cursor,    \* setting notif.dernier_evenement, None when not set
    pc,        \* where the goroutine of the notifier is
    last,      \* the cursor this poll started from
    next,      \* the last identifier this poll has read
    batch,     \* what this poll will send
    faults,    \* failures and interruptions so far
    written,   \* history: events written so far; numbers them
    past,      \* history: events the first poll left out
    sent,      \* history: events the service received
    cutShort,  \* history: a message received, its cursor not saved
    resent     \* history: an event was received twice

pollVars    == <<pc, last, next, batch>>
historyVars == <<past, sent, cutShort, resent>>
vars == <<now, journal, cursor, pollVars, faults, written, historyVars>>

None == -1

(* An entry keeps, beside the columns the notifier reads, its number and   *)
(* whether its identifier had been passed already.                         *)
Entry(n, id, kind, t, passed) ==
    [n |-> n, id |-> id, kind |-> kind, ts |-> t, passed |-> passed]

Ids == {e.id : e \in journal}

(* The identifier SQLite gives to a new row. *)
IsNewId(id) ==
    IF journal = {} THEN id = 1
    ELSE id - 1 \in Ids /\ \A i \in Ids : i < id

(* store.LastEventID *)
IsLastId(id) ==
    IF journal = {} THEN id = 0 ELSE id \in Ids /\ \A i \in Ids : i <= id

(* Notifier.Wanted: a note is never sent back to its author. *)
Wanted(e) == e.kind # NoteKind /\ e.kind \in Filter

Recent(e) == now - e.ts <= MaxAge

(* store.EventsAfter: the first events after an identifier. *)
After(id) == {e \in journal : e.id > id}
Page == {e \in After(next) :
           Cardinality({d \in After(next) : d.id <= e.id}) <= PageLimit}

Fault == faults < MaxFaults /\ faults' = faults + 1

-----------------------------------------------------------------------------
(* One poll (Notifier.poll). *)

Rest == pc' = "idle" /\ last' = 0 /\ next' = 0 /\ batch' = {}

(* The cursor is read. *)
StartPoll ==
    /\ pc = "idle" /\ cursor # None
    /\ pc' = "reading" /\ last' = cursor /\ next' = cursor
    /\ UNCHANGED <<now, journal, cursor, batch, faults, written, historyVars>>

(* The first poll reads the last identifier of the journal. *)
Arm ==
    /\ pc = "idle" /\ cursor = None
    /\ pc' = "arming"
    /\ \E id \in Ids \cup {0} : IsLastId(id) /\ next' = id
    /\ past' = {e.n : e \in journal}
    /\ UNCHANGED <<now, journal, cursor, last, batch, faults, written, sent,
                   cutShort, resent>>

(* What follows the last page. *)
AfterReading(to, what) ==
    IF to = last THEN Rest
    ELSE /\ pc' = (IF what = {} THEN "saving" ELSE "sending")
         /\ next' = to /\ batch' = what /\ UNCHANGED last

(* One page: the wanted and recent events join the batch. *)
Picked == {e \in Page : Wanted(e) /\ Recent(e)}

IsLastPage == Cardinality(After(next)) < PageLimit

(* The last identifier of the page, whatever is wanted in it. *)
Ends(S) == IF S = {} THEN {next} ELSE {e.id : e \in {e \in S : \A d \in S : d.id <= e.id}}
SlipPageEnd == Ends(Picked)
PageEnd == Ends(Page)

ReadPage ==
    /\ pc = "reading"
    /\ \E to \in PageEnd :
         IF IsLastPage
         THEN AfterReading(to, batch \cup {e.n : e \in Picked})
         ELSE /\ next' = to /\ batch' = batch \cup {e.n : e \in Picked}
              /\ UNCHANGED <<pc, last>>
    /\ UNCHANGED <<now, journal, cursor, faults, written, historyVars>>

(* The service received the message. *)
Received ==
    /\ sent' = sent \cup batch
    /\ resent' = (resent \/ batch \cap sent # {})

Send ==
    /\ pc = "sending"
    /\ Received
    /\ pc' = "saving"
    /\ UNCHANGED <<now, journal, cursor, last, next, batch, faults, written, past,
                   cutShort>>

(* It did not, or the answer was lost: the next poll sends it again. *)
SendFails ==
    /\ pc = "sending" /\ Fault
    /\ \/ UNCHANGED <<sent, resent, cutShort>>
       \/ Received /\ cutShort' = TRUE
    /\ Rest
    /\ UNCHANGED <<now, journal, cursor, written, past>>

(* The cursor moves past everything read. *)
SlipMoved == last
SlipMovedAhead == IF journal = {} THEN next ELSE CHOOSE i \in Ids : \A j \in Ids : j <= i
Moved == next

SaveCursor ==
    /\ pc \in {"saving", "arming"}
    /\ cursor' = Moved
    /\ Rest
    /\ UNCHANGED <<now, journal, faults, written, historyVars>>

(* A call fails, the context is cancelled or the process dies: the poll is *)
(* abandoned, and another starts over from the cursor.                     *)
Abandon ==
    /\ pc # "idle" /\ Fault
    /\ cutShort' = (cutShort \/ (pc = "saving" /\ batch # {}))
    /\ Rest
    /\ UNCHANGED <<now, journal, cursor, written, past, sent, resent>>

-----------------------------------------------------------------------------
(* The rest of the program. *)

(* An identifier is passed when the cursor is, or will be, beyond it. *)
Passed(id) == id <= cursor \/ (pc # "idle" /\ id <= next)

(* store.SaveEvents.  An outage is dated at its first missed attempt, a    *)
(* note at any past date.                                                  *)
Write ==
    /\ written < MaxEvents /\ written' = written + 1
    /\ \E id \in 1..written', kind \in Kinds \cup {NoteKind}, lag \in 0..MaxLag :
         /\ IsNewId(id)
         /\ journal' = journal \cup
                {Entry(written', id, kind, now - lag, Passed(id))}
    /\ UNCHANGED <<now, cursor, pollVars, faults, historyVars>>

(* store.DeleteNote *)
DeleteNote ==
    /\ \E e \in journal : e.kind = NoteKind /\ journal' = journal \ {e}
    /\ UNCHANGED <<now, cursor, pollVars, faults, written, historyVars>>

(* store.Purge: events older than those kept, or than every reading. *)
Purge ==
    /\ \E t \in 1..now :
         /\ \E e \in journal : e.ts < t
         /\ journal' = {e \in journal : e.ts >= t}
    /\ UNCHANGED <<now, cursor, pollVars, faults, written, historyVars>>

Tick ==
    /\ now < MaxTime
    /\ now' = now + 1
    /\ UNCHANGED <<journal, cursor, pollVars, faults, written, historyVars>>

Init ==
    /\ now = 0 /\ journal = {} /\ cursor = None
    /\ pc = "idle" /\ last = 0 /\ next = 0 /\ batch = {}
    /\ faults = 0 /\ written = 0
    /\ past = {} /\ sent = {} /\ cutShort = FALSE /\ resent = FALSE

Next ==
    \/ StartPoll \/ Arm \/ ReadPage \/ Send \/ SendFails \/ SaveCursor \/ Abandon
    \/ Write \/ DeleteNote \/ Purge \/ Tick

Spec == Init /\ [][Next]_vars

(* The notifier polls every 15 seconds and its calls come back (a context  *)
(* with a deadline, a busy timeout): each of its steps is fair.  A message *)
(* the service keeps refusing is a fault, and faults are bounded.          *)
Fairness == WF_vars(StartPoll \/ Arm \/ ReadPage \/ Send \/ SaveCursor)
FairSpec == Spec /\ Fairness

-----------------------------------------------------------------------------
(* What the notifications promise. *)

(* Every variable keeps its type, and id is a key of the table. *)
EntryType == [n : 1..written, id : Nat, kind : Kinds \cup {NoteKind}, ts : Int,
              passed : BOOLEAN]
TypeOK ==
    /\ now \in Nat /\ journal \subseteq EntryType
    /\ \A d, e \in journal : d.id = e.id => d = e
    /\ cursor \in Nat \cup {None}
    /\ pc \in {"idle", "arming", "reading", "sending", "saving"}
    /\ last \in Nat /\ next \in Nat /\ batch \subseteq 1..written
    /\ faults \in Nat /\ written \in Nat
    /\ past \subseteq 1..written /\ sent \subseteq 1..written
    /\ cutShort \in BOOLEAN /\ resent \in BOOLEAN

(* An event left behind by the cursor without having been sent. *)
LeftBehind(e) ==
    /\ Wanted(e) /\ e.n \notin sent /\ e.n \notin past
    /\ cursor # None /\ e.id <= cursor

(* No failure, interruption, purge or removed note makes the cursor leave  *)
(* a wanted event behind before it is too old to be sent, but for one      *)
(* written under an identifier the cursor had already passed.              *)
NothingSkipped ==
    \A e \in journal : LeftBehind(e) => e.passed \/ ~Recent(e)

(* The same without the reserve, as the test of the notifier says: sent    *)
(* without loss (notify/notify_test.go:105).                               *)
NothingLost == \A e \in journal : LeftBehind(e) => ~Recent(e)

(* An event is received twice only after a message whose cursor could not  *)
(* be saved.                                                               *)
NoDuplicate == resent => cutShort

(* What was in the journal when the notifications were switched on is      *)
(* never sent, and no note ever is.                                        *)
PastIsNotSent ==
    /\ past \cap sent = {}
    /\ \A e \in journal : e.n \in sent => Wanted(e)

(* So what is received is new, once, unless a save of the cursor failed.   *)
OnlyTheNewIsSent == NoDuplicate /\ PastIsNotSent

(* A wanted event ahead of the cursor is sent, unless it gets too old or   *)
(* is purged first: no interleaving of polls, writes and failures leaves   *)
(* the notifier stuck.                                                     *)
Waiting(n) ==
    \E e \in journal :
        e.n = n /\ Wanted(e) /\ Recent(e) /\ n \notin sent \cup past /\ ~e.passed
EventuallySettled == \A n \in 1..MaxEvents : Waiting(n) ~> ~Waiting(n)
==========================================================================
