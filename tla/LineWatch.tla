---------------------------- MODULE LineWatch ----------------------------
(***************************************************************************)
(* The watch over the cable modem: the collection loop of                  *)
(* internal/collect/loop.go and the recorder of internal/events, which     *)
(* turns each reading, obtained or missed, into dated events of the        *)
(* journal.  One goroutine runs both, so a poll is a sequence of steps     *)
(*                                                                         *)
(*     idle --timer--> polling --reading stored--> observing --> idle      *)
(*                        \--------- missed, lost ---------------> idle    *)
(*                                                                         *)
(* between which the rest of the program moves: somebody asks for a        *)
(* restart from the web page, the prober writes an alert, the settings are *)
(* saved and the loop is started again, the power goes.                    *)
(*                                                                         *)
(* The journal is kept as the recorder reads it.  Every question it asks   *)
(* (store.LastEvent) is about the latest event of a group of kinds, so the *)
(* state holds that event for each group: "state" (etat), "spike"          *)
(* (erreurs, erreurs_fin), "link" (modem_injoignable, modem_retrouve),     *)
(* "restart" (redemarrage, redemarrage_absent) and "asked"                 *)
(* (redemarrage_demande).                                                  *)
(*                                                                         *)
(* Time is counted in ticks and never goes back.  A tick is the second the *)
(* store keeps its dates to: two things of the same tick have equal dates, *)
(* in whichever order they came.                                           *)
(*                                                                         *)
(* A definition whose name starts with Slip is a plausible mistake in the  *)
(* definition that follows it; no action uses it.                          *)
(***************************************************************************)
EXTENDS Integers

CONSTANTS
    Interval,        \* ticks between two readings (settings)
    BurstInterval,   \* ticks between two readings after an incident
    BurstWindow,     \* how long an incident shortens the delay
    BurstOn,         \* the setting that allows it
    RestartGuard,    \* how long a second restart request is refused
    RestartWindow,   \* after it, a modem that did not restart never will
    RestartFollow,   \* after it, a restart is unrelated to the request
    UptimeSlack,     \* tolerance on the uptime the modem tells
    SaveTimeout,     \* a reading is stored and observed within it
    ProbeOn,         \* the setting that runs the probe
    Levels,          \* verdicts a reading may get
    Profiles,        \* whether the profiles of the settings are calibrated
    MaxRequests,     \* bound on the restart requests
    MaxTime,         \* bound on the clock
    MaxFaults        \* bound on the database calls that fail

(* Levels of analyze.Level, as the journal stores them. *)
Unknown   == 0
Good      == 1
Tolerated == 2
Warning   == 3
Critical  == 4

ASSUME LineWatchAssumption ==
    /\ Interval \in Nat \ {0} /\ BurstInterval \in Nat \ {0}
    /\ BurstWindow \in Nat /\ BurstOn \in BOOLEAN /\ ProbeOn \in BOOLEAN
    /\ RestartGuard \in Nat /\ RestartWindow \in Nat
    /\ RestartFollow \in Nat /\ UptimeSlack \in Nat
    /\ SaveTimeout \in 0..UptimeSlack
    /\ Levels \subseteq Unknown..Critical /\ Profiles \subseteq BOOLEAN
    /\ MaxRequests \in Nat /\ MaxTime \in Nat /\ MaxFaults \in Nat

(* Two failed readings in a row make an unreachable modem. *)
FailuresBeforeAlert == 2

VARIABLES
    now,          \* the clock
    boot,         \* when the modem last started
    pc,           \* where the collection goroutine is
    polled,       \* when the poll under way began (0 outside one)
    due,          \* when the timer of the loop fires (0 while it is stopped)
    wake,         \* Manager.wake, a channel of one place
    calibrated,   \* the operator profile has thresholds, so readings are judged
    failures,     \* Recorder.failures
    firstFailure, \* Recorder.firstFailure (0 outside a streak: never read)
    reading,      \* the latest stored reading: its time and the modem's start
    prev,         \* the latest stored reading strictly older than it
    journal,      \* the latest event of each group of kinds
    lastAlert,    \* time of the latest event of level Warning or above
    nudging,      \* a request is journaled, Manager.Nudge not called yet
    faults,       \* database calls that failed so far
    requests,     \* restart requests so far
    alertLost,    \* history: the event of this streak was not written
    judged,       \* history: level of the last judged reading journaled
    verdicts      \* history: conclusions written about the latest request

modemVars  == <<now, boot>>
loopVars   == <<pc, polled, due>>
streakVars == <<failures, firstFailure, alertLost>>
storeVars  == <<reading, prev>>
logVars    == <<journal, lastAlert, judged, verdicts>>
askVars == <<nudging, requests>>
vars == <<modemVars, loopVars, wake, askVars, calibrated, streakVars,
          storeVars, logVars, faults>>

-----------------------------------------------------------------------------
(* The journal. *)

NoEvent == [kind |-> "none", ts |-> -1, level |-> Unknown]
NoReading == [ts |-> -1, boot |-> -1]
Event(k, t, l) == [kind |-> k, ts |-> t, level |-> l]

Groups == {"state", "spike", "link", "restart", "asked"}

(* store.LastEvent orders by time, then by identifier: a new event is the  *)
(* latest of its group unless an event already there is dated after it.    *)
SlipLatest(old, new) == IF new.ts > old.ts THEN new ELSE old  \* first row kept
Latest(old, new) == IF new.ts >= old.ts THEN new ELSE old

(* store.SaveEvents: the events of a batch are written in one transaction. *)
Save(j, batch) ==
    [g \in Groups |-> IF g \in DOMAIN batch THEN Latest(j[g], batch[g]) ELSE j[g]]

(* store.LastAlertTime *)
AlertOf(e) == IF e.level >= Warning THEN e.ts ELSE -1
Later(a, b) == IF a >= b THEN a ELSE b

-----------------------------------------------------------------------------
(* What a stored reading writes in the journal (events.Recorder.recorded). *)

(* A tolerated channel is not an alert. *)
Alert(l) == IF l = Tolerated THEN Good ELSE l

(* The state the journal tells; a line without any state event is good. *)
ToldLevel == IF journal["state"] = NoEvent THEN Good ELSE Alert(journal["state"].level)

StateEvent(at, level) ==
    IF calibrated /\ Alert(level) # Unknown /\ Alert(level) # ToldLevel
    THEN Event("etat", at, Alert(level))
    ELSE NoEvent

(* A spike that lasts several readings is one episode. *)
SpikeEvent(at, spike) ==
    IF ~calibrated \/ prev = NoReading THEN NoEvent
    ELSE IF spike /\ journal["spike"].kind # "erreurs" THEN Event("erreurs", at, Warning)
    ELSE IF ~spike /\ journal["spike"].kind = "erreurs" THEN Event("erreurs_fin", at, Good)
    ELSE NoEvent

(* The modem answers again: the outage on record is closed. *)
LinkEvent(at) ==
    IF journal["link"].kind = "modem_injoignable" THEN Event("modem_retrouve", at, Good)
    ELSE NoEvent

(* The error counters fell on most channels: the modem restarted between   *)
(* the previous reading and this one.  Counters still at zero show nothing.*)
MayCount == prev # NoReading /\ reading.boot # prev.boot

(* A restart request accepted and still without a conclusion.  The reading *)
(* has the fraction of a second the journal drops: of the tick of the      *)
(* request it still counts as later, and RestartFollow ticks after it as   *)
(* beyond the follow-up.                                                   *)
SlipRequestOpen(at) ==  \* earlier conclusions not looked up
    LET ask == journal["asked"] IN
    /\ ask # NoEvent /\ ask.level = Good
    /\ at - ask.ts >= 0 /\ at - ask.ts < RestartFollow
RequestOpen(at) ==
    LET ask == journal["asked"] IN
    /\ ask # NoEvent /\ ask.level = Good
    /\ at - ask.ts >= 0 /\ at - ask.ts < RestartFollow
    /\ ~(journal["restart"].ts > ask.ts)

(* The uptime the modem tells, in whole ticks; 0 when it tells none. *)
Uptimes == {0} \cup ({now - boot - 1, now - boot} \cap Nat)

SlipConfirmed(at, counted, up) == counted  \* the uptime is not looked at
Confirmed(at, counted, up) ==
    \/ counted
    \/ up > 0 /\ up <= at - journal["asked"].ts + UptimeSlack

(* Recorder.settleRestart, with the restart the counters showed. *)
RestartEvent(at, counted, up) ==
    IF RequestOpen(at) /\ Confirmed(at, counted, up)
    THEN Event("redemarrage", at, Good)
    ELSE IF RequestOpen(at) /\ up > 0 /\ at - journal["asked"].ts >= RestartWindow
    THEN Event("redemarrage_absent", at, Warning)
    ELSE IF counted THEN Event("redemarrage", at, Warning)
    ELSE NoEvent

Batch(at, level, spike, counted, up) ==
    [state   |-> StateEvent(at, level),
     spike   |-> SpikeEvent(at, spike),
     link    |-> LinkEvent(at),
     restart |-> RestartEvent(at, counted, up)]

(* Channels lost or moved, modulation lowered, power jump: events that no  *)
(* later reading looks at, except for the pace their level sets.           *)
BatchAlert(b, at, moved) ==
    Later(IF moved THEN at ELSE -1,
      Later(Later(AlertOf(b.state), AlertOf(b.spike)),
            Later(AlertOf(b.link), AlertOf(b.restart))))

-----------------------------------------------------------------------------
(* The pace of the loop. *)

Recent(t) == t >= 0 /\ now - t < BurstWindow

(* State.Pace: readings come closer after an incident of the journal or a  *)
(* restart request.                                                        *)
SlipDelay(j, alert) ==  \* an accepted request is not an alert
    IF BurstOn /\ Interval > BurstInterval /\ Recent(alert)
    THEN BurstInterval ELSE Interval
Delay(j, alert) ==
    IF BurstOn /\ Interval > BurstInterval /\ (Recent(alert) \/ Recent(j["asked"].ts))
    THEN BurstInterval ELSE Interval

(* A call to the database fails; MaxFaults bounds how many do. *)
Fault == faults < MaxFaults /\ faults' = faults + 1

(* The loop goes back to its select, the timer set again.  When the journal*)
(* cannot be read the delay is the ordinary one.                           *)
Rest(j, alert) ==
    /\ pc' = "idle" /\ polled' = 0
    /\ \/ due' = now + Delay(j, alert) /\ UNCHANGED faults
       \/ due' = now + Interval /\ Fault

(* The same, at the end of a poll one call of which failed. *)
RestAfterFault ==
    /\ pc' = "idle" /\ polled' = 0
    /\ due' \in {now + Delay(journal, lastAlert), now + Interval}
    /\ Fault

-----------------------------------------------------------------------------
(* The collection loop. *)

(* The timer fires. *)
StartPoll ==
    /\ pc = "idle" /\ now >= due
    /\ pc' = "polling" /\ polled' = now /\ due' = 0
    /\ UNCHANGED <<modemVars, wake, askVars, calibrated, streakVars,
                   storeVars, logVars, faults>>

(* Collector.Run takes a wake-up: the wait is computed again. *)
TakeWake ==
    /\ pc = "idle" /\ wake
    /\ wake' = FALSE
    /\ Rest(journal, lastAlert)
    /\ UNCHANGED <<modemVars, askVars, calibrated, streakVars, storeVars,
                   logVars>>

(* The modem gave a reading and store.SaveSnapshot kept it. *)
StoreReading ==
    /\ pc = "polling"
    /\ pc' = "observing" /\ polled' = 0 /\ UNCHANGED due
    /\ prev' = IF reading.ts < now THEN reading ELSE prev
    /\ reading' = [ts |-> now, boot |-> boot]
    /\ UNCHANGED <<modemVars, wake, askVars, calibrated, streakVars, logVars,
                   faults>>

(* The modem gave a reading and SaveSnapshot failed: nobody is told. *)
LoseReading ==
    /\ pc = "polling"
    /\ RestAfterFault
    /\ UNCHANGED <<modemVars, wake, askVars, calibrated, streakVars,
                   storeVars, logVars>>

(* Recorder.Recorded resets the streak before anything may fail. *)
SlipEndStreak == alertLost' = FALSE /\ UNCHANGED <<failures, firstFailure>>
EndStreak ==
    /\ failures' = 0 /\ firstFailure' = 0
    /\ alertLost' = FALSE

(* The conclusion of a request, as opposed to a restart nobody asked for. *)
IsVerdict(e) ==
    e.kind = "redemarrage_absent" \/ (e.kind = "redemarrage" /\ e.level = Good)

(* Counted from the tick after the request on: dated in its very tick, a   *)
(* conclusion does not read as later than the request (recorder.go:146).   *)
Verdict(e) == IF IsVerdict(e) /\ e.ts > journal["asked"].ts THEN 1 ELSE 0

(* Recorder.Recorded: what the reading shows is written in one transaction.*)
Observe ==
    /\ pc = "observing"
    /\ EndStreak
    /\ \E level \in Levels, spike, moved, counted \in BOOLEAN, up \in Uptimes :
         LET b == Batch(reading.ts, level, spike, counted, up) IN
         /\ counted => MayCount
         /\ moved => prev # NoReading
         /\ journal' = Save(journal, b)
         /\ lastAlert' = Later(lastAlert, BatchAlert(b, reading.ts, moved))
         /\ judged' = IF calibrated /\ Alert(level) # Unknown
                      THEN Alert(level) ELSE judged
         /\ verdicts' = verdicts + Verdict(b.restart)
    /\ Rest(journal', lastAlert')
    /\ UNCHANGED <<modemVars, wake, askVars, calibrated, storeVars>>

(* A read or the transaction fails on the way: nothing is written. *)
ObserveFails ==
    /\ pc = "observing"
    /\ EndStreak
    /\ RestAfterFault
    /\ UNCHANGED <<modemVars, wake, askVars, calibrated, storeVars, logVars>>

(* Recorder.Failed counts the missed reading; the second of the streak     *)
(* writes the event, dated at the first, unless it is on record already.   *)
Streak ==
    /\ failures' = failures + 1
    /\ firstFailure' = IF failures = 0 THEN now ELSE firstFailure

SlipAlertDue == failures + 1 > FailuresBeforeAlert
AlertDue == failures + 1 = FailuresBeforeAlert

DownOnRecord == journal["link"].kind = "modem_injoignable"

MissReading ==
    /\ pc = "polling"
    /\ Streak
    /\ \E level \in {Warning, Critical} :  \* Warning: the password is refused
         IF AlertDue /\ ~DownOnRecord
         THEN LET e == Event("modem_injoignable", firstFailure', level) IN
              /\ journal' = Save(journal, [link |-> e])
              /\ lastAlert' = Later(lastAlert, e.ts)
         ELSE UNCHANGED <<journal, lastAlert>>
    /\ Rest(journal', lastAlert')
    /\ UNCHANGED <<modemVars, wake, askVars, calibrated, alertLost, storeVars,
                   judged, verdicts>>

(* The same, when the journal cannot be read or written. *)
MissReadingUntold ==
    /\ pc = "polling" /\ AlertDue
    /\ Streak
    /\ alertLost' = TRUE
    /\ RestAfterFault
    /\ UNCHANGED <<modemVars, wake, askVars, calibrated, storeVars, logVars>>

(* Manager.Reload cancels the loop, waits for it (a reading already        *)
(* obtained is journaled first) and starts a new one, whose first poll is  *)
(* immediate and whose recorder has counted nothing.                       *)
Begin ==
    /\ pc' = "polling" /\ polled' = now /\ due' = 0
    /\ EndStreak

Reload ==
    /\ pc \in {"idle", "polling"}
    /\ Begin
    /\ calibrated' \in Profiles
    /\ UNCHANGED <<modemVars, wake, askVars, storeVars, logVars, faults>>

(* The process dies at any point and is started again. *)
Crash ==
    /\ Begin
    /\ wake' = FALSE /\ nudging' = FALSE
    /\ UNCHANGED <<modemVars, requests, calibrated, storeVars, logVars, faults>>

-----------------------------------------------------------------------------
(* The rest of the program, the modem and the clock. *)

(* service.RestartModem: the request is journaled, Good when the modem     *)
(* accepted it or did not answer, Warning when it refused.  Whether the    *)
(* modem restarts is its own affair.                                       *)
AskRestart ==
    /\ requests < MaxRequests /\ requests' = requests + 1
    /\ ~nudging
    /\ journal["asked"] = NoEvent \/ now - journal["asked"].ts >= RestartGuard
    /\ \E level \in {Good, Warning} :
         /\ journal' = Save(journal,
                             [asked |-> Event("redemarrage_demande", now, level)])
         /\ lastAlert' = Later(lastAlert, IF level = Warning THEN now ELSE -1)
    /\ nudging' = TRUE
    /\ verdicts' = 0
    /\ UNCHANGED <<modemVars, loopVars, wake, calibrated, streakVars,
                   storeVars, judged, faults>>

(* The modem took the request and its entry could not be written: the      *)
(* loop is woken, and nothing will ever be concluded about it.             *)
AskRestartUntold ==
    /\ requests < MaxRequests /\ requests' = requests + 1
    /\ ~nudging
    /\ journal["asked"] = NoEvent \/ now - journal["asked"].ts >= RestartGuard
    /\ nudging' = TRUE
    /\ Fault
    /\ UNCHANGED <<modemVars, loopVars, wake, calibrated, streakVars,
                   storeVars, logVars>>

(* Then Manager.Nudge: a second wake-up while one waits is dropped. *)
Nudge ==
    /\ nudging
    /\ nudging' = FALSE /\ wake' = TRUE
    /\ UNCHANGED <<modemVars, requests, loopVars, calibrated, streakVars,
                   storeVars, logVars, faults>>

(* The prober writes an alert of its own (coupure, micro_coupures). *)
OtherAlert ==
    /\ ProbeOn /\ lastAlert < now
    /\ lastAlert' = now
    /\ UNCHANGED <<modemVars, loopVars, wake, askVars, calibrated, streakVars,
                   storeVars, journal, judged, verdicts, faults>>

Reboot ==
    /\ boot < now
    /\ boot' = now
    /\ UNCHANGED <<now, loopVars, wake, askVars, calibrated, streakVars,
                   storeVars, logVars, faults>>

(* The clock moves; a poll is bounded by its timeout (Interval), and what  *)
(* follows an obtained reading by SaveTimeout.                             *)
Tick ==
    /\ now < MaxTime
    /\ pc = "polling" => now < polled + Interval
    /\ pc = "observing" => now < reading.ts + SaveTimeout
    /\ now' = now + 1
    /\ UNCHANGED <<boot, loopVars, wake, askVars, calibrated, streakVars,
                   storeVars, logVars, faults>>

Init ==
    /\ now = 0 /\ boot = 0
    /\ pc = "polling" /\ polled = 0 /\ due = 0
    /\ wake = FALSE /\ nudging = FALSE
    /\ calibrated \in Profiles
    /\ failures = 0 /\ firstFailure = 0 /\ alertLost = FALSE
    /\ reading = NoReading /\ prev = NoReading
    /\ journal = [g \in Groups |-> NoEvent] /\ lastAlert = -1
    /\ judged = Unknown /\ verdicts = 0
    /\ faults = 0 /\ requests = 0

Next ==
    \/ StartPoll \/ TakeWake
    \/ StoreReading \/ LoseReading \/ Observe \/ ObserveFails
    \/ MissReading \/ MissReadingUntold
    \/ Reload \/ Crash
    \/ AskRestart \/ AskRestartUntold \/ Nudge \/ OtherAlert \/ Reboot \/ Tick

Spec == Init /\ [][Next]_vars

-----------------------------------------------------------------------------
(* What the watch promises. *)

(* Every variable keeps its type; an event of the journal has a kind of    *)
(* its group, a date, and one of the three levels the journal tells apart  *)
(* (events.alert).                                                         *)
KindsOf == [state   |-> {"etat"},
            spike   |-> {"erreurs", "erreurs_fin"},
            link    |-> {"modem_injoignable", "modem_retrouve"},
            restart |-> {"redemarrage", "redemarrage_absent"},
            asked   |-> {"redemarrage_demande"}]
EventType(g) == [kind : KindsOf[g], ts : Nat, level : {Good, Warning, Critical}]
ReadingType == [ts : Nat \cup {-1}, boot : Nat \cup {-1}]

TypeOK ==
    /\ now \in Nat /\ boot \in Nat
    /\ pc \in {"idle", "polling", "observing"} /\ polled \in Nat /\ due \in Nat
    /\ wake \in BOOLEAN /\ nudging \in BOOLEAN /\ calibrated \in BOOLEAN
    /\ failures \in Nat /\ firstFailure \in Nat /\ alertLost \in BOOLEAN
    /\ reading \in ReadingType /\ prev \in ReadingType
    /\ DOMAIN journal = Groups
    /\ \A g \in Groups : journal[g] = NoEvent \/ journal[g] \in EventType(g)
    /\ lastAlert \in Nat \cup {-1}
    /\ judged \in Unknown..Critical /\ verdicts \in Nat
    /\ faults \in Nat /\ requests \in Nat

(* Two readings missed in a row are an unreachable modem on record         *)
(* (docs/fonctionnement.md:28), unless the database refused that very      *)
(* event: the recorder writes it at the second failure only.               *)
SilenceIsTold == failures >= FailuresBeforeAlert /\ ~alertLost => DownOnRecord

(* The event of an unreachable modem is dated back to the first failure of *)
(* the streak.  It is safe to do so: nothing the modem said, and no earlier*)
(* end of an outage, is dated after that failure, so the event written is  *)
(* the latest of its group and the outages on record never overlap.  While *)
(* a stored reading waits for the recorder the streak is already over.     *)
BackdatingIsSafe ==
    failures > 0 /\ pc # "observing" => /\ firstFailure >= journal["link"].ts
                    /\ firstFailure >= reading.ts

(* After a judged reading was journaled the journal tells its level,       *)
(* whatever was lost, reloaded or restarted before: a state change whose   *)
(* write failed is written by the next reading.                            *)
JournalTellsTheLine == judged # Unknown => ToldLevel = judged

(* A restart request gets one conclusion at most, once the second it was   *)
(* dated in is over.                                                       *)
OneVerdict == verdicts <= 1

(* A conclusion is true: "did not restart" is written of a modem that ran  *)
(* since before the request, "confirmed" of one that started after the     *)
(* request (less the slack on its uptime) or since the previous reading.   *)
VerdictIsTrue ==
    [][journal'["restart"] # journal["restart"] /\ IsVerdict(journal'["restart"]) =>
         IF journal'["restart"].kind = "redemarrage_absent"
         THEN boot <= journal["asked"].ts
         ELSE boot >= journal["asked"].ts - UptimeSlack - 1 \/ boot >= prev.ts]_vars

(* As long as the database answers, the first reading after a restart      *)
(* request comes within BurstInterval once the loop has taken its wake-up: *)
(* one dropped because another was waiting, or sent while a poll was under *)
(* way, is not lost.                                                       *)
RequestIsWatched ==
    /\ BurstOn /\ faults = 0
    /\ pc = "idle" /\ ~wake /\ ~nudging /\ Recent(journal["asked"].ts)
    => due <= now + BurstInterval
==========================================================================
