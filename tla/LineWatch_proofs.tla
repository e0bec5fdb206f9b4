------------------------- MODULE LineWatch_proofs -------------------------
(***************************************************************************)
(* Theorems about LineWatch, for every value of its constants.             *)
(*                                                                         *)
(* The invariants are proved together: that the event of an outage is      *)
(* found again (SilenceIsTold) rests on its date being the latest of its   *)
(* group (BackdatingIsSafe), which rests on nothing in the store being     *)
(* dated in the future (Dates).                                            *)
(***************************************************************************)
EXTENDS LineWatch, TLAPS

(* No date of the store is later than the reading or the clock it can be   *)
(* compared with.                                                          *)
Dates ==
    /\ prev.ts <= reading.ts /\ reading.ts <= now
    /\ journal["state"].ts <= reading.ts
    /\ journal["link"].ts <= now
    /\ failures > 0 => firstFailure <= now
    /\ pc = "observing" => /\ reading \in [ts : Nat, boot : Nat]
                           /\ now <= reading.ts + SaveTimeout

(* A modem that is no longer the one of a reading started after it. *)
Since(r) == boot # r.boot => boot >= r.ts

Boots ==
    /\ prev.boot <= reading.boot /\ reading.boot <= boot /\ boot <= now
    /\ Since(reading) /\ Since(prev)

(* A counted conclusion is dated after the request. *)
VerdictIsDated == verdicts > 0 => journal["restart"].ts > journal["asked"].ts

IInv ==
    /\ TypeOK /\ Dates /\ Boots
    /\ SilenceIsTold /\ BackdatingIsSafe /\ JournalTellsTheLine
    /\ OneVerdict /\ VerdictIsDated /\ RequestIsWatched

(* An entry of the journal, or of a batch, of group g. *)
Entry(g) == {NoEvent} \cup EventType(g)

-----------------------------------------------------------------------------
LEMMA LatestFacts ==
    ASSUME NEW g \in Groups, NEW old \in Entry(g), NEW new \in Entry(g)
    PROVE  /\ Latest(old, new) \in Entry(g)
           /\ Latest(old, new) \in {old, new}
           /\ Latest(old, new).ts >= old.ts /\ Latest(old, new).ts >= new.ts
           /\ new.ts >= old.ts => Latest(old, new) = new
           /\ new = NoEvent => Latest(old, new) = old
<1>1. old.ts \in Nat \cup {-1} /\ new.ts \in Nat \cup {-1}
  BY DEF Entry, NoEvent, EventType
<1>2. old # NoEvent => old.ts \in Nat
  BY DEF Entry, NoEvent, EventType
<1> QED
  BY <1>1, <1>2 DEF Latest, NoEvent

LEMMA AlertFacts ==
    ASSUME NEW l \in Unknown..Critical
    PROVE  /\ Alert(l) \in {Unknown, Good, Warning, Critical}
           /\ Alert(Alert(l)) = Alert(l)
  BY DEF Alert, Unknown, Good, Tolerated, Warning, Critical

(* What a reading writes is well formed, and dated at the reading. *)
LEMMA BatchFacts ==
    ASSUME LineWatchAssumption, TypeOK,
           NEW at \in Nat, NEW level \in Levels, NEW spike \in BOOLEAN,
           NEW counted \in BOOLEAN, NEW up \in Nat
    PROVE  LET b == Batch(at, level, spike, counted, up) IN
           /\ b.state \in Entry("state") /\ b.spike \in Entry("spike")
           /\ b.link \in Entry("link") /\ b.restart \in Entry("restart")
           /\ b.state = NoEvent \/ b.state.ts = at
           /\ b.link = NoEvent \/ b.link.ts = at
           /\ b.restart = NoEvent \/ b.restart.ts = at
<1>1. level \in Unknown..Critical
  BY DEF LineWatchAssumption
<1>2. StateEvent(at, level) \in Entry("state")
      /\ (StateEvent(at, level) = NoEvent \/ StateEvent(at, level).ts = at)
  BY <1>1, AlertFacts DEF StateEvent, Entry, EventType, KindsOf, Event
<1>3. SpikeEvent(at, spike) \in Entry("spike")
  BY DEF SpikeEvent, Entry, EventType, KindsOf, Event
<1>4. LinkEvent(at) \in Entry("link") /\ (LinkEvent(at) = NoEvent \/ LinkEvent(at).ts = at)
  BY DEF LinkEvent, Entry, EventType, KindsOf, Event
<1>5. /\ RestartEvent(at, counted, up) \in Entry("restart")
      /\ RestartEvent(at, counted, up) = NoEvent \/ RestartEvent(at, counted, up).ts = at
  BY DEF RestartEvent, Entry, EventType, KindsOf, Event
<1> QED
  BY <1>2, <1>3, <1>4, <1>5 DEF Batch

LEMMA UptimesAreNat == Uptimes \subseteq Nat
  BY DEF Uptimes

(* Saving a batch keeps, in each group it touches, the later event. *)
LEMMA SaveBatch ==
    ASSUME NEW s, NEW p, NEW l, NEW r
    PROVE  LET j == Save(journal, [state |-> s, spike |-> p, link |-> l, restart |-> r])
           IN  /\ DOMAIN j = Groups
               /\ j["state"] = Latest(journal["state"], s)
               /\ j["spike"] = Latest(journal["spike"], p)
               /\ j["link"] = Latest(journal["link"], l)
               /\ j["restart"] = Latest(journal["restart"], r)
               /\ j["asked"] = journal["asked"]
  BY DEF Save, Groups

LEMMA SaveLink ==
    ASSUME NEW e
    PROVE  LET j == Save(journal, [link |-> e])
           IN  /\ DOMAIN j = Groups
               /\ j["link"] = Latest(journal["link"], e)
               /\ \A g \in Groups \ {"link"} : j[g] = journal[g]
  BY DEF Save, Groups

LEMMA SaveAsked ==
    ASSUME NEW e
    PROVE  LET j == Save(journal, [asked |-> e])
           IN  /\ DOMAIN j = Groups
               /\ j["asked"] = Latest(journal["asked"], e)
               /\ \A g \in Groups \ {"asked"} : j[g] = journal[g]
  BY DEF Save, Groups

-----------------------------------------------------------------------------
(* The initial state, and one lemma per action that disturbs more than one *)
(* conjunct.                                                               *)
LEMMA InitIInv == LineWatchAssumption /\ Init => IInv
<1> SUFFICES ASSUME LineWatchAssumption, Init PROVE IInv
  OBVIOUS
<1> USE DEF Init, NoReading, NoEvent
<1>1. \A g \in Groups : journal[g] = NoEvent
  OBVIOUS
<1>2. TypeOK
  <2>1. calibrated \in BOOLEAN
    BY DEF LineWatchAssumption
  <2>2. reading \in ReadingType /\ prev \in ReadingType
    BY DEF ReadingType
  <2>3. judged \in Unknown..Critical
    BY DEF Unknown, Critical
  <2> QED
    BY <1>1, <2>1, <2>2, <2>3 DEF TypeOK
<1>3. Dates /\ Boots
  BY <1>1 DEF Dates, Boots, Since, Groups
<1> QED
  BY <1>1, <1>2, <1>3 DEF IInv, SilenceIsTold, BackdatingIsSafe, JournalTellsTheLine,
     OneVerdict, VerdictIsDated, RequestIsWatched, FailuresBeforeAlert

LEMMA JournalTyped ==
    ASSUME TypeOK, NEW g \in Groups
    PROVE  journal[g] \in Entry(g) /\ journal[g].ts \in Nat \cup {-1}
  BY DEF TypeOK, Entry, EventType, NoEvent

(* The delay of the loop: positive, and short after a request. *)
LEMMA DelayFacts ==
    ASSUME LineWatchAssumption, NEW j, NEW a
    PROVE  /\ Delay(j, a) \in Nat
           /\ BurstOn /\ Recent(j["asked"].ts) => Delay(j, a) <= BurstInterval
  BY DEF LineWatchAssumption, Delay

(* Every rest keeps what RequestIsWatched says. *)
LEMMA RestFacts ==
    ASSUME LineWatchAssumption, TypeOK, NEW j, NEW a,
           Rest(j, a) \/ (RestAfterFault /\ j = journal), now' = now, journal' = j
    PROVE  /\ pc' = "idle" /\ polled' \in Nat /\ due' \in Nat /\ faults' \in Nat
           /\ RequestIsWatched'
<1>1. CASE Rest(j, a)
  <2>1. CASE due' = now + Delay(j, a) /\ faults' = faults
    BY <1>1, <2>1, DelayFacts DEF Rest, TypeOK, RequestIsWatched, Recent
  <2>2. CASE due' = now + Interval /\ Fault
    BY <1>1, <2>2 DEF Rest, Fault, TypeOK, RequestIsWatched, LineWatchAssumption
  <2> QED BY <1>1, <2>1, <2>2 DEF Rest
<1>2. CASE RestAfterFault
  BY <1>2, DelayFacts
     DEF RestAfterFault, Fault, TypeOK, RequestIsWatched, LineWatchAssumption
<1> QED BY <1>1, <1>2

LEMMA StoreReadingStep ==
    ASSUME LineWatchAssumption, IInv, StoreReading PROVE IInv'
<1> USE DEF StoreReading, IInv, modemVars, askVars, streakVars, logVars
<1>1. TypeOK'
  BY DEF TypeOK, ReadingType
<1>2. Dates'
  <2>1. /\ journal["state"].ts \in Nat \cup {-1} /\ prev.ts \in Nat \cup {-1}
        /\ reading.ts \in Nat \cup {-1} /\ now \in Nat /\ boot \in Nat
    BY JournalTyped DEF Groups, TypeOK, ReadingType
  <2>2. SaveTimeout \in Nat
    BY DEF LineWatchAssumption
  <2> QED
    BY <2>1, <2>2 DEF Dates
<1>3. Boots'
  BY DEF TypeOK, Dates, Boots, Since, ReadingType
<1> QED
  BY <1>1, <1>2, <1>3 DEF SilenceIsTold, BackdatingIsSafe, JournalTellsTheLine, ToldLevel,
     OneVerdict, VerdictIsDated, RequestIsWatched, DownOnRecord

(* The steps that end a poll without a reading and write nothing. *)
LEMMA LoseReadingStep ==
    ASSUME LineWatchAssumption, IInv, LoseReading \/ ObserveFails PROVE IInv'
<1> USE DEF IInv, modemVars, askVars, streakVars, storeVars, logVars
<1>1. /\ UNCHANGED <<now, boot, wake, nudging, requests, calibrated, reading, prev,
                     journal, lastAlert, judged, verdicts>>
      /\ RestAfterFault
      /\ \/ failures' = failures /\ firstFailure' = firstFailure /\ alertLost' = alertLost
         \/ failures' = 0 /\ firstFailure' = 0 /\ alertLost' = FALSE
  BY DEF LoseReading, ObserveFails, EndStreak
<1>2. pc' = "idle" /\ polled' \in Nat /\ due' \in Nat /\ faults' \in Nat /\ RequestIsWatched'
  BY <1>1, RestFacts
<1>3. /\ failures' \in Nat /\ firstFailure' \in Nat
      /\ failures' > 0 => failures' = failures /\ firstFailure' = firstFailure
  <2>1. CASE failures' = failures /\ firstFailure' = firstFailure /\ alertLost' = alertLost
    BY <2>1 DEF TypeOK
  <2>2. CASE failures' = 0 /\ firstFailure' = 0 /\ alertLost' = FALSE
    BY <2>2
  <2> QED BY <1>1, <2>1, <2>2
<1>7. alertLost' \in BOOLEAN
  BY <1>1 DEF TypeOK
<1>4. TypeOK'
  BY <1>1, <1>2, <1>3, <1>7 DEF TypeOK
<1>5. Dates' /\ Boots'
  BY <1>1, <1>2, <1>3 DEF Dates, Boots, Since
<1>6. SilenceIsTold' /\ BackdatingIsSafe'
  <2>1. CASE ObserveFails
    BY <2>1 DEF ObserveFails, EndStreak, SilenceIsTold, BackdatingIsSafe, FailuresBeforeAlert
  <2>2. CASE LoseReading
    BY <2>2, <1>1 DEF LoseReading, SilenceIsTold, BackdatingIsSafe, DownOnRecord
  <2> QED BY <2>1, <2>2
<1> QED
  BY <1>1, <1>2, <1>4, <1>5, <1>6
     DEF JournalTellsTheLine, ToldLevel, OneVerdict, VerdictIsDated

(* Observe disturbs every conjunct: its batch goes to four groups at once. *)
LEMMA ObserveStep ==
    ASSUME LineWatchAssumption, IInv, Observe PROVE IInv'
<1> USE DEF IInv
<1>0. PICK level \in Levels, spike \in BOOLEAN, moved \in BOOLEAN,
           counted \in BOOLEAN, up \in Uptimes :
        LET b == Batch(reading.ts, level, spike, counted, up) IN
        /\ counted => MayCount
        /\ journal' = Save(journal, b)
        /\ lastAlert' = Later(lastAlert, BatchAlert(b, reading.ts, moved))
        /\ judged' = IF calibrated /\ Alert(level) # Unknown THEN Alert(level) ELSE judged
        /\ verdicts' = verdicts + Verdict(b.restart)
  BY DEF Observe
<1> DEFINE s == StateEvent(reading.ts, level)
           p == SpikeEvent(reading.ts, spike)
           l == LinkEvent(reading.ts)
           r == RestartEvent(reading.ts, counted, up)
           b == [state |-> s, spike |-> p, link |-> l, restart |-> r]
<1>1. /\ journal' = Save(journal, b)
      /\ lastAlert' = Later(lastAlert, BatchAlert(b, reading.ts, moved))
      /\ judged' = IF calibrated /\ Alert(level) # Unknown THEN Alert(level) ELSE judged
      /\ verdicts' = verdicts + Verdict(r)
  BY <1>0 DEF Batch
<1>2. /\ pc = "observing" /\ EndStreak /\ Rest(journal', lastAlert')
      /\ UNCHANGED <<now, boot, wake, nudging, requests, calibrated, reading, prev>>
  BY DEF Observe, modemVars, askVars, storeVars
<1>3. reading.ts \in Nat /\ reading.ts <= now
  BY <1>2 DEF Dates
<1>4. /\ s \in Entry("state") /\ p \in Entry("spike")
      /\ l \in Entry("link") /\ r \in Entry("restart")
      /\ s = NoEvent \/ s.ts = reading.ts
      /\ l = NoEvent \/ l.ts = reading.ts
      /\ r = NoEvent \/ r.ts = reading.ts
  BY <1>3, BatchFacts, UptimesAreNat DEF Batch
<1>5. \A g \in Groups : journal[g] \in Entry(g)
  BY DEF TypeOK, Entry
<1> HIDE DEF s, p, l, r
<1>6. /\ DOMAIN journal' = Groups
      /\ journal'["state"] = Latest(journal["state"], s)
      /\ journal'["spike"] = Latest(journal["spike"], p)
      /\ journal'["link"] = Latest(journal["link"], l)
      /\ journal'["restart"] = Latest(journal["restart"], r)
      /\ journal'["asked"] = journal["asked"]
  BY <1>1, SaveBatch
<1>7. \A g \in Groups : journal'[g] \in Entry(g)
  BY <1>4, <1>5, <1>6, LatestFacts DEF Groups
<1>8. pc' = "idle" /\ polled' \in Nat /\ due' \in Nat /\ faults' \in Nat /\ RequestIsWatched'
  BY <1>2, RestFacts
<1>9. level \in Unknown..Critical
  BY DEF LineWatchAssumption
<1>10. lastAlert' \in Nat \cup {-1}
  BY <1>1, <1>3, <1>4 DEF TypeOK, Later, BatchAlert, AlertOf, Entry, NoEvent, EventType
<1>11. TypeOK'
  <2>1. judged' \in Unknown..Critical
    BY <1>1, <1>9, AlertFacts DEF TypeOK, Unknown, Good, Warning, Critical
  <2>2. verdicts' \in Nat
    BY <1>1 DEF TypeOK, Verdict
  <2> QED
    BY <1>2, <1>6, <1>7, <1>8, <1>10, <2>1, <2>2 DEF TypeOK, EndStreak, Entry
<1>12. Dates'
  BY <1>2, <1>3, <1>4, <1>5, <1>6, <1>8, LatestFacts
     DEF Dates, EndStreak, Groups, TypeOK, Entry, NoEvent, EventType
<1>13. Boots'
  BY <1>2 DEF Boots, Since
<1>14. SilenceIsTold' /\ BackdatingIsSafe'
  BY <1>2 DEF EndStreak, SilenceIsTold, BackdatingIsSafe, FailuresBeforeAlert
<1>15. JournalTellsTheLine'
  <2>1. CASE calibrated /\ Alert(level) # Unknown
    <3>1. CASE Alert(level) # ToldLevel
      <4>1. s = Event("etat", reading.ts, Alert(level))
        BY <2>1, <3>1 DEF s, StateEvent
      <4>2. journal'["state"] = s
        BY <4>1, <1>4, <1>5, <1>6, LatestFacts DEF Event, Dates, Groups
      <4>3. s # NoEvent /\ Alert(s.level) = Alert(level)
        BY <4>1, <1>9, AlertFacts DEF Event, NoEvent
      <4> QED
        BY <4>2, <4>3, <2>1, <1>1 DEF JournalTellsTheLine, ToldLevel
    <3>2. CASE Alert(level) = ToldLevel
      <4>1. s = NoEvent
        BY <3>2 DEF s, StateEvent
      <4>2. journal'["state"] = journal["state"]
        BY <4>1, <1>4, <1>5, <1>6, LatestFacts DEF Groups
      <4> QED
        BY <4>2, <3>2, <2>1, <1>1 DEF JournalTellsTheLine, ToldLevel
    <3> QED BY <3>1, <3>2
  <2>2. CASE ~(calibrated /\ Alert(level) # Unknown)
    <3>1. s = NoEvent
      BY <2>2 DEF s, StateEvent
    <3>2. journal'["state"] = journal["state"]
      BY <3>1, <1>4, <1>5, <1>6, LatestFacts DEF Groups
    <3> QED
      BY <3>2, <2>2, <1>1 DEF JournalTellsTheLine, ToldLevel
  <2> QED BY <2>1, <2>2
<1>16. OneVerdict' /\ VerdictIsDated'
  <2>1. journal'["restart"].ts >= journal["restart"].ts /\ journal'["restart"].ts >= r.ts
    BY <1>4, <1>5, <1>6, LatestFacts DEF Groups
  <2>2. /\ r.ts \in Nat \cup {-1} /\ journal["asked"].ts \in Nat \cup {-1}
        /\ journal["restart"].ts \in Nat \cup {-1}
        /\ journal'["restart"].ts \in Nat \cup {-1}
    BY <1>4, <1>5, <1>7 DEF Groups, Entry, EventType, NoEvent
  <2>3. CASE Verdict(r) = 0
    BY <2>3, <2>1, <2>2, <1>1, <1>6 DEF OneVerdict, VerdictIsDated, TypeOK
  <2>4. CASE Verdict(r) = 1
    <3>1. IsVerdict(r) /\ r.ts > journal["asked"].ts
      BY <2>4 DEF Verdict
    <3>2. RequestOpen(reading.ts)
      BY <3>1 DEF r, RestartEvent, IsVerdict, Event, NoEvent, Good, Warning
    <3>3. verdicts = 0
      BY <3>2 DEF RequestOpen, VerdictIsDated, TypeOK
    <3> QED
      BY <3>1, <3>3, <2>1, <2>2, <2>4, <1>1, <1>6 DEF OneVerdict, VerdictIsDated
  <2> QED BY <2>3, <2>4 DEF Verdict
<1> QED
  BY <1>8, <1>11, <1>12, <1>13, <1>14, <1>15, <1>16

(* The second miss of a streak writes the outage, dated at the first; it   *)
(* is found again because nothing of its group is dated later.             *)
LEMMA MissReadingStep ==
    ASSUME LineWatchAssumption, IInv, MissReading PROVE IInv'
<1> USE DEF IInv
<1>1. /\ pc = "polling" /\ Streak
      /\ Rest(journal', lastAlert')
      /\ UNCHANGED <<now, boot, wake, nudging, requests, calibrated, alertLost, reading,
                     prev, judged, verdicts>>
  BY DEF MissReading, modemVars, askVars, storeVars
<1>2. pc' = "idle" /\ polled' \in Nat /\ due' \in Nat /\ faults' \in Nat /\ RequestIsWatched'
  BY <1>1, RestFacts
<1>3. /\ failures \in Nat /\ failures' = failures + 1
      /\ firstFailure' \in Nat /\ firstFailure' <= now
      /\ firstFailure' >= journal["link"].ts /\ firstFailure' >= reading.ts
  <2>1. now \in Nat /\ firstFailure \in Nat /\ failures \in Nat
    BY DEF TypeOK
  <2>2. CASE failures = 0
    BY <1>1, <2>1, <2>2 DEF Streak, Dates
  <2>3. CASE failures # 0
    BY <1>1, <2>1, <2>3 DEF Streak, Dates, BackdatingIsSafe
  <2> QED BY <2>2, <2>3
<1>4. CASE AlertDue /\ ~DownOnRecord
  <2>1. PICK level \in {Warning, Critical} :
          /\ journal' = Save(journal, [link |-> Event("modem_injoignable", firstFailure', level)])
          /\ lastAlert' = Later(lastAlert, firstFailure')
    BY <1>4 DEF MissReading, Event
  <2> DEFINE e == Event("modem_injoignable", firstFailure', level)
  <2>2. e \in Entry("link") /\ e.ts = firstFailure' /\ e.kind = "modem_injoignable"
    BY <1>3 DEF Event, Entry, EventType, KindsOf
  <2> HIDE DEF e
  <2>3. /\ DOMAIN journal' = Groups /\ journal'["link"] = Latest(journal["link"], e)
        /\ \A g \in Groups \ {"link"} : journal'[g] = journal[g]
    BY <2>1, SaveLink DEF e
  <2>4. journal'["link"] = e
    BY <1>3, <2>2, <2>3, JournalTyped, LatestFacts DEF Groups
  <2>5. TypeOK'
    <3>1. \A g \in Groups : journal'[g] = NoEvent \/ journal'[g] \in EventType(g)
      BY <2>2, <2>3, <2>4 DEF TypeOK, Entry, Groups
    <3>2. lastAlert' \in Nat \cup {-1}
      BY <2>1, <1>3 DEF Later, TypeOK
    <3> QED
      BY <1>1, <1>2, <1>3, <2>3, <3>1, <3>2 DEF TypeOK
  <2>6. Dates'
    BY <1>1, <1>2, <1>3, <2>2, <2>3, <2>4 DEF Dates, Groups
  <2>7. SilenceIsTold' /\ BackdatingIsSafe'
    BY <1>1, <1>3, <2>2, <2>4 DEF SilenceIsTold, BackdatingIsSafe, DownOnRecord
  <2> QED
    BY <1>1, <1>2, <2>3, <2>5, <2>6, <2>7 DEF Boots, Since, JournalTellsTheLine, ToldLevel,
       OneVerdict, VerdictIsDated, Groups
<1>5. CASE ~(AlertDue /\ ~DownOnRecord)
  <2>1. UNCHANGED <<journal, lastAlert>>
    BY <1>5 DEF MissReading
  <2>2. TypeOK'
    BY <1>1, <1>2, <1>3, <2>1 DEF TypeOK
  <2>3. Dates'
    BY <1>1, <1>2, <1>3, <2>1 DEF Dates
  <2>4. SilenceIsTold'
    BY <1>1, <1>3, <1>5, <2>1
       DEF SilenceIsTold, AlertDue, DownOnRecord, FailuresBeforeAlert
  <2>5. BackdatingIsSafe'
    BY <1>1, <1>3, <2>1 DEF BackdatingIsSafe
  <2> QED
    BY <1>1, <1>2, <2>1, <2>2, <2>3, <2>4, <2>5 DEF Boots, Since, JournalTellsTheLine,
       ToldLevel, OneVerdict, VerdictIsDated
<1> QED BY <1>4, <1>5

LEMMA MissReadingUntoldStep ==
    ASSUME LineWatchAssumption, IInv, MissReadingUntold PROVE IInv'
<1> USE DEF IInv
<1>1. /\ pc = "polling" /\ AlertDue /\ Streak /\ alertLost' = TRUE /\ RestAfterFault
      /\ UNCHANGED <<now, boot, wake, nudging, requests, calibrated, reading, prev,
                     journal, lastAlert, judged, verdicts>>
  BY DEF MissReadingUntold, modemVars, askVars, storeVars, logVars
<1>2. pc' = "idle" /\ polled' \in Nat /\ due' \in Nat /\ faults' \in Nat /\ RequestIsWatched'
  BY <1>1, RestFacts
<1>3. failures = 1 /\ failures' = 2 /\ firstFailure' = firstFailure
  BY <1>1 DEF AlertDue, Streak, FailuresBeforeAlert, TypeOK
<1>4. TypeOK'
  BY <1>1, <1>2, <1>3 DEF TypeOK
<1> QED
  BY <1>1, <1>2, <1>3, <1>4 DEF Dates, Boots, Since, SilenceIsTold, BackdatingIsSafe,
     JournalTellsTheLine, ToldLevel, OneVerdict, VerdictIsDated

-----------------------------------------------------------------------------
(* The other steps. *)
LEMMA RestartLoopStep ==
    ASSUME LineWatchAssumption, IInv, Reload \/ Crash PROVE IInv'
<1> USE DEF IInv
<1>1. /\ pc' = "polling" /\ polled' = now /\ due' = 0
      /\ failures' = 0 /\ firstFailure' = 0 /\ alertLost' = FALSE
      /\ UNCHANGED <<now, boot, requests, reading, prev, journal, lastAlert, judged,
                     verdicts, faults>>
  BY DEF Reload, Crash, Begin, EndStreak, modemVars, askVars, storeVars, logVars
<1>2. calibrated' \in BOOLEAN /\ wake' \in BOOLEAN /\ nudging' \in BOOLEAN
  <2>1. CASE Reload
    BY <2>1 DEF Reload, askVars, LineWatchAssumption, TypeOK
  <2>2. CASE Crash
    BY <2>2 DEF Crash, TypeOK
  <2> QED BY <2>1, <2>2
<1>3. TypeOK'
  BY <1>1, <1>2 DEF TypeOK
<1>4. Dates'
  BY <1>1 DEF Dates
<1> QED
  BY <1>1, <1>3, <1>4 DEF Boots, Since, SilenceIsTold, BackdatingIsSafe,
     JournalTellsTheLine, ToldLevel, OneVerdict, VerdictIsDated, RequestIsWatched,
     FailuresBeforeAlert

LEMMA AskRestartStep ==
    ASSUME LineWatchAssumption, IInv, AskRestart PROVE IInv'
<1> USE DEF IInv
<1>1. /\ nudging' = TRUE /\ verdicts' = 0 /\ requests' = requests + 1
      /\ UNCHANGED <<now, boot, pc, polled, due, wake, calibrated, failures, firstFailure,
                     alertLost, reading, prev, judged, faults>>
  BY DEF AskRestart, modemVars, loopVars, streakVars, storeVars
<1>2. PICK level \in {Good, Warning} :
        /\ journal' = Save(journal, [asked |-> Event("redemarrage_demande", now, level)])
        /\ lastAlert' = Later(lastAlert, IF level = Warning THEN now ELSE -1)
  BY DEF AskRestart
<1> DEFINE e == Event("redemarrage_demande", now, level)
<1>3. e \in Entry("asked")
  BY DEF Event, Entry, EventType, KindsOf, TypeOK
<1> HIDE DEF e
<1>4. /\ DOMAIN journal' = Groups /\ journal'["asked"] = Latest(journal["asked"], e)
      /\ \A g \in Groups \ {"asked"} : journal'[g] = journal[g]
  BY <1>2, SaveAsked DEF e
<1>5. TypeOK'
  <2>1. \A g \in Groups : journal'[g] = NoEvent \/ journal'[g] \in EventType(g)
    BY <1>3, <1>4, JournalTyped, LatestFacts DEF TypeOK, Entry, Groups
  <2>2. lastAlert' \in Nat \cup {-1}
    BY <1>2 DEF Later, TypeOK
  <2> QED
    BY <1>1, <1>4, <2>1, <2>2 DEF TypeOK
<1>6. UNCHANGED <<journal["state"], journal["link"]>>
  BY <1>4 DEF Groups
<1> QED
  BY <1>1, <1>5, <1>6 DEF Dates, Boots, Since, SilenceIsTold, DownOnRecord,
     BackdatingIsSafe, JournalTellsTheLine, ToldLevel, OneVerdict, VerdictIsDated,
     RequestIsWatched

LEMMA TickStep ==
    ASSUME LineWatchAssumption, IInv, Tick PROVE IInv'
<1> USE DEF IInv
<1>1. /\ now' = now + 1
      /\ pc = "observing" => now < reading.ts + SaveTimeout
      /\ UNCHANGED <<boot, pc, polled, due, wake, nudging, requests, calibrated, failures,
                     firstFailure, alertLost, reading, prev, journal, lastAlert, judged,
                     verdicts, faults>>
  BY DEF Tick, loopVars, askVars, streakVars, storeVars, logVars
<1>2. TypeOK'
  BY <1>1 DEF TypeOK
<1>3. /\ now \in Nat /\ boot \in Nat /\ firstFailure \in Nat /\ due \in Nat
      /\ reading.ts \in Nat \cup {-1} /\ journal["link"].ts \in Nat \cup {-1}
      /\ journal["asked"].ts \in Nat \cup {-1}
  BY JournalTyped DEF TypeOK, ReadingType, Groups
<1>4. Dates'
  BY <1>1, <1>3 DEF Dates, LineWatchAssumption
<1>5. Boots'
  BY <1>1, <1>3 DEF Boots, Since
<1>6. RequestIsWatched'
  BY <1>1, <1>3 DEF RequestIsWatched, Recent, LineWatchAssumption
<1> QED
  BY <1>1, <1>2, <1>4, <1>5, <1>6 DEF SilenceIsTold, DownOnRecord, BackdatingIsSafe,
     JournalTellsTheLine, ToldLevel, OneVerdict, VerdictIsDated

(* Steps that touch neither the journal nor the streak. *)
LEMMA QuietKept ==
    ASSUME IInv, TypeOK', RequestIsWatched', pc' = pc \/ (pc = "idle" /\ pc' = "polling"),
           UNCHANGED <<modemVars, streakVars, storeVars, journal, judged, verdicts>>
    PROVE  IInv'
<1> USE DEF IInv, modemVars, streakVars, storeVars
<1>1. Dates' /\ Boots'
  BY DEF Dates, Boots, Since
<1>2. SilenceIsTold' /\ BackdatingIsSafe' /\ JournalTellsTheLine'
  BY DEF SilenceIsTold, DownOnRecord, BackdatingIsSafe, JournalTellsTheLine, ToldLevel
<1>3. OneVerdict' /\ VerdictIsDated'
  BY DEF OneVerdict, VerdictIsDated
<1> QED BY <1>1, <1>2, <1>3

LEMMA RebootStep ==
    ASSUME LineWatchAssumption, IInv, Reboot PROVE IInv'
<1> USE DEF IInv
<1>1. boot' = now /\ boot < now
      /\ UNCHANGED <<now, loopVars, wake, askVars, calibrated, streakVars, storeVars,
                     logVars, faults>>
  BY DEF Reboot
<1>2. Boots'
  BY <1>1 DEF Boots, Since, storeVars, Dates, TypeOK, ReadingType
<1>3. TypeOK'
  BY <1>1 DEF TypeOK, loopVars, askVars, streakVars, storeVars, logVars
<1>4. Dates'
  BY <1>1 DEF Dates, loopVars, streakVars, storeVars, logVars
<1>5. SilenceIsTold' /\ BackdatingIsSafe' /\ JournalTellsTheLine'
  BY <1>1 DEF SilenceIsTold, DownOnRecord, BackdatingIsSafe, JournalTellsTheLine, ToldLevel,
              loopVars, streakVars, storeVars, logVars
<1>6. OneVerdict' /\ VerdictIsDated' /\ RequestIsWatched'
  BY <1>1 DEF OneVerdict, VerdictIsDated, RequestIsWatched, Recent, loopVars, askVars, logVars
<1> QED BY <1>2, <1>3, <1>4, <1>5, <1>6

LEMMA QuietStep ==
    ASSUME LineWatchAssumption, IInv,
           StartPoll \/ TakeWake \/ AskRestartUntold \/ Nudge \/ OtherAlert
    PROVE  IInv'
<1> USE DEF IInv
<1>1. CASE StartPoll
  <2>1. TypeOK'
    BY <1>1 DEF StartPoll, TypeOK, modemVars, askVars, streakVars, storeVars, logVars
  <2> QED BY <1>1, <2>1, QuietKept DEF StartPoll, RequestIsWatched, logVars
<1>2. CASE TakeWake
  <2>1. /\ wake' = FALSE /\ Rest(journal, lastAlert)
        /\ UNCHANGED <<now, boot, nudging, requests, calibrated, failures, firstFailure,
                       alertLost, reading, prev, journal, lastAlert, judged, verdicts>>
        /\ pc = "idle"
    BY <1>2 DEF TakeWake, modemVars, askVars, streakVars, storeVars, logVars
  <2>2. pc' = "idle" /\ polled' \in Nat /\ due' \in Nat /\ faults' \in Nat /\ RequestIsWatched'
    BY <2>1, RestFacts
  <2>3. TypeOK'
    BY <2>1, <2>2 DEF TypeOK
  <2> QED BY <2>1, <2>2, <2>3, QuietKept DEF modemVars, streakVars, storeVars
<1>3. CASE Nudge
  <2>1. TypeOK'
    BY <1>3 DEF Nudge, TypeOK, modemVars, loopVars, streakVars, storeVars, logVars
  <2>2. RequestIsWatched'
    BY <1>3 DEF Nudge, RequestIsWatched
  <2> QED BY <1>3, <2>1, <2>2, QuietKept DEF Nudge, loopVars, logVars
<1>4. CASE OtherAlert
  <2>1. TypeOK'
    BY <1>4 DEF OtherAlert, TypeOK, modemVars, loopVars, askVars, streakVars, storeVars
  <2>2. RequestIsWatched'
    BY <1>4 DEF OtherAlert, RequestIsWatched, Recent, modemVars, loopVars, askVars
  <2> QED BY <1>4, <2>1, <2>2, QuietKept DEF OtherAlert, loopVars
<1>5. CASE AskRestartUntold
  <2>1. TypeOK'
    BY <1>5 DEF AskRestartUntold, Fault, TypeOK, modemVars, loopVars, streakVars, storeVars,
                logVars
  <2>2. RequestIsWatched'
    BY <1>5 DEF AskRestartUntold, RequestIsWatched
  <2> QED BY <1>5, <2>1, <2>2, QuietKept DEF AskRestartUntold, loopVars, logVars
<1> QED BY <1>1, <1>2, <1>3, <1>4, <1>5

LEMMA NextIInv == LineWatchAssumption /\ IInv /\ [Next]_vars => IInv'
<1> SUFFICES ASSUME LineWatchAssumption, IInv, [Next]_vars PROVE IInv'
  OBVIOUS
<1>1. CASE Next
  BY <1>1, StoreReadingStep, LoseReadingStep, ObserveStep, MissReadingStep,
     MissReadingUntoldStep, RestartLoopStep, AskRestartStep, TickStep, RebootStep, QuietStep DEF Next
<1>2. CASE UNCHANGED vars
  BY <1>2 DEF vars, modemVars, loopVars, askVars, streakVars, storeVars, logVars, IInv,
     TypeOK, Dates, Boots, Since, SilenceIsTold, DownOnRecord, BackdatingIsSafe,
     JournalTellsTheLine, ToldLevel, OneVerdict, VerdictIsDated, RequestIsWatched, Recent
<1> QED BY <1>1, <1>2

-----------------------------------------------------------------------------
(* IInv holds of every state the watch can be in. *)
THEOREM Invariance == Spec => []IInv
<1>1. Init => IInv
  BY InitIInv, LineWatchAssumption
<1>2. IInv /\ [Next]_vars => IInv'
  BY NextIInv, LineWatchAssumption
<1> QED
  BY <1>1, <1>2, PTL DEF Spec

(* The state keeps its types (collect/loop.go, events/recorder.go). *)
THEOREM TypeCorrect == Spec => []TypeOK
<1>1. IInv => TypeOK
  BY DEF IInv
<1> QED BY <1>1, Invariance, PTL

(* Two readings missed in a row are an outage on record                    *)
(* (Recorder.Failed), for any interval, timing and number of crashes.      *)
THEOREM SilenceTold == Spec => []SilenceIsTold
<1>1. IInv => SilenceIsTold
  BY DEF IInv
<1> QED BY <1>1, Invariance, PTL

(* Dating the outage back to the first missed reading never puts it before *)
(* an event or a reading it must come after (Recorder.Failed).             *)
THEOREM BackdatingSafe == Spec => []BackdatingIsSafe
<1>1. IInv => BackdatingIsSafe
  BY DEF IInv
<1> QED BY <1>1, Invariance, PTL

(* The journal tells the level of the last judged reading it has seen      *)
(* (events.stateChange).                                                   *)
THEOREM JournalTells == Spec => []JournalTellsTheLine
<1>1. IInv => JournalTellsTheLine
  BY DEF IInv
<1> QED BY <1>1, Invariance, PTL

(* A restart request is concluded once (Recorder.settleRestart). *)
THEOREM VerdictOnce == Spec => []OneVerdict
<1>1. IInv => OneVerdict
  BY DEF IInv
<1> QED BY <1>1, Invariance, PTL

(* After a restart request the loop is never left waiting longer than the  *)
(* burst interval (Manager.Nudge, Collector.Run, State.Pace).              *)
THEOREM RequestWatched == Spec => []RequestIsWatched
<1>1. IInv => RequestIsWatched
  BY DEF IInv
<1> QED BY <1>1, Invariance, PTL

(* What is written about a restart request is true of the modem            *)
(* (Recorder.settleRestart); it rests on the slack on the uptime being no  *)
(* shorter than the time between a reading and its observation.            *)
THEOREM VerdictTrue == Spec => VerdictIsTrue
<1> DEFINE Step == journal'["restart"] # journal["restart"] /\ IsVerdict(journal'["restart"]) =>
                     IF journal'["restart"].kind = "redemarrage_absent"
                     THEN boot <= journal["asked"].ts
                     ELSE boot >= journal["asked"].ts - UptimeSlack - 1 \/ boot >= prev.ts
<1>1. ASSUME IInv, Observe PROVE Step
  <2>1. PICK level \in Levels, spike \in BOOLEAN, moved \in BOOLEAN,
             counted \in BOOLEAN, up \in Uptimes :
          LET b == Batch(reading.ts, level, spike, counted, up) IN
          /\ counted => MayCount
          /\ journal' = Save(journal, b)
    BY <1>1 DEF Observe
  <2> DEFINE r == RestartEvent(reading.ts, counted, up)
  <2>2. reading.ts \in Nat /\ now <= reading.ts + SaveTimeout /\ up \in Nat
    BY <1>1, UptimesAreNat DEF Observe, IInv, Dates
  <2>3. r \in Entry("restart") /\ journal["restart"] \in Entry("restart")
    BY <1>1, <2>2, BatchFacts, JournalTyped, LineWatchAssumption DEF Batch, IInv, Groups
  <2>4. journal'["restart"] = Latest(journal["restart"], r)
    BY <2>1, SaveBatch DEF Batch
  <2> HIDE DEF r
  <2>5. SUFFICES ASSUME journal'["restart"] = r, IsVerdict(r) PROVE Step
    BY <2>3, <2>4, LatestFacts DEF Groups
  <2>6. /\ now \in Nat /\ boot \in Nat /\ journal["asked"].ts \in Nat \cup {-1}
        /\ prev.ts \in Nat \cup {-1} /\ prev.boot \in Nat \cup {-1}
        /\ reading.boot \in Nat \cup {-1}
        /\ UptimeSlack \in Nat /\ SaveTimeout \in Nat /\ SaveTimeout <= UptimeSlack
    BY <1>1, JournalTyped, LineWatchAssumption
       DEF IInv, TypeOK, ReadingType, Groups, LineWatchAssumption
  <2>7. up = 0 \/ up = now - boot - 1 \/ up = now - boot
    BY DEF Uptimes
  <2>8. /\ Boots /\ reading.ts <= now
    BY <1>1 DEF IInv, Dates
  <2>9. CASE r.kind = "redemarrage_absent"
    <3>1. up > 0 /\ ~Confirmed(reading.ts, counted, up)
      BY <2>9 DEF r, RestartEvent, Event, NoEvent
    <3>2. up > reading.ts - journal["asked"].ts + UptimeSlack
      BY <3>1, <2>2, <2>6 DEF Confirmed
    <3> QED
      BY <3>1, <3>2, <2>2, <2>5, <2>6, <2>7, <2>9
  <2>10. CASE r.kind # "redemarrage_absent"
    <3>1. Confirmed(reading.ts, counted, up)
      BY <2>5, <2>10 DEF r, RestartEvent, IsVerdict, Event, NoEvent, Good, Warning
    <3>2. CASE counted
      <4>1. reading.boot # prev.boot
        BY <3>2, <2>1 DEF MayCount
      <4>2. boot >= prev.ts
        BY <4>1, <2>6, <2>8 DEF Boots, Since
      <4> QED
        BY <4>2, <2>5, <2>10
    <3>3. CASE up > 0 /\ up <= reading.ts - journal["asked"].ts + UptimeSlack
      BY <3>3, <2>2, <2>5, <2>6, <2>7, <2>8, <2>10
    <3> QED BY <3>1, <3>2, <3>3 DEF Confirmed
  <2> QED BY <2>9, <2>10
<1>2. ASSUME IInv, [Next]_vars, ~Observe PROVE journal'["restart"] = journal["restart"]
  BY <1>2, SaveLink, SaveAsked DEF Next, StartPoll, TakeWake, StoreReading, LoseReading,
     ObserveFails, MissReading, MissReadingUntold, Reload, Crash, AskRestart,
     AskRestartUntold, Nudge, OtherAlert, Reboot, Tick, vars, logVars, Groups
<1>3. IInv /\ [Next]_vars => Step
  BY <1>1, <1>2
<1> QED
  BY <1>3, Invariance, PTL DEF Spec, VerdictIsTrue

===========================================================================
