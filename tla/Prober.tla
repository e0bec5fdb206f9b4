------------------------------ MODULE Prober ------------------------------
(***************************************************************************)
(* The internet probe: internal/probe/probe.go and the tables it writes    *)
(* (internal/store/probe.go, micro.go).  Every Interval it tries a few     *)
(* targets; Threshold misses in a row are an outage, at least two but      *)
(* fewer are a micro-cut, and MicroBurst micro-cuts within BurstEvery are  *)
(* worth a message.                                                        *)
(*                                                                         *)
(* The streak of misses and the outage under way are in memory only; the   *)
(* rows of the outages, the micro-cuts, the samples and the journal are in *)
(* the database, each written by a statement of its own.  So a crash, or   *)
(* the cancellation of the context when the settings are saved, may fall   *)
(* between a row and its event, and the next prober has to make sense of   *)
(* what it finds (resume).                                                 *)
(*                                                                         *)
(* A definition whose name starts with Slip is a plausible mistake in the  *)
(* definition that follows it; no action uses it.                          *)
(***************************************************************************)
EXTENDS Integers, Sequences, FiniteSets

CONSTANTS
    Interval,      \* ticks between two attempts (settings)
    Threshold,     \* misses in a row that are an outage
    BucketLength,  \* ticks of one sample of the measures
    MicroOn,       \* the interval is short enough to see micro-cuts
    MicroBurst,    \* micro-cuts that make a burst
    BurstEvery,    \* one hour: the span of a burst, and between two messages
    FailingWrites, \* the writes the database may refuse
    MaxTime,       \* bound on the clock
    MaxFaults      \* bound on the writes refused

Writes == {"sample", "open", "close", "event", "cut", "resume"}

ASSUME ProberAssumption ==
    /\ Interval \in Nat \ {0} /\ BucketLength \in Nat \ {0}
    /\ Threshold \in Nat /\ Threshold >= 3
    /\ MicroOn \in BOOLEAN /\ MicroBurst \in Nat \ {0} /\ BurstEvery \in Nat
    /\ FailingWrites \subseteq Writes
    /\ MaxTime \in Nat /\ MaxFaults \in Nat

VARIABLES
    now,        \* the clock
    net,        \* some target can be reached
    pc,         \* where the goroutine of the prober is
    due,        \* when the ticker fires next (0 while there is no ticker)
    failures,   \* Prober.failures
    firstFail,  \* Prober.firstFail
    lastFail,   \* Prober.lastFail
    lastOK,     \* Prober.lastOK, None when zero
    open,       \* Prober.open: the row of the outage under way, 0 for nil
    bucket,     \* Prober.agg.start, None when nothing is aggregated
    pending,    \* the event about to be written
    outages,    \* table link_events
    lastSample, \* latest row of probe_samples
    cuts,       \* table micro_cuts
    events,     \* journal: beginnings and ends of outages
    lastBurst,  \* journal: date of the latest message about micro-cuts
    faults,     \* writes refused so far
    openLost,   \* history: the row of this streak's outage was refused
    back        \* history: when the net first came back, unseen, during an outage

worldVars  == <<now, net>>
streakVars == <<failures, firstFail, lastFail, lastOK, openLost>>
memoryVars == <<due, streakVars, open, bucket, pending>>
tableVars  == <<outages, lastSample, cuts, events, lastBurst>>
vars == <<worldVars, pc, memoryVars, tableVars, faults, back>>

None == -1
Ongoing == -1

Outage(start) == [start |-> start, end |-> Ongoing]
NoEvent == [row |-> 0, kind |-> "none", ts |-> None]
Event(row, kind, t) == [row |-> row, kind |-> kind, ts |-> t]

Bucket(t) == t - (t % BucketLength)

(* A write of the given kind is refused. *)
Refused(w) ==
    /\ w \in FailingWrites
    /\ faults < MaxFaults /\ faults' = faults + 1

Accepted == UNCHANGED faults

-----------------------------------------------------------------------------
(* One attempt (Prober.Round).  The targets are reached when the net is up.*)

(* The sample of a bucket is written when an attempt falls in another one; *)
(* it is forgotten even when the write fails.                              *)
Flush ==
    /\ pc = "wait" /\ now >= due
    /\ bucket # None /\ bucket # Bucket(now)
    /\ bucket' = None
    /\ \/ lastSample' = bucket /\ Accepted
       \/ UNCHANGED lastSample /\ Refused("sample")
    /\ UNCHANGED <<worldVars, pc, due, streakVars, open, pending, outages, cuts,
                   events, lastBurst, back>>

Attempt ==
    /\ pc = "wait" /\ now >= due
    /\ bucket \in {None, Bucket(now)} /\ bucket' = Bucket(now)
    /\ due' = now + Interval
    /\ back' = None
    /\ UNCHANGED <<worldVars, lastSample, events, lastBurst>>

(* A target answers: the streak is over. *)
Reached ==
    /\ net /\ Attempt
    /\ failures' = 0 /\ lastOK' = now
    /\ openLost' = FALSE
    /\ UNCHANGED <<firstFail, lastFail>>

(* Prober.close: the outage is forgotten before its row is closed. *)
Close(row, t) == outages' = [outages EXCEPT ![row].end = t]

EndOutage ==
    /\ open # 0 /\ Reached
    /\ open' = 0
    /\ \/ /\ Close(open, now) /\ Accepted
          /\ pc' = "closed" /\ pending' = Event(open, "coupure_fin", now)
       \/ /\ Refused("close")
          /\ UNCHANGED <<outages, pc, pending>>
    /\ UNCHANGED cuts

(* Prober.microCut: from two misses on, and short of an outage. *)
MicroStreak == MicroOn /\ failures >= 2 /\ failures < Threshold

(* The last success, or one interval before the first miss. *)
Before == IF lastOK = None \/ lastOK > firstFail THEN firstFail - Interval ELSE lastOK

MicroCut(t) == [ts |-> firstFail, min |-> lastFail - firstFail, max |-> t - Before]

(* store.SaveMicroCut: INSERT OR IGNORE, keyed by the date. *)
SaveCut(c) == IF \E d \in cuts : d.ts = c.ts THEN cuts ELSE cuts \cup {c}

EndMicroCut ==
    /\ open = 0 /\ MicroStreak /\ Reached
    /\ \/ cuts' = SaveCut(MicroCut(now)) /\ pc' = "cut" /\ Accepted
       \/ Refused("cut") /\ UNCHANGED <<cuts, pc>>
    /\ UNCHANGED <<open, outages, pending>>

StayUp ==
    /\ open = 0 /\ ~MicroStreak /\ Reached
    /\ Accepted
    /\ UNCHANGED <<pc, open, outages, pending, cuts>>

(* No target answers. *)
Missed ==
    /\ ~net /\ Attempt
    /\ failures' = failures + 1
    /\ lastFail' = now
    /\ firstFail' = IF failures = 0 THEN now ELSE firstFail
    /\ UNCHANGED <<lastOK, cuts>>

SlipOutageDue == failures + 1 > Threshold /\ open = 0
OutageDue == failures + 1 = Threshold /\ open = 0

(* Prober.openOutage: the outage began with the first miss. *)
NewRow == Append(outages, Outage(firstFail'))

BeginOutage ==
    /\ OutageDue /\ Missed
    /\ \/ /\ outages' = NewRow
          /\ open' = Len(outages')
          /\ pc' = "opened" /\ pending' = Event(open', "coupure", firstFail')
          /\ Accepted /\ UNCHANGED openLost
       \/ /\ Refused("open") /\ openLost' = TRUE
          /\ UNCHANGED <<outages, open, pc, pending>>

Miss ==
    /\ ~OutageDue /\ Missed
    /\ Accepted
    /\ UNCHANGED <<pc, open, openLost, outages, pending>>

(* The event of a row just written; refused, it is lost. *)
WriteEvent ==
    /\ pc \in {"opened", "closed"}
    /\ pc' = "wait" /\ pending' = NoEvent
    /\ \/ events' = events \cup {pending} /\ Accepted
       \/ Refused("event") /\ UNCHANGED events
    /\ UNCHANGED <<worldVars, due, streakVars, open, bucket, outages, lastSample,
                   cuts, lastBurst, back>>

(* Five micro-cuts within the hour that ends now, and no message in it. *)
SlipRecentCuts(t) == cuts
RecentCuts(t) == {c \in cuts : c.ts >= t - BurstEvery}

BurstDue(t) ==
    /\ Cardinality(RecentCuts(t)) >= MicroBurst
    /\ lastBurst = None \/ t - lastBurst >= BurstEvery

TellBurst ==
    /\ pc = "cut"
    /\ pc' = "wait"
    /\ \/ BurstDue(lastOK) /\ lastBurst' = lastOK /\ Accepted
       \/ BurstDue(lastOK) /\ Refused("event") /\ UNCHANGED lastBurst
       \/ ~BurstDue(lastOK) /\ Accepted /\ UNCHANGED lastBurst
    /\ UNCHANGED <<worldVars, memoryVars, outages, lastSample, cuts, events, back>>

-----------------------------------------------------------------------------
(* The life of the goroutine. *)

(* Nothing is left in memory. *)
Forget ==
    /\ pc' = "off" /\ due' = 0
    /\ failures' = 0 /\ firstFail' = 0 /\ lastFail' = 0 /\ lastOK' = None
    /\ open' = 0 /\ bucket' = None /\ pending' = NoEvent /\ openLost' = FALSE
    /\ UNCHANGED <<worldVars, outages, cuts, events, lastBurst, back>>

(* The context is cancelled: an attempt or a write under way is abandoned  *)
(* and the sample begun is written.                                        *)
Stop ==
    /\ pc # "off" /\ Forget
    /\ \/ lastSample' = (IF bucket = None THEN lastSample ELSE bucket) /\ Accepted
       \/ bucket # None /\ UNCHANGED lastSample /\ Refused("sample")

(* The process dies. *)
Crash ==
    /\ pc # "off" /\ Forget
    /\ Accepted /\ UNCHANGED lastSample

Start ==
    /\ pc = "off" /\ pc' = "resume"
    /\ Accepted
    /\ UNCHANGED <<worldVars, memoryVars, tableVars, back>>

OpenRows == {i \in 1..Len(outages) : outages[i].end = Ongoing}

(* store.CurrentOutage: the open row that began last. *)
IsCurrent(i) ==
    i \in OpenRows /\ \A k \in OpenRows : outages[k].start <= outages[i].start

(* Prober.resume closes an outage left open at the end of the last sample, *)
(* or where it began when that makes no sense.                             *)
LastMeasure == IF lastSample = None THEN None ELSE lastSample + BucketLength
SlipResumeEnd(start) ==        \* an outage begun after the last sample
    IF LastMeasure > now THEN start ELSE LastMeasure
SlipResumeEndAhead(start) ==   \* a sample that is not over
    IF LastMeasure < start THEN start ELSE LastMeasure
ResumeEnd(start) ==
    IF LastMeasure < start \/ LastMeasure > now THEN start ELSE LastMeasure

Resume ==
    /\ pc = "resume" /\ due' = now
    /\ \/ /\ OpenRows = {} /\ Accepted
          /\ pc' = "wait" /\ UNCHANGED <<outages, pending>>
       \/ \E i \in OpenRows :
            LET end == ResumeEnd(outages[i].start) IN
            /\ IsCurrent(i)
            /\ Close(i, end) /\ Accepted
            /\ pc' = "closed" /\ pending' = Event(i, "coupure_fin", end)
       \/ /\ OpenRows # {} /\ Refused("resume")
          /\ pc' = "wait" /\ UNCHANGED <<outages, pending>>
    /\ UNCHANGED <<worldVars, streakVars, open, bucket, lastSample, cuts, events,
                   lastBurst, back>>

-----------------------------------------------------------------------------
(* The net comes and goes, time passes. *)

SwitchNet ==
    /\ net' = ~net
    /\ back' = IF net' /\ back = None /\ OpenRows # {} THEN now ELSE back
    /\ UNCHANGED <<now, pc, memoryVars, tableVars, faults>>

Tick ==
    /\ now < MaxTime
    /\ now' = now + 1
    /\ UNCHANGED <<net, pc, memoryVars, tableVars, faults, back>>

Init ==
    /\ now = 0 /\ net = TRUE
    /\ pc = "resume" /\ due = 0
    /\ failures = 0 /\ firstFail = 0 /\ lastFail = 0 /\ lastOK = None
    /\ open = 0 /\ bucket = None /\ pending = NoEvent
    /\ outages = << >> /\ lastSample = None /\ cuts = {} /\ events = {}
    /\ lastBurst = None
    /\ faults = 0 /\ openLost = FALSE /\ back = None

Next ==
    \/ Flush \/ EndOutage \/ EndMicroCut \/ StayUp \/ BeginOutage \/ Miss
    \/ WriteEvent \/ TellBurst
    \/ Stop \/ Crash \/ Start \/ Resume
    \/ SwitchNet \/ Tick

Spec == Init /\ [][Next]_vars

-----------------------------------------------------------------------------
(* What the probe promises. *)

(* Every variable keeps its type. *)
OutageType == [start : Nat, end : Nat \cup {Ongoing}]
EventType == [row : Nat, kind : {"none", "coupure", "coupure_fin"}, ts : Nat \cup {None}]
CutType == [ts : Nat, min : Nat, max : Nat]

TypeOK ==
    /\ now \in Nat /\ net \in BOOLEAN
    /\ pc \in {"off", "resume", "wait", "opened", "closed", "cut"} /\ due \in Nat
    /\ failures \in Nat /\ firstFail \in Nat /\ lastFail \in Nat
    /\ lastOK \in Nat \cup {None}
    /\ open \in 0..Len(outages) /\ bucket \in Nat \cup {None} /\ pending \in EventType
    /\ outages \in Seq(OutageType) /\ lastSample \in Nat \cup {None}
    /\ cuts \subseteq CutType /\ events \subseteq EventType
    /\ lastBurst \in Nat \cup {None}
    /\ faults \in Nat /\ openLost \in BOOLEAN /\ back \in Nat \cup {None}

(* As long as no closing of a row is refused the table of outages is the   *)
(* log OutageLog describes: one at a time, in order, never rewritten,      *)
(* whatever falls between two writes.                                      *)
Log == INSTANCE OutageLog WITH log <- outages, Time <- 0..MaxTime
RefinesLog == Log!Spec

(* A silence of Threshold attempts has its row, open and dated at the first *)
(* miss, unless the database refused that very row: openOutage is tried    *)
(* once per streak.                                                        *)
SilenceIsRecorded ==
    failures >= Threshold /\ ~openLost =>
        /\ open # 0
        /\ outages[open] = Outage(firstFail)

(* What the journal tells of the internet is on record.  An event says of  *)
(* an outage what its row says: it is written after the row, and a crash   *)
(* in between loses the event, never the row.  A message about micro-cuts  *)
(* has MicroBurst of them within the hour before it, those of an earlier   *)
(* run of the prober included (docs/fonctionnement.md:29).                 *)
EventsHaveRows ==
    \A e \in events :
        /\ e.row \in 1..Len(outages)
        /\ e.ts = IF e.kind = "coupure" THEN outages[e.row].start
                                        ELSE outages[e.row].end
BurstIsBacked ==
    lastBurst # None =>
        Cardinality({c \in cuts : c.ts \in lastBurst - BurstEvery .. lastBurst})
            >= MicroBurst
EventsAreBacked == EventsHaveRows /\ BurstIsBacked

(* A micro-cut is no part of an outage on record, nor of another micro-cut:*)
(* their durations may be added up.                                        *)
CutsAreApart ==
    /\ \A c \in cuts, i \in 1..Len(outages) :
         \/ c.ts + c.min < outages[i].start
         \/ outages[i].end # Ongoing /\ outages[i].end <= c.ts
    /\ \A c, d \in cuts : c # d => c.ts + c.min < d.ts \/ d.ts + d.min < c.ts

(* What store.Outage.Ongoing is documented to say (store/probe.go:150): the *)
(* outage still goes on.  So none does once an attempt has succeeded.      *)
OngoingIsReal ==
    pc \in {"wait", "opened", "closed", "cut"} /\ lastOK # None /\ failures = 0
        => OpenRows = {}

(* What resume is documented to do (probe.go:127): it closes the outage at *)
(* a date it was still going on, so that its duration is a minimum.        *)
ResumedIsMinimal ==
    [][pc = "resume" => \A i \in OpenRows :
         \/ outages'[i].end <= outages[i].start
         \/ back = None \/ outages'[i].end <= back]_vars
==========================================================================
