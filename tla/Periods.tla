------------------------------ MODULE Periods ------------------------------
\* What the pages, the metrics and Home Assistant say of a period: the report
\* and its comparison (webview/rapport.go), the Internet page
\* (webview/internet.go), the chronology (webview/chronologie.go) and the
\* present status (status/status.go), all computed from the same tables that
\* the collection loop and the probe fill.  Nothing of it is stored: what can
\* go wrong is that two pages, or two neighbouring periods, disagree about the
\* same stretch of time.
\*
\* Dates are integers, as the seconds of the tables are.  One step of the
\* clock is one reading of the line, if the loop runs.
EXTENDS Integers, Sequences, FiniteSets, FiniteSetsExt

CONSTANTS
  Levels,       \* the levels the journal tells
  Good,         \* the level of a line nothing is said of
  OtherKinds,   \* the events that tell no level: restart, note, ...
  Bucket,       \* the length of a sample of the probe
  GapAfter,     \* two readings further apart have a hole between them
  StaleAfter,   \* an older reading is not fresh
  Day, Month,   \* the windows of the status
  EventLimit,   \* the events one query of the chronology returns
  MicroSince,   \* the date the detection of micro-cuts began
  Threshold,    \* an outage this long is compensated
  PeriodFee,    \* half euros due for each day begun, from the monthly fee
  Bars,         \* the bars of a chart
  Speeds,       \* what a speed test may measure
  ReportEvents, \* the events a report shows at most
  MaxTime,      \* bound: the clock
  MaxChanges    \* bound: what happens besides readings and samples

Unknown == "inconnu"   \* the chronology where no reading is
State == "etat"        \* the kind of the events that tell the level
Kinds == {"line", "local"}
Open == -1             \* the end of an outage that goes on

ASSUME PeriodsAssumption ==
  /\ Good \in Levels /\ Unknown \notin Levels
  /\ {Bucket, GapAfter, StaleAfter, Day, Month, EventLimit, Threshold, Bars, ReportEvents} \subseteq Nat \ {0}
  /\ {MicroSince, PeriodFee, MaxTime, MaxChanges} \subseteq Nat
  /\ Day <= Month /\ Speeds \subseteq Nat /\ State \notin OtherKinds

VARIABLES
  clock,
  line,        \* what a reading finds: the level, the errors so far, and
               \* whether a power is out of the nominal band
  collecting,  \* the collection loop runs
  probing,     \* the probe runs
  readings,    \* table readings: date -> what was found
  journal,     \* table events, by date and id
  outages,     \* table link_events, by date
  micro,       \* table micro_cuts
  tests,       \* table speed_tests
  samples,     \* table probe_samples: the starts of the buckets
  changes      \* what happened so far, bounded by MaxChanges
periodsVars == <<clock, line, collecting, probing, readings, journal, outages, micro, tests, samples, changes>>

-----------------------------------------------------------------------------
\* The tables, as the pages query them.

Times == DOMAIN readings
\* Of readings, events, micro-cuts and speed tests a query takes [from, to).
ReadingsIn(from, to) == {t \in Times : from <= t /\ t < to}
FirstReading == Min(Times)

EventsBetween(from, to, kinds) ==
  {i \in DOMAIN journal : journal[i].kind \in kinds /\ from <= journal[i].time /\ journal[i].time < to}

\* The level told last before t; before the first change the line was good.
LevelBefore(t) ==
  LET told == {i \in DOMAIN journal : journal[i].kind = State /\ journal[i].time < t}
  IN IF told = {} THEN Good ELSE journal[Max(told)].level

\* The events the chronology reads, both ends included, the newest first.
NewestEvents(from, to) ==
  LET found == {i \in DOMAIN journal : from <= journal[i].time /\ journal[i].time <= to}
  IN {i \in found : Cardinality({j \in found : j > i}) < EventLimit}

\* Outages that touch [from, to], both ends included.
OutagesIn(from, to) ==
  {i \in DOMAIN outages : outages[i].start <= to /\ (outages[i].end = Open \/ outages[i].end >= from)}
Ongoing(o) == o.end = Open
Duration(o, now) == (IF Ongoing(o) THEN now ELSE o.end) - o.start

SamplesIn(from, to) == {t \in samples : from <= t /\ t <= to}

MicroCuts(from, to) == {i \in DOMAIN micro : from <= micro[i].time /\ micro[i].time < to}
OfLine(table, S) == {i \in S : table[i].kind # "local"}
OfLocal(table, S) == {i \in S : table[i].kind = "local"}

SpeedTests(from, to) == {i \in DOMAIN tests : from <= tests[i].time /\ tests[i].time < to}
\* Twice the median, the mean of the two middle ones when they are even.
Median2(S) ==
  LET rank(i) == Cardinality({j \in S : tests[j].down < tests[i].down \/ (tests[j].down = tests[i].down /\ j <= i)})
      at(r) == tests[CHOOSE i \in S : rank(i) = r].down
      n == Cardinality(S)
  IN IF n = 0 THEN 0 ELSE IF n % 2 = 1 THEN 2 * at((n + 1) \div 2) ELSE at(n \div 2) + at(n \div 2 + 1)
SpeedStats(S) ==
  [count |-> Cardinality(S), median2 |-> Median2(S),
   low |-> IF S = {} THEN 0 ELSE Min({tests[i].down : i \in S})]

\* The readings of a channel out of its nominal band.
OutOfBand(from, to) == Cardinality({t \in ReadingsIn(from, to) : readings[t].out})

\* The errors of a period, from the reading that precedes it to its very end.
ErrorTotals(from, to) ==
  LET before == {t \in Times : t < from}
      start == IF before = {} THEN from ELSE Max(before)
      span == {t \in Times : start <= t /\ t <= to}
  IN IF span = {} THEN 0 ELSE readings[Max(span)].lost - readings[Min(span)].lost

-----------------------------------------------------------------------------
\* The report.

\* The part of an outage that lies in the period.
SlipPart(o, from, to, now) ==
  LET b == IF Ongoing(o) THEN now ELSE IF o.end > to THEN to ELSE o.end
  IN IF b > o.start THEN b - o.start ELSE 0
Part(o, from, to, now) ==
  LET a == IF o.start < from THEN from ELSE o.start
      z == IF Ongoing(o) THEN now ELSE o.end
      b == IF z > to THEN to ELSE z
  IN IF b > a THEN b - a ELSE 0
DownTime(S, from, to, now) == MapThenSumSet(LAMBDA i : Part(outages[i], from, to, now), S)

\* The stretch of a period the line was read on.
StartOf(from) == IF Times # {} /\ from < FirstReading THEN FirstReading ELSE from
EndOf(to) == IF to > clock THEN clock ELSE to

\* Each change told in the period ends a stretch and begins the next one.
Share(l, start, end) ==
  LET told == EventsBetween(start, end, {State})
      next(i) == LET later == {j \in told : j > i}
                 IN IF later = {} THEN end ELSE journal[Min(later)].time
      head == (IF told = {} THEN end ELSE journal[Min(told)].time) - start
  IN (IF LevelBefore(start) = l THEN head ELSE 0)
     + MapThenSumSet(LAMBDA i : next(i) - journal[i].time, {i \in told : journal[i].level = l})

\* What an outage of length d is worth, in half euros: the scale of the law,
\* or a share of the monthly fee for each day begun if that is more.
Scale(d) == IF d < Day THEN 2 ELSE 4 + (d \div Day - 1)
Compensation(d) ==
  IF d < Threshold THEN 0 ELSE Max({Scale(d), PeriodFee * ((d + Day - 1) \div Day)})
CompensationTotal(S, now) == MapThenSumSet(LAMBDA i : Compensation(Duration(outages[i], now)), S)

Report(from, to) ==
  LET now == clock
      read == ReadingsIn(from, to) # {} /\ EndOf(to) > StartOf(from)
      touched == OutagesIn(from, to)
      cuts == OfLine(outages, touched)
      found == MicroCuts(from, to)
  IN [from |-> from, to |-> to,
      readings |-> Cardinality(ReadingsIn(from, to)),
      shares |-> [l \in Levels |-> IF read THEN Share(l, StartOf(from), EndOf(to)) ELSE 0],
      covered |-> IF read THEN EndOf(to) - StartOf(from) ELSE 0,
      cuts |-> Cardinality(cuts),
      down |-> DownTime(cuts, from, to, now),
      longest |-> IF cuts = {} THEN 0 ELSE Max({Duration(outages[i], now) : i \in cuts}),
      localDown |-> DownTime(OfLocal(outages, touched), from, to, now),
      probed |-> SamplesIn(from, to) # {},
      micro |-> Cardinality(OfLine(micro, found)),
      microLocal |-> Cardinality(OfLocal(micro, found)),
      microMeasured |-> SamplesIn(from, to) # {} /\ from >= MicroSince,
      told |-> [k \in OtherKinds |-> Cardinality(EventsBetween(from, to, {k}))],
      uncorr |-> ErrorTotals(from, to),
      outOfBand |-> OutOfBand(from, to),
      speed |-> SpeedStats(SpeedTests(from, to)),
      compensation |-> CompensationTotal(cuts, now)]

\* The events of the report, the oldest first: alerts and notes, not the
\* returns to normal.
EventsShown(from, to) ==
  LET told == {i \in EventsBetween(from, to, OtherKinds \cup {State}) :
                 journal[i].kind = "note" \/ journal[i].level # Good}
  IN {i \in told : Cardinality({j \in told : j < i}) < ReportEvents}

\* The tables a report offers to download, and the rows each then has.
Exports == {"descendant", "internet", "coupures", "micro-coupures", "debit", "journal"}
Offered(r, from, to) ==
  LET all == EventsBetween(from, to, OtherKinds \cup {State})
      has == [e \in Exports |-> CASE e = "descendant" -> r.readings > 0
                                  [] e = "internet" -> r.probed
                                  [] e = "coupures" -> OutagesIn(from, to) # {}
                                  [] e = "micro-coupures" -> r.micro + r.microLocal > 0
                                  [] e = "debit" -> r.speed.count > 0
                                  [] e = "journal" -> all # {}]
  IN {e \in Exports : has[e]}
ExportedSamples(from, to) == {t \in samples : from <= t /\ t < to}
Rows(e, from, to) ==
  CASE e = "descendant" -> ReadingsIn(from, to)
    [] e = "internet" -> ExportedSamples(from, to)
    [] e = "coupures" -> OutagesIn(from, to)
    [] e = "micro-coupures" -> MicroCuts(from, to)
    [] e = "debit" -> SpeedTests(from, to)
    [] e = "journal" -> EventsBetween(from, to, OtherKinds \cup {State})

\* The rows of the comparison before and after an intervention: what is told
\* of the two periods, "better", "worse" or "same".
Verdict(before, after) ==
  IF after < before THEN "better" ELSE IF after > before THEN "worse" ELSE "same"
\* The readings out of band, as a share of the readings of each period.
OutVerdict(b, a) ==
  IF b.readings > 0 /\ a.readings > 0
    THEN Verdict(b.outOfBand * a.readings, a.outOfBand * b.readings) ELSE "none"
Compare(day, n, limit) ==
  LET b == Report(day - n, day)
      a == Report(day, Min({day + n, limit}))
      perDay(x, p, q) == x * (q.to - q.from)   \* x / length of p, over a common denominator
  IN [before |-> b, after |-> a,
      down |-> IF b.probed /\ a.probed THEN Verdict(b.down, a.down) ELSE "none",
      micro |-> IF b.microMeasured /\ a.microMeasured
                  THEN Verdict(perDay(b.micro, b, a), perDay(a.micro, a, b)) ELSE "none",
      uncorr |-> IF b.readings > 0 /\ a.readings > 0
                   THEN Verdict(perDay(b.uncorr, b, a), perDay(a.uncorr, a, b)) ELSE "none",
      outOfBand |-> OutVerdict(b, a),
      speed |-> IF b.speed.count > 0 /\ a.speed.count > 0
                  THEN Verdict(a.speed.median2, b.speed.median2) ELSE "none",
      good |-> IF b.covered > 0 /\ a.covered > 0
                 THEN Verdict(a.shares[Good] * b.covered, b.shares[Good] * a.covered) ELSE "none"]

-----------------------------------------------------------------------------
\* The Internet page: now is the end of the period, which may be past.

Internet(from, now) ==
  LET touched == OutagesIn(from, now)
      probed == SamplesIn(from, now)
  IN [down |-> DownTime(touched, from, now, now),
      outageCount |-> Cardinality(touched),
      compensation |-> CompensationTotal(OfLine(outages, touched), now),
      covered |-> IF probed = {} THEN 0 ELSE now - Min(probed),
      micro |-> Cardinality(MicroCuts(from, now))]

-----------------------------------------------------------------------------
\* The chronology.

\* The readings of the strip, both ends of the period included.
Points(from, to) == {t \in Times : from <= t /\ t <= to}
\* The stretches covered by readings: a hole of more than GapAfter ends one;
\* a reading close enough to an end of the period covers it.
Segments(from, to) ==
  LET P == Points(from, to)
      isStart(p) == \A q \in P : q < p => p - q > GapAfter
      isEnd(p) == \A q \in P : q > p => q - p > GapAfter
      begins(p) == IF p = Min(P) /\ p - from <= GapAfter THEN from ELSE p
      ends(p) == IF p = Max(P) /\ to - p <= GapAfter THEN to ELSE p
  IN {[from |-> begins(p), to |-> ends(Min({q \in P : q >= p /\ isEnd(q)}))] : p \in {q \in P : isStart(q)}}

SlipTold(marks, from, t) ==
  LET past == {i \in marks : journal[i].time < t}
  IN IF past = {} THEN LevelBefore(from) ELSE journal[Max(past)].level
\* The level painted at t: the last change drawn up to t, or the one told
\* before the period.
Told(marks, from, t) ==
  LET past == {i \in marks : journal[i].time <= t}
  IN IF past = {} THEN LevelBefore(from) ELSE journal[Max(past)].level

Strip(from, to) ==
  LET marks == {i \in NewestEvents(from, to) : journal[i].kind = State}
      segs == Segments(from, to)
  IN [t \in from..(to - 1) |->
        IF \E s \in segs : s.from <= t /\ t < s.to THEN Told(marks, from, t) ELSE Unknown]

\* The errors found by a reading since the one before it; the first reading of
\* all has nothing to be compared with.
Growth(t) ==
  LET before == {u \in Times : u < t}
  IN IF before = {} THEN 0 ELSE readings[t].lost - readings[Max(before)].lost

\* The column of the errors in the table of the channels: blank in the first
\* row of a channel, even when an earlier reading is known.
ExportedErrors(from, to) ==
  LET in == ReadingsIn(from, to)
  IN IF in = {} THEN 0 ELSE MapThenSumSet(Growth, in \ {Min(in)})

\* The bar a date falls in; the very end of the period is in the last one.
SlipSlot(t, from, to) == ((t - from) * Bars) \div (to - from)
Slot(t, from, to) ==
  LET i == ((t - from) * Bars) \div (to - from)
  IN IF i = Bars THEN Bars - 1 ELSE IF i < 0 \/ i > Bars THEN -1 ELSE i
ErrorBars(from, to) ==
  [i \in 0..(Bars - 1) |->
     MapThenSumSet(Growth, {t \in Points(from, to) : Slot(t, from, to) = i})]

-----------------------------------------------------------------------------
\* The present status, for the overview, the metrics and Home Assistant.

\* An outage of the last day: it goes on, or it ended since.
Recent(o) == Ongoing(o) \/ o.end > clock - Day

Status ==
  LET now == clock
      known == OfLine(outages, OutagesIn(now - Month, now))
      found == OfLine(micro, MicroCuts(now - Month, now + 1))
  IN [hasData |-> Times # {},
      level |-> IF Times = {} THEN Unknown ELSE readings[Max(Times)].level,
      fresh |-> Times # {} /\ now - Max(Times) <= StaleAfter,
      outage |-> \E i \in DOMAIN outages : Ongoing(outages[i]),
      hasProbe |-> samples # {},
      last |-> IF known = {} THEN 0 ELSE Max(known),
      outages24h |-> Cardinality({i \in known : Recent(outages[i])}),
      outages30d |-> Cardinality(known),
      micro24h |-> Cardinality({i \in found : micro[i].time > now - Day}),
      micro30d |-> Cardinality(found),
      uncorr24h |-> IF Times = {} THEN 0 ELSE ErrorTotals(now - Day, now)]

\* Internet is up unless an outage goes on; nothing is said before the probe
\* has measured.
InternetOf(s) == IF s.hasProbe \/ s.outage THEN (IF s.outage THEN "OFF" ELSE "ON") ELSE "none"
LastDuration(s) == IF s.last = 0 THEN 0 ELSE Duration(outages[s.last], clock)

\* The metrics, as long as a reading or a sample gives them a value.
Metrics(s) ==
  [level |-> s.level, modemUp |-> IF s.hasData THEN (IF s.fresh THEN 1 ELSE 0) ELSE -1,
   internetUp |-> IF s.hasProbe \/ s.outage THEN (IF s.outage THEN 0 ELSE 1) ELSE -1,
   outages24h |-> s.outages24h, outages30d |-> s.outages30d,
   micro24h |-> s.micro24h, micro30d |-> s.micro30d, lastDuration |-> LastDuration(s)]

\* The state published to Home Assistant.
HomeState(s) ==
  [line |-> s.level, signal |-> IF s.hasData THEN (IF s.level # Good THEN "ON" ELSE "OFF") ELSE "none",
   modem |-> IF s.fresh THEN "ON" ELSE "OFF", internet |-> InternetOf(s),
   outages24h |-> s.outages24h, micro24h |-> s.micro24h, uncorr24h |-> s.uncorr24h,
   lastDuration |-> LastDuration(s)]

\* The overview reads the tables itself: the verdict on the last reading, and
\* one banner, that of an outage before that of a stopped or silent loop.
LineVerdict == IF Times = {} THEN Unknown ELSE readings[Max(Times)].level
Banner ==
  IF ~collecting THEN "stopped"
  ELSE IF Times # {} /\ clock - Max(Times) > StaleAfter THEN "silent" ELSE "none"
Overview ==
  [verdict |-> LineVerdict,
   banner |-> IF \E i \in DOMAIN outages : Ongoing(outages[i]) THEN "outage" ELSE Banner]

-----------------------------------------------------------------------------
\* What fills the tables.

PeriodsInit ==
  /\ clock = 0 /\ line = [level |-> Good, lost |-> 0, out |-> FALSE]
  /\ collecting = TRUE /\ probing = TRUE
  /\ readings = <<>> /\ journal = <<>> /\ outages = <<>> /\ micro = <<>> /\ tests = <<>>
  /\ samples = {} /\ changes = 0

Happens == changes < MaxChanges /\ changes' = changes + 1

LastTold == LevelBefore(clock + 1)

\* The bucket of the probe a date is in; it is written when it ends, or when
\* the probe stops.
BucketOf(t) == t - (t % Bucket)

\* Time passes; a reading is due, is stored, and a change of level is told at
\* its date.
Beat ==
  /\ clock < MaxTime
  /\ clock' = clock + 1
  /\ samples' = IF probing /\ BucketOf(clock') # BucketOf(clock)
                  THEN samples \cup {BucketOf(clock)} ELSE samples
  /\ readings' = IF collecting
                   THEN [t \in Times \cup {clock'} |-> IF t = clock' THEN line ELSE readings[t]]
                   ELSE readings
  /\ journal' = IF collecting /\ line.level # LastTold
                  THEN Append(journal, [time |-> clock', kind |-> State, level |-> line.level])
                  ELSE journal
  /\ UNCHANGED <<line, collecting, probing, outages, micro, tests, changes>>

\* A power may leave its nominal band and still be tolerated.
LineMoves(l, out) ==
  /\ Happens /\ <<l, out>> # <<line.level, line.out>>
  /\ line' = [line EXCEPT !.level = l, !.out = out]
  /\ UNCHANGED <<clock, collecting, probing, readings, journal, outages, micro, tests, samples>>

LineLoses ==
  /\ Happens /\ line' = [line EXCEPT !.lost = @ + 1]
  /\ UNCHANGED <<clock, collecting, probing, readings, journal, outages, micro, tests, samples>>

CollectOnOff ==
  /\ Happens /\ collecting' = ~collecting
  /\ UNCHANGED <<clock, line, probing, readings, journal, outages, micro, tests, samples>>

\* An event of another kind; its level is nobody's.
Tell(k) ==
  /\ Happens /\ journal' = Append(journal, [time |-> clock, kind |-> k, level |-> Good])
  /\ UNCHANGED <<clock, line, collecting, probing, readings, outages, micro, tests, samples>>

IsOpen == outages # <<>> /\ Ongoing(outages[Len(outages)])

OutageBegins(k) ==
  /\ Happens /\ probing /\ ~IsOpen
  /\ outages # <<>> => outages[Len(outages)].end < clock
  /\ outages' = Append(outages, [start |-> clock, end |-> Open, kind |-> k])
  /\ UNCHANGED <<clock, line, collecting, probing, readings, journal, micro, tests, samples>>

CloseAt(end) == outages' = [outages EXCEPT ![Len(outages)].end = end]

OutageEnds ==
  /\ Happens /\ probing /\ IsOpen /\ outages[Len(outages)].start < clock /\ CloseAt(clock)
  /\ UNCHANGED <<clock, line, collecting, probing, readings, journal, micro, tests, samples>>

MicroCut(k) ==
  /\ Happens /\ probing /\ ~IsOpen
  /\ \A i \in DOMAIN micro : micro[i].time # clock
  /\ micro' = Append(micro, [time |-> clock, kind |-> k])
  /\ UNCHANGED <<clock, line, collecting, probing, readings, journal, outages, tests, samples>>

\* A date already known is ignored (store/speed.go:30).
SpeedTested(v) ==
  /\ Happens /\ \A i \in DOMAIN tests : tests[i].time # clock
  /\ tests' = Append(tests, [time |-> clock, down |-> v])
  /\ UNCHANGED <<clock, line, collecting, probing, readings, journal, outages, micro, samples>>

\* The bucket under way is written; the row of an outage stays open.
ProbeStops ==
  /\ Happens /\ probing /\ probing' = FALSE /\ samples' = samples \cup {BucketOf(clock)}
  /\ UNCHANGED <<clock, line, collecting, readings, journal, outages, micro, tests>>

\* An outage left open ends with the last bucket on record.
ProbeStarts ==
  /\ Happens /\ ~probing /\ probing' = TRUE
  /\ IF IsOpen
       THEN LET start == outages[Len(outages)].start
                end == Max(samples) + Bucket
            IN CloseAt(IF end < start \/ end > clock THEN start ELSE end)
       ELSE UNCHANGED outages
  /\ UNCHANGED <<clock, line, collecting, readings, journal, micro, tests, samples>>

PeriodsNext ==
  \/ Beat
  \/ \E l \in Levels, out \in BOOLEAN : LineMoves(l, out)
  \/ LineLoses
  \/ CollectOnOff
  \/ \E k \in OtherKinds : Tell(k)
  \/ \E k \in Kinds : OutageBegins(k)
  \/ OutageEnds
  \/ \E k \in Kinds : MicroCut(k)
  \/ \E v \in Speeds : SpeedTested(v)
  \/ ProbeStops
  \/ ProbeStarts

PeriodsSpec == PeriodsInit /\ [][PeriodsNext]_periodsVars

-----------------------------------------------------------------------------
\* Properties.

PeriodsTypeOK ==
  /\ clock \in 0..MaxTime /\ changes \in 0..MaxChanges
  /\ line \in [level : Levels, lost : 0..MaxChanges, out : BOOLEAN]
  /\ {collecting, probing} \subseteq BOOLEAN
  /\ Times \subseteq 1..clock /\ \A t \in Times : readings[t] \in [level : Levels, lost : 0..MaxChanges, out : BOOLEAN]
  /\ \A i \in DOMAIN journal : journal[i] \in [time : 0..clock, kind : OtherKinds \cup {State}, level : Levels]
  /\ \A i \in DOMAIN outages : outages[i] \in [start : 0..clock, end : {Open} \cup 0..clock, kind : Kinds]
  /\ \A i \in DOMAIN micro : micro[i] \in [time : 0..clock, kind : Kinds]
  /\ \A i \in DOMAIN tests : tests[i] \in [time : 0..clock, down : Speeds]
  /\ samples \subseteq 0..clock

\* What the last reading up to t found.
SeenAt(t) == readings[Max({u \in Times : u <= t})].level

\* The periods a page may be asked for: the report's may end in the future,
\* the others end now or earlier.
Past == {w \in (0..clock) \X (0..clock) : w[1] < w[2]}
Asked == {w \in (0..(clock + 1)) \X (0..(clock + 1)) : w[1] < w[2]}

\* The time the report gives to a level is the time the last reading found
\* that level, although it is deduced from the changes in the journal alone,
\* some of them before the period (rapport.go:90-112).
SharesAreTrue ==
  \A w \in Asked :
    LET r == Report(w[1], w[2])
        stretch == StartOf(w[1])..(EndOf(w[2]) - 1)
    IN r.covered > 0 =>
         \A l \in Levels : r.shares[l] = Cardinality({t \in stretch : SeenAt(t) = l})

\* The chronology paints a moment when readings, or an end of the period, are
\* close on each side of it, and nothing where they were too far apart; what it
\* paints is what the last reading found (chronologie.go:211).
StripIsTrue ==
  \A w \in Past :
    LET strip == Strip(w[1], w[2])
        P == Points(w[1], w[2])
    IN P # {} =>
       \A t \in w[1]..(w[2] - 1) :
         /\ strip[t] # Unknown <=>
              \E p \in P \cup {w[1]}, q \in P \cup {w[2]} : p <= t /\ t < q /\ q - p <= GapAfter
         /\ strip[t] # Unknown /\ FirstReading <= t => strip[t] = SeenAt(t)

\* The outages that touch both of two periods that meet at mid.
Straddling(from, mid, to) == OutagesIn(from, mid) \cap OutagesIn(mid, to)

\* So what a page says of the line at any date is what was found then.
LevelsAreTrue == SharesAreTrue /\ StripIsTrue

\* Two reports of neighbouring periods add up to the report of both
\* (rapport.go:77): time by level, time without Internet, micro-cuts and
\* events, none counted twice or forgotten at the boundary.  Only outages that
\* touch both periods count in both, as do their compensation, and the errors
\* a reading found at the very boundary.
ReportsAdd ==
  LET reports == {Report(w[1], w[2]) : w \in Asked}
  IN
  \A a \in reports : \A b \in {r \in reports : r.from = a.to} :
  \A whole \in {r \in reports : r.from = a.from /\ r.to = b.to} :
    LET mid == a.to
        both == OfLine(outages, Straddling(a.from, mid, b.to))
    IN /\ \A f \in {"down", "localDown", "micro", "microLocal", "readings", "outOfBand"} : a[f] + b[f] = whole[f]
       /\ a.speed.count + b.speed.count = whole.speed.count
       /\ \A k \in OtherKinds : a.told[k] + b.told[k] = whole.told[k]
       /\ a.readings > 0 /\ b.covered > 0 =>
            /\ a.covered + b.covered = whole.covered
            /\ \A l \in Levels : a.shares[l] + b.shares[l] = whole.shares[l]
       /\ a.cuts + b.cuts = whole.cuts + Cardinality(both)
       /\ a.compensation + b.compensation = whole.compensation + CompensationTotal(both, clock)
       /\ a.uncorr + b.uncorr = whole.uncorr + (IF mid \in Times THEN Growth(mid) ELSE 0)

\* The pages agree about a period (internet.go:170-184, bars.go:40): the
\* Internet page counts as much time without Internet as the report, which
\* splits it, the bars of the chronology hold all the errors of the report, and
\* a table is offered for download when it has rows, the last bucket of the
\* probe aside, with the errors of the report but those of the two ends.
BarsAgree ==
  \A w \in Past :
    LET r == Report(w[1], w[2])
        bars == ErrorBars(w[1], w[2])
        offered == Offered(r, w[1], w[2])
    IN /\ Internet(w[1], w[2]).down = r.down + r.localDown
       /\ MapThenSumSet(LAMBDA i : bars[i], DOMAIN bars) = r.uncorr
       /\ \A e \in Exports : e \in offered <=>
            Rows(e, w[1], w[2]) # {} \/ (e = "internet" /\ w[2] \in samples)
       /\ r.uncorr = ExportedErrors(w[1], w[2])
            + MapThenSumSet(Growth, {Min(R) : R \in {ReadingsIn(w[1], w[2])} \ {{}}} \cup ({w[2]} \cap Times))

\* What is published of the last day and of the last thirty days is what the
\* report says of the same dates (status.go:103-136); the outage that goes on
\* is among them and is the last one.  The overview, the metrics and Home
\* Assistant tell the same of the modem and of Internet.
StatusAgrees ==
  LET s == Status
      day == Report(clock - Day + 1, clock + 1)
  IN /\ s.outages24h = day.cuts
     /\ s.micro24h = day.micro
     /\ s.outages30d = Report(clock - Month, clock).cuts
     /\ s.micro30d = Report(clock - Month, clock + 1).micro
     /\ s.uncorr24h = Report(clock - Day, clock).uncorr
     /\ IsOpen /\ outages[Len(outages)].kind = "line" =>
          s.outage /\ s.last = Len(outages) /\ s.outages24h > 0
     /\ Overview.banner = "outage" <=> HomeState(s).internet = "OFF"
     /\ Overview.banner = "outage" <=> Metrics(s).internetUp = 0
     /\ Overview.banner = "silent" => HomeState(s).modem = "OFF" /\ Metrics(s).modemUp = 0
     /\ Overview.verdict = HomeState(s).line /\ Metrics(s).level = Overview.verdict

\* So no page contradicts another about the same dates.
PagesAgree == BarsAgree /\ StatusAgrees

\* The share of the time Internet was there is a share: as much time without
\* Internet cannot be counted as was probed (internet.go:197-207).
AvailabilityIsAShare ==
  \A w \in Past : LET p == Internet(w[1], w[2]) IN p.covered > 0 => p.down <= p.covered

\* "better" is said of outages only when Internet was missing less of the time
\* (rapport.go:529-532, against rapport.go:537-538 for the micro-cuts).
VerdictsAreFair ==
  \A day \in 1..(clock - 1) : \A n \in 1..day :
    LET c == Compare(day, n, clock)
    IN c.down = "better" =>
         c.after.down * (c.before.to - c.before.from) < c.before.down * (c.after.to - c.after.from)
=============================================================================
