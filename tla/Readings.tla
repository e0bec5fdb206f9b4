----------------------------- MODULE Readings -----------------------------
(***************************************************************************)
(* What the program makes of the readings of the modem: the payload of the *)
(* modem becomes a snapshot, the snapshot a row of the base, a verdict and *)
(* the events that tell what has changed since the snapshot before; the    *)
(* pages then count the errors of any window and date what is out of       *)
(* range.  Against it stands what really happens on the line (variables    *)
(* modem, upstream and fact), which the program only sees reading by       *)
(* reading.                                                                *)
(*                                                                         *)
(* The events of the link to the modem and of the restarts asked for are   *)
(* those of module LineWatch, and are left out here: a tick without a      *)
(* reading is one where the program did not run.                           *)
(*                                                                         *)
(* A measure that may be absent is a set of at most one number.  A         *)
(* modulation is told by its order, 0 for OFDM and OFDMA.                  *)
(*                                                                         *)
(* A definition whose name starts with Slip is a plausible mistake in the  *)
(* definition that follows it; no action uses it.                          *)
(***************************************************************************)
EXTENDS Integers, Sequences, FiniteSets, FiniteSetsExt, SequencesExt

CONSTANTS
    ScQam,         \* receivers of SC-QAM channels, in the order of DSTbl
    Ofdm,          \* receivers of OFDM channels, in the order of exDSTbl
    Up,            \* emitters, SC-QAM and OFDMA
    Frequency,     \* frequency of each receiver, in tens of MHz
    Start,         \* [power, snr, mod] of each receiver at first
    UpStart,       \* [power, mod, mux] of each emitter at first
    ErrorSteps,    \* errors a channel may have at once, [corr, lost]
    Powers, Snrs,  \* what a receiver may come to measure
    Orders,        \* the modulations an SC-QAM channel or an OFDMA profile may take
    UpPowers,      \* the powers an emitter may come to use
    Profile,       \* thresholds of the operator
    OfdmaFloor,    \* the usual modulation of OFDMA the subscriber declares, or 0
    Calibrated,    \* Profile.Calibrated
    MinOverlap,    \* restartMinOverlap
    MinSCQAM,      \* minSCQAM
    MaxGap,        \* explain's gap, in ticks
    Lookback,      \* onsetLookback, in ticks
    MaxRunRows,    \* maxRunRows
    ErrorsMayLack, \* a payload may come without the counters of OFDM channels
    MaxTicks,      \* bound on the clock, one reading a tick
    MaxChanges     \* bound on the changes of the line

Elements(s) == {s[i] : i \in DOMAIN s}
Down == Elements(ScQam) \cup Elements(Ofdm)

ASSUME ReadingsAssumption ==
    /\ Elements(ScQam) \cap Elements(Ofdm) = {}
    /\ MinOverlap \in Nat \ {0, 1} /\ MinSCQAM \in Nat \ {0, 1}
    /\ MaxGap \in Nat /\ Lookback \in Nat /\ MaxRunRows \in Nat \ {0}
    /\ ScQam \in Seq(Nat) /\ Ofdm \in Seq(Nat) /\ ErrorSteps \subseteq [corr : Nat, lost : Nat]
    /\ Profile.errors.spike \in Nat

Unknown == 0
Good == 1
Tolerated == 2
Warning == 3
Critical == 4

VARIABLES
    modem,    \* each receiver: is it locked, what it measures, what it counts
    upstream, \* each emitter
    fact,     \* history: reboots, isolated resets and errors so far
    clock,
    readings, \* tables readings, ds_channels and us_channels
    facts,    \* history: the fact of each reading
    events,   \* table of events
    pending,  \* the latest reading is stored and not yet compared
    untold,   \* history: the events of a reading were never written
    changes

lineVars == <<modem, upstream, fact, changes>>
tableVars == <<clock, readings, facts, events, pending, untold>>
readingsVars == <<lineVars, tableVars>>

Abs(n) == IF n < 0 THEN -n ELSE n
Worst(S) == Max({Unknown} \cup S)

-----------------------------------------------------------------------------
(* The payload of the modem.  A receiver has a row in DSTbl or exDSTbl     *)
(* whether it is locked or not; ErrTbl has the counters of all of them, by *)
(* position.                                                               *)

Slot(c) == [id |-> c, freq |-> Frequency[c], lock |-> modem[c].locked,
            mod |-> modem[c].mod, power |-> modem[c].power, snr |-> modem[c].snr,
            corr |-> modem[c].corr, lost |-> modem[c].lost]
Counters(c) == [corr |-> modem[c].corr, lost |-> modem[c].lost]
NoCounters == [corr |-> 0, lost |-> 0]

Payload(whole) ==
    [ds |-> [i \in DOMAIN ScQam |-> Slot(ScQam[i])],
     ex |-> [i \in DOMAIN Ofdm |-> Slot(Ofdm[i])],
     us |-> [u \in Up |-> upstream[u]],
     err |-> [i \in 1..Len(ScQam) |-> Counters(ScQam[i])] \o
             (IF whole THEN [i \in 1..Len(Ofdm) |-> Counters(Ofdm[i])] ELSE << >>)]

(* A row is a channel when the receiver is on one and locked. *)
IsChannel(slot) == slot.id \in 1..255 /\ slot.freq > 0 /\ slot.lock

(* A signal over noise of zero is an absent one; its sign is a convention. *)
Snr(v) == IF v = 0 THEN {} ELSE {Abs(v)}

ErrorRow(p, i) ==
    LET j == Len(p.ds) + i IN IF j \in DOMAIN p.err THEN p.err[j] ELSE NoCounters

(* parsePayload and Normalize: the channels of a snapshot, by identifier. *)
Row(slot, counters) ==
    [freq |-> slot.freq, mod |-> slot.mod, power |-> {slot.power},
     snr |-> Snr(slot.snr), corr |-> counters.corr, lost |-> counters.lost]

Snapshot(p, at) ==
    LET ds == {i \in DOMAIN p.ds : IsChannel(p.ds[i])}
        ex == {i \in DOMAIN p.ex : IsChannel(p.ex[i])}
    IN [time |-> at,
        down |-> [c \in {p.ds[i].id : i \in ds} \cup {p.ex[i].id : i \in ex} |->
                    IF \E i \in ds : p.ds[i].id = c
                    THEN LET i == CHOOSE i \in ds : p.ds[i].id = c
                         IN Row(p.ds[i], p.ds[i])
                    ELSE LET i == CHOOSE i \in ex : p.ex[i].id = c
                         IN Row(p.ex[i], ErrorRow(p, i))],
        up |-> [u \in {u \in Up : p.us[u].locked} |->
                  [mod |-> p.us[u].mod, mux |-> p.us[u].mux, power |-> {p.us[u].power}]]]

-----------------------------------------------------------------------------
(* Errors of a window. *)

SlipCounterDelta(prev, cur) == Abs(cur - prev)
CounterDelta(prev, cur) == IF cur >= prev THEN cur - prev ELSE cur

(* Pairs of readings of I that follow one another among those of channel c. *)
Steps(c, I) ==
    LET seen == {i \in I : c \in DOMAIN readings[i].down}
    IN {p \in seen \X seen : p[1] < p[2] /\ \A k \in seen : ~(p[1] < k /\ k < p[2])}
Growth(c, P) ==
    [corr |-> MapThenSumSet(LAMBDA p : CounterDelta(readings[p[1]].down[c].corr,
                                                    readings[p[2]].down[c].corr), P),
     lost |-> MapThenSumSet(LAMBDA p : CounterDelta(readings[p[1]].down[c].lost,
                                                    readings[p[2]].down[c].lost), P)]

Before(t) == {i \in DOMAIN readings : readings[i].time < t}
Between(from, to) == {i \in DOMAIN readings : readings[i].time \in from..to}

(* The readings of a window, with the one that precedes it. *)
SlipSpan(from, to) == Between(from, to)
Span(from, to) ==
    Between(from, to) \cup (IF Before(from) = {} THEN {} ELSE {Max(Before(from))})

(* ErrorTotals: a channel seen once is not in the result. *)
Counted(from, to) ==
    LET span == Span(from, to)
    IN {c \in Down : Cardinality({i \in span : c \in DOMAIN readings[i].down}) > 1}
ErrorTotals(from, to) ==
    LET span == Span(from, to)
    IN [c \in Counted(from, to) |-> Growth(c, Steps(c, span))]

(* ErrorHistory starts from the last reading of this channel before the window. *)
ErrorHistory(c, from, to) ==
    LET of(I) == {i \in I : c \in DOMAIN readings[i].down}
        first == of(Before(from))
    IN Growth(c, Steps(c, of(Between(from, to)) \cup (IF first = {} THEN {} ELSE {Max(first)})))

(* LinePoints: a channel counts when it is in the reading just before. *)
LinePoint(i, from) ==
    LET earlier == {j \in Span(from, readings[i].time) :
                        j < i /\ DOMAIN readings[j].down # {}}
        last == Max(earlier)
        common == IF earlier = {} THEN {}
                  ELSE DOMAIN readings[last].down \cap DOMAIN readings[i].down
    IN MapThenSumSet(LAMBDA c : CounterDelta(readings[last].down[c].lost,
                                             readings[i].down[c].lost), common)
LineErrors(from, to) == MapThenSumSet(LAMBDA i : LinePoint(i, from), Between(from, to))

-----------------------------------------------------------------------------
(* The verdict on a reading (package analyze).  A finding is a level by    *)
(* metric; a measure that is absent, or without thresholds, has none.      *)

Lookup(table, key, fallback) ==  \* the thresholds in a set: none or one
    IF key \in DOMAIN table THEN {table[key]}
    ELSE IF fallback \in DOMAIN table THEN {table[fallback]} ELSE {}
DownstreamPowerFor(mod) == Lookup(Profile.downPower, mod, Profile.downDefault)
SnrFor(mod) == Lookup(Profile.snr, mod, Profile.snrDefault)
UpstreamPowerFor(mod) == Lookup(Profile.upPower, mod, Profile.upDefault)
InRange(range, v) == v \in range[1]..range[2]

PowerLevel(v, bands) ==
    IF InRange(bands.good, v) THEN Good
    ELSE IF InRange(bands.warning, v) THEN Warning ELSE Critical
SnrLevel(v, bands) ==
    IF v >= bands.goodMin THEN Good
    ELSE IF v >= bands.warningMin THEN Warning ELSE Critical

ErrorLevel(e) ==
    LET total == e.corr + e.lost
        limits == Profile.errors
    IN IF e.lost = 0 \/ total < limits.minVolume \/ e.lost < limits.spike THEN Good
       ELSE IF 100 * e.lost >= limits.critical * total THEN Critical
       ELSE IF 100 * e.lost >= limits.warning * total THEN Warning ELSE Good

(* Effective: the subscriber's usual modulation takes over the profile. *)
OfdmaLimits ==
    IF OfdmaFloor = 0 THEN Profile.ofdma
    ELSE [critical |-> OfdmaFloor \div 4, warning |-> OfdmaFloor \div 2,
          tolerated |-> 0, usual |-> OfdmaFloor]
ModulationLevel(order, limits) ==
    IF order <= limits.critical THEN Critical
    ELSE IF order <= limits.warning THEN Warning
    ELSE IF limits.usual = 0 /\ order <= limits.tolerated THEN Tolerated ELSE Good

(* scqamSlope: least squares over the SC-QAM channels, in integers. *)
Slope(down) ==
    LET S == {c \in DOMAIN down : down[c].mod # 0 /\ down[c].power # {}}
        x(c) == down[c].freq
        y(c) == CHOOSE v \in down[c].power : TRUE
        n == Cardinality(S)
        sx == MapThenSumSet(x, S)
        sy == MapThenSumSet(y, S)
        den == n * MapThenSumSet(LAMBDA c : x(c) * x(c), S) - sx * sx
        num == n * MapThenSumSet(LAMBDA c : x(c) * y(c), S) - sx * sy
    IN IF n < MinSCQAM \/ den = 0 THEN {}
       ELSE {[n |-> n, sx |-> sx, sy |-> sy, num |-> num, den |-> den]}

(* The power the slope gives at a frequency, times n * den. *)
Expected(s, freq) == s.sy * s.den + s.num * (s.n * freq - s.sx)

(* implausibleOFDMPower: the measure is far from the slope although the    *)
(* neighbours are in range and the channel is received well.               *)
Implausible(row, slope) ==
    \E s \in slope, v \in row.power, q \in row.snr :
        LET scale == s.n * s.den
            e == Expected(s, row.freq)
        IN /\ row.mod = 0
           /\ \E b \in DownstreamPowerFor(row.mod) :
                 b.good[1] * scale <= e /\ e <= b.good[2] * scale
           /\ \E b \in SnrFor(row.mod) : q >= b.goodMin
           /\ Abs(v * scale - e) >= Profile.gap * scale

Finding(metric, level) == [metric |-> metric, level |-> level]

DownstreamFindings(row, errors, slope) ==
    {Finding("power", LET l == PowerLevel(v, b)
                      IN IF l >= Warning /\ Implausible(row, slope) THEN Warning ELSE l) :
        v \in row.power, b \in DownstreamPowerFor(row.mod)}
    \cup {Finding("snr", SnrLevel(q, b)) : q \in row.snr, b \in SnrFor(row.mod)}
    \cup {Finding("errors", ErrorLevel(e)) : e \in errors}

(* An OFDMA channel has its order in the active profile, in mux. *)
Order(row) == IF row.mod = 0 THEN row.mux ELSE row.mod
UpstreamFindings(row) ==
    {Finding("power", PowerLevel(v, b)) : v \in row.power, b \in UpstreamPowerFor(row.mod)}
    \cup (IF Order(row) = 0 THEN {}
          ELSE {Finding("modulation", ModulationLevel(Order(row),
                          IF row.mod = 0 THEN OfdmaLimits ELSE Profile.upModulation))})

(* DownstreamMetric and UpstreamMetric judge a row again, without its errors and neighbours. *)
Metric(findings, metric) == Worst({f.level : f \in {g \in findings : g.metric = metric}})

(* State.Analyze: the errors are those of the window before the reading. *)
Health(s) ==
    LET totals == ErrorTotals(s.time - Profile.errors.window, s.time)
        errors(c) == IF c \in DOMAIN totals THEN {totals[c]} ELSE {}
    IN [down |-> [c \in DOMAIN s.down |-> DownstreamFindings(s.down[c], errors(c), Slope(s.down))],
        up |-> [u \in DOMAIN s.up |-> UpstreamFindings(s.up[u])]]
LevelOf(findings) == Worst({f.level : f \in findings})
LineLevel(h) == Worst({LevelOf(h.down[c]) : c \in DOMAIN h.down}
                      \cup {LevelOf(h.up[u]) : u \in DOMAIN h.up})

-----------------------------------------------------------------------------
(* What has changed since the snapshot before (package events). *)

Event(kind, dir, of, level, total) ==
    [time |-> readings[Len(readings)].time, kind |-> kind, dir |-> dir, of |-> of,
     level |-> level, total |-> total]
If(condition, e) == IF condition THEN <<e>> ELSE << >>

Common(prev, cur) == DOMAIN prev.down \cap DOMAIN cur.down

Declined(p, c) == /\ c.corr < p.corr \/ c.lost < p.lost
                  /\ ~(c.corr > p.corr \/ c.lost > p.lost)
Restarted(prev, cur) ==
    LET both == Common(prev, cur)
        declining == {c \in both : Declined(prev.down[c], cur.down[c])}
    IN /\ Cardinality(both) >= MinOverlap
       /\ 10 * Cardinality(declining) >= 8 * Cardinality(both)

SlipChannelEvents(dir, before, after) ==  \* every channel is found when one is
    If(before \ after # {}, Event("lost", dir, before \ after, Warning, 0))
    \o If(after \ before # {}, Event("back", dir, after, Good, 0))
ChannelEvents(dir, before, after) ==
    If(before \ after # {}, Event("lost", dir, before \ after, Warning, 0))
    \o If(after \ before # {}, Event("back", dir, after \ before, Good, 0))

(* A modulation without an order is not compared. *)
ModulationEvents(dir, before, after) ==
    LET moved(sign) == {c \in DOMAIN before \cap DOMAIN after :
                            before[c] # 0 /\ after[c] # 0 /\ sign * (after[c] - before[c]) > 0}
    IN If(moved(-1) # {}, Event("modulation", dir, moved(-1), Warning, 0))
       \o If(moved(1) # {}, Event("modulation", dir, moved(1), Good, 0))

(* The mean power of the channels of both snapshots has moved by the shift. *)
PowerEvents(dir, before, after, shift) ==
    LET both == {c \in DOMAIN before \cap DOMAIN after :
                    before[c].power # {} /\ after[c].power # {}}
        value(row) == CHOOSE v \in row.power : TRUE
        moved == MapThenSumSet(LAMBDA c : value(after[c]) - value(before[c]), both)
    IN If(both # {} /\ Abs(moved) >= shift * Cardinality(both), Event("power", dir, {}, Warning, 0))

UncorrectedDelta(prev, cur) ==
    MapThenSumSet(LAMBDA c : CounterDelta(prev.down[c].lost, cur.down[c].lost), Common(prev, cur))

(* store.LastEvent: the latest events of these kinds, none or one. *)
LastOf(kinds) ==
    LET at == {i \in DOMAIN events : events[i].kind \in kinds}
    IN IF at = {} THEN {} ELSE {events[Max(at)]}
OpenSpike == {e \in LastOf({"errors", "errorsEnd"}) : e.kind = "errors"}
LostSince(from, cur) ==
    LET totals == ErrorTotals(from, cur.time)
    IN MapThenSumSet(LAMBDA c : totals[c].lost, DOMAIN totals)

SlipSpikeEvents(prev, cur) ==  \* a spike that goes on begins again
    IF UncorrectedDelta(prev, cur) >= Profile.errors.spike
    THEN <<Event("errors", "down", {}, Warning, 0)>> ELSE << >>
SpikeEvents(prev, cur) ==
    LET spike == UncorrectedDelta(prev, cur) >= Profile.errors.spike
    IN IF ~Calibrated THEN << >>
       ELSE IF OpenSpike = {} THEN If(spike, Event("errors", "down", {}, Warning, 0))
       ELSE If(~spike, Event("errorsEnd", "down", {}, Good,
                             LostSince((CHOOSE e \in OpenSpike : TRUE).time, cur)))

(* The journal does not tell a tolerated line from a good one. *)
Alert(level) == IF level = Tolerated THEN Good ELSE level

(* cause: the channels at that level; named only when there is one. *)
Blamed(h, level) ==
    LET hits == {<<"down", c>> : c \in {c \in DOMAIN h.down : LevelOf(h.down[c]) = level}}
                \cup {<<"up", u>> : u \in {u \in DOMAIN h.up : LevelOf(h.up[u]) = level}}
    IN IF level > Good /\ Cardinality(hits) = 1 THEN CHOOSE x \in hits : TRUE ELSE <<"", 0>>

StateEvents(h) ==
    LET now == Alert(LineLevel(h))
        last == IF LastOf({"state"}) = {} THEN Good
                ELSE Alert((CHOOSE e \in LastOf({"state"}) : TRUE).level)
        who == Blamed(h, now)
    IN If(Calibrated /\ now # Unknown /\ now # last,
          Event("state", who[1], {who[2]} \ {0}, now, 0))

Changed(prev, cur) ==
    If(Restarted(prev, cur), Event("restart", "down", {}, Warning, 0))
    \o ChannelEvents("down", DOMAIN prev.down, DOMAIN cur.down)
    \o ChannelEvents("up", DOMAIN prev.up, DOMAIN cur.up)
    \o ModulationEvents("down", [c \in DOMAIN prev.down |-> prev.down[c].mod],
                                [c \in DOMAIN cur.down |-> cur.down[c].mod])
    \o ModulationEvents("up", [u \in DOMAIN prev.up |-> Order(prev.up[u])],
                              [u \in DOMAIN cur.up |-> Order(cur.up[u])])
    \o PowerEvents("down", prev.down, cur.down, Profile.shiftDown)
    \o PowerEvents("up", prev.up, cur.up, Profile.shiftUp)
    \o SpikeEvents(prev, cur)

(* Detect: the first snapshot is compared to nothing. *)
Detect ==
    LET n == Len(readings)
        cur == readings[n]
    IN (IF n = 1 THEN << >> ELSE Changed(readings[n - 1], cur)) \o StateEvents(Health(cur))

-----------------------------------------------------------------------------
(* Since when a measure is out of range (webview/explain.go). *)

Latest == readings[Len(readings)]
Back(dir, c) ==  \* DownstreamBack, UpstreamBack: the latest rows of a channel
    LET rows == {i \in DOMAIN readings : /\ c \in DOMAIN readings[i][dir]
                                        /\ readings[i].time >= Latest.time - Lookback}
    IN {i \in rows : Cardinality({j \in rows : j > i}) < MaxRunRows}

Judged(dir, row, metric) ==
    Metric(IF dir = "down" THEN DownstreamFindings(row, {}, {}) ELSE UpstreamFindings(row), metric)

NoOnset == [start |-> {}, atLeast |-> FALSE, done |-> FALSE]
IsGap(o, t) == \E s \in o.start : s - t > MaxGap
SlipStep(o, t, level) ==  \* the measure is looked at before the gap
    IF o.done THEN o
    ELSE IF level < Warning THEN [o EXCEPT !.done = TRUE]
    ELSE IF IsGap(o, t) THEN [o EXCEPT !.atLeast = TRUE, !.done = TRUE]
    ELSE [o EXCEPT !.start = {t}]
Step(o, t, level) ==
    IF o.done THEN o
    ELSE IF IsGap(o, t) THEN [o EXCEPT !.atLeast = TRUE, !.done = TRUE]
    ELSE IF level < Warning THEN [o EXCEPT !.done = TRUE]
    ELSE [o EXCEPT !.start = {t}]
Finish(o) == IF o.done \/ o.start = {} THEN o ELSE [o EXCEPT !.atLeast = TRUE]

Onset(dir, c, metric) ==  \* the latest row first
    Finish(MapThenFoldSet(
        LAMBDA r, o : Step(o, r.time, Judged(dir, r[dir][c], metric)), NoOnset,
        LAMBDA i : readings[i], LAMBDA S : Min(S), Back(dir, c)))

(* explain: the measures out of range; errors, judged on a window, have no date. *)
Reasons ==
    LET h == Health(Latest)
        why(dir, c, f) == [dir |-> dir, of |-> c, metric |-> f.metric, level |-> f.level,
            onset |-> IF f.metric = "errors" THEN NoOnset ELSE Onset(dir, c, f.metric)]
    IN UNION {{why(x[1], x[2], f) : f \in {g \in h[x[1]][x[2]] : g.level >= Warning}} :
              x \in {y \in {"down", "up"} \X (Down \cup Up) : y[2] \in DOMAIN h[y[1]]}}

-----------------------------------------------------------------------------
Zero == [c \in Down |-> 0]
ReadingsInit ==
    /\ modem = [c \in Down |-> [locked |-> TRUE, power |-> Start[c].power, snr |-> Start[c].snr,
                                mod |-> Start[c].mod, corr |-> 0, lost |-> 0]]
    /\ upstream = [u \in Up |-> [locked |-> TRUE, power |-> UpStart[u].power,
                                mod |-> UpStart[u].mod, mux |-> UpStart[u].mux]]
    /\ fact = [boots |-> 0, resets |-> Zero, corr |-> Zero, lost |-> Zero]
    /\ clock = 1 /\ readings = << >> /\ facts = << >> /\ events = << >>
    /\ pending = FALSE /\ untold = FALSE /\ changes = 0

(* What happens on the line.  A change between the storing of a reading and *)
(* the comparison is the same as one that follows them.                     *)
Change == ~pending /\ changes < MaxChanges /\ changes' = changes + 1 /\ UNCHANGED tableVars

Errors(c, e) ==
    /\ Change /\ modem[c].locked
    /\ modem' = [modem EXCEPT ![c].corr = @ + e.corr, ![c].lost = @ + e.lost]
    /\ fact' = [fact EXCEPT !.corr[c] = @ + e.corr, !.lost[c] = @ + e.lost]
    /\ UNCHANGED upstream

Reboot ==
    /\ Change
    /\ modem' = [c \in Down |-> [modem[c] EXCEPT !.corr = 0, !.lost = 0]]
    /\ fact' = [fact EXCEPT !.boots = @ + 1]
    /\ UNCHANGED upstream

(* One channel loses its counters; at most one does between two readings. *)
ResetAlone(c) ==
    /\ Change
    /\ fact.resets = IF facts = << >> THEN Zero ELSE facts[Len(facts)].resets
    /\ modem' = [modem EXCEPT ![c].corr = 0, ![c].lost = 0]
    /\ fact' = [fact EXCEPT !.resets[c] = @ + 1]
    /\ UNCHANGED upstream

LockOrUnlock(c) ==
    /\ Change /\ modem' = [modem EXCEPT ![c].locked = ~@]
    /\ UNCHANGED <<upstream, fact>>
Signal(c, power, snr) ==
    /\ Change /\ <<power, snr>> # <<modem[c].power, modem[c].snr>>
    /\ modem' = [modem EXCEPT ![c].power = power, ![c].snr = snr]
    /\ UNCHANGED <<upstream, fact>>
Modulate(c, order) ==
    /\ Change /\ modem[c].mod \notin {0, order}
    /\ modem' = [modem EXCEPT ![c].mod = order]
    /\ UNCHANGED <<upstream, fact>>
UpLockOrUnlock(u) ==
    /\ Change /\ upstream' = [upstream EXCEPT ![u].locked = ~@]
    /\ UNCHANGED <<modem, fact>>
UpSignal(u, power) ==
    /\ Change /\ upstream[u].power # power
    /\ upstream' = [upstream EXCEPT ![u].power = power]
    /\ UNCHANGED <<modem, fact>>
UpModulate(u, order) ==
    /\ Change /\ Order(upstream[u]) # order
    /\ upstream' = IF upstream[u].mod = 0 THEN [upstream EXCEPT ![u].mux = order]
                    ELSE [upstream EXCEPT ![u].mod = order]
    /\ UNCHANGED <<modem, fact>>

(* collectOnce: the reading is stored, then compared. *)
Read(whole) ==
    /\ ~pending /\ clock < MaxTicks /\ clock' = clock + 1
    /\ readings' = Append(readings, Snapshot(Payload(whole), clock))
    /\ facts' = Append(facts, fact)
    /\ pending' = TRUE
    /\ UNCHANGED <<lineVars, events, untold>>
NoReading ==
    /\ ~pending /\ clock < MaxTicks /\ clock' = clock + 1
    /\ UNCHANGED <<lineVars, readings, facts, events, pending, untold>>

Record ==
    /\ pending /\ pending' = FALSE
    /\ events' = events \o Detect
    /\ UNCHANGED <<lineVars, clock, readings, facts, untold>>
(* A query or SaveEvents fails, or the process dies: nothing compares them again. *)
RecordFails ==
    /\ pending /\ pending' = FALSE /\ untold' = TRUE
    /\ UNCHANGED <<lineVars, clock, readings, facts, events>>

ReadingsNext ==
    \/ \E c \in Down, e \in ErrorSteps : Errors(c, e)
    \/ Reboot
    \/ \E c \in Down : ResetAlone(c) \/ LockOrUnlock(c)
    \/ \E c \in Down, p \in Powers, q \in Snrs : Signal(c, p, q)
    \/ \E c \in Down, o \in Orders : Modulate(c, o)
    \/ \E u \in Up : UpLockOrUnlock(u)
    \/ \E u \in Up, p \in UpPowers : UpSignal(u, p)
    \/ \E u \in Up, o \in Orders : UpModulate(u, o)
    \/ \E whole \in (IF ErrorsMayLack THEN BOOLEAN ELSE {TRUE}) : Read(whole)
    \/ NoReading \/ Record \/ RecordFails

ReadingsSpec == ReadingsInit /\ [][ReadingsNext]_readingsVars

-----------------------------------------------------------------------------
(* The tables of readings change only when a reading is stored: what is said *)
(* of them is said when one has just been.                                   *)

Seen(c, from, to) == {i \in Span(from, to) : c \in DOMAIN readings[i].down}
Real(c, i, j) == [corr |-> facts[j].corr[c] - facts[i].corr[c],
                  lost |-> facts[j].lost[c] - facts[i].lost[c]]
Kept(c, i, j) == facts[i].boots = facts[j].boots /\ facts[i].resets[c] = facts[j].resets[c]

(* The errors counted in any window never exceed those the channel really  *)
(* had between its first and last reading there, and are exactly those     *)
(* when its counters were not reset between: ErrorTotals, CounterDelta and *)
(* the positions of ErrTbl in parsePayload.                                *)
ErrorsAreReal == pending =>
    \A to \in 1..clock : \A from \in 1..to :
      LET totals == ErrorTotals(from, to)
      IN \A c \in DOMAIN totals :
        LET seen == Seen(c, from, to)
            i == Min(seen)
            j == Max(seen)
            told == totals[c]
        IN /\ told.corr <= Real(c, i, j).corr /\ told.lost <= Real(c, i, j).lost
           /\ Kept(c, i, j) => told = Real(c, i, j)

(* The three counts of the pages order in the same way for every window:   *)
(* the frieze (LinePoints) never has more than the report (ErrorTotals),   *)
(* which never has more than the page of the channel (ErrorHistory), and   *)
(* they agree when every reading has the same channels.                    *)
ViewsAgree == pending =>
    \A to \in 1..clock : \A from \in 1..to :
        LET totals == ErrorTotals(from, to)
            total == MapThenSumSet(LAMBDA c : totals[c].lost, DOMAIN totals)
            line == LineErrors(from, to)
            history == MapThenSumSet(LAMBDA c : ErrorHistory(c, from, to).lost, Down)
        IN /\ Between(from, to) # {} => line <= total /\ total <= history
           /\ (/\ Between(from, to) # {}
               /\ \A i \in 1..Len(readings) : DOMAIN readings[i].down = Down)
                  => line = total /\ total = history

(* The journal tells a restart of the modem only when it did restart since *)
(* the reading before; a channel that loses its counters alone is not one. *)
RestartIsReal ==
    \A e \in Elements(events) : e.kind = "restart" =>
        \E j \in 2..Len(readings) :
            readings[j].time = e.time /\ facts[j].boots > facts[j - 1].boots

(* A spike of errors is one episode: a beginning, then an end whose total  *)
(* holds at least the spike and no more than the errors of the line since  *)
(* the reading before it began, even when the events of a reading in       *)
(* between could not be written.                                           *)
SpikesAreWhole ==
    LET spikes == {k \in DOMAIN events : events[k].kind \in {"errors", "errorsEnd"}}
        at(k) == CHOOSE j \in DOMAIN readings : readings[j].time = events[k].time
    IN \A k \in spikes :
        LET earlier == {l \in spikes : l < k}
            last == Max(earlier)
        IN IF events[k].kind = "errors"
           THEN earlier = {} \/ events[last].kind = "errorsEnd"
           ELSE /\ earlier # {} /\ events[last].kind = "errors"
                /\ events[k].total >= Profile.errors.spike
                /\ events[k].total <= MapThenSumSet(
                       LAMBDA c : Real(c, at(last) - 1, at(k)).lost, Down)

(* Reading the channels lost and found of the journal from the first       *)
(* reading on gives the channels of the last one: channelChanges compares  *)
(* with the reading before, across the ticks without a reading, and none   *)
(* is told twice.                                                          *)
Told(dir, c) ==
    {i \in DOMAIN events : events[i].kind \in {"lost", "back"} /\ events[i].dir = dir /\ c \in events[i].of}
Follows(dir, c) ==
    LET told == Told(dir, c)
        here == c \in DOMAIN Latest[dir]
        first == c \in DOMAIN readings[1][dir]
    IN /\ told = {} => (here <=> first)
       /\ \A i \in told : (\A j \in told : i <= j) => (first <=> events[i].kind = "lost")
       /\ \A i \in told : (\A j \in told : j <= i) => (here <=> events[i].kind = "back")
       /\ \A i, j \in told : i < j /\ (\A k \in told : ~(i < k /\ k < j)) => events[i].kind # events[j].kind
ChannelsFollow ==
    readings # << >> /\ ~pending /\ ~untold =>
        \A dir \in {"down", "up"}, c \in Down \cup Up : Follows(dir, c)

(* So the journal tells of the modem and of the channels what happened,    *)
(* once.                                                                   *)
JournalIsReal == RestartIsReal /\ ChannelsFollow

(* The date a measure is out of range since is the true one as far as the  *)
(* readings go: every reading of the channel since is out of range, without *)
(* a hole, and unless the date is told as a bound the reading just before,  *)
(* with no hole, was in range.                                             *)
SinceIsTrue == pending =>
    \A r \in Reasons : r.metric # "errors" =>
        LET rows == {i \in DOMAIN readings : r.of \in DOMAIN readings[i][r.dir]}
            bad(i) == Judged(r.dir, readings[i][r.dir][r.of], r.metric) >= Warning
            near(i, j) == readings[j].time - readings[i].time <= MaxGap
            next(i) == Min({j \in rows : j > i})
        IN \E i \in rows :
            /\ r.onset.start = {readings[i].time}
            /\ \A j \in rows : j >= i => bad(j) /\ (j = Len(readings) \/ near(j, next(j)))
            /\ ~r.onset.atLeast =>
                  \E j \in rows : j < i /\ next(j) = i /\ near(j, i) /\ ~bad(j)

(* So an episode, of errors or of a measure out of range, began and ended  *)
(* when the journal and the pages say it did.                              *)
EpisodesAreTrue == SpikesAreWhole /\ SinceIsTrue
=============================================================================
