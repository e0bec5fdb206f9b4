-------------------------- MODULE Prober_proofs --------------------------
(***************************************************************************)
(* Theorems about Prober, for any interval, threshold and length of the    *)
(* samples, and any number of refused writes.                              *)
(*                                                                         *)
(* What the journal and the streak tell (Streak, Row, Told, Cuts) holds    *)
(* whatever writes are refused.  That outages and micro-cuts stay apart,   *)
(* and that the table of outages is the log of OutageLog, also takes that  *)
(* the closing of a row is never refused (Apart).                          *)
(***************************************************************************)
EXTENDS Prober, FiniteSetTheorems, TLAPS

(* Memory is empty before resume is over; a streak is dated in the past,   *)
(* and its last miss before the next attempt.                              *)
Streak ==
    /\ now <= MaxTime
    /\ pc \in {"off", "resume"} => failures = 0 /\ open = 0
    /\ failures > 0 => /\ firstFail <= lastFail /\ lastFail <= now
                       /\ lastFail < due

(* The outage under way is that of the streak. *)
Row == open # 0 => failures >= Threshold /\ outages[open] = Outage(firstFail)

(* An event says what its row says, once written or about to be. *)
TrueOf(e) ==
    /\ e.row \in 1..Len(outages)
    /\ IF e.kind = "coupure" THEN e.ts = outages[e.row].start
       ELSE e.ts = outages[e.row].end /\ e.ts # Ongoing

Told ==
    /\ \A e \in events : TrueOf(e)
    /\ pc \in {"opened", "closed"} => TrueOf(pending)

Cuts ==
    /\ IsFiniteSet(cuts)
    /\ \A c \in cuts : c.ts + c.min < now
    /\ pc = "cut" => lastOK # None /\ \A c \in cuts : c.ts <= lastOK
    /\ BurstIsBacked

IInv == TypeOK /\ Streak /\ Row /\ Told /\ Cuts /\ SilenceIsRecorded

(* Rows come one after the other, the one that is not over is the outage   *)
(* under way, and a streak began after the rest.                           *)
RowsInOrder ==
    /\ \A i \in 1..Len(outages) :
          /\ outages[i].start <= now
          /\ outages[i].end # Ongoing =>
                outages[i].start <= outages[i].end /\ outages[i].end <= now
    /\ \A i, j \in 1..Len(outages) : i < j =>
          outages[i].end # Ongoing /\ outages[i].end <= outages[j].start
    /\ pc \notin {"off", "resume"} =>
          \A i \in 1..Len(outages) : outages[i].end = Ongoing => i = open

StreakIsLast ==
    failures > 0 =>
        /\ open = 0 => \A i \in 1..Len(outages) : outages[i].end <= firstFail
        /\ \A c \in cuts : c.ts + c.min < firstFail

Apart == RowsInOrder /\ StreakIsLast /\ CutsAreApart

(* The closing of a row is not refused, neither by close nor by resume. *)
ClosingsHold == FailingWrites \cap {"close", "resume"} = {}

-----------------------------------------------------------------------------
(* The table of outages. *)

LEMMA AppendRow ==
    ASSUME outages \in Seq(OutageType), NEW t \in Nat, outages' = Append(outages, Outage(t))
    PROVE  /\ outages' \in Seq(OutageType) /\ Len(outages') = Len(outages) + 1
           /\ \A i \in 1..Len(outages) : outages'[i] = outages[i]
           /\ outages'[Len(outages')] = Outage(t)
<1>1. Outage(t) \in OutageType
  BY DEF Outage, OutageType, Ongoing
<1> QED BY <1>1

LEMMA CloseRow ==
    ASSUME outages \in Seq(OutageType), NEW r \in 1..Len(outages), NEW t \in Nat, Close(r, t)
    PROVE  /\ outages' \in Seq(OutageType) /\ Len(outages') = Len(outages)
           /\ \A i \in 1..Len(outages) : i # r => outages'[i] = outages[i]
           /\ outages'[r] = [start |-> outages[r].start, end |-> t]
<1>1. outages[r] \in OutageType
  OBVIOUS
<1>2. [outages[r] EXCEPT !.end = t] = [start |-> outages[r].start, end |-> t]
  BY <1>1 DEF OutageType
<1>3. [start |-> outages[r].start, end |-> t] \in OutageType
  BY <1>1 DEF OutageType
<1>4. outages' = [outages EXCEPT ![r] = [start |-> outages[r].start, end |-> t]]
  BY <1>2 DEF Close
<1> QED BY <1>3, <1>4

(* Closing a row that goes on, and adding one, keep what was told true. *)
LEMMA TrueKept ==
    ASSUME NEW e, TrueOf(e), Len(outages') >= Len(outages), outages \in Seq(OutageType),
           outages' \in Seq(OutageType),
           \A i \in 1..Len(outages) :
              /\ outages'[i].start = outages[i].start
              /\ outages[i].end # Ongoing => outages'[i].end = outages[i].end
    PROVE  TrueOf(e)'
<1>1. e.row \in 1..Len(outages')
  BY DEF TrueOf
<1> QED BY <1>1 DEF TrueOf

(* The start of a sample. *)
LEMMA BucketType ==
    ASSUME ProberAssumption, NEW t \in Nat PROVE Bucket(t) \in Nat
<1>1. BucketLength \in Nat /\ BucketLength > 0
  BY DEF ProberAssumption
<1>2. t % BucketLength \in Nat /\ t % BucketLength <= t
  BY <1>1
<1> QED BY <1>2 DEF Bucket

-----------------------------------------------------------------------------
(* What holds whatever writes are refused: one lemma per action, after     *)
(* what keeps a conjunct whose variables do not change.                    *)

LEMMA ToldKept ==
    ASSUME Told, UNCHANGED <<outages, events>>,
           pc' \in {"opened", "closed"} => UNCHANGED <<pc, pending>>
    PROVE  Told'
BY DEF Told, TrueOf

LEMMA CutsKept ==
    ASSUME TypeOK, Cuts, UNCHANGED <<cuts, lastBurst>>, now' \in Nat, now' >= now,
           pc' = "cut" => UNCHANGED <<pc, lastOK>>
    PROVE  Cuts'
<1>1. \A c \in cuts : c.ts + c.min \in Nat
  BY DEF TypeOK, CutType
<1> QED BY <1>1 DEF TypeOK, Cuts, BurstIsBacked

LEMMA RowKept ==
    ASSUME Row, SilenceIsRecorded, UNCHANGED <<open, outages, failures, firstFail, openLost>>
    PROVE  Row' /\ SilenceIsRecorded'
BY DEF Row, SilenceIsRecorded

LEMMA AttemptFacts ==
    ASSUME ProberAssumption, TypeOK, Attempt
    PROVE  /\ pc = "wait" /\ due <= now
           /\ bucket' \in Nat /\ due' \in Nat /\ due' > now /\ back' = None
           /\ UNCHANGED <<now, net, lastSample, events, lastBurst>>
<1>1. due' = now + Interval /\ Interval \in Nat \ {0} /\ now \in Nat
  BY DEF Attempt, ProberAssumption, TypeOK
<1> QED BY <1>1, BucketType DEF Attempt, worldVars, TypeOK

LEMMA FaultsType ==
    ASSUME TypeOK, NEW w, Accepted \/ Refused(w) PROVE faults' \in Nat
BY DEF TypeOK, Accepted, Refused

LEMMA FlushStep == ASSUME ProberAssumption, IInv, Flush PROVE IInv'
<1> USE DEF IInv
<1>1. /\ bucket' = None /\ lastSample' \in {bucket, lastSample}
      /\ UNCHANGED <<now, net, pc, due, failures, firstFail, lastFail, lastOK, openLost, open,
                     pending, outages, cuts, events, lastBurst, back>>
  BY DEF Flush, worldVars, streakVars
<1>2. faults' \in Nat
  BY FaultsType DEF Flush
<1>3. TypeOK'
  BY <1>1, <1>2 DEF TypeOK
<1>4. Streak'
  BY <1>1 DEF Streak
<1> QED BY <1>1, <1>3, <1>4, ToldKept, CutsKept, RowKept DEF TypeOK

(* The three ends of a streak. *)
LEMMA ReachedFacts ==
    ASSUME ProberAssumption, TypeOK, Streak, Reached
    PROVE  /\ pc = "wait" /\ due <= now
           /\ bucket' \in Nat /\ due' \in Nat /\ back' = None
           /\ failures' = 0 /\ lastOK' = now /\ openLost' \in BOOLEAN
           /\ UNCHANGED <<now, net, lastSample, events, lastBurst, firstFail, lastFail>>
<1>1. openLost' \in BOOLEAN
  BY DEF Reached
<1> QED BY <1>1, AttemptFacts DEF Reached

LEMMA EndOutageStep == ASSUME ProberAssumption, IInv, EndOutage PROVE IInv'
<1> USE DEF IInv
<1>1. Reached /\ open \in 1..Len(outages) /\ open' = 0 /\ cuts' = cuts
  BY DEF EndOutage, TypeOK
<1>2. /\ pc = "wait" /\ due <= now
      /\ bucket' \in Nat /\ due' \in Nat /\ back' = None
      /\ failures' = 0 /\ lastOK' = now /\ openLost' \in BOOLEAN
      /\ UNCHANGED <<now, net, lastSample, events, lastBurst, firstFail, lastFail>>
  BY <1>1, ReachedFacts
<1>3. faults' \in Nat
  BY FaultsType DEF EndOutage
<1>4. Streak' /\ Row' /\ SilenceIsRecorded' /\ now \in Nat
  <2>1. pc' \in {"wait", "closed"}
    BY <1>2 DEF EndOutage
  <2> QED BY <1>1, <1>2, <2>1 DEF Streak, Row, SilenceIsRecorded, ProberAssumption, TypeOK
<1>5. CASE UNCHANGED <<outages, pc, pending>>
  <2>1. TypeOK'
    BY <1>1, <1>2, <1>3, <1>5 DEF TypeOK
  <2> QED BY <1>1, <1>2, <1>4, <1>5, <2>1, ToldKept, CutsKept DEF TypeOK
<1>6. CASE Close(open, now) /\ pc' = "closed" /\ pending' = Event(open, "coupure_fin", now)
  <2>1. /\ outages' \in Seq(OutageType) /\ Len(outages') = Len(outages)
        /\ \A i \in 1..Len(outages) : i # open => outages'[i] = outages[i]
        /\ outages'[open] = [start |-> outages[open].start, end |-> now]
    BY <1>1, <1>6, CloseRow DEF TypeOK
  <2>2. TypeOK'
    <3>1. pending' \in EventType
      BY <1>1, <1>6 DEF Event, EventType, TypeOK
    <3> QED BY <1>1, <1>2, <1>3, <1>6, <2>1, <3>1 DEF TypeOK
  <2>3. outages[open].end = Ongoing
    BY <1>1 DEF Row, Outage, TypeOK
  <2>4. \A e : TrueOf(e) => TrueOf(e)'
    BY <2>1, <2>3, TrueKept DEF TypeOK
  <2>5. TrueOf(pending)'
    BY <1>1, <1>6, <2>1 DEF TrueOf, Event, TypeOK, Ongoing
  <2>6. Told'
    BY <1>2, <2>4, <2>5 DEF Told
  <2> QED BY <1>1, <1>2, <1>4, <1>6, <2>2, <2>6, CutsKept DEF TypeOK
<1> QED BY <1>5, <1>6 DEF EndOutage

(* The cut just seen is over before now, and its streak is the latest.     *)
LEMMA MicroCutFacts ==
    ASSUME ProberAssumption, TypeOK, Streak, MicroStreak, due <= now
    PROVE  /\ MicroCut(now) \in CutType
           /\ MicroCut(now).ts = firstFail /\ MicroCut(now).ts <= now
           /\ MicroCut(now).ts + MicroCut(now).min = lastFail /\ lastFail < now
<1>1. /\ firstFail \in Nat /\ lastFail \in Nat /\ due \in Nat /\ now \in Nat /\ Interval \in Nat
      /\ firstFail <= lastFail /\ lastFail < due
  BY DEF ProberAssumption, TypeOK, Streak, MicroStreak
<1>2. Before \in Int /\ Before <= firstFail
  BY <1>1 DEF Before, TypeOK, None
<1>3. /\ lastFail - firstFail \in Nat /\ now - Before \in Nat
      /\ firstFail + (lastFail - firstFail) = lastFail
  BY <1>1, <1>2
<1> QED BY <1>1, <1>3 DEF MicroCut, CutType

LEMMA SaveCutFacts ==
    ASSUME NEW c, cuts' = SaveCut(c)
    PROVE  cuts \subseteq cuts' /\ cuts' \subseteq cuts \cup {c}
BY DEF SaveCut

(* A message once backed stays so: micro-cuts are not removed. *)
LEMMA BurstKept ==
    ASSUME ProberAssumption, BurstIsBacked, lastBurst' = lastBurst,
           cuts \subseteq cuts', IsFiniteSet(cuts')
    PROVE  BurstIsBacked'
<1> DEFINE In(C) == {c \in C : c.ts \in lastBurst - BurstEvery .. lastBurst}
<1>1. In(cuts) \subseteq In(cuts')
  OBVIOUS
<1>2. IsFiniteSet(In(cuts'))
  BY FS_Subset
<1>3. /\ Cardinality(In(cuts)) <= Cardinality(In(cuts'))
      /\ Cardinality(In(cuts)) \in Nat /\ Cardinality(In(cuts')) \in Nat
  BY <1>1, <1>2, FS_Subset, FS_CardinalityType
<1> SUFFICES ASSUME lastBurst # None PROVE Cardinality(In(cuts')) >= MicroBurst
  BY DEF BurstIsBacked
<1>4. Cardinality(In(cuts)) >= MicroBurst
  BY DEF BurstIsBacked
<1> HIDE DEF In
<1> QED BY <1>3, <1>4 DEF ProberAssumption

LEMMA EndMicroCutStep == ASSUME ProberAssumption, IInv, EndMicroCut PROVE IInv'
<1> USE DEF IInv
<1>1. /\ open = 0 /\ MicroStreak /\ Reached
      /\ UNCHANGED <<open, outages, pending>>
  BY DEF EndMicroCut
<1>2. /\ pc = "wait" /\ due <= now
      /\ bucket' \in Nat /\ due' \in Nat /\ back' = None
      /\ failures' = 0 /\ lastOK' = now /\ openLost' \in BOOLEAN
      /\ UNCHANGED <<now, net, lastSample, events, lastBurst, firstFail, lastFail>>
  BY <1>1, ReachedFacts
<1>3. faults' \in Nat /\ pc' \in {"wait", "cut"}
  BY <1>2, FaultsType DEF EndMicroCut
<1>4. cuts \subseteq cuts' /\ cuts' \subseteq cuts \cup {MicroCut(now)}
  BY SaveCutFacts DEF EndMicroCut
<1>5. /\ MicroCut(now) \in CutType
      /\ MicroCut(now).ts = firstFail /\ MicroCut(now).ts <= now
      /\ MicroCut(now).ts + MicroCut(now).min = lastFail /\ lastFail < now
  BY <1>1, <1>2, MicroCutFacts
<1>6. TypeOK'
  <2>1. cuts' \subseteq CutType
    BY <1>4, <1>5 DEF TypeOK
  <2> QED BY <1>1, <1>2, <1>3, <2>1 DEF TypeOK
<1>7. Streak' /\ Row' /\ SilenceIsRecorded'
  BY <1>1, <1>2, <1>3 DEF Streak, Row, SilenceIsRecorded, ProberAssumption
<1>8. Told'
  BY <1>1, <1>2, <1>3, ToldKept
<1>9. Cuts'
  <2>1. IsFiniteSet(cuts')
    <3>1. IsFiniteSet(cuts \cup {MicroCut(now)})
      BY FS_AddElement DEF Cuts
    <3> QED BY <3>1, <1>4, FS_Subset
  <2>2. \A c \in cuts' : c.ts + c.min < now
    BY <1>4, <1>5 DEF Cuts
  <2>3. \A c \in cuts' : c.ts <= now
    <3>1. \A c \in cuts : c.ts \in Nat /\ c.min \in Nat /\ c.ts + c.min < now
      BY DEF Cuts, TypeOK, CutType
    <3> QED BY <3>1, <1>4, <1>5 DEF TypeOK
  <2>4. lastOK' # None
    BY <1>2 DEF TypeOK, None
  <2>5. BurstIsBacked'
    BY <1>2, <1>4, <2>1, BurstKept DEF Cuts
  <2> QED BY <1>2, <2>1, <2>2, <2>3, <2>4, <2>5 DEF Cuts
<1> QED BY <1>6, <1>7, <1>8, <1>9

LEMMA StayUpStep == ASSUME ProberAssumption, IInv, StayUp PROVE IInv'
<1> USE DEF IInv
<1>1. open = 0 /\ Reached /\ UNCHANGED <<pc, open, outages, pending, cuts, faults>>
  BY DEF StayUp, Accepted
<1>2. /\ pc = "wait" /\ due <= now
      /\ bucket' \in Nat /\ due' \in Nat /\ back' = None
      /\ failures' = 0 /\ lastOK' = now /\ openLost' \in BOOLEAN
      /\ UNCHANGED <<now, net, lastSample, events, lastBurst, firstFail, lastFail>>
  BY <1>1, ReachedFacts
<1>3. TypeOK'
  BY <1>1, <1>2 DEF TypeOK
<1>4. Streak' /\ Row' /\ SilenceIsRecorded'
  BY <1>1, <1>2 DEF Streak, Row, SilenceIsRecorded, ProberAssumption
<1> QED BY <1>1, <1>2, <1>3, <1>4, ToldKept, CutsKept DEF TypeOK

(* The two misses. *)
LEMMA MissedFacts ==
    ASSUME ProberAssumption, TypeOK, Streak, Missed
    PROVE  /\ pc = "wait" /\ due <= now
           /\ bucket' \in Nat /\ due' \in Nat /\ due' > now /\ back' = None
           /\ failures' = failures + 1 /\ lastFail' = now
           /\ firstFail' = IF failures = 0 THEN now ELSE firstFail
           /\ firstFail' \in Nat /\ firstFail' <= now
           /\ UNCHANGED <<now, net, lastSample, events, lastBurst, lastOK, cuts>>
<1>1. /\ firstFail \in Nat /\ lastFail \in Nat /\ now \in Nat /\ failures \in Nat
      /\ failures > 0 => firstFail <= now
  BY DEF TypeOK, Streak
<1>2. Attempt
  BY DEF Missed
<1> QED BY <1>1, <1>2, AttemptFacts DEF Missed

LEMMA BeginOutageStep == ASSUME ProberAssumption, IInv, BeginOutage PROVE IInv'
<1> USE DEF IInv
<1>1. OutageDue /\ Missed /\ open = 0 /\ failures + 1 = Threshold
  BY DEF BeginOutage, OutageDue
<1>2. /\ pc = "wait" /\ due <= now
      /\ bucket' \in Nat /\ due' \in Nat /\ due' > now /\ back' = None
      /\ failures' = failures + 1 /\ lastFail' = now
      /\ firstFail' \in Nat /\ firstFail' <= now
      /\ UNCHANGED <<now, net, lastSample, events, lastBurst, lastOK, cuts>>
  BY <1>1, MissedFacts
<1>3. faults' \in Nat
  BY FaultsType DEF BeginOutage
<1>4. Streak'
  <2>1. pc' \in {"wait", "opened"}
    BY <1>2 DEF BeginOutage
  <2> QED BY <1>2, <2>1 DEF Streak, TypeOK
<1>5. CASE openLost' = TRUE /\ UNCHANGED <<outages, open, pc, pending>>
  <2>1. openLost' \in BOOLEAN
    BY <1>5
  <2>2. TypeOK'
    BY <1>2, <1>3, <1>5, <2>1 DEF TypeOK
  <2>3. Row' /\ SilenceIsRecorded'
    BY <1>1, <1>5 DEF Row, SilenceIsRecorded
  <2> QED BY <1>2, <1>4, <1>5, <2>2, <2>3, ToldKept, CutsKept DEF TypeOK
<1>6. CASE /\ outages' = NewRow /\ open' = Len(outages') /\ pc' = "opened"
           /\ pending' = Event(open', "coupure", firstFail') /\ UNCHANGED openLost
  <2>1. /\ outages' \in Seq(OutageType) /\ Len(outages') = Len(outages) + 1
        /\ \A i \in 1..Len(outages) : outages'[i] = outages[i]
        /\ outages'[Len(outages')] = Outage(firstFail')
    BY <1>2, <1>6, AppendRow DEF NewRow, TypeOK
  <2>2. Len(outages) \in Nat /\ open' \in 1..Len(outages') /\ outages'[open'] = Outage(firstFail')
    BY <1>6, <2>1 DEF TypeOK
  <2>3. TypeOK'
    <3>1. pending' \in EventType
      BY <1>2, <1>6, <2>2 DEF Event, EventType
    <3> QED BY <1>2, <1>3, <1>6, <2>1, <2>2, <3>1 DEF TypeOK
  <2>4. Row' /\ SilenceIsRecorded'
    BY <1>1, <1>2, <2>2 DEF Row, SilenceIsRecorded, ProberAssumption
  <2>5. \A e : TrueOf(e) => TrueOf(e)'
    BY <2>1, <2>2, TrueKept DEF TypeOK
  <2>6. TrueOf(pending)'
    BY <1>6, <2>2 DEF TrueOf, Event, Outage
  <2>7. Told'
    BY <1>2, <2>5, <2>6 DEF Told
  <2> QED BY <1>2, <1>4, <1>6, <2>3, <2>4, <2>7, CutsKept DEF TypeOK
<1> QED BY <1>5, <1>6 DEF BeginOutage

LEMMA MissStep == ASSUME ProberAssumption, IInv, Miss PROVE IInv'
<1> USE DEF IInv
<1>1. /\ Missed /\ UNCHANGED <<pc, open, openLost, outages, pending, faults>>
      /\ failures + 1 = Threshold => open # 0
  BY DEF Miss, Accepted, OutageDue
<1>2. /\ pc = "wait" /\ due <= now
      /\ bucket' \in Nat /\ due' \in Nat /\ due' > now /\ back' = None
      /\ failures' = failures + 1 /\ lastFail' = now
      /\ firstFail' = IF failures = 0 THEN now ELSE firstFail
      /\ firstFail' \in Nat /\ firstFail' <= now
      /\ UNCHANGED <<now, net, lastSample, events, lastBurst, lastOK, cuts>>
  BY <1>1, MissedFacts
<1>3. TypeOK'
  BY <1>1, <1>2 DEF TypeOK
<1>4. Streak'
  BY <1>1, <1>2 DEF Streak
<1>5. /\ failures \in Nat /\ Threshold \in Nat /\ Threshold >= 3
      /\ failures >= Threshold => firstFail' = firstFail
  BY <1>2 DEF TypeOK, ProberAssumption
<1>6. Row' /\ SilenceIsRecorded'
  BY <1>1, <1>2, <1>5 DEF Row, SilenceIsRecorded
<1> QED BY <1>1, <1>2, <1>3, <1>4, <1>6, ToldKept, CutsKept DEF TypeOK

LEMMA WriteEventStep == ASSUME ProberAssumption, IInv, WriteEvent PROVE IInv'
<1> USE DEF IInv
<1>1. /\ pc \in {"opened", "closed"} /\ pc' = "wait" /\ pending' = NoEvent
      /\ events' \in {events, events \cup {pending}}
      /\ UNCHANGED <<now, net, due, failures, firstFail, lastFail, lastOK, openLost, open,
                     bucket, outages, lastSample, cuts, lastBurst, back>>
  BY DEF WriteEvent, worldVars, streakVars
<1>2. faults' \in Nat
  BY FaultsType DEF WriteEvent
<1>3. TypeOK'
  <2>1. NoEvent \in EventType /\ events' \subseteq EventType
    BY <1>1 DEF NoEvent, EventType, TypeOK
  <2> QED BY <1>1, <1>2, <2>1 DEF TypeOK
<1>4. Streak'
  BY <1>1 DEF Streak
<1>5. Told'
  BY <1>1 DEF Told, TrueOf
<1> QED BY <1>1, <1>3, <1>4, <1>5, CutsKept, RowKept DEF TypeOK

LEMMA TellBurstStep == ASSUME ProberAssumption, IInv, TellBurst PROVE IInv'
<1> USE DEF IInv
<1>1. /\ pc = "cut" /\ pc' = "wait"
      /\ UNCHANGED <<now, net, due, failures, firstFail, lastFail, lastOK, openLost, open,
                     bucket, pending, outages, lastSample, cuts, events, back>>
  BY DEF TellBurst, worldVars, memoryVars, streakVars
<1>2. faults' \in Nat
  BY FaultsType DEF TellBurst
<1>3. lastBurst' = lastBurst \/ (lastBurst' = lastOK /\ BurstDue(lastOK))
  BY DEF TellBurst
<1>4. TypeOK'
  BY <1>1, <1>2, <1>3 DEF TypeOK
<1>5. Streak'
  BY <1>1 DEF Streak
<1>6. BurstIsBacked'
  <2>1. CASE lastBurst' = lastBurst
    BY <1>1, <2>1 DEF Cuts, BurstIsBacked
  <2>2. CASE lastBurst' = lastOK /\ BurstDue(lastOK)
    <3>1. lastOK \in Nat /\ BurstEvery \in Nat /\ \A c \in cuts : c.ts \in Nat /\ c.ts <= lastOK
      BY <1>1 DEF Cuts, TypeOK, CutType, ProberAssumption
    <3>2. RecentCuts(lastOK) = {c \in cuts : c.ts \in lastOK - BurstEvery .. lastOK}
      BY <3>1 DEF RecentCuts
    <3> QED BY <1>1, <2>2, <3>2 DEF BurstIsBacked, BurstDue
  <2> QED BY <1>3, <2>1, <2>2
<1>7. Cuts'
  BY <1>1, <1>6 DEF Cuts
<1> QED BY <1>1, <1>4, <1>5, <1>7, ToldKept, RowKept

LEMMA ForgetStep == ASSUME ProberAssumption, IInv, Stop \/ Crash PROVE IInv'
<1> USE DEF IInv
<1>1. /\ pc' = "off" /\ due' = 0
      /\ failures' = 0 /\ firstFail' = 0 /\ lastFail' = 0 /\ lastOK' = None
      /\ open' = 0 /\ bucket' = None /\ pending' = NoEvent
      /\ lastSample' \in {lastSample, bucket}
      /\ UNCHANGED <<now, net, outages, cuts, events, lastBurst, back>>
  BY DEF Stop, Crash, Forget, worldVars
<1>2. faults' \in Nat
  BY FaultsType DEF Stop, Crash
<1>3. openLost' \in BOOLEAN
  BY DEF Stop, Crash, Forget
<1>4. TypeOK'
  <2>1. NoEvent \in EventType
    BY DEF NoEvent, EventType
  <2> QED BY <1>1, <1>2, <1>3, <2>1 DEF TypeOK
<1>5. Streak' /\ Row' /\ SilenceIsRecorded'
  BY <1>1 DEF Streak, Row, SilenceIsRecorded, ProberAssumption
<1> QED BY <1>1, <1>4, <1>5, ToldKept, CutsKept DEF TypeOK

LEMMA StartStep == ASSUME ProberAssumption, IInv, Start PROVE IInv'
<1> USE DEF IInv
<1>1. /\ pc = "off" /\ pc' = "resume"
      /\ UNCHANGED <<now, net, due, failures, firstFail, lastFail, lastOK, openLost, open,
                     bucket, pending, outages, lastSample, cuts, events, lastBurst, back, faults>>
  BY DEF Start, Accepted, worldVars, memoryVars, streakVars, tableVars
<1>2. TypeOK'
  BY <1>1 DEF TypeOK
<1>3. Streak'
  BY <1>1 DEF Streak
<1> QED BY <1>1, <1>2, <1>3, ToldKept, CutsKept, RowKept DEF TypeOK

LEMMA ResumeEndFacts ==
    ASSUME ProberAssumption, TypeOK, NEW start \in Nat
    PROVE  /\ ResumeEnd(start) \in Nat /\ start <= ResumeEnd(start)
           /\ start <= now => ResumeEnd(start) <= now
<1>1. LastMeasure \in Int /\ now \in Nat
  BY DEF ProberAssumption, TypeOK, LastMeasure, None
<1> QED BY <1>1 DEF ResumeEnd

LEMMA ResumeStep == ASSUME ProberAssumption, IInv, Resume PROVE IInv'
<1> USE DEF IInv
<1>1. /\ pc = "resume" /\ due' = now /\ pc' \in {"wait", "closed"}
      /\ failures = 0 /\ open = 0
      /\ UNCHANGED <<now, net, failures, firstFail, lastFail, lastOK, openLost, open, bucket,
                     lastSample, cuts, events, lastBurst, back>>
  BY DEF Resume, Streak, worldVars, streakVars
<1>2. faults' \in Nat
  BY FaultsType DEF Resume
<1>3. Streak' /\ Row' /\ SilenceIsRecorded'
  BY <1>1 DEF Streak, Row, SilenceIsRecorded, ProberAssumption
<1>4. Cuts'
  BY <1>1, CutsKept DEF TypeOK
<1>5. CASE pc' = "wait" /\ UNCHANGED <<outages, pending>>
  <2>1. TypeOK'
    BY <1>1, <1>2, <1>5 DEF TypeOK
  <2> QED BY <1>1, <1>3, <1>4, <1>5, <2>1, ToldKept
<1>6. ASSUME NEW i \in OpenRows,
             Close(i, ResumeEnd(outages[i].start)), pc' = "closed",
             pending' = Event(i, "coupure_fin", ResumeEnd(outages[i].start))
      PROVE  IInv'
  <2> DEFINE end == ResumeEnd(outages[i].start)
  <2>1. i \in 1..Len(outages) /\ outages[i].end = Ongoing /\ outages[i].start \in Nat
    <3>1. i \in 1..Len(outages) /\ outages[i].end = Ongoing
      BY DEF OpenRows
    <3>2. outages[i] \in OutageType
      BY <3>1 DEF TypeOK
    <3> QED BY <3>1, <3>2 DEF OutageType
  <2>2. end \in Nat
    BY <2>1, ResumeEndFacts
  <2> HIDE DEF end
  <2>3. /\ outages' \in Seq(OutageType) /\ Len(outages') = Len(outages)
        /\ \A k \in 1..Len(outages) : k # i => outages'[k] = outages[k]
        /\ outages'[i] = [start |-> outages[i].start, end |-> end]
    BY <1>6, <2>1, <2>2, CloseRow DEF TypeOK, end
  <2>4. TypeOK'
    <3>1. pending' \in EventType
      BY <1>6, <2>1, <2>2 DEF Event, EventType, TypeOK, end
    <3> QED BY <1>1, <1>2, <1>6, <2>3, <3>1 DEF TypeOK
  <2>5. \A e : TrueOf(e) => TrueOf(e)'
    BY <2>1, <2>3, TrueKept DEF TypeOK
  <2>6. TrueOf(pending)'
    BY <1>6, <2>1, <2>2, <2>3 DEF TrueOf, Event, Ongoing, end
  <2>7. Told'
    BY <1>1, <2>5, <2>6 DEF Told
  <2> QED BY <1>3, <1>4, <2>4, <2>7
<1> QED BY <1>5, <1>6 DEF Resume

LEMMA WorldStep == ASSUME ProberAssumption, IInv, SwitchNet \/ Tick PROVE IInv'
<1> USE DEF IInv
<1>1. /\ now' \in Nat /\ now' >= now /\ now' <= MaxTime
      /\ back' \in Nat \cup {None}
      /\ UNCHANGED <<pc, due, failures, firstFail, lastFail, lastOK, openLost, open, bucket,
                     pending, outages, lastSample, cuts, events, lastBurst, faults>>
  <2>1. CASE SwitchNet
    <3>1. back' = now \/ back' = back
      BY <2>1 DEF SwitchNet
    <3> QED BY <2>1, <3>1 DEF SwitchNet, memoryVars, streakVars, tableVars, TypeOK, Streak
  <2>2. CASE Tick
    BY <2>2 DEF Tick, memoryVars, streakVars, tableVars, TypeOK, Streak, ProberAssumption
  <2> QED BY <2>1, <2>2
<1>2. net' \in BOOLEAN
  BY DEF SwitchNet, Tick, TypeOK
<1>3. TypeOK'
  BY <1>1, <1>2 DEF TypeOK
<1>4. Streak'
  BY <1>1 DEF Streak, TypeOK
<1> QED BY <1>1, <1>3, <1>4, ToldKept, CutsKept, RowKept

LEMMA StutterStep == ASSUME ProberAssumption, IInv, UNCHANGED vars PROVE IInv'
<1> USE DEF IInv, vars, worldVars, memoryVars, streakVars, tableVars
<1>1. TypeOK' /\ Streak'
  BY DEF TypeOK, Streak
<1> QED BY <1>1, ToldKept, CutsKept, RowKept DEF TypeOK

LEMMA InitIInv == ProberAssumption /\ Init => IInv
<1> SUFFICES ASSUME ProberAssumption, Init PROVE IInv
  OBVIOUS
<1> USE DEF Init
<1>1. outages \in Seq(OutageType) /\ Len(outages) = 0
  OBVIOUS
<1>2. NoEvent \in EventType
  BY DEF NoEvent, EventType
<1>3. net \in BOOLEAN /\ openLost \in BOOLEAN
  OBVIOUS
<1>4. TypeOK
  BY <1>1, <1>2, <1>3 DEF TypeOK
<1>5. Streak /\ Row /\ SilenceIsRecorded
  BY DEF Streak, Row, SilenceIsRecorded, ProberAssumption
<1>6. Told /\ Cuts
  BY FS_EmptySet DEF Told, Cuts, BurstIsBacked
<1> QED BY <1>4, <1>5, <1>6 DEF IInv

LEMMA NextIInv == ProberAssumption /\ IInv /\ [Next]_vars => IInv'
BY FlushStep, EndOutageStep, EndMicroCutStep, StayUpStep, BeginOutageStep, MissStep,
   WriteEventStep, TellBurstStep, ForgetStep, StartStep, ResumeStep, WorldStep, StutterStep
   DEF Next

(* What the probe knows of its streak, its outage, its events and its      *)
(* micro-cuts holds in every state (probe.go, store/probe.go, micro.go).   *)
THEOREM Invariance == Spec => []IInv
BY ProberAssumption, InitIInv, NextIInv, PTL DEF Spec

(* Every variable keeps its type (Prober, store.Outage, store.MicroCut).   *)
THEOREM TypeCorrect == Spec => []TypeOK
<1>1. IInv => TypeOK
  BY DEF IInv
<1> QED BY <1>1, Invariance, PTL

(* Threshold misses in a row have their row, dated at the first, or it was *)
(* refused (Round, openOutage).                                            *)
THEOREM SilenceRecorded == Spec => []SilenceIsRecorded
<1>1. IInv => SilenceIsRecorded
  BY DEF IInv
<1> QED BY <1>1, Invariance, PTL

(* What the journal tells of outages and micro-cuts is in their tables,    *)
(* wherever a crash falls (openOutage, close, resume, microCut).           *)
THEOREM EventsBacked == Spec => []EventsAreBacked
<1>1. IInv => EventsAreBacked
  BY DEF IInv, Told, TrueOf, Cuts, EventsHaveRows, EventsAreBacked
<1> QED BY <1>1, Invariance, PTL

-----------------------------------------------------------------------------
(* What also holds when no closing of a row is refused.                    *)

LEMMA RowType ==
    ASSUME TypeOK, NEW i \in 1..Len(outages)
    PROVE  outages[i].start \in Nat /\ outages[i].end \in Nat \cup {Ongoing}
<1>1. outages[i] \in OutageType
  BY DEF TypeOK
<1> QED BY <1>1 DEF OutageType

LEMMA RowsKept ==
    ASSUME TypeOK, RowsInOrder, UNCHANGED <<outages, open>>, now' \in Nat, now' >= now,
           pc' \notin {"off", "resume"} => pc \notin {"off", "resume"}
    PROVE  RowsInOrder'
<1>1. \A i \in 1..Len(outages) :
          outages[i].start \in Nat /\ outages[i].end \in Nat \cup {Ongoing}
  BY RowType
<1> QED BY <1>1 DEF RowsInOrder, TypeOK

LEMMA StreakKept ==
    ASSUME StreakIsLast, CutsAreApart, UNCHANGED <<outages, open, cuts, failures, firstFail>>
    PROVE  StreakIsLast' /\ CutsAreApart'
BY DEF StreakIsLast, CutsAreApart

LEMMA ApartQuiet ==
    ASSUME IInv, Apart, Flush \/ WriteEvent \/ TellBurst \/ Start \/ SwitchNet \/ Tick
    PROVE  Apart' /\ UNCHANGED outages
<1> USE DEF IInv, Apart, Flush, WriteEvent, TellBurst, Start, SwitchNet, Tick,
            worldVars, memoryVars, streakVars, tableVars
<1>1. UNCHANGED <<outages, open, cuts, failures, firstFail>>
  OBVIOUS
<1>2. now' \in Nat /\ now' >= now
  BY DEF TypeOK
<1>3. pc' \notin {"off", "resume"} => pc \notin {"off", "resume"}
  OBVIOUS
<1> QED BY <1>1, <1>2, <1>3, RowsKept, StreakKept

LEMMA ApartForget ==
    ASSUME IInv, Apart, Stop \/ Crash PROVE Apart' /\ UNCHANGED outages
<1> USE DEF IInv, Apart
<1>1. UNCHANGED <<outages, cuts, now>> /\ pc' = "off" /\ failures' = 0
  BY DEF Stop, Crash, Forget, worldVars
<1> QED BY <1>1 DEF RowsInOrder, StreakIsLast, CutsAreApart

(* The end of a streak: nothing is left to be last. *)
LEMMA ApartStayUp ==
    ASSUME ProberAssumption, IInv, Apart, StayUp PROVE Apart' /\ UNCHANGED outages
<1> USE DEF IInv, Apart
<1>1. UNCHANGED <<outages, open, pc, cuts>> /\ now' = now /\ failures' = 0
  BY ReachedFacts DEF StayUp
<1> QED BY <1>1 DEF RowsInOrder, StreakIsLast, CutsAreApart

LEMMA ApartEndMicroCut ==
    ASSUME ProberAssumption, IInv, Apart, EndMicroCut PROVE Apart' /\ UNCHANGED outages
<1> USE DEF IInv, Apart
<1>1. /\ open = 0 /\ MicroStreak /\ Reached /\ UNCHANGED <<open, outages>>
  BY DEF EndMicroCut
<1>2. pc = "wait" /\ pc' \in {"wait", "cut"} /\ due <= now /\ now' = now /\ failures' = 0
  BY <1>1, ReachedFacts DEF EndMicroCut
<1>3. cuts' \subseteq cuts \cup {MicroCut(now)}
  BY SaveCutFacts DEF EndMicroCut
<1>4. /\ MicroCut(now).ts = firstFail /\ failures > 0
      /\ MicroCut(now).ts + MicroCut(now).min = lastFail
  BY <1>1, <1>2, MicroCutFacts DEF MicroStreak, TypeOK
<1>5. RowsInOrder' /\ StreakIsLast'
  BY <1>1, <1>2 DEF RowsInOrder, StreakIsLast
<1>6. \A c \in cuts' \ cuts, i \in 1..Len(outages) :
          outages[i].end # Ongoing /\ outages[i].end <= c.ts
  BY <1>1, <1>2, <1>3, <1>4, RowType DEF RowsInOrder, StreakIsLast
<1>7. \A c \in cuts, d \in cuts' \ cuts : c.ts + c.min < d.ts
  BY <1>3, <1>4 DEF StreakIsLast
<1>8. CutsAreApart'
  BY <1>1, <1>3, <1>6, <1>7 DEF CutsAreApart
<1> QED BY <1>1, <1>5, <1>8

LEMMA ApartMiss ==
    ASSUME ProberAssumption, IInv, Apart, Miss PROVE Apart' /\ UNCHANGED outages
<1> USE DEF IInv, Apart
<1>1. Missed /\ UNCHANGED <<pc, open, outages>>
  BY DEF Miss
<1>2. /\ now' = now /\ cuts' = cuts /\ pc = "wait" /\ failures' > 0
      /\ firstFail' = IF failures = 0 THEN now ELSE firstFail
  BY <1>1, MissedFacts DEF TypeOK
<1>3. \A i \in 1..Len(outages) : outages[i].end <= now
  BY RowType DEF RowsInOrder, TypeOK, Ongoing
<1>4. StreakIsLast'
  BY <1>1, <1>2, <1>3 DEF StreakIsLast, Cuts, TypeOK
<1> QED BY <1>1, <1>2, <1>4 DEF RowsInOrder, CutsAreApart

(* The beginning of an outage, in the table and in its log. *)
LEMMA ApartBeginOutage ==
    ASSUME ProberAssumption, IInv, Apart, BeginOutage
    PROVE  Apart' /\ (UNCHANGED outages \/ \E t \in 0..MaxTime : Log!Begin(t))
<1> USE DEF IInv, Apart
<1>1. Missed /\ open = 0
  BY DEF BeginOutage, OutageDue
<1>2. /\ now' = now /\ cuts' = cuts /\ pc = "wait" /\ failures' > 0
      /\ firstFail' = IF failures = 0 THEN now ELSE firstFail
      /\ firstFail' \in Nat /\ firstFail' <= now
  BY <1>1, MissedFacts DEF TypeOK
<1>3. \A i \in 1..Len(outages) :
          outages[i].end # Ongoing /\ outages[i].end <= firstFail'
  <2>1. \A i \in 1..Len(outages) : outages[i].end # Ongoing
    BY <1>1, <1>2 DEF RowsInOrder
  <2> QED BY <1>1, <1>2, <2>1 DEF RowsInOrder, StreakIsLast, TypeOK
<1>4. \A c \in cuts : c.ts + c.min < firstFail'
  BY <1>2 DEF StreakIsLast, Cuts, TypeOK
<1>5. CASE UNCHANGED <<outages, open, pc>>
  <2>1. RowsInOrder'
    BY <1>2, <1>5 DEF RowsInOrder
  <2>2. StreakIsLast' /\ CutsAreApart'
    BY <1>2, <1>3, <1>4, <1>5 DEF StreakIsLast, CutsAreApart
  <2> QED BY <1>5, <2>1, <2>2
<1>6. CASE outages' = NewRow /\ open' = Len(outages') /\ pc' = "opened"
  <2>1. /\ Len(outages') = Len(outages) + 1 /\ Len(outages) \in Nat
        /\ \A i \in 1..Len(outages) : outages'[i] = outages[i]
        /\ outages'[Len(outages')].start = firstFail' /\ outages'[Len(outages')].end = Ongoing
    BY <1>2, <1>6, AppendRow DEF NewRow, TypeOK, Outage
  <2>2. \A i \in 1..Len(outages') : i \in 1..Len(outages) \/ i = Len(outages')
    BY <2>1
  <2>3. RowsInOrder'
    <3>1. \A i \in 1..Len(outages') :
              /\ outages'[i].start <= now
              /\ outages'[i].end # Ongoing =>
                    outages'[i].start <= outages'[i].end /\ outages'[i].end <= now
      BY <1>2, <2>1, <2>2 DEF RowsInOrder
    <3>2. \A i, j \in 1..Len(outages') : i < j =>
              outages'[i].end # Ongoing /\ outages'[i].end <= outages'[j].start
      BY <1>3, <2>1, <2>2 DEF RowsInOrder
    <3>3. \A i \in 1..Len(outages') : outages'[i].end = Ongoing => i = open'
      BY <1>3, <1>6, <2>1, <2>2
    <3> QED BY <1>2, <3>1, <3>2, <3>3 DEF RowsInOrder
  <2>4. StreakIsLast'
    BY <1>2, <1>4, <1>6, <2>1 DEF StreakIsLast
  <2>5. CutsAreApart'
    BY <1>2, <1>4, <2>1, <2>2 DEF CutsAreApart
  <2>6. Log!Begin(firstFail')
    BY <1>3, <1>6 DEF Log!Begin, Log!Over, Log!Outage, Log!Ongoing, NewRow, Outage, Ongoing
  <2>7. firstFail' \in 0..MaxTime
    BY <1>2 DEF Streak, TypeOK, ProberAssumption
  <2> QED BY <2>3, <2>4, <2>5, <2>6, <2>7
<1> QED BY <1>5, <1>6 DEF BeginOutage

(* The end of the row that goes on, which is the last. *)
LEMMA ApartClose ==
    ASSUME ProberAssumption, IInv, Apart, NEW r \in 1..Len(outages), NEW t \in Nat,
           outages[r].end = Ongoing, outages[r].start <= t, t <= now, Close(r, t),
           now' = now, cuts' = cuts, failures' = 0
    PROVE  Apart' /\ \E u \in 0..MaxTime : Log!End(u)
<1> USE DEF IInv, Apart
<1>0. /\ Len(outages') = Len(outages)
      /\ \A i \in 1..Len(outages) : i # r => outages'[i] = outages[i]
      /\ outages'[r] = [start |-> outages[r].start, end |-> t]
  <2>1. outages \in Seq(OutageType)
    BY DEF TypeOK
  <2> QED BY <2>1, CloseRow
<1>1. /\ Len(outages') = Len(outages) /\ Len(outages) \in Nat
      /\ \A i \in 1..Len(outages) : i # r => outages'[i] = outages[i]
      /\ outages'[r].start = outages[r].start /\ outages'[r].end = t
  <2>1. Len(outages) \in Nat
    BY DEF TypeOK
  <2> QED BY <1>0, <2>1
<1>2. r = Len(outages)
  BY <1>1 DEF RowsInOrder
<1>3. \A i \in 1..Len(outages) : i # r => outages[i].end # Ongoing
  BY <1>1, <1>2 DEF RowsInOrder
<1>4. RowsInOrder'
  <2>1. \A i \in 1..Len(outages) :
            /\ outages'[i].start <= now
            /\ outages'[i].start <= outages'[i].end /\ outages'[i].end <= now
    BY <1>1, <1>3 DEF RowsInOrder
  <2>2. \A i, j \in 1..Len(outages) : i < j => outages'[i].end <= outages'[j].start
    BY <1>1, <1>2 DEF RowsInOrder
  <2>3. \A i \in 1..Len(outages) : outages'[i].end # Ongoing
    BY <1>1, <1>3 DEF Ongoing
  <2> QED BY <1>1, <2>1, <2>2, <2>3 DEF RowsInOrder
<1>5. StreakIsLast'
  BY DEF StreakIsLast
<1>6. CutsAreApart'
  <2>1. \A c \in cuts : c.ts + c.min < outages[r].start
    BY DEF CutsAreApart
  <2>2. \A c \in cuts, i \in 1..Len(outages) : outages[i].start = outages'[i].start
    BY <1>1
  <2>3. \A c \in cuts, i \in 1..Len(outages) :
            \/ c.ts + c.min < outages'[i].start
            \/ outages'[i].end # Ongoing /\ outages'[i].end <= c.ts
    BY <1>1, <2>1 DEF CutsAreApart
  <2> QED BY <1>1, <2>3 DEF CutsAreApart
<1>7. Log!End(t)
  <2>1. outages # << >>
    BY <1>2, <1>1
  <2>2. outages' = [outages EXCEPT ![Len(outages)].end = t]
    BY <1>2 DEF Close
  <2> QED BY <1>2, <2>1, <2>2 DEF Log!End, Log!Over, Log!Ongoing, Ongoing
<1>8. t \in 0..MaxTime
  BY DEF Streak, TypeOK, ProberAssumption
<1> QED BY <1>4, <1>5, <1>6, <1>7, <1>8

LEMMA ApartEndOutage ==
    ASSUME ProberAssumption, ClosingsHold, IInv, Apart, EndOutage
    PROVE  Apart' /\ \E t \in 0..MaxTime : Log!End(t)
<1> USE DEF IInv, Apart
<1>1. Reached /\ open \in 1..Len(outages) /\ cuts' = cuts
  BY DEF EndOutage, TypeOK
<1>2. now' = now /\ failures' = 0 /\ now \in Nat
  BY <1>1, ReachedFacts DEF TypeOK
<1>3. Close(open, now)
  BY DEF EndOutage, Refused, ClosingsHold
<1>4. outages[open].end = Ongoing /\ outages[open].start <= now
  BY <1>1 DEF Row, Outage, RowsInOrder, TypeOK
<1> QED BY <1>1, <1>2, <1>3, <1>4, ApartClose

LEMMA ApartResume ==
    ASSUME ProberAssumption, ClosingsHold, IInv, Apart, Resume
    PROVE  Apart' /\ (UNCHANGED outages \/ \E t \in 0..MaxTime : Log!End(t))
<1> USE DEF IInv, Apart
<1>1. /\ failures' = 0 /\ open' = open /\ now' = now /\ cuts' = cuts
  BY DEF Resume, Streak, worldVars, streakVars
<1>2. CASE OpenRows = {} /\ UNCHANGED outages
  <2>1. \A i \in 1..Len(outages) : outages[i].end # Ongoing
    BY <1>2 DEF OpenRows
  <2>2. RowsInOrder'
    BY <1>1, <1>2, <2>1 DEF RowsInOrder
  <2> QED BY <1>1, <1>2, <2>2 DEF StreakIsLast, CutsAreApart
<1>3. ASSUME NEW i \in OpenRows, Close(i, ResumeEnd(outages[i].start))
      PROVE  Apart' /\ \E t \in 0..MaxTime : Log!End(t)
  <2>1. i \in 1..Len(outages) /\ outages[i].end = Ongoing
    BY DEF OpenRows
  <2>2. outages[i].start \in Nat /\ outages[i].start <= now
    BY <2>1, RowType DEF RowsInOrder
  <2>3. /\ ResumeEnd(outages[i].start) \in Nat /\ ResumeEnd(outages[i].start) <= now
        /\ outages[i].start <= ResumeEnd(outages[i].start)
    BY <2>2, ResumeEndFacts
  <2> QED BY <1>1, <1>3, <2>1, <2>2, <2>3, ApartClose
<1>4. ~Refused("resume")
  BY DEF ClosingsHold, Refused
<1> QED BY <1>2, <1>3, <1>4 DEF Resume

LEMMA NextApart ==
    ASSUME ProberAssumption, ClosingsHold, IInv, Apart, [Next]_vars
    PROVE  Apart' /\ [Log!Next]_outages
<1>1. CASE UNCHANGED vars
  BY <1>1 DEF vars, worldVars, memoryVars, streakVars, tableVars, Apart, RowsInOrder,
              StreakIsLast, CutsAreApart
<1>2. CASE Next
  BY <1>2, ApartQuiet, ApartForget, ApartStayUp, ApartEndMicroCut, ApartMiss,
     ApartBeginOutage, ApartEndOutage, ApartResume DEF Next, Log!Next
<1> QED BY <1>1, <1>2

LEMMA InitApart == ProberAssumption /\ Init => Apart
BY DEF Init, Apart, RowsInOrder, StreakIsLast, CutsAreApart

(* As long as no closing of a row is refused, the rows of the outages      *)
(* follow one another, only the last may be open, and the streak under way *)
(* comes after all of them (openOutage, close, resume).                    *)
THEOREM ApartInvariance == ClosingsHold => (Spec => []Apart)
<1> SUFFICES ASSUME ClosingsHold PROVE Spec => []Apart
  OBVIOUS
<1>1. Init => Apart
  BY ProberAssumption, InitApart
<1>2. IInv /\ Apart /\ [Next]_vars => Apart'
  BY ProberAssumption, NextApart
<1> QED BY <1>1, <1>2, Invariance, PTL DEF Spec

(* As long as no closing of a row is refused, no time is counted in two    *)
(* micro-cuts, nor in a micro-cut and an outage (microCut, openOutage).    *)
THEOREM CutsKeptApart == ClosingsHold => (Spec => []CutsAreApart)
<1> SUFFICES ASSUME ClosingsHold PROVE Spec => []CutsAreApart
  OBVIOUS
<1>1. Apart => CutsAreApart
  BY DEF Apart
<1>2. Spec => []Apart
  BY ApartInvariance
<1> QED BY <1>1, <1>2, PTL

(* As long as no closing of a row is refused, the table of outages is the  *)
(* log of OutageLog, whatever crashes, cancellations and refusals fall     *)
(* between its statements (openOutage, close, resume).                     *)
THEOREM Implements == ClosingsHold => (Spec => RefinesLog)
<1> SUFFICES ASSUME ClosingsHold PROVE Spec => RefinesLog
  OBVIOUS
<1>1. Init => Log!Init
  BY DEF Init, Log!Init
<1>2. IInv /\ Apart /\ [Next]_vars => [Log!Next]_outages
  BY ProberAssumption, NextApart
<1>3. Spec => []Apart
  BY ApartInvariance
<1> QED BY <1>1, <1>2, <1>3, Invariance, PTL DEF Spec, RefinesLog, Log!Spec
==========================================================================
