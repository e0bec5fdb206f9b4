-------------------------- MODULE Notifier_proofs --------------------------
(***************************************************************************)
(* Theorems about what is written in the journal and who reads it.         *)
(* Notifier, for any filter, page length, age and number of failures: what *)
(* the cursor leaves behind was sent, and what is sent is new.  Readings,  *)
(* for any line: the restarts and the channels the journal tells of are    *)
(* real, and told once; the errors the pages count are those the channels  *)
(* had, and no page counts more than the next; an episode of errors or of  *)
(* a measure out of range is dated and totalled as it was.                 *)
(***************************************************************************)
EXTENDS Notifier, Readings, FiniteSetTheorems, SequenceTheorems, Sums, TLAPS

(* The journal is finite and numbers its events. *)
Numbered == IsFiniteSet(journal) /\ \A d, e \in journal : d.n = e.n => d = e

Polling == pc \in {"reading", "sending", "saving"}

(* A poll goes on from the cursor, which no other poll moves; what is to   *)
(* be sent is sent before the cursor is saved.                             *)
Poll ==
    /\ Polling => cursor # None /\ last = cursor /\ cursor <= next
    /\ ~Polling => batch = {}
    /\ pc = "saving" => batch \subseteq sent
    /\ pc = "arming" => cursor = None
    /\ cursor = None => sent = {}

(* The events behind what the poll under way has read are old, were there  *)
(* before the notifications, are sent or about to be, or came too late.    *)
Accounted(e) == e.n \in sent \cup past \cup batch \/ e.passed \/ ~Recent(e)
ReadIsAccounted ==
    pc # "idle" => \A e \in journal : Wanted(e) /\ e.id <= next => Accounted(e)

(* The past is behind the cursor, and no part of what is sent. *)
PastIsBehind ==
    /\ \A e \in journal : e.n \in past =>
          /\ cursor # None => e.id <= cursor
          /\ pc = "arming" => e.id <= next
    /\ past \cap (sent \cup batch) = {}

(* So is what was sent, unless a save of the cursor failed. *)
SentIsBehind ==
    /\ \A e \in journal : e.n \in batch => e.id <= next
    /\ \A e \in journal : e.n \in sent \cup batch => Wanted(e)
    /\ ~cutShort =>
          /\ ~resent
          /\ pc # "saving" => batch \cap sent = {}
          /\ \A e \in journal : e.n \in sent => e.id <= cursor \/ e.n \in batch

IInv ==
    /\ TypeOK /\ Numbered /\ Poll
    /\ NothingSkipped /\ ReadIsAccounted /\ PastIsBehind /\ SentIsBehind

-----------------------------------------------------------------------------
(* One page. *)

(* The page holds every event between what was read before it and its end, *)
(* so that moving to its end leaves none behind.                           *)
LEMMA PageIsPrefix ==
    ASSUME TypeOK, Numbered, NEW to \in PageEnd
    PROVE  /\ to \in Nat /\ next <= to
           /\ \A e \in Page : e \in journal /\ e.id > next /\ e.id <= to
           /\ \A e \in journal : e.id > next /\ e.id <= to => e \in Page
<1>0. next \in Nat /\ \A e \in journal : e.id \in Nat
  BY DEF TypeOK, EntryType
<1>1. Page \subseteq After(next) /\ After(next) \subseteq journal
  BY DEF Page, After
<1>2. CASE Page = {}
  <2>1. to = next
    BY <1>2 DEF PageEnd, Ends
  <2> QED BY <1>0, <1>2, <2>1
<1>3. CASE Page # {}
  <2>1. PICK d \in Page : to = d.id /\ \A x \in Page : x.id <= d.id
    BY <1>3 DEF PageEnd, Ends
  <2>2. d \in journal /\ d.id > next
    BY <1>1 DEF After
  <2>3. ASSUME NEW e \in journal, e.id > next, e.id <= to
        PROVE  e \in Page
    <3> DEFINE Upto(x) == {y \in After(next) : y.id <= x.id}
    <3>1. Upto(e) \subseteq Upto(d)
      BY <1>0, <1>1, <2>1, <2>2, <2>3
    <3>2. IsFiniteSet(After(next))
      BY <1>1, FS_Subset DEF Numbered
    <3>3. IsFiniteSet(Upto(d))
      BY <3>2, FS_Subset
    <3>4. /\ Cardinality(Upto(e)) \in Nat /\ Cardinality(Upto(d)) \in Nat
          /\ Cardinality(Upto(e)) <= Cardinality(Upto(d))
      BY <3>1, <3>3, FS_Subset, FS_CardinalityType
    <3>5. Cardinality(Upto(d)) <= PageLimit
      BY DEF Page
    <3>6. Cardinality(Upto(e)) <= PageLimit
      BY <3>4, <3>5, NotifierAssumption
    <3>7. e \in After(next)
      BY <2>3 DEF After
    <3> QED BY <3>6, <3>7 DEF Page
  <2> QED BY <1>0, <1>1, <2>1, <2>2, <2>3 DEF After
<1> QED BY <1>2, <1>3

-----------------------------------------------------------------------------
(* One action at a time. *)

(* A poll given up: what it read and did not send is read again. *)
LEMMA GiveUp ==
    ASSUME IInv, Rest, UNCHANGED <<now, journal, cursor, written, past, sent, resent>>,
           faults' \in Nat, cutShort' \in BOOLEAN, cutShort => cutShort',
           pc = "saving" /\ batch # {} => cutShort'
    PROVE  IInv'
<1> USE DEF IInv
<1>1. pc' = "idle" /\ last' = 0 /\ next' = 0 /\ batch' = {}
  BY DEF Rest
<1>2. TypeOK'
  BY <1>1 DEF TypeOK, EntryType
<1>3. Numbered' /\ Poll'
  BY <1>1 DEF Numbered, Poll, Polling
<1>4. NothingSkipped' /\ ReadIsAccounted'
  BY <1>1 DEF NothingSkipped, ReadIsAccounted, LeftBehind, Recent, Wanted
<1>5. PastIsBehind'
  BY <1>1 DEF PastIsBehind
<1>6. SentIsBehind'
  BY <1>1 DEF SentIsBehind, Wanted
<1> QED BY <1>2, <1>3, <1>4, <1>5, <1>6

LEMMA StepStartPoll == ASSUME IInv, StartPoll PROVE IInv'
<1> USE DEF IInv
<1>1. /\ pc = "idle" /\ pc' = "reading" /\ cursor # None
      /\ last' = cursor /\ next' = cursor /\ batch' = batch
      /\ UNCHANGED <<now, journal, cursor, faults, written, past, sent, cutShort, resent>>
  BY DEF StartPoll, historyVars
<1>2. cursor \in Nat /\ batch = {}
  BY <1>1 DEF TypeOK, Poll, Polling
<1>3. TypeOK'
  BY <1>1, <1>2 DEF TypeOK, EntryType
<1>4. Numbered' /\ Poll'
  BY <1>1, <1>2 DEF Numbered, Poll, Polling
<1>5. NothingSkipped' /\ ReadIsAccounted'
  BY <1>1, <1>2 DEF NothingSkipped, ReadIsAccounted, Accounted, LeftBehind, Recent, Wanted
<1>6. PastIsBehind' /\ SentIsBehind'
  BY <1>1, <1>2 DEF PastIsBehind, SentIsBehind, Wanted
<1> QED BY <1>3, <1>4, <1>5, <1>6

LEMMA StepArm == ASSUME IInv, Arm PROVE IInv'
<1> USE DEF IInv
<1>1. /\ pc = "idle" /\ pc' = "arming" /\ cursor = None
      /\ past' = {e.n : e \in journal} /\ last' = last /\ batch' = batch
      /\ UNCHANGED <<now, journal, cursor, faults, written, sent, cutShort, resent>>
  BY DEF Arm
<1>2. batch = {} /\ sent = {}
  BY <1>1 DEF Poll, Polling
<1>3. PICK id \in Ids \cup {0} : IsLastId(id) /\ next' = id
  BY DEF Arm
<1>4. next' \in Nat /\ \A e \in journal : e.id <= next'
  BY <1>3 DEF IsLastId, Ids, TypeOK, EntryType
<1>5. past' \subseteq 1..written
  BY <1>1 DEF TypeOK, EntryType
<1>6. TypeOK'
  BY <1>1, <1>4, <1>5 DEF TypeOK, EntryType
<1>7. Numbered' /\ Poll'
  BY <1>1, <1>2 DEF Numbered, Poll, Polling
<1>8. NothingSkipped' /\ ReadIsAccounted'
  BY <1>1 DEF NothingSkipped, ReadIsAccounted, Accounted, LeftBehind
<1>9. PastIsBehind' /\ SentIsBehind'
  BY <1>1, <1>2, <1>4 DEF PastIsBehind, SentIsBehind
<1> QED BY <1>6, <1>7, <1>8, <1>9

(* The poll goes on, to the next page or to what follows the last one. *)
LEMMA GoOn ==
    ASSUME IInv, pc = "reading", NEW to \in PageEnd,
           next' = to, last' = last, batch' = batch \cup {e.n : e \in Picked},
           pc' \in {"reading", "sending"} \/ (pc' = "saving" /\ batch' = {}),
           UNCHANGED <<now, journal, cursor, faults, written, past, sent, cutShort, resent>>
    PROVE  IInv'
<1> USE DEF IInv
<1>1. /\ to \in Nat /\ next <= to
      /\ \A e \in Page : e \in journal /\ e.id > next /\ e.id <= to
      /\ \A e \in journal : e.id > next /\ e.id <= to => e \in Page
  BY PageIsPrefix
<1>2. \A e \in Picked : e \in Page /\ Wanted(e) /\ Recent(e)
  BY DEF Picked
<1>3. /\ cursor \in Nat /\ cursor # None /\ last = cursor /\ next \in Nat /\ cursor <= next
      /\ \A e \in journal : e.id \in Nat
  BY DEF Poll, Polling, TypeOK, EntryType, None
<1>4. \A e \in journal : e.n \in batch' => e.n \in batch \/ e \in Picked
  BY <1>1, <1>2 DEF Numbered
<1>5. TypeOK'
  <2>1. batch' \subseteq 1..written
    <3>1. batch \subseteq 1..written /\ \A e \in journal : e.n \in 1..written
      BY DEF TypeOK, EntryType
    <3>2. \A e \in Picked : e \in journal
      BY <1>1, <1>2
    <3> QED BY <3>1, <3>2
  <2> QED BY <1>1, <2>1 DEF TypeOK, EntryType
<1>6. Numbered' /\ Poll'
  BY <1>1, <1>3 DEF Numbered, Poll, Polling
<1>7. NothingSkipped'
  BY DEF NothingSkipped, LeftBehind, Wanted, Recent
<1>8. ReadIsAccounted'
  <2>1. ASSUME NEW e \in journal, Wanted(e), e.id <= to
        PROVE  e.n \in sent \cup past \cup batch' \/ e.passed \/ ~Recent(e)
    <3>1. CASE e.id <= next
      BY <2>1, <3>1 DEF ReadIsAccounted, Accounted
    <3>2. CASE e.id > next
      <4>1. e \in Page
        BY <1>1, <2>1, <3>2
      <4> QED BY <2>1, <4>1 DEF Picked
    <3> QED BY <1>3, <3>1, <3>2
  <2> QED BY <2>1 DEF ReadIsAccounted, Accounted, Wanted, Recent
<1>9. PastIsBehind'
  <2>1. \A e \in Picked : e.n \notin past
    BY <1>1, <1>2, <1>3 DEF PastIsBehind
  <2> QED BY <2>1 DEF PastIsBehind
<1>10. SentIsBehind'
  <2>1. \A e \in journal : e.n \in batch' => e.id <= to
    BY <1>1, <1>2, <1>3, <1>4 DEF SentIsBehind
  <2>2. \A e \in journal : e.n \in sent \cup batch' => Wanted(e)
    BY <1>2, <1>4 DEF SentIsBehind
  <2>3. ASSUME ~cutShort PROVE batch' \cap sent = {} /\ batch \subseteq batch'
    <3>1. \A e \in journal : e.n \in sent => e.id <= next
      BY <1>3, <2>3 DEF SentIsBehind
    <3>2. \A e \in Picked : e.n \notin sent
      BY <1>1, <1>2, <1>3, <3>1
    <3> QED BY <2>3, <3>2 DEF SentIsBehind
  <2> QED BY <2>1, <2>2, <2>3 DEF SentIsBehind, Wanted
<1> QED BY <1>5, <1>6, <1>7, <1>8, <1>9, <1>10

LEMMA LastPage ==
    ASSUME NEW to, NEW what, AfterReading(to, what), to # last
    PROVE  /\ next' = to /\ last' = last /\ batch' = what
           /\ pc' \in {"reading", "sending"} \/ (pc' = "saving" /\ batch' = {})
<1>1. /\ pc' = (IF what = {} THEN "saving" ELSE "sending")
      /\ next' = to /\ batch' = what /\ last' = last
  BY DEF AfterReading
<1>2. CASE what = {}
  BY <1>1, <1>2
<1>3. CASE what # {}
  BY <1>1, <1>3
<1> QED BY <1>2, <1>3

LEMMA StepReadPage == ASSUME IInv, ReadPage PROVE IInv'
<1> USE DEF IInv
<1>1. /\ pc = "reading"
      /\ UNCHANGED <<now, journal, cursor, faults, written, past, sent, cutShort, resent>>
  BY DEF ReadPage, historyVars
<1>2. PICK to \in PageEnd :
         IF IsLastPage
         THEN AfterReading(to, batch \cup {e.n : e \in Picked})
         ELSE /\ next' = to /\ batch' = batch \cup {e.n : e \in Picked}
              /\ UNCHANGED <<pc, last>>
  BY DEF ReadPage
<1>3. CASE IsLastPage /\ to = last
  <2>1. Rest
    BY <1>2, <1>3 DEF AfterReading
  <2>2. faults' \in Nat /\ cutShort' \in BOOLEAN
    BY <1>1 DEF TypeOK
  <2> QED BY <1>1, <2>1, <2>2, GiveUp
<1>4. CASE ~(IsLastPage /\ to = last)
  <2>1. /\ next' = to /\ last' = last /\ batch' = batch \cup {e.n : e \in Picked}
        /\ pc' \in {"reading", "sending"} \/ (pc' = "saving" /\ batch' = {})
    <3>1. CASE IsLastPage
      <4>1. AfterReading(to, batch \cup {e.n : e \in Picked}) /\ to # last
        BY <1>2, <1>4, <3>1
      <4> QED BY <4>1, LastPage
    <3>2. CASE ~IsLastPage
      BY <1>1, <1>2, <3>2
    <3> QED BY <3>1, <3>2
  <2> QED BY <1>1, <2>1, GoOn
<1> QED BY <1>3, <1>4

(* The service received the message of this poll. *)
LEMMA StepSend == ASSUME IInv, Send PROVE IInv'
<1> USE DEF IInv
<1>1. /\ pc = "sending" /\ pc' = "saving"
      /\ sent' = sent \cup batch /\ resent' = (resent \/ batch \cap sent # {})
      /\ UNCHANGED <<now, journal, cursor, last, next, batch, faults, written, past, cutShort>>
  BY DEF Send, Received
<1>2. resent' \in BOOLEAN
  BY <1>1 DEF TypeOK
<1>3. TypeOK'
  BY <1>1, <1>2 DEF TypeOK, EntryType
<1>4. Numbered' /\ Poll'
  BY <1>1 DEF Numbered, Poll, Polling
<1>5. NothingSkipped' /\ ReadIsAccounted'
  BY <1>1 DEF NothingSkipped, ReadIsAccounted, Accounted, LeftBehind, Recent, Wanted
<1>6. PastIsBehind'
  BY <1>1 DEF PastIsBehind
<1>7. ~cutShort' => ~resent'
  BY <1>1 DEF SentIsBehind
<1>8. SentIsBehind'
  BY <1>1, <1>7 DEF SentIsBehind, Wanted
<1> QED BY <1>3, <1>4, <1>5, <1>6, <1>8

(* The service may have received the message without the program knowing. *)
LEMMA StepSendFails == ASSUME NotifierAssumption, IInv, SendFails PROVE IInv'
<1> USE DEF IInv
<1>1. /\ pc = "sending" /\ Rest /\ faults' = faults + 1
      /\ UNCHANGED <<now, journal, cursor, written, past>>
  BY DEF SendFails, Fault
<1>2. faults' \in Nat
  BY <1>1 DEF TypeOK
<1>3. CASE UNCHANGED <<sent, resent, cutShort>>
  <2>1. cutShort' \in BOOLEAN
    BY <1>3 DEF TypeOK
  <2> QED BY <1>1, <1>2, <1>3, <2>1, GiveUp
<1>4. CASE Received /\ cutShort' = TRUE
  <2>1. pc' = "idle" /\ last' = 0 /\ next' = 0 /\ batch' = {}
    BY <1>1 DEF Rest
  <2>2. sent' = sent \cup batch /\ cutShort'
    BY <1>4 DEF Received
  <2>3. resent' \in BOOLEAN /\ cutShort' \in BOOLEAN
    BY <1>4 DEF Received, TypeOK
  <2>4. TypeOK'
    BY <1>1, <1>2, <2>1, <2>2, <2>3 DEF TypeOK, EntryType
  <2>5. Numbered' /\ Poll'
    BY <1>1, <2>1, <2>2 DEF Numbered, Poll, Polling
  <2>6. NothingSkipped' /\ ReadIsAccounted'
    BY <1>1, <2>1, <2>2 DEF NothingSkipped, ReadIsAccounted, LeftBehind, Recent, Wanted
  <2>7. PastIsBehind' /\ SentIsBehind'
    BY <1>1, <2>1, <2>2 DEF PastIsBehind, SentIsBehind, Wanted
  <2> QED BY <2>4, <2>5, <2>6, <2>7
<1> QED BY <1>3, <1>4 DEF SendFails

(* Everything read is accounted for when the cursor moves past it. *)
LEMMA StepSaveCursor == ASSUME IInv, SaveCursor PROVE IInv'
<1> USE DEF IInv
<1>1. /\ pc \in {"saving", "arming"} /\ cursor' = next
      /\ UNCHANGED <<now, journal, faults, written, past, sent, cutShort, resent>>
  BY DEF SaveCursor, Moved, historyVars
<1>2. pc' = "idle" /\ last' = 0 /\ next' = 0 /\ batch' = {}
  BY DEF SaveCursor, Rest
<1>3. /\ next \in Nat /\ cursor \in Nat \cup {None} /\ (cursor # None => cursor <= next)
      /\ \A e \in journal : e.id \in Nat
  BY <1>1 DEF TypeOK, Poll, Polling, EntryType
<1>4. batch \subseteq sent /\ (pc = "arming" <=> cursor = None)
  BY <1>1 DEF Poll, Polling
<1>5. TypeOK'
  BY <1>1, <1>2 DEF TypeOK, EntryType
<1>6. Numbered' /\ Poll'
  BY <1>1, <1>2, <1>3 DEF Numbered, Poll, Polling, None
<1>7. NothingSkipped' /\ ReadIsAccounted'
  BY <1>1, <1>2, <1>4 DEF NothingSkipped, ReadIsAccounted, Accounted, LeftBehind, Recent,
                          Wanted
<1>8. PastIsBehind'
  <2>1. \A e \in journal : e.n \in past => e.id <= next
    BY <1>1, <1>3, <1>4 DEF PastIsBehind
  <2> QED BY <1>1, <1>2, <2>1 DEF PastIsBehind
<1>9. SentIsBehind'
  <2>1. \A e \in journal : ~cutShort /\ e.n \in sent => e.id <= next
    BY <1>1, <1>3, <1>4 DEF SentIsBehind, None, Poll
  <2> QED BY <1>1, <1>2, <2>1 DEF SentIsBehind, Wanted
<1> QED BY <1>5, <1>6, <1>7, <1>8, <1>9

LEMMA StepAbandon == ASSUME NotifierAssumption, IInv, Abandon PROVE IInv'
<1> USE DEF IInv
<1>1. /\ Rest /\ faults' = faults + 1
      /\ UNCHANGED <<now, journal, cursor, written, past, sent, resent>>
      /\ cutShort' = (cutShort \/ (pc = "saving" /\ batch # {}))
  BY DEF Abandon, Fault
<1>2. faults' \in Nat
  BY <1>1 DEF TypeOK
<1>3. cutShort' \in BOOLEAN
  BY <1>1 DEF TypeOK
<1> QED BY <1>1, <1>2, <1>3, GiveUp

(* A new event has a number of its own, and an identifier beyond all those *)
(* of the table: it may still be one the cursor has passed.                *)
LEMMA StepWrite == ASSUME IInv, Write PROVE IInv'
<1> USE DEF IInv
<1>1. PICK id \in 1..written', kind \in Kinds \cup {NoteKind}, lag \in 0..MaxLag :
         /\ IsNewId(id)
         /\ journal' = journal \cup {Entry(written', id, kind, now - lag, Passed(id))}
  BY DEF Write
<1>2. /\ written' = written + 1
      /\ UNCHANGED <<now, cursor, pc, last, next, batch, faults, past, sent, cutShort, resent>>
  BY DEF Write, pollVars, historyVars
<1> DEFINE new == Entry(written', id, kind, now - lag, Passed(id))
<1>3. /\ new.n = written + 1 /\ new.id = id /\ new.ts = now - lag /\ new.passed = Passed(id)
      /\ new.kind = kind /\ new.passed \in BOOLEAN
  BY <1>2 DEF Entry, Passed
<1>4. new \in [n : 1..written', id : Nat, kind : Kinds \cup {NoteKind}, ts : Int,
               passed : BOOLEAN]
  <2>1. written' \in 1..written' /\ id \in Nat /\ now - lag \in Int /\ Passed(id) \in BOOLEAN
    BY <1>2 DEF TypeOK, Passed
  <2> QED BY <2>1 DEF Entry
<1> HIDE DEF new
<1>5. /\ new.n \notin batch \cup sent \cup past
      /\ \A e \in journal : e.n # new.n /\ e.id \in Nat /\ e.id < new.id
  <2>1. written \in Nat /\ batch \subseteq 1..written /\ sent \subseteq 1..written
        /\ past \subseteq 1..written
    BY DEF TypeOK
  <2>2. \A e \in journal : e.n \in 1..written /\ e.id \in Nat /\ e.id < id
    BY <1>1 DEF TypeOK, EntryType, IsNewId, Ids
  <2> QED BY <1>3, <2>1, <2>2
<1>6. journal' = journal \cup {new}
  BY <1>1 DEF new
<1>7. TypeOK'
  <2>1. journal' \subseteq EntryType'
    BY <1>2, <1>4, <1>6 DEF TypeOK, EntryType
  <2>2. \A d, e \in journal' : d.id = e.id => d = e
    BY <1>3, <1>5, <1>6 DEF TypeOK
  <2>3. /\ written' \in Nat /\ batch' \subseteq 1..written' /\ sent' \subseteq 1..written'
        /\ past' \subseteq 1..written'
    BY <1>2 DEF TypeOK
  <2> QED BY <1>2, <2>1, <2>2, <2>3 DEF TypeOK
<1>8. Numbered'
  BY <1>5, <1>6, FS_AddElement DEF Numbered
<1>9. Poll'
  BY <1>2 DEF Poll, Polling
<1>10. /\ id <= cursor => new.passed
       /\ pc # "idle" /\ id <= next => new.passed
  BY <1>3 DEF Passed
<1>11. NothingSkipped' /\ ReadIsAccounted'
  BY <1>2, <1>3, <1>6, <1>10 DEF NothingSkipped, ReadIsAccounted, Accounted, LeftBehind,
                                 Recent, Wanted
<1>12. PastIsBehind' /\ SentIsBehind'
  BY <1>2, <1>5, <1>6 DEF PastIsBehind, SentIsBehind, Wanted
<1> QED BY <1>7, <1>8, <1>9, <1>11, <1>12

LEMMA StepRemove == ASSUME IInv, DeleteNote \/ Purge PROVE IInv'
<1> USE DEF IInv
<1>1. /\ journal' \subseteq journal
      /\ UNCHANGED <<now, cursor, pc, last, next, batch, faults, written, past, sent,
                     cutShort, resent>>
  BY DEF DeleteNote, Purge, pollVars, historyVars
<1>2. TypeOK'
  BY <1>1 DEF TypeOK, EntryType
<1>3. Numbered' /\ Poll'
  BY <1>1, FS_Subset DEF Numbered, Poll, Polling
<1>4. NothingSkipped' /\ ReadIsAccounted'
  BY <1>1 DEF NothingSkipped, ReadIsAccounted, Accounted, LeftBehind, Recent, Wanted
<1>5. PastIsBehind' /\ SentIsBehind'
  BY <1>1 DEF PastIsBehind, SentIsBehind, Wanted
<1> QED BY <1>2, <1>3, <1>4, <1>5

LEMMA StepTick == ASSUME NotifierAssumption, IInv, Tick PROVE IInv'
<1> USE DEF IInv
<1>1. /\ now' = now + 1
      /\ UNCHANGED <<journal, cursor, pc, last, next, batch, faults, written, past, sent,
                     cutShort, resent>>
  BY DEF Tick, pollVars, historyVars
<1>2. TypeOK'
  BY <1>1 DEF TypeOK, EntryType
<1>3. Numbered' /\ Poll'
  BY <1>1 DEF Numbered, Poll, Polling
<1>4. \A e \in journal : Recent(e)' => Recent(e)
  BY <1>1, NotifierAssumption DEF Recent, TypeOK, EntryType, NotifierAssumption
<1>5. NothingSkipped' /\ ReadIsAccounted'
  BY <1>1, <1>4 DEF NothingSkipped, ReadIsAccounted, Accounted, LeftBehind, Wanted
<1>6. PastIsBehind' /\ SentIsBehind'
  BY <1>1 DEF PastIsBehind, SentIsBehind, Wanted
<1> QED BY <1>2, <1>3, <1>5, <1>6

-----------------------------------------------------------------------------
(* The theorems. *)

LEMMA InitIInv == Init => IInv
<1> SUFFICES ASSUME Init PROVE IInv
  OBVIOUS
<1>1. TypeOK
  BY DEF Init, TypeOK, EntryType
<1>2. Numbered
  BY FS_EmptySet DEF Init, Numbered
<1> QED BY <1>1, <1>2 DEF Init, IInv, Poll, Polling, NothingSkipped, ReadIsAccounted,
                          PastIsBehind, SentIsBehind

LEMMA NextIInv == NotifierAssumption /\ IInv /\ [Next]_vars => IInv'
<1> SUFFICES ASSUME NotifierAssumption, IInv, [Next]_vars PROVE IInv'
  OBVIOUS
<1>1. CASE UNCHANGED vars
  <2>1. TypeOK' /\ Numbered' /\ Poll'
    BY <1>1 DEF vars, pollVars, historyVars, IInv, TypeOK, EntryType, Numbered, Poll, Polling
  <2>2. NothingSkipped' /\ ReadIsAccounted' /\ PastIsBehind' /\ SentIsBehind'
    BY <1>1 DEF vars, pollVars, historyVars, IInv, NothingSkipped, ReadIsAccounted, Accounted,
                LeftBehind, Recent, Wanted, PastIsBehind, SentIsBehind
  <2> QED BY <2>1, <2>2 DEF IInv
<1>2. CASE Next
  BY <1>2, StepStartPoll, StepArm, StepReadPage, StepSend, StepSendFails, StepSaveCursor,
     StepAbandon, StepWrite, StepRemove, StepTick DEF Next
<1> QED BY <1>1, <1>2

(* The inductive invariant: what a poll has read is sent, about to be sent *)
(* or need not be (Notifier.poll).                                         *)
THEOREM Invariance == Spec => []IInv
BY NotifierAssumption, InitIInv, NextIInv, PTL DEF Spec

(* Every variable keeps its type and the identifier is a key of the table  *)
(* (store.SaveEvents).                                                     *)
THEOREM TypeCorrect == Spec => []TypeOK
<1>1. IInv => TypeOK
  BY DEF IInv
<1> QED BY <1>1, Invariance, PTL

(* Whatever fails, is interrupted, purged or removed between the pages,    *)
(* the message and the save, the cursor leaves no wanted and recent event  *)
(* behind, unless it came under an identifier already passed (poll).       *)
THEOREM NoneSkipped == Spec => []NothingSkipped
<1>1. IInv => NothingSkipped
  BY DEF IInv
<1> QED BY <1>1, Invariance, PTL

(* What the service receives was not in the journal when the notifications *)
(* were switched on, is wanted, and comes once unless a message was        *)
(* received whose cursor was not saved (poll).                             *)
THEOREM NewOnceSent == Spec => []OnlyTheNewIsSent
<1>1. IInv => OnlyTheNewIsSent
  BY DEF IInv, OnlyTheNewIsSent, NoDuplicate, PastIsNotSent, PastIsBehind, SentIsBehind
<1> QED BY <1>1, Invariance, PTL

(* The cursor never moves back, so that no event is read a second time     *)
(* once its message was received and the cursor saved (poll).              *)
THEOREM CursorAdvances == Spec => [][cursor <= cursor']_cursor
<1>1. IInv /\ [Next]_vars => [cursor <= cursor']_cursor
  <2> SUFFICES ASSUME IInv, [Next]_vars, cursor' # cursor PROVE cursor <= cursor'
    OBVIOUS
  <2>1. SaveCursor
    BY DEF Next, vars, StartPoll, Arm, ReadPage, Send, SendFails, Abandon, Write,
           DeleteNote, Purge, Tick
  <2>2. pc \in {"saving", "arming"} /\ cursor' = next
    BY <2>1 DEF SaveCursor, Moved
  <2>3. next \in Nat /\ (cursor = None \/ cursor <= next)
    BY <2>2 DEF IInv, TypeOK, Poll, Polling
  <2> QED BY <2>2, <2>3 DEF None
<1> QED BY <1>1, Invariance, PTL DEF Spec
-----------------------------------------------------------------------------
(***************************************************************************)
(* Readings: what the journal tells of the modem and of its channels, for  *)
(* any line, any thresholds and any number of readings.                    *)
(***************************************************************************)

(* A sequence, whatever its elements. *)
IsSeq(s) == s \in Seq(Elements(s))

Receiver == [locked : BOOLEAN, power : Powers \cup {Start[c].power : c \in Down},
             snr : Snrs \cup {Start[c].snr : c \in Down},
             mod : Orders \cup {Start[c].mod : c \in Down}, corr : Nat, lost : Nat]
Fact == [boots : Nat, resets : [Down -> Nat], corr : [Down -> Nat], lost : [Down -> Nat]]

LineTypeOK == modem \in [Down -> Receiver] /\ fact \in Fact
TablesTypeOK ==
    /\ IsSeq(readings) /\ IsSeq(facts) /\ IsSeq(events)
    /\ Len(facts) = Len(readings)
    /\ \A j \in 1..Len(readings) : /\ facts[j] \in Fact
                                   /\ \A c \in DOMAIN readings[j].down :
                                         readings[j].down[c].corr \in Nat /\ readings[j].down[c].lost \in Nat
                                   /\ DOMAIN readings[j].down \subseteq Down
    /\ pending \in BOOLEAN /\ untold \in BOOLEAN
    /\ pending => readings # << >>

(* Since reading n, at most one channel lost its counters alone, and the   *)
(* counters of a channel went up unless they were reset.                   *)
Since(n) ==
    /\ facts[n].boots <= fact.boots
    /\ \A c, d \in Down : facts[n].resets[c] # fact.resets[c] /\ facts[n].resets[d] # fact.resets[d] => c = d
    /\ \A c \in DOMAIN readings[n].down :
          facts[n].boots = fact.boots /\ facts[n].resets[c] = fact.resets[c] =>
             readings[n].down[c].corr <= modem[c].corr /\ readings[n].down[c].lost <= modem[c].lost
LineFollows == readings # << >> => Since(Len(readings))

(* Without a restart between two readings, at most one channel declines. *)
Steady(p, q, before, after) ==
    /\ p.boots <= q.boots
    /\ p.boots = q.boots =>
          \A c, d \in Common(before, after) :
              Declined(before.down[c], after.down[c]) /\ Declined(before.down[d], after.down[d]) => c = d
LatestIsSteady ==
    LET n == Len(readings)
    IN pending /\ n > 1 => Steady(facts[n - 1], facts[n], readings[n - 1], readings[n])

(* The events of a sequence that tell of a channel. *)
Tells(s, dir, c) ==
    {i \in 1..Len(s) : s[i].kind \in {"lost", "back"} /\ s[i].dir = dir /\ c \in s[i].of}

(* The journal follows the channels of the last reading it was compared to. *)
Compared == IF pending THEN Len(readings) - 1 ELSE Len(readings)
FollowsIn(s, dir, c, first, here) ==
    LET told == Tells(s, dir, c)
    IN /\ told = {} => (here <=> first)
       /\ \A i \in told : (\A j \in told : i <= j) => (first <=> s[i].kind = "lost")
       /\ \A i \in told : (\A j \in told : j <= i) => (here <=> s[i].kind = "back")
       /\ \A i, j \in told : i < j /\ (\A k \in told : ~(i < k /\ k < j)) => s[i].kind # s[j].kind
JournalFollows ==
    /\ Compared = 0 => events = << >>
    /\ Compared > 0 /\ ~untold =>
          \A dir \in {"down", "up"}, c \in Down \cup Up :
              FollowsIn(events, dir, c, c \in DOMAIN readings[1][dir], c \in DOMAIN readings[Compared][dir])

RInv ==
    /\ LineTypeOK /\ TablesTypeOK
    /\ LineFollows /\ LatestIsSteady /\ JournalFollows /\ RestartIsReal
-----------------------------------------------------------------------------
(* Sequences. *)

LEMMA IsSeqOf ==
    ASSUME NEW S, NEW s \in Seq(S)
    PROVE  IsSeq(s)
<1>1. DOMAIN s = 1..Len(s) /\ Len(s) \in Nat  OBVIOUS
<1>2. \A i \in 1..Len(s) : s[i] \in Elements(s)
  BY <1>1 DEF Elements
<1>3. s = [i \in 1..Len(s) |-> s[i]]  OBVIOUS
<1> QED  BY <1>1, <1>2, <1>3 DEF IsSeq

LEMMA SeqFacts ==
    ASSUME NEW s, IsSeq(s)
    PROVE  Len(s) \in Nat /\ DOMAIN s = 1..Len(s) /\ (s = << >> <=> Len(s) = 0)
BY DEF IsSeq

LEMMA ConcatFacts ==
    ASSUME NEW s, NEW t, IsSeq(s), IsSeq(t)
    PROVE  /\ IsSeq(s \o t) /\ Len(s \o t) = Len(s) + Len(t)
           /\ \A i \in 1..Len(s) : (s \o t)[i] = s[i]
           /\ \A i \in 1..Len(t) : (s \o t)[Len(s) + i] = t[i]
<1> DEFINE S == Elements(s) \cup Elements(t)
<1>1. s \in Seq(S) /\ t \in Seq(S)
  <2>1. s \in Seq(Elements(s)) /\ t \in Seq(Elements(t))  BY DEF IsSeq
  <2>2. Elements(s) \subseteq S /\ Elements(t) \subseteq S  OBVIOUS
  <2> HIDE DEF S
  <2> QED  BY <2>1, <2>2
<1> HIDE DEF S
<1>2. s \o t \in Seq(S)  BY <1>1
<1>3. IsSeq(s \o t)  BY <1>2, IsSeqOf
<1>4. /\ Len(s) \in Nat /\ Len(t) \in Nat /\ Len(s \o t) = Len(s) + Len(t)
      /\ \A i \in 1..Len(s) + Len(t) : (s \o t)[i] = IF i <= Len(s) THEN s[i] ELSE t[i - Len(s)]
  BY <1>1, ConcatProperties, LenProperties
<1>5. ASSUME NEW i \in 1..Len(t)
      PROVE  (s \o t)[Len(s) + i] = t[i]
  BY <1>4
<1>6. ASSUME NEW i \in 1..Len(s)
      PROVE  (s \o t)[i] = s[i]
  BY <1>4
<1> QED  BY <1>3, <1>4, <1>5, <1>6

LEMMA AppendFacts ==
    ASSUME NEW s, NEW e, IsSeq(s)
    PROVE  /\ IsSeq(Append(s, e)) /\ Len(Append(s, e)) = Len(s) + 1
           /\ \A i \in 1..Len(s) : Append(s, e)[i] = s[i]
           /\ Append(s, e)[Len(s) + 1] = e
<1> DEFINE S == Elements(s) \cup {e}
<1>1. s \in Seq(S) /\ e \in S
  <2>1. s \in Seq(Elements(s))  BY DEF IsSeq
  <2>2. Elements(s) \subseteq S /\ e \in S  OBVIOUS
  <2> HIDE DEF S
  <2> QED  BY <2>1, <2>2
<1> HIDE DEF S
<1>2. Append(s, e) \in Seq(S)  BY <1>1
<1>3. IsSeq(Append(s, e))  BY <1>2, IsSeqOf
<1>4. /\ Len(s) \in Nat /\ Len(Append(s, e)) = Len(s) + 1
      /\ \A i \in 1..Len(s) : Append(s, e)[i] = s[i]
      /\ Append(s, e)[Len(s) + 1] = e
  BY <1>1, AppendProperties, LenProperties
<1> QED  BY <1>3, <1>4

LEMMA IfFacts ==
    ASSUME NEW b, NEW e
    PROVE  IsSeq(If(b, e)) /\ \A i \in 1..Len(If(b, e)) : i = 1 /\ If(b, e)[i] = e /\ b
<1>1. << >> \in Seq({e}) /\ <<e>> \in Seq({e})  OBVIOUS
<1>2. IsSeq(<<>>) /\ IsSeq(<<e>>)  BY <1>1, IsSeqOf
<1>3. CASE b
  <2>1. If(b, e) = <<e>>  BY <1>3 DEF If
  <2>2. Len(<<e>>) = 1 /\ <<e>>[1] = e  OBVIOUS
  <2>3. Len(If(b, e)) = 1 /\ If(b, e)[1] = e /\ IsSeq(If(b, e))
    BY <1>2, <2>1, <2>2
  <2>4. \A i \in 1..1 : i = 1  OBVIOUS
  <2>5. \A i \in 1..Len(If(b, e)) : i = 1 /\ If(b, e)[i] = e
    BY <2>3, <2>4
  <2> QED  BY <1>3, <2>3, <2>5
<1>4. CASE ~b
  <2>1. If(b, e) = << >>  BY <1>4 DEF If
  <2> QED  BY <1>2, <1>4, <2>1
<1> QED  BY <1>3, <1>4
-----------------------------------------------------------------------------
(* What the events of a reading tell of a channel, and of a restart. *)

(* Nothing of a channel that did not move; one event, once, of one that did. *)
Moves(s, dir, c, was, is) ==
    /\ (was <=> is) => Tells(s, dir, c) = {}
    /\ ~(was <=> is) => \E i \in 1..Len(s) : /\ Tells(s, dir, c) = {i}
                                             /\ s[i].kind = IF is THEN "back" ELSE "lost"

(* The events of kind restart are of the latest reading, and only if so. *)
RestartsOnlyIf(s, so) == \A i \in 1..Len(s) : s[i].kind = "restart" => so /\ s[i].time = Latest.time
Other(s) == IsSeq(s) /\ \A i \in 1..Len(s) : s[i].kind \notin {"lost", "back", "restart"}

LEMMA OtherIf ==
    ASSUME NEW b, NEW e, e.kind \notin {"lost", "back", "restart"}
    PROVE  Other(If(b, e))
<1>1. IsSeq(If(b, e)) /\ \A i \in 1..Len(If(b, e)) : If(b, e)[i] = e  BY IfFacts
<1> QED  BY <1>1 DEF Other

LEMMA OtherConcat ==
    ASSUME NEW s, NEW t, Other(s), Other(t)
    PROVE  Other(s \o t)
<1>1. IsSeq(s) /\ IsSeq(t)  BY DEF Other
<1>2. Len(s) \in Nat /\ Len(t) \in Nat  BY <1>1, SeqFacts
<1>3. IsSeq(s \o t) /\ Len(s \o t) = Len(s) + Len(t)  BY <1>1, ConcatFacts
<1>4. ASSUME NEW i \in 1..Len(s \o t)
      PROVE  (s \o t)[i].kind \notin {"lost", "back", "restart"}
  <2>1. CASE i \in 1..Len(s)
    <3>1. (s \o t)[i] = s[i]  BY <1>1, <2>1, ConcatFacts
    <3> QED  BY <2>1, <3>1 DEF Other
  <2>2. CASE i \notin 1..Len(s)
    <3>1. i - Len(s) \in 1..Len(t) /\ i = Len(s) + (i - Len(s))  BY <1>2, <1>3, <2>2
    <3>2. (s \o t)[i] = t[i - Len(s)]  BY <1>1, <3>1, ConcatFacts
    <3> QED  BY <3>1, <3>2 DEF Other
  <2> QED  BY <2>1, <2>2
<1> QED  BY <1>3, <1>4 DEF Other

LEMMA TellsConcat ==
    ASSUME NEW s, NEW t, IsSeq(s), IsSeq(t), NEW dir, NEW c
    PROVE  Tells(s \o t, dir, c) = Tells(s, dir, c) \cup {Len(s) + i : i \in Tells(t, dir, c)}
<1>1. Len(s) \in Nat /\ Len(t) \in Nat  BY SeqFacts
<1>2. Len(s \o t) = Len(s) + Len(t)  BY ConcatFacts
<1> DEFINE Tell(e) == e.kind \in {"lost", "back"} /\ e.dir = dir /\ c \in e.of
<1>3. \A i \in 1..Len(s) : (s \o t)[i] = s[i]  BY ConcatFacts
<1>4. \A i \in 1..Len(t) : (s \o t)[Len(s) + i] = t[i]  BY ConcatFacts
<1>5. /\ Tells(s \o t, dir, c) = {i \in 1..Len(s \o t) : Tell((s \o t)[i])}
      /\ Tells(s, dir, c) = {i \in 1..Len(s) : Tell(s[i])}
      /\ Tells(t, dir, c) = {i \in 1..Len(t) : Tell(t[i])}
  BY DEF Tells
<1> HIDE DEF Tell
<1>6. ASSUME NEW i \in Tells(s \o t, dir, c)
      PROVE  i \in Tells(s, dir, c) \cup {Len(s) + j : j \in Tells(t, dir, c)}
  <2>1. i \in 1..(Len(s) + Len(t)) /\ Tell((s \o t)[i])  BY <1>2, <1>5
  <2>2. CASE i \in 1..Len(s)  BY <1>3, <1>5, <2>1, <2>2
  <2>3. CASE i \notin 1..Len(s)
    <3>1. i - Len(s) \in 1..Len(t) /\ i = Len(s) + (i - Len(s))  BY <1>1, <2>1, <2>3
    <3>2. i - Len(s) \in Tells(t, dir, c)  BY <1>4, <1>5, <2>1, <3>1
    <3> QED  BY <3>1, <3>2
  <2> QED  BY <2>2, <2>3
<1>7. ASSUME NEW i \in Tells(s, dir, c)
      PROVE  i \in Tells(s \o t, dir, c)
  <2>1. i \in 1..Len(s \o t)  BY <1>1, <1>2, <1>5
  <2> QED  BY <1>3, <1>5, <2>1
<1>8. ASSUME NEW i \in Tells(t, dir, c)
      PROVE  Len(s) + i \in Tells(s \o t, dir, c)
  <2>1. i \in 1..Len(t) /\ Tell(t[i])  BY <1>5
  <2>2. Len(s) + i \in 1..Len(s \o t)  BY <1>1, <1>2, <2>1
  <2> QED  BY <1>4, <1>5, <2>1, <2>2
<1> QED  BY <1>6, <1>7, <1>8

LEMMA MovesConcat ==
    ASSUME NEW s, NEW t, IsSeq(s), IsSeq(t), NEW dir, NEW c, NEW was, NEW is,
           \/ Moves(s, dir, c, was, is) /\ Tells(t, dir, c) = {}
           \/ Tells(s, dir, c) = {} /\ Moves(t, dir, c, was, is)
    PROVE  Moves(s \o t, dir, c, was, is)
<1>1. Tells(s \o t, dir, c) = Tells(s, dir, c) \cup {Len(s) + i : i \in Tells(t, dir, c)}
  BY TellsConcat
<1>2. /\ Len(s) \in Nat /\ Len(t) \in Nat /\ Len(s \o t) = Len(s) + Len(t)
      /\ \A i \in 1..Len(s) : (s \o t)[i] = s[i]
      /\ \A i \in 1..Len(t) : (s \o t)[Len(s) + i] = t[i]
  BY ConcatFacts, SeqFacts
<1>3. CASE was <=> is
  <2>1. Tells(s, dir, c) = {} /\ Tells(t, dir, c) = {}  BY <1>3 DEF Moves
  <2>2. Tells(s \o t, dir, c) = {}  BY <1>1, <2>1
  <2> QED  BY <1>3, <2>2 DEF Moves
<1>4. CASE ~(was <=> is)
  <2> DEFINE kind == IF is THEN "back" ELSE "lost"
  <2>1. CASE Moves(s, dir, c, was, is) /\ Tells(t, dir, c) = {}
    <3>1. PICK i \in 1..Len(s) : Tells(s, dir, c) = {i} /\ s[i].kind = kind
      BY <1>4, <2>1 DEF Moves
    <3>2. Tells(s \o t, dir, c) = {i}  BY <1>1, <2>1, <3>1
    <3>3. i \in 1..Len(s \o t) /\ (s \o t)[i].kind = kind  BY <1>2, <3>1
    <3> QED  BY <1>4, <3>2, <3>3 DEF Moves
  <2>2. CASE Tells(s, dir, c) = {} /\ Moves(t, dir, c, was, is)
    <3>1. PICK i \in 1..Len(t) : Tells(t, dir, c) = {i} /\ t[i].kind = kind
      BY <1>4, <2>2 DEF Moves
    <3>2. Tells(s \o t, dir, c) = {Len(s) + i}  BY <1>1, <2>2, <3>1
    <3>3. Len(s) + i \in 1..Len(s \o t)  BY <1>2
    <3>4. (s \o t)[Len(s) + i].kind = kind  BY <1>2, <3>1
    <3> QED  BY <1>4, <3>2, <3>3, <3>4 DEF Moves
  <2> QED  BY <2>1, <2>2
<1> QED  BY <1>3, <1>4

LEMMA RestartsConcat ==
    ASSUME NEW s, NEW t, IsSeq(s), IsSeq(t), NEW so,
           RestartsOnlyIf(s, so), RestartsOnlyIf(t, so)
    PROVE  RestartsOnlyIf(s \o t, so)
<1>1. Len(s) \in Nat /\ Len(t) \in Nat /\ Len(s \o t) = Len(s) + Len(t)
  BY ConcatFacts, SeqFacts
<1>2. SUFFICES ASSUME NEW i \in 1..Len(s \o t), (s \o t)[i].kind = "restart"
               PROVE  so /\ (s \o t)[i].time = Latest.time
  BY DEF RestartsOnlyIf
<1>3. CASE i \in 1..Len(s)
  <2>1. (s \o t)[i] = s[i]  BY <1>3, ConcatFacts
  <2> QED  BY <1>2, <1>3, <2>1 DEF RestartsOnlyIf
<1>4. CASE i \notin 1..Len(s)
  <2>1. i - Len(s) \in 1..Len(t) /\ i = Len(s) + (i - Len(s))  BY <1>1, <1>4
  <2>2. (s \o t)[i] = t[i - Len(s)]  BY <2>1, ConcatFacts
  <2> QED  BY <1>2, <2>1, <2>2 DEF RestartsOnlyIf
<1> QED  BY <1>3, <1>4

(* An event of another kind adds nothing. *)
LEMMA OtherTells ==
    ASSUME NEW t, Other(t)
    PROVE  /\ IsSeq(t)
           /\ \A so : RestartsOnlyIf(t, so)
           /\ \A dir, c : Tells(t, dir, c) = {}
BY DEF Other, RestartsOnlyIf, Tells
-----------------------------------------------------------------------------
(* The parts of Detect. *)

LEMMA OtherEvent ==
    ASSUME NEW b, NEW kind \in {"modulation", "power", "errors", "errorsEnd", "state"},
           NEW dir, NEW of, NEW level, NEW total
    PROVE  Other(If(b, Event(kind, dir, of, level, total)))
<1>1. Event(kind, dir, of, level, total).kind = kind  BY DEF Event
<1>2. kind \notin {"lost", "back", "restart"}  OBVIOUS
<1> QED  BY <1>1, <1>2, OtherIf

LEMMA OtherParts ==
    ASSUME NEW dir, NEW before, NEW after, NEW shift
    PROVE  Other(ModulationEvents(dir, before, after)) /\ Other(PowerEvents(dir, before, after, shift))
<1>1. Other(ModulationEvents(dir, before, after))
  <2> DEFINE moved(sign) == {c \in DOMAIN before \cap DOMAIN after :
                            before[c] # 0 /\ after[c] # 0 /\ sign * (after[c] - before[c]) > 0}
             lower == If(moved(-1) # {}, Event("modulation", dir, moved(-1), Warning, 0))
             higher == If(moved(1) # {}, Event("modulation", dir, moved(1), Good, 0))
  <2>1. ModulationEvents(dir, before, after) = lower \o higher  BY DEF ModulationEvents
  <2>2. Other(lower) /\ Other(higher)  BY OtherEvent
  <2> HIDE DEF lower, higher
  <2> QED  BY <2>1, <2>2, OtherConcat
<1>2. Other(PowerEvents(dir, before, after, shift))
  <2>1. PICK b : PowerEvents(dir, before, after, shift) = If(b, Event("power", dir, {}, Warning, 0))
    BY DEF PowerEvents
  <2> QED  BY <2>1, OtherEvent
<1> QED  BY <1>1, <1>2

LEMMA OtherSpikes ==
    ASSUME NEW prev, NEW cur
    PROVE  Other(SpikeEvents(prev, cur))
<1> DEFINE spike == UncorrectedDelta(prev, cur) >= Profile.errors.spike
           sum == LostSince((CHOOSE e \in OpenSpike : TRUE).time, cur)
<1>1. SpikeEvents(prev, cur) =
        IF ~Calibrated THEN << >>
        ELSE IF OpenSpike = {} THEN If(spike, Event("errors", "down", {}, Warning, 0))
        ELSE If(~spike, Event("errorsEnd", "down", {}, Good, sum))
  BY DEF SpikeEvents
<1> HIDE DEF spike, sum
<1>2. Other(If(spike, Event("errors", "down", {}, Warning, 0)))  BY OtherEvent
<1>3. Other(If(~spike, Event("errorsEnd", "down", {}, Good, sum)))  BY OtherEvent
<1>4. Other(<< >>)
  <2>1. << >> \in Seq({}) /\ Len(<< >>) = 0  OBVIOUS
  <2>2. IsSeq(<< >>)  BY <2>1, IsSeqOf
  <2> QED  BY <2>1, <2>2 DEF Other
<1> QED  BY <1>1, <1>2, <1>3, <1>4

LEMMA OtherState ==
    ASSUME NEW h
    PROVE  Other(StateEvents(h))
<1>1. PICK b, dir, of, level : StateEvents(h) = If(b, Event("state", dir, of, level, 0))
  BY DEF StateEvents
<1> QED  BY <1>1, OtherEvent

LEMMA RestartPart ==
    ASSUME NEW so
    PROVE  LET s == If(so, Event("restart", "down", {}, Warning, 0))
           IN IsSeq(s) /\ RestartsOnlyIf(s, so) /\ \A dir, c : Tells(s, dir, c) = {}
<1> DEFINE e == Event("restart", "down", {}, Warning, 0)
           s == If(so, e)
<1>1. e.kind = "restart" /\ e.time = Latest.time  BY DEF Event, Latest
<1> HIDE DEF e
<1>2. IsSeq(s) /\ \A i \in 1..Len(s) : s[i] = e /\ so  BY IfFacts
<1> HIDE DEF s
<1>3. RestartsOnlyIf(s, so)  BY <1>1, <1>2 DEF RestartsOnlyIf
<1>4. \A dir, c : Tells(s, dir, c) = {}  BY <1>1, <1>2 DEF Tells
<1> QED  BY <1>2, <1>3, <1>4 DEF s, e

(* The event of the channels lost, or of those found. *)
LEMMA ChannelPart ==
    ASSUME NEW kind \in {"lost", "back"}, NEW dir, NEW of, NEW level, NEW so
    PROVE  LET s == If(of # {}, Event(kind, dir, of, level, 0))
           IN /\ IsSeq(s) /\ RestartsOnlyIf(s, so)
              /\ \A c : c \in of => Len(s) = 1 /\ s[1].kind = kind /\ Tells(s, dir, c) = {1}
              /\ \A d, c : c \notin of \/ d # dir => Tells(s, d, c) = {}
<1> DEFINE e == Event(kind, dir, of, level, 0)
           s == If(of # {}, e)
<1>1. e.kind = kind /\ e.dir = dir /\ e.of = of  BY DEF Event
<1> HIDE DEF e
<1>2. IsSeq(s) /\ \A i \in 1..Len(s) : i = 1 /\ s[i] = e  BY IfFacts
<1>3. of # {} => s = <<e>>  BY DEF If
<1> HIDE DEF s
<1>4. of # {} => Len(s) = 1 /\ s[1] = e  BY <1>3
<1>5. RestartsOnlyIf(s, so)  BY <1>1, <1>2 DEF RestartsOnlyIf
<1>6. ASSUME NEW c \in of
      PROVE  Len(s) = 1 /\ s[1].kind = kind /\ Tells(s, dir, c) = {1}
  <2>1. Len(s) = 1 /\ s[1] = e  BY <1>4
  <2>2. 1 \in 1..1 /\ \A i \in 1..1 : i = 1  OBVIOUS
  <2>3. Tells(s, dir, c) = {1}  BY <1>1, <2>1, <2>2 DEF Tells
  <2> QED  BY <1>1, <2>1, <2>3
<1>7. ASSUME NEW d, NEW c, c \notin of \/ d # dir
      PROVE  Tells(s, d, c) = {}
  BY <1>1, <1>2, <1>7 DEF Tells
<1> QED  BY <1>2, <1>5, <1>6, <1>7 DEF s, e

LEMMA ChannelParts ==
    ASSUME NEW dir, NEW before, NEW after, NEW so
    PROVE  LET s == ChannelEvents(dir, before, after)
           IN /\ IsSeq(s) /\ RestartsOnlyIf(s, so)
              /\ \A c : Moves(s, dir, c, c \in before, c \in after)
              /\ \A d, c : d # dir => Tells(s, d, c) = {}
<1> DEFINE lost == If(before \ after # {}, Event("lost", dir, before \ after, Warning, 0))
           back == If(after \ before # {}, Event("back", dir, after \ before, Good, 0))
<1>1. ChannelEvents(dir, before, after) = lost \o back  BY DEF ChannelEvents
<1>2. /\ IsSeq(lost) /\ RestartsOnlyIf(lost, so)
      /\ \A c : c \in before \ after => Len(lost) = 1 /\ lost[1].kind = "lost" /\ Tells(lost, dir, c) = {1}
      /\ \A d, c : c \notin before \ after \/ d # dir => Tells(lost, d, c) = {}
  BY ChannelPart
<1>3. /\ IsSeq(back) /\ RestartsOnlyIf(back, so)
      /\ \A c : c \in after \ before => Len(back) = 1 /\ back[1].kind = "back" /\ Tells(back, dir, c) = {1}
      /\ \A d, c : c \notin after \ before \/ d # dir => Tells(back, d, c) = {}
  BY ChannelPart
<1> HIDE DEF lost, back
<1>4. IsSeq(lost \o back) /\ RestartsOnlyIf(lost \o back, so)
  BY <1>2, <1>3, ConcatFacts, RestartsConcat
<1>5. ASSUME NEW c
      PROVE  Moves(lost \o back, dir, c, c \in before, c \in after)
  <2>1. CASE c \in before \ after
    <3>1. Tells(back, dir, c) = {}  BY <1>3, <2>1
    <3>2. 1 \in 1..Len(lost) /\ lost[1].kind = "lost" /\ Tells(lost, dir, c) = {1}  BY <1>2, <2>1
    <3>3. Moves(lost, dir, c, c \in before, c \in after)  BY <2>1, <3>2 DEF Moves
    <3> QED  BY <1>2, <1>3, <3>1, <3>3, MovesConcat
  <2>2. CASE c \in after \ before
    <3>1. Tells(lost, dir, c) = {}  BY <1>2, <2>2
    <3>2. 1 \in 1..Len(back) /\ back[1].kind = "back" /\ Tells(back, dir, c) = {1}  BY <1>3, <2>2
    <3>3. Moves(back, dir, c, c \in before, c \in after)  BY <2>2, <3>2 DEF Moves
    <3> QED  BY <1>2, <1>3, <3>1, <3>3, MovesConcat
  <2>3. CASE c \in before <=> c \in after
    <3>1. Tells(lost, dir, c) = {} /\ Tells(back, dir, c) = {}  BY <1>2, <1>3, <2>3
    <3>2. Moves(back, dir, c, c \in before, c \in after)  BY <2>3, <3>1 DEF Moves
    <3> QED  BY <1>2, <1>3, <3>1, <3>2, MovesConcat
  <2> QED  BY <2>1, <2>2, <2>3
<1>6. ASSUME NEW d, NEW c, d # dir
      PROVE  Tells(lost \o back, d, c) = {}
  <2>1. Tells(lost, d, c) = {} /\ Tells(back, d, c) = {}  BY <1>2, <1>3, <1>6
  <2> QED  BY <1>2, <1>3, <2>1, TellsConcat
<1> QED  BY <1>1, <1>4, <1>5, <1>6

LEMMA Extended ==
    ASSUME NEW s, NEW t, NEW so, NEW prev, NEW cur,
           IsSeq(s), RestartsOnlyIf(s, so), Other(t),
           \A dir \in {"down", "up"} : \A c : Moves(s, dir, c, c \in DOMAIN prev[dir], c \in DOMAIN cur[dir])
    PROVE  /\ IsSeq(s \o t) /\ RestartsOnlyIf(s \o t, so)
           /\ \A dir \in {"down", "up"} : \A c :
                 Moves(s \o t, dir, c, c \in DOMAIN prev[dir], c \in DOMAIN cur[dir])
<1>1. IsSeq(t) /\ RestartsOnlyIf(t, so) /\ \A dir, c : Tells(t, dir, c) = {}  BY OtherTells
<1>2. IsSeq(s \o t) /\ RestartsOnlyIf(s \o t, so)  BY <1>1, ConcatFacts, RestartsConcat
<1>3. ASSUME NEW dir \in {"down", "up"}, NEW c
      PROVE  Moves(s \o t, dir, c, c \in DOMAIN prev[dir], c \in DOMAIN cur[dir])
  BY <1>1, MovesConcat
<1> QED  BY <1>2, <1>3

LEMMA ChangedFacts ==
    ASSUME NEW prev, NEW cur
    PROVE  LET s == Changed(prev, cur)
           IN /\ IsSeq(s) /\ RestartsOnlyIf(s, Restarted(prev, cur))
              /\ \A dir \in {"down", "up"} : \A c :
                    Moves(s, dir, c, c \in DOMAIN prev[dir], c \in DOMAIN cur[dir])
<1> DEFINE so == Restarted(prev, cur)
           r == If(so, Event("restart", "down", {}, Warning, 0))
           d == ChannelEvents("down", DOMAIN prev.down, DOMAIN cur.down)
           u == ChannelEvents("up", DOMAIN prev.up, DOMAIN cur.up)
           m == ModulationEvents("down", [c \in DOMAIN prev.down |-> prev.down[c].mod],
                                         [c \in DOMAIN cur.down |-> cur.down[c].mod])
           n == ModulationEvents("up", [c \in DOMAIN prev.up |-> Order(prev.up[c])],
                                       [c \in DOMAIN cur.up |-> Order(cur.up[c])])
           p == PowerEvents("down", prev.down, cur.down, Profile.shiftDown)
           q == PowerEvents("up", prev.up, cur.up, Profile.shiftUp)
           e == SpikeEvents(prev, cur)
           Fine(s) == /\ IsSeq(s) /\ RestartsOnlyIf(s, so)
                      /\ \A dir \in {"down", "up"} : \A c :
                            Moves(s, dir, c, c \in DOMAIN prev[dir], c \in DOMAIN cur[dir])
<1>1. Changed(prev, cur) = r \o d \o u \o m \o n \o p \o q \o e  BY DEF Changed
<1>2. IsSeq(r) /\ RestartsOnlyIf(r, so) /\ \A dir, c : Tells(r, dir, c) = {}
  BY RestartPart
<1>3. /\ IsSeq(d) /\ RestartsOnlyIf(d, so)
      /\ \A c : Moves(d, "down", c, c \in DOMAIN prev.down, c \in DOMAIN cur.down)
      /\ \A c : Tells(d, "up", c) = {}
  <2>1. "up" # "down"  OBVIOUS
  <2> QED  BY <2>1, ChannelParts
<1>4. /\ IsSeq(u) /\ RestartsOnlyIf(u, so)
      /\ \A c : Moves(u, "up", c, c \in DOMAIN prev.up, c \in DOMAIN cur.up)
      /\ \A c : Tells(u, "down", c) = {}
  <2>1. "up" # "down"  OBVIOUS
  <2> QED  BY <2>1, ChannelParts
<1>5. Other(m) /\ Other(n) /\ Other(p) /\ Other(q) /\ Other(e)  BY OtherParts, OtherSpikes
<1> HIDE DEF so, r, d, u, m, n, p, q, e
<1>6. /\ IsSeq(r \o d) /\ RestartsOnlyIf(r \o d, so)
      /\ \A c : Moves(r \o d, "down", c, c \in DOMAIN prev.down, c \in DOMAIN cur.down)
      /\ \A c : Tells(r \o d, "up", c) = {}
  <2>1. IsSeq(r \o d) /\ RestartsOnlyIf(r \o d, so)  BY <1>2, <1>3, ConcatFacts, RestartsConcat
  <2>2. ASSUME NEW c
        PROVE  /\ Moves(r \o d, "down", c, c \in DOMAIN prev.down, c \in DOMAIN cur.down)
               /\ Tells(r \o d, "up", c) = {}
    <3>1. Moves(r \o d, "down", c, c \in DOMAIN prev.down, c \in DOMAIN cur.down)
      BY <1>2, <1>3, MovesConcat
    <3>2. Tells(r, "up", c) = {} /\ Tells(d, "up", c) = {}  BY <1>2, <1>3
    <3>3. Tells(r \o d, "up", c) = {}  BY <1>2, <1>3, <3>2, TellsConcat
    <3> QED  BY <3>1, <3>3
  <2> QED  BY <2>1, <2>2
<1>7. Fine(r \o d \o u)
  <2> DEFINE s == r \o d
  <2>1. /\ IsSeq(s) /\ RestartsOnlyIf(s, so)
        /\ \A c : Moves(s, "down", c, c \in DOMAIN prev.down, c \in DOMAIN cur.down)
        /\ \A c : Tells(s, "up", c) = {}
    BY <1>6
  <2> HIDE DEF s
  <2>2. IsSeq(s \o u) /\ RestartsOnlyIf(s \o u, so)  BY <1>4, <2>1, ConcatFacts, RestartsConcat
  <2>3. ASSUME NEW c
        PROVE  /\ Moves(s \o u, "down", c, c \in DOMAIN prev.down, c \in DOMAIN cur.down)
               /\ Moves(s \o u, "up", c, c \in DOMAIN prev.up, c \in DOMAIN cur.up)
    <3>1. Moves(s \o u, "down", c, c \in DOMAIN prev.down, c \in DOMAIN cur.down)
      BY <1>4, <2>1, MovesConcat
    <3>2. Moves(s \o u, "up", c, c \in DOMAIN prev.up, c \in DOMAIN cur.up)
      BY <1>4, <2>1, MovesConcat
    <3> QED  BY <3>1, <3>2
  <2>4. Fine(s \o u)  BY <2>2, <2>3
  <2> QED  BY <2>4 DEF s
<1>8. \A s, t : Fine(s) /\ Other(t) => Fine(s \o t)
  BY Extended
<1> HIDE DEF Fine
<1>9. Fine(r \o d \o u \o m \o n \o p \o q \o e)
  BY <1>5, <1>7, <1>8
<1> QED  BY <1>1, <1>9 DEF Fine, so

LEMMA DetectFacts ==
    ASSUME TablesTypeOK
    PROVE  LET n == Len(readings)
           IN /\ IsSeq(Detect)
              /\ RestartsOnlyIf(Detect, n # 1 /\ Restarted(readings[n - 1], readings[n]))
              /\ n = 1 => \A dir, c : Tells(Detect, dir, c) = {}
              /\ n # 1 => \A dir \in {"down", "up"} : \A c :
                             Moves(Detect, dir, c, c \in DOMAIN readings[n - 1][dir], c \in DOMAIN readings[n][dir])
<1> DEFINE n == Len(readings)
           cur == readings[n]
           prev == readings[n - 1]
           state == StateEvents(Health(cur))
           so == n # 1 /\ Restarted(prev, cur)
<1>1. Other(state)  BY OtherState
<1>2. Detect = (IF n = 1 THEN << >> ELSE Changed(prev, cur)) \o state  BY DEF Detect
<1>3. IsSeq(state) /\ RestartsOnlyIf(state, so) /\ \A dir, c : Tells(state, dir, c) = {}
  BY <1>1, OtherTells
<1> HIDE DEF state
<1>4. CASE n = 1
  <2>1. Detect = << >> \o state  BY <1>2, <1>4
  <2>2. Other(<< >>)
    <3>1. << >> \in Seq({}) /\ Len(<< >>) = 0  OBVIOUS
    <3>2. IsSeq(<< >>)  BY <3>1, IsSeqOf
    <3> QED  BY <3>1, <3>2 DEF Other
  <2>3. Other(Detect)  BY <1>1, <2>1, <2>2, OtherConcat
  <2>4. IsSeq(Detect) /\ RestartsOnlyIf(Detect, so) /\ \A dir, c : Tells(Detect, dir, c) = {}
    BY <2>3, OtherTells
  <2> QED  BY <1>4, <2>4
<1>5. CASE n # 1
  <2> DEFINE s == Changed(prev, cur)
  <2>1. Detect = s \o state  BY <1>2, <1>5
  <2>2. /\ IsSeq(s) /\ RestartsOnlyIf(s, Restarted(prev, cur))
        /\ \A dir \in {"down", "up"} : \A c :
              Moves(s, dir, c, c \in DOMAIN prev[dir], c \in DOMAIN cur[dir])
    BY ChangedFacts
  <2>3. RestartsOnlyIf(s, so)  BY <1>5, <2>2 DEF RestartsOnlyIf
  <2> HIDE DEF s, so, prev, cur
  <2>4. /\ IsSeq(s \o state) /\ RestartsOnlyIf(s \o state, so)
        /\ \A dir \in {"down", "up"} : \A c :
              Moves(s \o state, dir, c, c \in DOMAIN prev[dir], c \in DOMAIN cur[dir])
    BY <1>1, <2>2, <2>3, Extended
  <2>5. /\ IsSeq(Detect) /\ RestartsOnlyIf(Detect, so)
        /\ \A dir \in {"down", "up"} : \A c :
              Moves(Detect, dir, c, c \in DOMAIN prev[dir], c \in DOMAIN cur[dir])
    BY <2>1, <2>4
  <2> QED  BY <1>5, <2>5 DEF so, prev, cur
<1> QED  BY <1>4, <1>5

(* What a journal tells of a channel goes on with what a reading adds. *)
LEMMA FollowsOn ==
    ASSUME NEW s, NEW t, IsSeq(s), IsSeq(t), NEW dir, NEW c,
           NEW first \in BOOLEAN, NEW was \in BOOLEAN, NEW is \in BOOLEAN,
           FollowsIn(s, dir, c, first, was), Moves(t, dir, c, was, is)
    PROVE  FollowsIn(s \o t, dir, c, first, is)
<1> DEFINE T == Tells(s, dir, c)
           all == Tells(s \o t, dir, c)
           kind(i) == (s \o t)[i].kind
<1>1. all = T \cup {Len(s) + i : i \in Tells(t, dir, c)}  BY TellsConcat
<1>2. /\ Len(s) \in Nat /\ Len(t) \in Nat
      /\ \A i \in 1..Len(s) : (s \o t)[i] = s[i]
      /\ \A i \in 1..Len(t) : (s \o t)[Len(s) + i] = t[i]
  BY ConcatFacts, SeqFacts
<1>3. T \subseteq 1..Len(s)  BY DEF Tells
<1>4. \A i \in T : kind(i) = s[i].kind  BY <1>2, <1>3
<1>5. /\ T = {} => (was <=> first)
      /\ \A i \in T : (\A j \in T : i <= j) => (first <=> kind(i) = "lost")
      /\ \A i \in T : (\A j \in T : j <= i) => (was <=> kind(i) = "back")
      /\ \A i, j \in T : i < j /\ (\A k \in T : ~(i < k /\ k < j)) => kind(i) # kind(j)
  <2>1. /\ T = {} => (was <=> first)
        /\ \A i \in T : (\A j \in T : i <= j) => (first <=> s[i].kind = "lost")
        /\ \A i \in T : (\A j \in T : j <= i) => (was <=> s[i].kind = "back")
        /\ \A i, j \in T : i < j /\ (\A k \in T : ~(i < k /\ k < j)) => s[i].kind # s[j].kind
    BY DEF FollowsIn
  <2> HIDE DEF T, kind
  <2> QED  BY <1>4, <2>1
<1>6. /\ (was <=> is) => all = T
      /\ ~(was <=> is) => \E k \in Nat : /\ k > Len(s) /\ all = T \cup {k}
                                         /\ kind(k) = IF is THEN "back" ELSE "lost"
  <2>1. CASE was <=> is
    <3>1. Tells(t, dir, c) = {}  BY <2>1 DEF Moves
    <3> QED  BY <1>1, <2>1, <3>1
  <2>2. CASE ~(was <=> is)
    <3>1. PICK i \in 1..Len(t) : Tells(t, dir, c) = {i} /\ t[i].kind = IF is THEN "back" ELSE "lost"
      BY <2>2 DEF Moves
    <3>2. all = T \cup {Len(s) + i}  BY <1>1, <3>1
    <3>3. kind(Len(s) + i) = IF is THEN "back" ELSE "lost"  BY <1>2, <3>1
    <3>4. Len(s) + i \in Nat /\ Len(s) + i > Len(s)  BY <1>2
    <3> QED  BY <2>2, <3>2, <3>3, <3>4
  <2> QED  BY <2>1, <2>2
<1>7. SUFFICES /\ all = {} => (is <=> first)
               /\ \A i \in all : (\A j \in all : i <= j) => (first <=> kind(i) = "lost")
               /\ \A i \in all : (\A j \in all : j <= i) => (is <=> kind(i) = "back")
               /\ \A i, j \in all : i < j /\ (\A k \in all : ~(i < k /\ k < j)) => kind(i) # kind(j)
  BY DEF FollowsIn
<1> HIDE DEF T, all, kind
<1>8. CASE was <=> is  BY <1>5, <1>6, <1>8
<1>9. CASE ~(was <=> is)
  <2>1. PICK k \in Nat : /\ k > Len(s) /\ all = T \cup {k}
                         /\ kind(k) = IF is THEN "back" ELSE "lost"
    BY <1>6, <1>9
  <2>2. \A i \in T : i \in Nat /\ i < k  BY <1>2, <1>3, <2>1
  <2>3. ASSUME NEW i \in all, \A j \in all : i <= j
        PROVE  first <=> kind(i) = "lost"
    <3>1. CASE T = {}
      <4>1. i = k  BY <2>1, <3>1
      <4> QED  BY <1>5, <1>9, <2>1, <3>1, <4>1
    <3>2. CASE T # {}
      <4>1. i \in T  BY <2>1, <2>2, <2>3, <3>2
      <4>2. \A j \in T : i <= j  BY <2>1, <2>3
      <4> QED  BY <1>5, <4>1, <4>2
    <3> QED  BY <3>1, <3>2
  <2>4. ASSUME NEW i \in all, \A j \in all : j <= i
        PROVE  is <=> kind(i) = "back"
    <3>1. k <= i  BY <2>1, <2>4
    <3>2. i \notin T
      <4>1. SUFFICES ASSUME i \in T PROVE FALSE  OBVIOUS
      <4> QED  BY <2>1, <2>2, <3>1, <4>1
    <3>3. i = k  BY <2>1, <3>2
    <3> QED  BY <2>1, <3>3
  <2>5. ASSUME NEW i \in all, NEW j \in all, i < j, \A l \in all : ~(i < l /\ l < j)
        PROVE  kind(i) # kind(j)
    <3>1. i \in T  BY <2>1, <2>2, <2>5
    <3>2. CASE j \in T
      <4>1. \A l \in T : ~(i < l /\ l < j)  BY <2>1, <2>5
      <4> QED  BY <1>5, <2>5, <3>1, <3>2, <4>1
    <3>3. CASE j = k
      <4>1. \A l \in T : l <= i  BY <2>1, <2>2, <2>5, <3>1, <3>3
      <4>2. was <=> kind(i) = "back"  BY <1>5, <3>1, <4>1
      <4> QED  BY <1>9, <2>1, <3>3, <4>2
    <3> QED  BY <2>1, <3>2, <3>3
  <2>6. all # {}  BY <2>1
  <2> QED  BY <2>3, <2>4, <2>5, <2>6
<1> QED  BY <1>8, <1>9
-----------------------------------------------------------------------------
(* A reading holds the counters of the modem, and no restart is told of a  *)
(* modem that did not restart.                                             *)

LEMMA SnapshotFacts ==
    ASSUME NEW at
    PROVE  LET s == Snapshot(Payload(TRUE), at)
           IN /\ s.time = at /\ DOMAIN s.down \subseteq Down
              /\ \A c \in DOMAIN s.down : s.down[c].corr = modem[c].corr /\ s.down[c].lost = modem[c].lost
<1> DEFINE p == Payload(TRUE)
           s == Snapshot(p, at)
           ds == {i \in DOMAIN p.ds : IsChannel(p.ds[i])}
           ex == {i \in DOMAIN p.ex : IsChannel(p.ex[i])}
<1>1. /\ p.ds = [i \in DOMAIN ScQam |-> Slot(ScQam[i])]
      /\ p.ex = [i \in DOMAIN Ofdm |-> Slot(Ofdm[i])]
      /\ p.err = [i \in 1..Len(ScQam) |-> Counters(ScQam[i])] \o [i \in 1..Len(Ofdm) |-> Counters(Ofdm[i])]
  BY DEF Payload
<1>2. /\ s.time = at
      /\ s.down = [c \in {p.ds[i].id : i \in ds} \cup {p.ex[i].id : i \in ex} |->
                    IF \E i \in ds : p.ds[i].id = c
                    THEN LET i == CHOOSE i \in ds : p.ds[i].id = c
                         IN Row(p.ds[i], p.ds[i])
                    ELSE LET i == CHOOSE i \in ex : p.ex[i].id = c
                         IN Row(p.ex[i], ErrorRow(p, i))]
  BY DEF Snapshot
<1>3. /\ DOMAIN ScQam = 1..Len(ScQam) /\ Len(ScQam) \in Nat
      /\ DOMAIN Ofdm = 1..Len(Ofdm) /\ Len(Ofdm) \in Nat
  BY ReadingsAssumption DEF ReadingsAssumption
<1>4. ASSUME NEW c
      PROVE  Slot(c).id = c /\ Slot(c).corr = modem[c].corr /\ Slot(c).lost = modem[c].lost
  BY DEF Slot
<1>5. ASSUME NEW slot, NEW e
      PROVE  Row(slot, e).corr = e.corr /\ Row(slot, e).lost = e.lost
  BY DEF Row
<1>6. ASSUME NEW i \in ds
      PROVE  /\ i \in DOMAIN ScQam /\ p.ds[i].id = ScQam[i]
             /\ p.ds[i].corr = modem[ScQam[i]].corr /\ p.ds[i].lost = modem[ScQam[i]].lost
  <2>1. i \in DOMAIN p.ds  OBVIOUS
  <2> HIDE DEF p
  <2>2. i \in DOMAIN ScQam /\ p.ds[i] = Slot(ScQam[i])  BY <1>1, <2>1
  <2> QED  BY <1>4, <2>2
<1>7. ASSUME NEW i \in ex
      PROVE  /\ i \in DOMAIN Ofdm /\ p.ex[i].id = Ofdm[i]
             /\ ErrorRow(p, i) = Counters(Ofdm[i])
  <2>1. i \in DOMAIN Ofdm /\ p.ex[i].id = Ofdm[i]  BY <1>1, <1>4
  <2> DEFINE a == [j \in 1..Len(ScQam) |-> Counters(ScQam[j])]
             b == [j \in 1..Len(Ofdm) |-> Counters(Ofdm[j])]
  <2>2. a \in Seq({Counters(ScQam[j]) : j \in 1..Len(ScQam)})  BY <1>3
  <2>3. b \in Seq({Counters(Ofdm[j]) : j \in 1..Len(Ofdm)})  BY <1>3
  <2>4. Len(a) = Len(ScQam) /\ Len(b) = Len(Ofdm)  BY <1>3
  <2>5. b[i] = Counters(Ofdm[i])  BY <1>3, <2>1
  <2>6. IsSeq(a) /\ IsSeq(b)  BY <2>2, <2>3, IsSeqOf
  <2>7. Len(p.ds) = Len(ScQam)
    <3> DEFINE d == [j \in 1..Len(ScQam) |-> Slot(ScQam[j])]
    <3>1. Len(d) = Len(ScQam)  BY <1>3
    <3>2. p.ds = d  BY <1>1, <1>3
    <3> HIDE DEF p, d
    <3> QED  BY <3>1, <3>2
  <2> HIDE DEF a, b
  <2>8. /\ Len(a \o b) = Len(ScQam) + Len(Ofdm) /\ IsSeq(a \o b)
        /\ (a \o b)[Len(ScQam) + i] = Counters(Ofdm[i])
    BY <1>3, <2>1, <2>4, <2>5, <2>6, ConcatFacts
  <2>9. p.err = a \o b  BY <1>1 DEF a, b
  <2> HIDE DEF p
  <2>10. Len(ScQam) + i \in 1..(Len(ScQam) + Len(Ofdm))  BY <1>3, <2>1
  <2>11. DOMAIN p.err = 1..(Len(ScQam) + Len(Ofdm))  BY <2>8, <2>9, SeqFacts
  <2>12. ErrorRow(p, i) = p.err[Len(p.ds) + i]  BY <2>7, <2>10, <2>11 DEF ErrorRow
  <2> QED  BY <2>1, <2>7, <2>8, <2>9, <2>12
<1>8. \A c : Counters(c).corr = modem[c].corr /\ Counters(c).lost = modem[c].lost  BY DEF Counters
<1> HIDE DEF p, s, ds, ex
<1>9. ASSUME NEW c \in DOMAIN s.down
      PROVE  c \in Down /\ s.down[c].corr = modem[c].corr /\ s.down[c].lost = modem[c].lost
  <2>1. CASE \E i \in ds : p.ds[i].id = c
    <3> DEFINE i == CHOOSE i \in ds : p.ds[i].id = c
    <3>1. i \in ds /\ p.ds[i].id = c  BY <2>1
    <3>2. s.down[c] = Row(p.ds[i], p.ds[i])  BY <1>2, <2>1
    <3> HIDE DEF i
    <3>3. i \in DOMAIN ScQam /\ c = ScQam[i] /\ p.ds[i].corr = modem[c].corr /\ p.ds[i].lost = modem[c].lost
      BY <1>6, <3>1
    <3>4. c \in Down  BY <3>3 DEF Down, Elements
    <3> QED  BY <1>5, <3>2, <3>3, <3>4
  <2>2. CASE ~\E i \in ds : p.ds[i].id = c
    <3> DEFINE i == CHOOSE i \in ex : p.ex[i].id = c
    <3>1. c \in {p.ex[j].id : j \in ex}  BY <1>2, <2>2
    <3>2. i \in ex /\ p.ex[i].id = c  BY <3>1
    <3>3. s.down[c] = Row(p.ex[i], ErrorRow(p, i))  BY <1>2, <2>2
    <3> HIDE DEF i
    <3>4. i \in DOMAIN Ofdm /\ c = Ofdm[i] /\ ErrorRow(p, i) = Counters(c)
      BY <1>7, <3>2
    <3>5. c \in Down  BY <3>4 DEF Down, Elements
    <3> QED  BY <1>5, <1>8, <3>3, <3>4, <3>5
  <2> QED  BY <2>1, <2>2
<1> QED  BY <1>2, <1>9 DEF p, s

LEMMA DownIsFinite == IsFiniteSet(Down)
<1>1. IsFiniteSet(DOMAIN ScQam) /\ IsFiniteSet(DOMAIN Ofdm)
  <2>1. Len(ScQam) \in Nat /\ Len(Ofdm) \in Nat /\ DOMAIN ScQam = 1..Len(ScQam) /\ DOMAIN Ofdm = 1..Len(Ofdm)
    BY ReadingsAssumption DEF ReadingsAssumption
  <2> QED  BY <2>1, FS_Interval
<1>2. ASSUME NEW s, IsFiniteSet(DOMAIN s)
      PROVE  IsFiniteSet(Elements(s))
  <2> DEFINE f == [i \in DOMAIN s |-> s[i]]
  <2>1. f \in Surjection(DOMAIN s, Elements(s))  BY DEF Elements, Surjection
  <2> QED  BY <1>2, <2>1, FS_Surjection
<1> QED  BY <1>1, <1>2, FS_Union DEF Down

LEMMA SteadyIsNoRestart ==
    ASSUME NEW before, NEW after, DOMAIN before.down \subseteq Down,
           \A c, d \in Common(before, after) :
              Declined(before.down[c], after.down[c]) /\ Declined(before.down[d], after.down[d]) => c = d
    PROVE  ~Restarted(before, after)
<1> DEFINE both == Common(before, after)
           declining == {c \in both : Declined(before.down[c], after.down[c])}
<1>1. IsFiniteSet(both)
  <2>1. both \subseteq Down  BY DEF Common
  <2> QED  BY <2>1, DownIsFinite, FS_Subset
<1>2. IsFiniteSet(declining) /\ Cardinality(both) \in Nat /\ Cardinality(declining) \in Nat
  <2>1. declining \subseteq both  OBVIOUS
  <2> QED  BY <1>1, <2>1, FS_Subset, FS_CardinalityType
<1>3. Cardinality(declining) <= 1
  <2>1. CASE declining = {}  BY <2>1, FS_EmptySet
  <2>2. CASE declining # {}
    <3>1. PICK c \in declining : TRUE  BY <2>2
    <3>2. declining = {c}  BY <3>1
    <3> QED  BY <3>2, FS_Singleton
  <2> QED  BY <2>1, <2>2
<1>4. SUFFICES ASSUME Restarted(before, after)
               PROVE  FALSE
  OBVIOUS
<1>5. Cardinality(both) >= MinOverlap /\ 10 * Cardinality(declining) >= 8 * Cardinality(both)
  BY <1>4 DEF Restarted
<1>6. MinOverlap \in Nat \ {0, 1}  BY ReadingsAssumption DEF ReadingsAssumption
<1> HIDE DEF both, declining
<1> QED  BY <1>2, <1>3, <1>5, <1>6
-----------------------------------------------------------------------------
(* The line. *)

(* A receiver whose counters move is still one. *)
LEMMA ReceiverFacts ==
    ASSUME LineTypeOK, NEW c \in Down
    PROVE  /\ modem[c] \in Receiver /\ modem[c].corr \in Nat /\ modem[c].lost \in Nat
           /\ \A m, n \in Nat : /\ [modem[c] EXCEPT !.corr = m, !.lost = n] \in Receiver
                                /\ [modem[c] EXCEPT !.corr = m, !.lost = n].corr = m
                                /\ [modem[c] EXCEPT !.corr = m, !.lost = n].lost = n
<1>1. modem[c] \in Receiver  BY DEF LineTypeOK
<1> QED  BY <1>1 DEF Receiver

LEMMA FactFacts ==
    ASSUME NEW f \in Fact
    PROVE  /\ f.boots \in Nat /\ f.resets \in [Down -> Nat]
           /\ f.corr \in [Down -> Nat] /\ f.lost \in [Down -> Nat]
BY DEF Fact

(* Counters that only grow, with the same restarts. *)
LEMMA GrowthFollows ==
    ASSUME RInv, UNCHANGED <<readings, facts>>,
           fact'.boots = fact.boots, fact'.resets = fact.resets,
           \A c \in Down : /\ modem[c].corr <= modem'[c].corr /\ modem'[c].corr \in Nat
                           /\ modem[c].lost <= modem'[c].lost /\ modem'[c].lost \in Nat
    PROVE  LineFollows'
<1>1. CASE readings = << >>  BY <1>1 DEF LineFollows
<1>2. CASE readings # << >>
  <2>0. PICK n : n = Len(readings)  OBVIOUS
  <2>1. Since(n)  BY <1>2, <2>0 DEF RInv, LineFollows
  <2>2. n \in 1..n /\ n = Len(readings)  BY <1>2, <2>0, SeqFacts DEF RInv, TablesTypeOK
  <2>3. /\ DOMAIN readings[n].down \subseteq Down
        /\ \A c \in DOMAIN readings[n].down :
              readings[n].down[c].corr \in Nat /\ readings[n].down[c].lost \in Nat
    BY <2>2 DEF RInv, TablesTypeOK
  <2>4. \A c \in Down : modem[c].corr \in Nat /\ modem[c].lost \in Nat
    BY ReceiverFacts DEF RInv
  <2>5. ASSUME NEW c \in DOMAIN readings[n].down,
               facts[n].boots = fact.boots, facts[n].resets[c] = fact.resets[c]
        PROVE  readings[n].down[c].corr <= modem'[c].corr /\ readings[n].down[c].lost <= modem'[c].lost
    <3>1. readings[n].down[c].corr <= modem[c].corr /\ readings[n].down[c].lost <= modem[c].lost
      BY <2>1, <2>5 DEF Since
    <3>2. c \in Down  BY <2>3
    <3> DEFINE a == readings[n].down[c].corr
               b == readings[n].down[c].lost
               x == modem[c].corr
               y == modem[c].lost
               z == modem'[c].corr
               w == modem'[c].lost
    <3>3. a \in Nat /\ b \in Nat /\ x \in Nat /\ y \in Nat /\ z \in Nat /\ w \in Nat
          /\ a <= x /\ b <= y /\ x <= z /\ y <= w
      BY <2>3, <2>4, <3>1, <3>2
    <3> HIDE DEF a, b, x, y, z, w
    <3>4. a <= z /\ b <= w  BY <3>3
    <3> QED  BY <3>4 DEF a, b, z, w
  <2>6. Since(n)'  BY <2>1, <2>5 DEF Since
  <2> QED  BY <2>0, <2>6 DEF LineFollows
<1> QED  BY <1>1, <1>2

LEMMA ErrorsStep ==
    ASSUME RInv, NEW c \in Down, NEW e \in ErrorSteps, Errors(c, e)
    PROVE  LineTypeOK' /\ LineFollows'
<1>1. e.corr \in Nat /\ e.lost \in Nat  BY ReadingsAssumption DEF ReadingsAssumption
<1>2. LineTypeOK  BY DEF RInv
<1> DEFINE a == modem[c].corr + e.corr
           b == modem[c].lost + e.lost
           r == [modem[c] EXCEPT !.corr = a, !.lost = b]
<1>3. modem' = [modem EXCEPT ![c] = r]
  BY DEF Errors
<1>4. a \in Nat /\ b \in Nat /\ modem[c].corr <= a /\ modem[c].lost <= b
  <2>1. modem[c].corr \in Nat /\ modem[c].lost \in Nat  BY <1>2, ReceiverFacts
  <2> QED  BY <1>1, <2>1
<1> HIDE DEF a, b
<1>5. r \in Receiver /\ r.corr = a /\ r.lost = b
  <2>1. modem[c] \in Receiver  BY <1>2, ReceiverFacts
  <2> QED  BY <1>4, <2>1 DEF Receiver
<1> HIDE DEF r
<1>6. modem' \in [Down -> Receiver]  BY <1>2, <1>3, <1>5 DEF LineTypeOK
<1>7. fact' \in Fact /\ fact'.boots = fact.boots /\ fact'.resets = fact.resets
  <2>1. fact \in Fact  BY <1>2 DEF LineTypeOK
  <2>2. fact' = [fact EXCEPT !.corr = [fact.corr EXCEPT ![c] = @ + e.corr],
                             !.lost = [fact.lost EXCEPT ![c] = @ + e.lost]]
    BY <2>1 DEF Errors, Fact
  <2>3. [fact.corr EXCEPT ![c] = @ + e.corr] \in [Down -> Nat] /\ [fact.lost EXCEPT ![c] = @ + e.lost] \in [Down -> Nat]
    BY <1>1, <2>1, FactFacts
  <2> QED  BY <2>1, <2>2, <2>3 DEF Fact
<1>8. \A d \in Down : /\ modem[d].corr <= modem'[d].corr /\ modem'[d].corr \in Nat
                      /\ modem[d].lost <= modem'[d].lost /\ modem'[d].lost \in Nat
  <2> TAKE d \in Down
  <2>1. CASE d = c
    <3>1. modem'[d] = r  BY <1>2, <1>3, <2>1 DEF LineTypeOK
    <3> QED  BY <1>4, <1>5, <2>1, <3>1
  <2>2. CASE d # c
    <3>1. modem'[d] = modem[d]  BY <1>2, <1>3, <2>2 DEF LineTypeOK
    <3>2. modem[d].corr \in Nat /\ modem[d].lost \in Nat  BY <1>2, ReceiverFacts
    <3> QED  BY <3>1, <3>2
  <2> QED  BY <2>1, <2>2
<1>9. UNCHANGED <<readings, facts>>  BY DEF Errors, Change, tableVars
<1> QED  BY <1>6, <1>7, <1>8, <1>9, GrowthFollows DEF LineTypeOK

LEMMA RebootStep ==
    ASSUME RInv, Reboot
    PROVE  LineTypeOK' /\ LineFollows'
<1>1. LineTypeOK /\ UNCHANGED <<readings, facts>>  BY DEF RInv, Reboot, Change, tableVars
<1>2. modem' \in [Down -> Receiver]
  <2>1. \A c \in Down : [modem[c] EXCEPT !.corr = 0, !.lost = 0] \in Receiver
    BY <1>1, ReceiverFacts
  <2> QED  BY <2>1 DEF Reboot
<1>3. fact \in Fact /\ fact.boots \in Nat  BY <1>1, FactFacts DEF LineTypeOK
<1>4. fact' \in Fact /\ fact'.boots = fact.boots + 1 /\ fact'.resets = fact.resets
  <2>1. fact' = [fact EXCEPT !.boots = fact.boots + 1]  BY DEF Reboot
  <2> QED  BY <1>3, <2>1 DEF Fact
<1>5. ASSUME readings # << >>
      PROVE  Since(Len(readings))'
  <2>0. PICK n : n = Len(readings)  OBVIOUS
  <2>1. Since(n)  BY <1>5, <2>0 DEF RInv, LineFollows
  <2>2. n \in 1..n /\ n = Len(readings)  BY <1>5, <2>0, SeqFacts DEF RInv, TablesTypeOK
  <2>3. facts[n].boots \in Nat  BY <2>2, FactFacts DEF RInv, TablesTypeOK
  <2>4. facts[n].boots <= fact'.boots /\ facts[n].boots # fact'.boots
    BY <1>3, <1>4, <2>1, <2>3 DEF Since
  <2>5. Since(n)'  BY <1>1, <1>4, <2>1, <2>4 DEF Since
  <2> QED  BY <1>1, <2>0, <2>5
<1> QED  BY <1>1, <1>2, <1>4, <1>5 DEF LineTypeOK, LineFollows

LEMMA ResetStep ==
    ASSUME RInv, NEW c \in Down, ResetAlone(c)
    PROVE  LineTypeOK' /\ LineFollows'
<1>1. LineTypeOK /\ UNCHANGED <<readings, facts>>  BY DEF RInv, ResetAlone, Change, tableVars
<1> DEFINE r == [modem[c] EXCEPT !.corr = 0, !.lost = 0]
<1>2. modem' = [modem EXCEPT ![c] = r]  BY DEF ResetAlone
<1>3. r \in Receiver  BY <1>1, ReceiverFacts
<1> HIDE DEF r
<1>4. modem' \in [Down -> Receiver] /\ \A d \in Down \ {c} : modem'[d] = modem[d]
  BY <1>1, <1>2, <1>3 DEF LineTypeOK
<1>5. fact \in Fact /\ fact.resets \in [Down -> Nat]  BY <1>1, FactFacts DEF LineTypeOK
<1>6. fact'.resets = [fact.resets EXCEPT ![c] = @ + 1] /\ fact'.boots = fact.boots /\ fact' \in Fact
  <2>1. fact' = [fact EXCEPT !.resets = [fact.resets EXCEPT ![c] = @ + 1]]
    BY <1>5 DEF ResetAlone, Fact
  <2>2. [fact.resets EXCEPT ![c] = @ + 1] \in [Down -> Nat]  BY <1>5
  <2> QED  BY <1>5, <2>1, <2>2 DEF Fact
<1>7. fact'.resets[c] # fact.resets[c] /\ \A d \in Down \ {c} : fact'.resets[d] = fact.resets[d]
  <2>1. fact'.resets[c] = fact.resets[c] + 1 /\ fact.resets[c] \in Nat  BY <1>5, <1>6
  <2>2. \A d \in Down \ {c} : fact'.resets[d] = fact.resets[d]  BY <1>5, <1>6
  <2> QED  BY <2>1, <2>2
<1>8. ASSUME readings # << >>
      PROVE  Since(Len(readings))'
  <2>0. PICK n : n = Len(readings)  OBVIOUS
  <2>1. Since(n)  BY <1>8, <2>0 DEF RInv, LineFollows
  <2>2. n \in 1..n /\ n = Len(readings) /\ Len(facts) = n /\ facts # << >>
    BY <1>8, <2>0, SeqFacts DEF RInv, TablesTypeOK
  <2>3. DOMAIN readings[n].down \subseteq Down  BY <2>2 DEF RInv, TablesTypeOK
  <2>4. facts[n].resets = fact.resets  BY <2>2 DEF ResetAlone
  <2>5. \A d, x \in Down : facts[n].resets[d] # fact'.resets[d] /\ facts[n].resets[x] # fact'.resets[x] => d = x
    BY <1>7, <2>4
  <2>6. ASSUME NEW d \in DOMAIN readings[n].down,
               facts[n].boots = fact.boots, facts[n].resets[d] = fact'.resets[d]
        PROVE  readings[n].down[d].corr <= modem'[d].corr /\ readings[n].down[d].lost <= modem'[d].lost
    <3>1. d # c /\ d \in Down  BY <1>7, <2>3, <2>4, <2>6
    <3>2. modem'[d] = modem[d] /\ fact'.resets[d] = fact.resets[d]  BY <1>4, <1>7, <3>1
    <3> QED  BY <2>1, <2>6, <3>2 DEF Since
  <2>7. Since(n)'  BY <1>1, <1>6, <2>1, <2>5, <2>6 DEF Since
  <2> QED  BY <1>1, <2>0, <2>7
<1> QED  BY <1>1, <1>4, <1>6, <1>8 DEF LineTypeOK, LineFollows

(* A channel that locks, measures or modulates otherwise counts as before. *)
LEMMA SignalStep ==
    ASSUME RInv, UNCHANGED <<readings, facts, fact>>, NEW c \in Down, NEW r \in Receiver,
           modem' = [modem EXCEPT ![c] = r], r.corr = modem[c].corr, r.lost = modem[c].lost
    PROVE  LineTypeOK' /\ LineFollows'
<1>1. LineTypeOK  BY DEF RInv
<1>2. modem' \in [Down -> Receiver]  BY <1>1 DEF LineTypeOK
<1>3. \A d \in Down : modem[d].corr \in Nat /\ modem[d].lost \in Nat  BY <1>1, ReceiverFacts
<1>4. \A d \in Down : modem'[d].corr = modem[d].corr /\ modem'[d].lost = modem[d].lost
  BY <1>1 DEF LineTypeOK
<1>5. \A n \in Nat : n <= n  OBVIOUS
<1>6. \A d \in Down : /\ modem[d].corr <= modem'[d].corr /\ modem'[d].corr \in Nat
                      /\ modem[d].lost <= modem'[d].lost /\ modem'[d].lost \in Nat
  BY <1>3, <1>4, <1>5
<1>7. fact'.boots = fact.boots /\ fact'.resets = fact.resets  OBVIOUS
<1>8. LineFollows'  BY <1>6, <1>7, GrowthFollows
<1> QED  BY <1>1, <1>2, <1>8 DEF LineTypeOK

LEMMA IdleStep ==
    ASSUME RInv, UNCHANGED <<readings, facts, fact, modem>>
    PROVE  LineTypeOK' /\ LineFollows'
BY DEF RInv, LineTypeOK, LineFollows, Since

LEMMA ReceptionStep ==
    ASSUME RInv, NEW c \in Down,
           \/ LockOrUnlock(c)
           \/ \E p \in Powers, q \in Snrs : Signal(c, p, q)
           \/ \E o \in Orders : Modulate(c, o)
    PROVE  LineTypeOK' /\ LineFollows'
<1>1. UNCHANGED <<readings, facts, fact>>
  BY DEF LockOrUnlock, Signal, Modulate, Change, tableVars
<1>2. modem[c] \in Receiver  BY ReceiverFacts DEF RInv
<1>3. CASE LockOrUnlock(c)
  <2> DEFINE r == [modem[c] EXCEPT !.locked = ~@]
  <2>1. modem' = [modem EXCEPT ![c] = r]  BY <1>3 DEF LockOrUnlock
  <2>2. r \in Receiver /\ r.corr = modem[c].corr /\ r.lost = modem[c].lost  BY <1>2 DEF Receiver
  <2> HIDE DEF r
  <2> QED  BY <1>1, <2>1, <2>2, SignalStep
<1>4. ASSUME NEW p \in Powers, NEW q \in Snrs, Signal(c, p, q)
      PROVE  LineTypeOK' /\ LineFollows'
  <2> DEFINE r == [modem[c] EXCEPT !.power = p, !.snr = q]
  <2>1. modem' = [modem EXCEPT ![c] = r]  BY <1>4 DEF Signal
  <2>2. r \in Receiver /\ r.corr = modem[c].corr /\ r.lost = modem[c].lost  BY <1>2 DEF Receiver
  <2> HIDE DEF r
  <2> QED  BY <1>1, <2>1, <2>2, SignalStep
<1>5. ASSUME NEW o \in Orders, Modulate(c, o)
      PROVE  LineTypeOK' /\ LineFollows'
  <2> DEFINE r == [modem[c] EXCEPT !.mod = o]
  <2>1. modem' = [modem EXCEPT ![c] = r]  BY <1>5 DEF Modulate
  <2>2. r \in Receiver /\ r.corr = modem[c].corr /\ r.lost = modem[c].lost  BY <1>2 DEF Receiver
  <2> HIDE DEF r
  <2> QED  BY <1>1, <2>1, <2>2, SignalStep
<1> QED  BY <1>3, <1>4, <1>5
-----------------------------------------------------------------------------
(* The tables. *)

LEMMA TablesKept ==
    ASSUME RInv, UNCHANGED <<readings, facts, events, untold>>, pending' = pending
    PROVE  TablesTypeOK' /\ LatestIsSteady' /\ JournalFollows' /\ RestartIsReal'
<1>1. TablesTypeOK'  BY DEF RInv, TablesTypeOK
<1>2. LatestIsSteady'  BY DEF RInv, LatestIsSteady
<1>3. JournalFollows'  BY DEF RInv, JournalFollows, Compared
<1>4. RestartIsReal'  BY DEF RInv, RestartIsReal
<1> QED  BY <1>1, <1>2, <1>3, <1>4

LEMMA ReadStep ==
    ASSUME RInv, Read(TRUE)
    PROVE  RInv'
<1>0. PICK n : n = Len(readings)  OBVIOUS
<1>1. PICK s : s = Snapshot(Payload(TRUE), clock)  OBVIOUS
<1>2. PICK f : f = fact  OBVIOUS
<1>3. /\ ~pending /\ pending' = TRUE /\ UNCHANGED <<modem, fact, events, untold>>
      /\ readings' = Append(readings, s) /\ facts' = Append(facts, f)
  BY <1>1, <1>2 DEF Read, lineVars
<1>4. /\ IsSeq(readings) /\ IsSeq(facts) /\ IsSeq(events) /\ Len(facts) = n /\ n \in Nat
      /\ \A j \in 1..n : /\ facts[j] \in Fact
                         /\ \A c \in DOMAIN readings[j].down :
                               readings[j].down[c].corr \in Nat /\ readings[j].down[c].lost \in Nat
                         /\ DOMAIN readings[j].down \subseteq Down
  BY <1>0, SeqFacts DEF RInv, TablesTypeOK
<1>5. /\ IsSeq(readings') /\ IsSeq(facts') /\ Len(readings') = n + 1 /\ Len(facts') = n + 1
      /\ \A j \in 1..n : readings'[j] = readings[j] /\ facts'[j] = facts[j]
      /\ readings'[n + 1] = s /\ facts'[n + 1] = f
  BY <1>0, <1>3, <1>4, AppendFacts
<1>6. /\ DOMAIN s.down \subseteq Down
      /\ \A c \in DOMAIN s.down : s.down[c].corr = modem[c].corr /\ s.down[c].lost = modem[c].lost
  BY <1>1, SnapshotFacts
<1>7. LineTypeOK /\ LineTypeOK' /\ f \in Fact  BY <1>2, <1>3 DEF RInv, LineTypeOK
<1>8. \A c \in Down : modem[c].corr \in Nat /\ modem[c].lost \in Nat  BY <1>7, ReceiverFacts
<1>9. TablesTypeOK'
  <2>1. \A j \in 1..(n + 1) : j \in 1..n \/ j = n + 1  BY <1>4
  <2>2. \A c \in DOMAIN s.down : s.down[c].corr \in Nat /\ s.down[c].lost \in Nat
    BY <1>6, <1>8
  <2>3. ASSUME NEW j \in 1..(n + 1)
        PROVE  /\ facts'[j] \in Fact
               /\ \A c \in DOMAIN readings'[j].down :
                     readings'[j].down[c].corr \in Nat /\ readings'[j].down[c].lost \in Nat
               /\ DOMAIN readings'[j].down \subseteq Down
    BY <1>4, <1>5, <1>6, <1>7, <2>1, <2>2
  <2>4. readings' # << >>
    <3>1. Len(readings') # 0  BY <1>4, <1>5
    <3> QED  BY <3>1, <1>5, SeqFacts
  <2>5. IsSeq(events') /\ untold' \in BOOLEAN  BY <1>3, <1>4 DEF RInv, TablesTypeOK
  <2> QED  BY <1>3, <1>5, <2>3, <2>4, <2>5 DEF TablesTypeOK
<1>10. LineFollows'
  <2>1. f.boots \in Nat /\ f.boots <= f.boots  BY <1>7, FactFacts
  <2>2. \A m \in Nat : m <= m  OBVIOUS
  <2>3. ASSUME NEW c \in DOMAIN s.down
        PROVE  s.down[c].corr <= modem'[c].corr /\ s.down[c].lost <= modem'[c].lost
    <3>1. modem'[c] = modem[c] /\ c \in Down  BY <1>3, <1>6
    <3> QED  BY <1>6, <1>8, <2>2, <3>1
  <2>4. fact' = f  BY <1>2, <1>3
  <2>5. Since(n + 1)'  BY <1>5, <2>1, <2>3, <2>4 DEF Since
  <2> QED  BY <1>5, <2>5 DEF LineFollows
<1>11. LatestIsSteady'
  <2>1. SUFFICES ASSUME n + 1 > 1
                 PROVE  Steady(facts'[n], f, readings'[n], s)
    <3>1. Len(readings') - 1 = n /\ (Len(readings') > 1 <=> n + 1 > 1)  BY <1>4, <1>5
    <3>2. readings'[Len(readings')] = s /\ facts'[Len(readings')] = f  BY <1>5
    <3>3. Len(readings') > 1 => Steady(facts'[Len(readings') - 1], facts'[Len(readings')],
                                       readings'[Len(readings') - 1], readings'[Len(readings')])
      BY <2>1, <3>1, <3>2
    <3> QED  BY <3>3 DEF LatestIsSteady
  <2>2. n \in 1..n /\ readings # << >>  BY <1>0, <1>4, <2>1
  <2>3. Since(n)  BY <1>0, <2>2 DEF RInv, LineFollows
  <2>4. PICK g, r : g = facts[n] /\ r = readings[n]  OBVIOUS
  <2>5. facts'[n] = g /\ readings'[n] = r  BY <1>5, <2>2, <2>4
  <2>6. /\ g.boots <= f.boots
        /\ \A c, d \in Down : g.resets[c] # f.resets[c] /\ g.resets[d] # f.resets[d] => c = d
        /\ \A c \in DOMAIN r.down :
              g.boots = f.boots /\ g.resets[c] = f.resets[c] =>
                 r.down[c].corr <= modem[c].corr /\ r.down[c].lost <= modem[c].lost
    BY <1>2, <2>3, <2>4 DEF Since
  <2>7. ASSUME g.boots = f.boots, NEW c \in Common(r, s), Declined(r.down[c], s.down[c])
        PROVE  c \in Down /\ g.resets[c] # f.resets[c]
    <3>1. c \in DOMAIN r.down /\ c \in DOMAIN s.down  BY DEF Common
    <3>2. c \in Down /\ s.down[c].corr = modem[c].corr /\ s.down[c].lost = modem[c].lost
      BY <1>6, <3>1
    <3>3. r.down[c].corr \in Nat /\ r.down[c].lost \in Nat  BY <1>4, <2>2, <2>4, <3>1
    <3>4. modem[c].corr < r.down[c].corr \/ modem[c].lost < r.down[c].lost
      BY <2>7, <3>2 DEF Declined
    <3>5. ~(r.down[c].corr <= modem[c].corr /\ r.down[c].lost <= modem[c].lost)
      <4> DEFINE w == r.down[c].corr
                 x == r.down[c].lost
                 y == modem[c].corr
                 z == modem[c].lost
      <4>1. w \in Nat /\ x \in Nat /\ y \in Nat /\ z \in Nat /\ (y < w \/ z < x)
        BY <1>8, <3>2, <3>3, <3>4
      <4> HIDE DEF w, x, y, z
      <4>2. ~(w <= y /\ x <= z)  BY <4>1
      <4> QED  BY <4>2 DEF w, x, y, z
    <3> QED  BY <2>6, <2>7, <3>1, <3>2, <3>5
  <2>8. Steady(g, f, r, s)  BY <2>6, <2>7 DEF Steady
  <2> QED  BY <2>5, <2>8
<1>12. JournalFollows'
  <2>1. Compared = n /\ Compared' = n
    <3>1. n + 1 - 1 = n  BY <1>4
    <3> QED  BY <1>0, <1>3, <1>5, <3>1 DEF Compared
  <2>2. n = 0 => events' = << >>  BY <1>3, <2>1 DEF RInv, JournalFollows
  <2>3. ASSUME n > 0, ~untold', NEW dir \in {"down", "up"}, NEW c \in Down \cup Up
        PROVE  FollowsIn(events', dir, c, c \in DOMAIN readings'[1][dir], c \in DOMAIN readings'[n][dir])
    <3>1. 1 \in 1..n /\ n \in 1..n  BY <1>4, <2>3
    <3>2. readings'[1] = readings[1] /\ readings'[n] = readings[n]  BY <1>5, <3>1
    <3>3. FollowsIn(events, dir, c, c \in DOMAIN readings[1][dir], c \in DOMAIN readings[n][dir])
      BY <1>3, <2>1, <2>3 DEF RInv, JournalFollows
    <3> QED  BY <1>3, <3>2, <3>3
  <2> QED  BY <2>1, <2>2, <2>3 DEF JournalFollows
<1>13. RestartIsReal'
  <2>1. SUFFICES ASSUME NEW e \in Elements(events'), e.kind = "restart"
                 PROVE  \E j \in 2..(n + 1) :
                           readings'[j].time = e.time /\ facts'[j].boots > facts'[j - 1].boots
    BY <1>5 DEF RestartIsReal
  <2>2. PICK j \in 2..n : readings[j].time = e.time /\ facts[j].boots > facts[j - 1].boots
    BY <1>0, <1>3, <2>1 DEF RInv, RestartIsReal
  <2>3. j \in 1..n /\ j - 1 \in 1..n /\ j \in 2..(n + 1)  BY <1>4
  <2>4. readings'[j] = readings[j] /\ facts'[j] = facts[j] /\ facts'[j - 1] = facts[j - 1]
    BY <1>5, <2>3
  <2> QED  BY <2>2, <2>3, <2>4
<1> QED  BY <1>7, <1>9, <1>10, <1>11, <1>12, <1>13 DEF RInv

LEMMA RecordStep ==
    ASSUME RInv, Record
    PROVE  RInv'
<1>0. PICK n : n = Len(readings)  OBVIOUS
<1>1. PICK s : s = Detect  OBVIOUS
<1>2. PICK old : old = events  OBVIOUS
<1>3. pending /\ pending' = FALSE /\ events' = old \o s /\ UNCHANGED <<modem, fact, readings, facts, untold>>
  BY <1>1, <1>2 DEF Record, lineVars
<1>4. TablesTypeOK /\ IsSeq(readings) /\ IsSeq(old) /\ readings # << >> /\ n \in Nat /\ n # 0
  BY <1>0, <1>2, <1>3, SeqFacts DEF RInv, TablesTypeOK
<1>5. /\ IsSeq(s)
      /\ RestartsOnlyIf(s, n # 1 /\ Restarted(readings[n - 1], readings[n]))
      /\ n = 1 => \A dir, c : Tells(s, dir, c) = {}
      /\ n # 1 => \A dir \in {"down", "up"} : \A c :
                     Moves(s, dir, c, c \in DOMAIN readings[n - 1][dir], c \in DOMAIN readings[n][dir])
  BY <1>0, <1>1, <1>4, DetectFacts
<1>6. IsSeq(old \o s)  BY <1>4, <1>5, ConcatFacts
<1>7. TablesTypeOK'  BY <1>3, <1>4, <1>6 DEF TablesTypeOK
<1>8. LineTypeOK' /\ LineFollows'  BY <1>3, IdleStep
<1>9. LatestIsSteady'  BY <1>3 DEF LatestIsSteady
<1>10. JournalFollows'
  <2>1. Compared = n - 1 /\ Compared' = n  BY <1>0, <1>3 DEF Compared
  <2>2. n > 0  BY <1>4
  <2>3. ASSUME ~untold, NEW dir \in {"down", "up"}, NEW c \in Down \cup Up
        PROVE  FollowsIn(old \o s, dir, c, c \in DOMAIN readings[1][dir], c \in DOMAIN readings[n][dir])
    <3> DEFINE first == c \in DOMAIN readings[1][dir]
               here == c \in DOMAIN readings[n][dir]
               was == c \in DOMAIN readings[n - 1][dir]
    <3>1. first \in BOOLEAN /\ here \in BOOLEAN /\ was \in BOOLEAN  OBVIOUS
    <3>2. CASE n = 1
      <4>1. old = << >>  BY <1>2, <2>1, <3>2 DEF RInv, JournalFollows
      <4>2. Tells(old, dir, c) = {}  BY <4>1 DEF Tells
      <4>3. FollowsIn(old, dir, c, first, first)  BY <4>2 DEF FollowsIn
      <4>4. Moves(s, dir, c, first, first)  BY <1>5, <3>2 DEF Moves
      <4>5. FollowsIn(old \o s, dir, c, first, first)  BY <1>4, <1>5, <3>1, <4>3, <4>4, FollowsOn
      <4> QED  BY <3>2, <4>5
    <3>3. CASE n # 1
      <4>1. n - 1 > 0  BY <1>4, <3>3
      <4>2. FollowsIn(old, dir, c, first, was)
        BY <1>2, <2>1, <2>3, <4>1 DEF RInv, JournalFollows
      <4>3. Moves(s, dir, c, was, here)  BY <1>5, <3>3
      <4>4. FollowsIn(old \o s, dir, c, first, here)  BY <1>4, <1>5, <3>1, <4>2, <4>3, FollowsOn
      <4> QED  BY <4>4
    <3> QED  BY <3>2, <3>3
  <2> QED  BY <1>3, <1>4, <2>1, <2>3 DEF JournalFollows
<1>11. RestartIsReal'
  <2>1. SUFFICES ASSUME NEW e \in Elements(old \o s), e.kind = "restart"
                 PROVE  \E j \in 2..n : readings[j].time = e.time /\ facts[j].boots > facts[j - 1].boots
    BY <1>0, <1>3 DEF RestartIsReal
  <2>2. PICK i \in 1..Len(old \o s) : e = (old \o s)[i]
    BY <1>6, SeqFacts DEF Elements
  <2>3. Len(old) \in Nat /\ Len(s) \in Nat /\ Len(old \o s) = Len(old) + Len(s)
    BY <1>4, <1>5, ConcatFacts, SeqFacts
  <2>4. CASE i \in 1..Len(old)
    <3>1. e = old[i]  BY <1>4, <1>5, <2>2, <2>4, ConcatFacts
    <3>2. e \in Elements(old)  BY <1>4, <2>4, <3>1, SeqFacts DEF Elements
    <3> QED  BY <1>0, <1>2, <2>1, <3>2 DEF RInv, RestartIsReal
  <2>5. CASE i \notin 1..Len(old)
    <3>1. i - Len(old) \in 1..Len(s) /\ i = Len(old) + (i - Len(old))  BY <2>2, <2>3, <2>5
    <3>2. e = s[i - Len(old)]  BY <1>4, <1>5, <2>2, <3>1, ConcatFacts
    <3>3. n # 1 /\ Restarted(readings[n - 1], readings[n]) /\ e.time = Latest.time
      BY <1>5, <2>1, <3>1, <3>2 DEF RestartsOnlyIf
    <3>4. n > 1 /\ n \in 2..n /\ n \in 1..n /\ n - 1 \in 1..n  BY <1>4, <3>3
    <3>5. readings[n].time = e.time  BY <1>0, <3>3 DEF Latest
    <3>6. Steady(facts[n - 1], facts[n], readings[n - 1], readings[n])
      BY <1>0, <1>3, <3>4 DEF RInv, LatestIsSteady
    <3>7. DOMAIN readings[n - 1].down \subseteq Down  BY <1>0, <1>4, <3>4 DEF TablesTypeOK
    <3>8. facts[n - 1].boots # facts[n].boots
      BY <3>3, <3>6, <3>7, SteadyIsNoRestart DEF Steady
    <3>9. facts[n - 1].boots \in Nat /\ facts[n].boots \in Nat
      BY <1>0, <1>4, <3>4, FactFacts DEF TablesTypeOK
    <3>10. facts[n].boots > facts[n - 1].boots
      BY <3>6, <3>8, <3>9 DEF Steady
    <3> QED  BY <3>4, <3>5, <3>10
  <2> QED  BY <2>4, <2>5
<1> QED  BY <1>7, <1>8, <1>9, <1>10, <1>11 DEF RInv

LEMMA RecordFailsStep ==
    ASSUME RInv, RecordFails
    PROVE  RInv'
<1>1. /\ pending /\ pending' = FALSE /\ untold' = TRUE
      /\ UNCHANGED <<modem, fact, readings, facts, events>>
  BY DEF RecordFails, lineVars
<1>2. LineTypeOK' /\ LineFollows'  BY <1>1, IdleStep
<1>3. TablesTypeOK'  BY <1>1 DEF RInv, TablesTypeOK
<1>4. LatestIsSteady'  BY <1>1 DEF LatestIsSteady
<1>5. JournalFollows'
  <2>1. Len(readings) # 0  BY <1>1, SeqFacts DEF RInv, TablesTypeOK
  <2> QED  BY <1>1, <2>1 DEF JournalFollows, Compared
<1>6. RestartIsReal'  BY <1>1 DEF RInv, RestartIsReal
<1> QED  BY <1>2, <1>3, <1>4, <1>5, <1>6 DEF RInv

-----------------------------------------------------------------------------
LEMMA RInvInit == ReadingsInit => RInv
<1> SUFFICES ASSUME ReadingsInit PROVE RInv  OBVIOUS
<1>1. readings = << >> /\ facts = << >> /\ events = << >> /\ pending = FALSE /\ untold = FALSE
  BY DEF ReadingsInit
<1>2. IsSeq(<< >>) /\ Len(<< >>) = 0
  <2>1. << >> \in Seq({}) /\ Len(<< >>) = 0  OBVIOUS
  <2> QED  BY <2>1, IsSeqOf
<1>3. LineTypeOK
  <2>1. Zero \in [Down -> Nat]  BY DEF Zero
  <2>2. fact \in Fact  BY <2>1 DEF ReadingsInit, Fact
  <2>3. ASSUME NEW c \in Down
        PROVE  [locked |-> TRUE, power |-> Start[c].power, snr |-> Start[c].snr,
                mod |-> Start[c].mod, corr |-> 0, lost |-> 0] \in Receiver
    BY DEF Receiver
  <2>4. modem \in [Down -> Receiver]  BY <2>3 DEF ReadingsInit
  <2> QED  BY <2>2, <2>4 DEF LineTypeOK
<1>4. TablesTypeOK
  <2>1. 1..0 = {}  OBVIOUS
  <2> QED  BY <1>1, <1>2, <2>1 DEF TablesTypeOK
<1>5. LineFollows /\ LatestIsSteady  BY <1>1 DEF LineFollows, LatestIsSteady
<1>6. JournalFollows  BY <1>1, <1>2 DEF JournalFollows, Compared
<1>7. RestartIsReal
  <2>1. Elements(<< >>) = {}  BY <1>2, SeqFacts DEF Elements
  <2> QED  BY <1>1, <2>1 DEF RestartIsReal
<1> QED  BY <1>3, <1>4, <1>5, <1>6, <1>7 DEF RInv

LEMMA RInvNext ==
    ASSUME ~ErrorsMayLack, RInv, [ReadingsNext]_readingsVars
    PROVE  RInv'
<1>1. ASSUME NEW c \in Down, NEW e \in ErrorSteps, Errors(c, e)
      PROVE  RInv'
  <2>1. UNCHANGED <<readings, facts, events, pending, untold>>  BY <1>1 DEF Errors, Change, tableVars
  <2> QED  BY <1>1, <2>1, ErrorsStep, TablesKept DEF RInv
<1>2. CASE Reboot
  <2>1. UNCHANGED <<readings, facts, events, pending, untold>>  BY <1>2 DEF Reboot, Change, tableVars
  <2> QED  BY <1>2, <2>1, RebootStep, TablesKept DEF RInv
<1>3. ASSUME NEW c \in Down, ResetAlone(c)
      PROVE  RInv'
  <2>1. UNCHANGED <<readings, facts, events, pending, untold>>  BY <1>3 DEF ResetAlone, Change, tableVars
  <2> QED  BY <1>3, <2>1, ResetStep, TablesKept DEF RInv
<1>4. ASSUME NEW c \in Down,
             \/ LockOrUnlock(c)
             \/ \E p \in Powers, q \in Snrs : Signal(c, p, q)
             \/ \E o \in Orders : Modulate(c, o)
      PROVE  RInv'
  <2>1. UNCHANGED <<readings, facts, events, pending, untold>>
    BY <1>4 DEF LockOrUnlock, Signal, Modulate, Change, tableVars
  <2> QED  BY <1>4, <2>1, ReceptionStep, TablesKept DEF RInv
<1>5. ASSUME \/ \E u \in Up : UpLockOrUnlock(u)
             \/ \E u \in Up, p \in UpPowers : UpSignal(u, p)
             \/ \E u \in Up, o \in Orders : UpModulate(u, o)
             \/ NoReading
             \/ UNCHANGED readingsVars
      PROVE  RInv'
  <2>1. UNCHANGED <<modem, fact, readings, facts, events, pending, untold>>
    BY <1>5 DEF UpLockOrUnlock, UpSignal, UpModulate, NoReading, readingsVars, Change, lineVars, tableVars
  <2> QED  BY <2>1, IdleStep, TablesKept DEF RInv
<1>6. ASSUME NEW whole \in (IF ErrorsMayLack THEN BOOLEAN ELSE {TRUE}), Read(whole)
      PROVE  RInv'
  <2>1. whole = TRUE  OBVIOUS
  <2> QED  BY <1>6, <2>1, ReadStep
<1>7. CASE Record  BY <1>7, RecordStep
<1>8. CASE RecordFails  BY <1>8, RecordFailsStep
<1> QED  BY <1>1, <1>2, <1>3, <1>4, <1>5, <1>6, <1>7, <1>8 DEF ReadingsNext

(* At any time the tables of Readings and the line agree as RInv says:     *)
(* collectOnce, CounterDelta's counters and channelChanges.                *)
THEOREM ReadingsInvariance ==
    ASSUME ~ErrorsMayLack
    PROVE  ReadingsSpec => []RInv
<1>1. ReadingsInit => RInv  BY RInvInit
<1>2. RInv /\ [ReadingsNext]_readingsVars => RInv'  BY RInvNext
<1> QED  BY <1>1, <1>2, PTL DEF ReadingsSpec

(* The journal tells a restart of the modem (restart, detect.go) only when *)
(* it restarted between the two readings, whatever channel lost its        *)
(* counters alone, and its channels lost and found, read in order, are     *)
(* those of the last reading (channelChanges), unless a batch of events    *)
(* was never written; for payloads that have the counters of all channels. *)
THEOREM JournalReal ==
    ASSUME ~ErrorsMayLack
    PROVE  ReadingsSpec => []JournalIsReal
<1>1. RInv => JournalIsReal
  <2>1. SUFFICES ASSUME RInv PROVE JournalIsReal  OBVIOUS
  <2>2. ASSUME readings # << >>, ~pending, ~untold, NEW dir \in {"down", "up"}, NEW c \in Down \cup Up
        PROVE  Follows(dir, c)
    <3>1. Len(readings) \in Nat /\ Len(readings) # 0 /\ DOMAIN events = 1..Len(events)
      BY <2>1, <2>2, SeqFacts DEF RInv, TablesTypeOK
    <3>2. Compared > 0 /\ Compared = Len(readings)  BY <2>2, <3>1 DEF Compared
    <3>3. FollowsIn(events, dir, c, c \in DOMAIN readings[1][dir], c \in DOMAIN readings[Len(readings)][dir])
      BY <2>1, <2>2, <3>2 DEF RInv, JournalFollows
    <3>4. Told(dir, c) = Tells(events, dir, c)  BY <3>1 DEF Told, Tells
    <3> QED  BY <3>3, <3>4 DEF FollowsIn, Follows, Latest
  <2>3. ChannelsFollow  BY <2>2 DEF ChannelsFollow
  <2> QED  BY <2>1, <2>3 DEF RInv, JournalIsReal
<1> QED  BY <1>1, ReadingsInvariance, PTL

-----------------------------------------------------------------------------
(***************************************************************************)
(* The errors the pages count.                                             *)
(***************************************************************************)

(* A counter went from x to y while the channel had g - f errors: it tells   *)
(* them all unless it was reset, and then no more than them.                 *)
Grew(x, f, y, g, kept) == f <= g /\ (kept => y - x = g - f) /\ (~kept => y <= g - f)

(* What reading i and the counters m of a later time f say of the errors.    *)
Accounts(i, f, m) ==
    /\ facts[i].boots <= f.boots
    /\ \A c \in Down : facts[i].resets[c] <= f.resets[c]
    /\ \A c \in (DOMAIN readings[i].down) \cap (DOMAIN m) :
          LET kept == facts[i].boots = f.boots /\ facts[i].resets[c] = f.resets[c]
          IN /\ Grew(readings[i].down[c].corr, facts[i].corr[c], m[c].corr, f.corr[c], kept)
             /\ Grew(readings[i].down[c].lost, facts[i].lost[c], m[c].lost, f.lost[c], kept)

Tracks == \A i \in 1..Len(readings) : Accounts(i, fact, modem)
Compares == \A i \in 1..Len(readings) : \A j \in 1..Len(readings) : i < j => Accounts(i, facts[j], readings[j].down)
InTime ==
    /\ clock \in Nat \ {0}
    /\ \A i \in 1..Len(readings) : readings[i].time \in Nat \ {0} /\ readings[i].time < clock
    /\ \A i \in 1..Len(readings) : \A j \in 1..Len(readings) : i < j => readings[i].time < readings[j].time
EInv == RInv /\ Tracks /\ Compares /\ InTime

LEMMA GrewFacts ==
    ASSUME NEW x \in Nat, NEW f \in Nat, NEW y \in Nat, NEW g \in Nat, NEW k, k \in BOOLEAN, Grew(x, f, y, g, k)
    PROVE  /\ \A e \in Nat : Grew(x, f, y + e, g + e, k)
           /\ Grew(x, f, 0, g, FALSE)
BY DEF Grew

(* What a step does to the counters of a channel: errors, or a reset. *)
Counts(c) ==
    /\ fact'.boots = fact.boots /\ fact'.resets[c] = fact.resets[c]
    /\ \E e \in Nat : modem'[c].corr = modem[c].corr + e /\ fact'.corr[c] = fact.corr[c] + e
    /\ \E e \in Nat : modem'[c].lost = modem[c].lost + e /\ fact'.lost[c] = fact.lost[c] + e
Resets(c) ==
    /\ modem'[c].corr = 0 /\ modem'[c].lost = 0
    /\ fact'.corr[c] = fact.corr[c] /\ fact'.lost[c] = fact.lost[c]
    /\ fact'.boots > fact.boots \/ fact'.resets[c] > fact.resets[c]

(* The tables of the readings, one by one. *)
LEMMA RowFacts ==
    ASSUME RInv, NEW i \in 1..Len(readings)
    PROVE  /\ facts[i] \in Fact /\ facts[i].boots \in Nat /\ DOMAIN readings[i].down \subseteq Down
           /\ \A c \in Down : facts[i].resets[c] \in Nat /\ facts[i].corr[c] \in Nat /\ facts[i].lost[c] \in Nat
           /\ \A c \in DOMAIN readings[i].down :
                 readings[i].down[c].corr \in Nat /\ readings[i].down[c].lost \in Nat
<1>1. /\ facts[i] \in Fact /\ DOMAIN readings[i].down \subseteq Down
      /\ \A c \in DOMAIN readings[i].down :
            readings[i].down[c].corr \in Nat /\ readings[i].down[c].lost \in Nat
  BY DEF RInv, TablesTypeOK
<1> QED BY <1>1, FactFacts

LEMMA LineFacts ==
    ASSUME NEW m \in [Down -> Receiver], NEW f \in Fact
    PROVE  /\ f.boots \in Nat /\ DOMAIN m = Down
           /\ \A c \in Down : f.resets[c] \in Nat /\ f.corr[c] \in Nat /\ f.lost[c] \in Nat
           /\ \A c \in Down : m[c].corr \in Nat /\ m[c].lost \in Nat
<1>1. \A c \in Down : m[c].corr \in Nat /\ m[c].lost \in Nat
  <2> TAKE c \in Down
  <2>1. m[c] \in Receiver  OBVIOUS
  <2> QED  BY <2>1 DEF Receiver
<1> QED BY <1>1, FactFacts

LEMMA TracksOn ==
    ASSUME RInv, LineTypeOK', Tracks, UNCHANGED <<readings, facts>>, fact.boots <= fact'.boots,
           \A c \in Down : (fact.resets[c] <= fact'.resets[c]) /\ (Counts(c) \/ Resets(c))
    PROVE  Tracks'
<1> SUFFICES ASSUME NEW i \in 1..Len(readings) PROVE Accounts(i, fact, modem)'
  BY DEF Tracks
<1>1. Accounts(i, fact, modem)
  BY DEF Tracks
<1>2. LineTypeOK
  BY DEF RInv
<1> DEFINE o == facts[i]
           d == readings[i].down
<1>3. o' = o /\ d' = d
  OBVIOUS
<1>4. fact.boots \in Nat /\ DOMAIN modem = Down /\ \A c \in Down :
         fact.resets[c] \in Nat /\ fact.corr[c] \in Nat /\ fact.lost[c] \in Nat
         /\ modem[c].corr \in Nat /\ modem[c].lost \in Nat
  BY <1>2, LineFacts DEF LineTypeOK
<1>5. fact'.boots \in Nat /\ DOMAIN modem' = Down /\ \A c \in Down :
         fact'.resets[c] \in Nat /\ fact'.corr[c] \in Nat /\ fact'.lost[c] \in Nat
         /\ modem'[c].corr \in Nat /\ modem'[c].lost \in Nat
  BY LineFacts DEF LineTypeOK
<1>6. o.boots \in Nat /\ DOMAIN d \subseteq Down
      /\ \A c \in Down : o.resets[c] \in Nat /\ o.corr[c] \in Nat /\ o.lost[c] \in Nat
  BY RowFacts
<1>7. \A c \in DOMAIN d : d[c].corr \in Nat /\ d[c].lost \in Nat
  BY RowFacts
<1>8. o.boots <= fact.boots /\ \A c \in Down : o.resets[c] <= fact.resets[c]
  BY <1>1 DEF Accounts
<1>9. \A c \in DOMAIN d : LET kept == o.boots = fact.boots /\ o.resets[c] = fact.resets[c]
                          IN /\ Grew(d[c].corr, o.corr[c], modem[c].corr, fact.corr[c], kept)
                             /\ Grew(d[c].lost, o.lost[c], modem[c].lost, fact.lost[c], kept)
  BY <1>1, <1>4, <1>6 DEF Accounts
<1> HIDE DEF o, d
<1>10. o.boots <= fact'.boots /\ \A c \in Down : o.resets[c] <= fact'.resets[c]
  <2>1. o.boots <= fact'.boots
    BY <1>4, <1>5, <1>6, <1>8
  <2>2. ASSUME NEW c \in Down
        PROVE  o.resets[c] <= fact'.resets[c]
    <3>1. o.resets[c] <= fact.resets[c] /\ fact.resets[c] <= fact'.resets[c]
      BY <1>8
    <3> QED BY <1>4, <1>5, <1>6, <3>1
  <2> QED BY <2>1, <2>2
<1>11. ASSUME NEW c \in DOMAIN d
       PROVE  LET kept == o.boots = fact'.boots /\ o.resets[c] = fact'.resets[c]
              IN /\ Grew(d[c].corr, o.corr[c], modem'[c].corr, fact'.corr[c], kept)
                 /\ Grew(d[c].lost, o.lost[c], modem'[c].lost, fact'.lost[c], kept)
  <2>0. c \in Down
    BY <1>6
  <2> DEFINE k == o.boots = fact.boots /\ o.resets[c] = fact.resets[c]
             kp == o.boots = fact'.boots /\ o.resets[c] = fact'.resets[c]
  <2>1. Grew(d[c].corr, o.corr[c], modem[c].corr, fact.corr[c], k) /\ Grew(d[c].lost, o.lost[c], modem[c].lost, fact.lost[c], k)
        /\ k \in BOOLEAN
    BY <1>9
  <2>2. CASE Counts(c)
    <3>1. kp = k
      BY <2>2 DEF Counts
    <3>2. PICK e \in Nat : modem'[c].corr = modem[c].corr + e /\ fact'.corr[c] = fact.corr[c] + e
      BY <2>2 DEF Counts
    <3>3. PICK l \in Nat : modem'[c].lost = modem[c].lost + l /\ fact'.lost[c] = fact.lost[c] + l
      BY <2>2 DEF Counts
    <3> HIDE DEF k, kp
    <3>4. PICK x \in Nat, f \in Nat, y \in Nat, g \in Nat :
              x = d[c].corr /\ f = o.corr[c] /\ y = modem[c].corr /\ g = fact.corr[c]
      BY <1>4, <1>6, <1>7, <2>0
    <3>5. PICK z \in Nat, h \in Nat, w \in Nat, v \in Nat :
              z = d[c].lost /\ h = o.lost[c] /\ w = modem[c].lost /\ v = fact.lost[c]
      BY <1>4, <1>6, <1>7, <2>0
    <3>7. PICK kk : kk = k  OBVIOUS
    <3>8. kk \in BOOLEAN /\ Grew(x, f, y, g, kk) /\ Grew(z, h, w, v, kk)
      BY <2>1, <3>4, <3>5, <3>7
    <3>9. Grew(x, f, y + e, g + e, kk)
      <4>1. f <= g /\ (kk => y - x = g - f) /\ (~kk => y <= g - f)
        BY <3>8 DEF Grew
      <4>2. f <= g + e
        BY <4>1
      <4>3. kk => (y + e) - x = (g + e) - f
        BY <4>1
      <4>4. ~kk => y + e <= (g + e) - f
        BY <4>1
      <4> QED BY <4>2, <4>3, <4>4 DEF Grew
    <3>10. Grew(z, h, w + l, v + l, kk)
      <4>1. h <= v /\ (kk => w - z = v - h) /\ (~kk => w <= v - h)
        BY <3>8 DEF Grew
      <4>2. h <= v + l
        BY <4>1
      <4>3. kk => (w + l) - z = (v + l) - h
        BY <4>1
      <4>4. ~kk => w + l <= (v + l) - h
        BY <4>1
      <4> QED BY <4>2, <4>3, <4>4 DEF Grew
    <3>6. Grew(d[c].corr, o.corr[c], modem'[c].corr, fact'.corr[c], kp) /\ Grew(d[c].lost, o.lost[c], modem'[c].lost, fact'.lost[c], kp)
      BY <3>1, <3>2, <3>3, <3>4, <3>5, <3>7, <3>9, <3>10
    <3> QED BY <3>6 DEF kp
  <2>3. CASE Resets(c)
    <3>1. kp = FALSE
      BY <1>4, <1>5, <1>6, <1>8, <2>0, <2>3 DEF Resets
    <3> HIDE DEF k, kp
    <3>2. Grew(d[c].corr, o.corr[c], 0, fact.corr[c], FALSE) /\ Grew(d[c].lost, o.lost[c], 0, fact.lost[c], FALSE)
      BY <1>4, <1>6, <1>7, <2>0, <2>1, GrewFacts
    <3>3. Grew(d[c].corr, o.corr[c], modem'[c].corr, fact'.corr[c], kp) /\ Grew(d[c].lost, o.lost[c], modem'[c].lost, fact'.lost[c], kp)
      BY <2>3, <3>1, <3>2 DEF Resets
    <3> QED BY <3>3 DEF kp
  <2> QED BY <2>0, <2>2, <2>3
<1>12. Accounts(i, fact, modem)' = (
         /\ o.boots <= fact'.boots
         /\ \A c \in Down : o.resets[c] <= fact'.resets[c]
         /\ \A c \in (DOMAIN d) \cap (DOMAIN modem') :
              LET kept == o.boots = fact'.boots /\ o.resets[c] = fact'.resets[c]
              IN /\ Grew(d[c].corr, o.corr[c], modem'[c].corr, fact'.corr[c], kept)
                 /\ Grew(d[c].lost, o.lost[c], modem'[c].lost, fact'.lost[c], kept))
  BY DEF Accounts, o, d
<1> QED BY <1>10, <1>11, <1>12

LEMMA ErrorsTracked ==
    ASSUME RInv, LineTypeOK', Tracks, NEW c \in Down, NEW e \in ErrorSteps, Errors(c, e)
    PROVE  Tracks'
<1>1. e.corr \in Nat /\ e.lost \in Nat  BY ReadingsAssumption DEF ReadingsAssumption
<1>2. modem \in [Down -> Receiver] /\ fact \in Fact  BY DEF RInv, LineTypeOK
<1>3. /\ fact.boots \in Nat
      /\ \A d \in Down : fact.resets[d] \in Nat /\ fact.corr[d] \in Nat /\ fact.lost[d] \in Nat
                         /\ modem[d].corr \in Nat /\ modem[d].lost \in Nat
  BY <1>2, LineFacts
<1> DEFINE r == [modem[c] EXCEPT !.corr = @ + e.corr, !.lost = @ + e.lost]
<1>4. modem' = [modem EXCEPT ![c] = r]
  BY DEF Errors
<1>5. r.corr = modem[c].corr + e.corr /\ r.lost = modem[c].lost + e.lost
  <2>1. modem[c] \in Receiver  BY <1>2
  <2> QED  BY <2>1 DEF Receiver
<1> HIDE DEF r
<1>6. modem'[c] = r /\ \A d \in Down \ {c} : modem'[d] = modem[d]
  BY <1>2, <1>4
<1>7. fact'.boots = fact.boots /\ fact'.resets = fact.resets
      /\ fact'.corr = [fact.corr EXCEPT ![c] = @ + e.corr] /\ fact'.lost = [fact.lost EXCEPT ![c] = @ + e.lost]
  BY <1>2 DEF Errors, Fact
<1>8. /\ fact'.corr[c] = fact.corr[c] + e.corr /\ fact'.lost[c] = fact.lost[c] + e.lost
      /\ \A d \in Down \ {c} : fact'.corr[d] = fact.corr[d] /\ fact'.lost[d] = fact.lost[d]
  BY <1>2, <1>7, FactFacts
<1>9. ASSUME NEW d \in Down
      PROVE  fact.resets[d] <= fact'.resets[d] /\ Counts(d)
  <2>1. fact.resets[d] <= fact.resets[d]  BY <1>3
  <2>2. CASE d = c
    BY <1>1, <1>5, <1>6, <1>7, <1>8, <2>1, <2>2 DEF Counts
  <2>3. CASE d # c
    <3>1. modem'[d] = modem[d] /\ fact'.corr[d] = fact.corr[d] /\ fact'.lost[d] = fact.lost[d]
      BY <1>6, <1>8, <2>3
    <3>2. /\ modem[d].corr = modem[d].corr + 0 /\ modem[d].lost = modem[d].lost + 0
          /\ fact.corr[d] = fact.corr[d] + 0 /\ fact.lost[d] = fact.lost[d] + 0
      BY <1>3
    <3> QED  BY <1>7, <2>1, <3>1, <3>2 DEF Counts
  <2> QED  BY <2>2, <2>3
<1>10. UNCHANGED <<readings, facts>>  BY DEF Errors, Change, tableVars
<1>11. fact.boots <= fact'.boots  BY <1>3, <1>7
<1> QED  BY <1>9, <1>10, <1>11, TracksOn

LEMMA RebootTracked ==
    ASSUME RInv, LineTypeOK', Tracks, Reboot
    PROVE  Tracks'
<1>1. modem \in [Down -> Receiver] /\ fact \in Fact  BY DEF RInv, LineTypeOK
<1>2. fact.boots \in Nat /\ \A d \in Down : fact.resets[d] \in Nat
  BY <1>1, LineFacts
<1>3. fact'.boots = fact.boots + 1 /\ fact'.resets = fact.resets
      /\ fact'.corr = fact.corr /\ fact'.lost = fact.lost
  BY <1>1 DEF Reboot, Fact
<1>4. \A d \in Down : modem'[d].corr = 0 /\ modem'[d].lost = 0
  <2> TAKE d \in Down
  <2>1. modem'[d] = [modem[d] EXCEPT !.corr = 0, !.lost = 0]  BY DEF Reboot
  <2>2. modem[d] \in Receiver  BY <1>1
  <2> QED  BY <2>1, <2>2 DEF Receiver
<1>5. fact.boots <= fact'.boots /\ fact'.boots > fact.boots  BY <1>2, <1>3
<1>6. \A d \in Down : fact.resets[d] <= fact'.resets[d] /\ Resets(d)
  BY <1>2, <1>3, <1>4, <1>5 DEF Resets
<1>7. UNCHANGED <<readings, facts>>  BY DEF Reboot, Change, tableVars
<1> QED  BY <1>5, <1>6, <1>7, TracksOn

(* What neither counts nor resets. *)
LEMMA SameTracked ==
    ASSUME RInv, LineTypeOK', Tracks, UNCHANGED <<readings, facts, fact>>,
           \A d \in Down : modem'[d].corr = modem[d].corr /\ modem'[d].lost = modem[d].lost
    PROVE  Tracks'
<1>1. modem \in [Down -> Receiver] /\ fact \in Fact  BY DEF RInv, LineTypeOK
<1>2. /\ fact.boots \in Nat
      /\ \A d \in Down : fact.resets[d] \in Nat /\ fact.corr[d] \in Nat /\ fact.lost[d] \in Nat
                         /\ modem[d].corr \in Nat /\ modem[d].lost \in Nat
  BY <1>1, LineFacts
<1>3. \A d \in Down : /\ fact.resets[d] <= fact.resets[d]
                      /\ modem[d].corr = modem[d].corr + 0 /\ modem[d].lost = modem[d].lost + 0
                      /\ fact.corr[d] = fact.corr[d] + 0 /\ fact.lost[d] = fact.lost[d] + 0
  BY <1>2
<1>4. \A d \in Down : fact.resets[d] <= fact'.resets[d] /\ Counts(d)
  BY <1>3 DEF Counts
<1>5. fact.boots <= fact'.boots  BY <1>2
<1> QED  BY <1>4, <1>5, TracksOn

LEMMA ResetTracked ==
    ASSUME RInv, LineTypeOK', Tracks, NEW c \in Down, ResetAlone(c)
    PROVE  Tracks'
<1>1. modem \in [Down -> Receiver] /\ fact \in Fact  BY DEF RInv, LineTypeOK
<1>2. /\ fact.boots \in Nat /\ fact.resets \in [Down -> Nat]
      /\ \A d \in Down : fact.resets[d] \in Nat /\ fact.corr[d] \in Nat /\ fact.lost[d] \in Nat
                         /\ modem[d].corr \in Nat /\ modem[d].lost \in Nat
  BY <1>1, LineFacts, FactFacts
<1> DEFINE r == [modem[c] EXCEPT !.corr = 0, !.lost = 0]
<1>3. modem' = [modem EXCEPT ![c] = r]  BY DEF ResetAlone
<1>4. r.corr = 0 /\ r.lost = 0
  <2>1. modem[c] \in Receiver  BY <1>1
  <2> QED  BY <2>1 DEF Receiver
<1> HIDE DEF r
<1>5. modem'[c] = r /\ \A d \in Down \ {c} : modem'[d] = modem[d]
  BY <1>1, <1>3
<1>6. fact'.boots = fact.boots /\ fact'.resets = [fact.resets EXCEPT ![c] = @ + 1]
      /\ fact'.corr = fact.corr /\ fact'.lost = fact.lost
  BY <1>1 DEF ResetAlone, Fact
<1>7. fact'.resets[c] = fact.resets[c] + 1 /\ \A d \in Down \ {c} : fact'.resets[d] = fact.resets[d]
  BY <1>2, <1>6
<1>8. ASSUME NEW d \in Down
      PROVE  fact.resets[d] <= fact'.resets[d] /\ (Counts(d) \/ Resets(d))
  <2>1. CASE d = c
    <3>1. fact'.resets[d] > fact.resets[d] /\ fact.resets[d] <= fact'.resets[d]  BY <1>2, <1>7, <2>1
    <3> QED  BY <1>4, <1>5, <1>6, <2>1, <3>1 DEF Resets
  <2>2. CASE d # c
    <3>1. modem'[d] = modem[d] /\ fact'.resets[d] = fact.resets[d]  BY <1>5, <1>7, <2>2
    <3>2. /\ modem[d].corr = modem[d].corr + 0 /\ modem[d].lost = modem[d].lost + 0
          /\ fact.corr[d] = fact.corr[d] + 0 /\ fact.lost[d] = fact.lost[d] + 0
          /\ fact.resets[d] <= fact.resets[d]
      BY <1>2
    <3> QED  BY <1>6, <3>1, <3>2 DEF Counts
  <2> QED  BY <2>1, <2>2
<1>9. UNCHANGED <<readings, facts>>  BY DEF ResetAlone, Change, tableVars
<1>10. fact.boots <= fact'.boots  BY <1>2, <1>6
<1> QED  BY <1>8, <1>9, <1>10, TracksOn

LEMMA ReadTracked ==
    ASSUME EInv, Read(TRUE)
    PROVE  Tracks' /\ Compares' /\ InTime'
<1>0. PICK n : n = Len(readings)  OBVIOUS
<1>1. PICK s : s = Snapshot(Payload(TRUE), clock)  OBVIOUS
<1>2. PICK f : f = fact  OBVIOUS
<1>3. PICK m : m = modem  OBVIOUS
<1>4. PICK t \in Nat \ {0} : t = clock  BY DEF EInv, InTime
<1>5. /\ modem' = m /\ fact' = f /\ clock' = t + 1
      /\ readings' = Append(readings, s) /\ facts' = Append(facts, f)
  BY <1>1, <1>2, <1>3, <1>4 DEF Read, lineVars
<1>6. IsSeq(readings) /\ IsSeq(facts) /\ Len(facts) = n /\ n \in Nat /\ LineTypeOK
  BY <1>0, SeqFacts DEF EInv, RInv, TablesTypeOK
<1>7. /\ Len(readings') = n + 1
      /\ \A j \in 1..n : readings'[j] = readings[j] /\ facts'[j] = facts[j]
      /\ readings'[n + 1] = s /\ facts'[n + 1] = f
  BY <1>0, <1>5, <1>6, AppendFacts
<1>8. /\ s.time = t /\ DOMAIN s.down \subseteq Down
      /\ \A c \in DOMAIN s.down : s.down[c].corr = m[c].corr /\ s.down[c].lost = m[c].lost
  <2> DEFINE r == Snapshot(Payload(TRUE), clock)
  <2>1. /\ r.time = clock /\ DOMAIN r.down \subseteq Down
        /\ \A c \in DOMAIN r.down : r.down[c].corr = modem[c].corr /\ r.down[c].lost = modem[c].lost
    BY SnapshotFacts
  <2>2. s = r
    BY <1>1
  <2> HIDE DEF r
  <2> QED BY <1>3, <1>4, <2>1, <2>2
<1>9. /\ f.boots \in Nat /\ DOMAIN m = Down
      /\ \A c \in Down : f.resets[c] \in Nat /\ f.corr[c] \in Nat /\ f.lost[c] \in Nat
      /\ \A c \in Down : m[c].corr \in Nat /\ m[c].lost \in Nat
  BY <1>2, <1>3, <1>6, LineFacts DEF LineTypeOK
<1>10. \A i \in 1..(n + 1) : i \in 1..n \/ i = n + 1  BY <1>6
<1>11. ASSUME NEW i \in 1..n
       PROVE  Accounts(i, f, m)
  BY <1>0, <1>2, <1>3 DEF EInv, Tracks
<1>12. ASSUME NEW i \in 1..n
       PROVE  Accounts(i, f, m)' /\ Accounts(i, f, s.down)'
  <2>1. Accounts(i, f, m)  BY <1>11
  <2>2. readings'[i] = readings[i] /\ facts'[i] = facts[i]  BY <1>7
  <2>3. Accounts(i, f, m)'  BY <2>1, <2>2 DEF Accounts
  <2>4. Accounts(i, f, s.down)'  BY <1>8, <1>9, <2>1, <2>2 DEF Accounts
  <2> QED  BY <2>3, <2>4
<1>13. Accounts(n + 1, f, m)'
  <2>1. f.boots <= f.boots /\ \A c \in Down : f.resets[c] <= f.resets[c]  BY <1>9
  <2>2. ASSUME NEW c \in DOMAIN s.down
        PROVE  /\ Grew(s.down[c].corr, f.corr[c], m[c].corr, f.corr[c], TRUE)
               /\ Grew(s.down[c].lost, f.lost[c], m[c].lost, f.lost[c], TRUE)
    <3>1. s.down[c].corr = m[c].corr /\ s.down[c].lost = m[c].lost /\ c \in Down  BY <1>8
    <3>2. m[c].corr \in Nat /\ m[c].lost \in Nat /\ f.corr[c] \in Nat /\ f.lost[c] \in Nat
      BY <1>9, <3>1
    <3> QED  BY <3>1, <3>2 DEF Grew
  <2> QED  BY <1>7, <2>1, <2>2 DEF Accounts
<1>14. Tracks'
  <2>1. \A i \in 1..(n + 1) : Accounts(i, f, m)'  BY <1>10, <1>12, <1>13
  <2> QED  BY <1>5, <1>7, <2>1 DEF Tracks
<1>15. Compares'
  <2>1. ASSUME NEW i \in 1..(n + 1), NEW j \in 1..(n + 1), i < j
        PROVE  Accounts(i, facts[j], readings[j].down)'
    <3>1. i \in 1..n  BY <1>6, <2>1
    <3>2. CASE j = n + 1
      <4>1. facts'[j] = f /\ readings'[j] = s  BY <1>7, <3>2
      <4>2. Accounts(i, f, s.down)'  BY <1>12, <3>1
      <4> QED  BY <4>1, <4>2
    <3>3. CASE j \in 1..n
      <4>1. Accounts(i, facts[j], readings[j].down)  BY <1>0, <2>1, <3>1, <3>3 DEF EInv, Compares
      <4>2. readings'[i] = readings[i] /\ facts'[i] = facts[i] /\ readings'[j] = readings[j] /\ facts'[j] = facts[j]
        BY <1>7, <3>1, <3>3
      <4> QED  BY <4>1, <4>2 DEF Accounts
    <3> QED  BY <1>10, <3>2, <3>3
  <2> QED  BY <1>7, <2>1 DEF Compares
<1>16. InTime'
  <2>1. \A i \in 1..n : readings[i].time \in Nat \ {0} /\ readings[i].time < t
    BY <1>0, <1>4 DEF EInv, InTime
  <2>2. \A i \in 1..n : \A j \in 1..n : i < j => readings[i].time < readings[j].time
    BY <1>0 DEF EInv, InTime
  <2>3. \A i \in 1..(n + 1) : readings'[i].time \in Nat \ {0} /\ readings'[i].time < t + 1
    BY <1>7, <1>8, <1>10, <2>1
  <2>4. ASSUME NEW i \in 1..(n + 1), NEW j \in 1..(n + 1), i < j
        PROVE  readings'[i].time < readings'[j].time
    <3>1. i \in 1..n  BY <1>6, <2>4
    <3>2. readings'[i].time = readings[i].time  BY <1>7, <3>1
    <3>3. CASE j = n + 1  BY <1>7, <1>8, <2>1, <3>1, <3>2, <3>3
    <3>4. CASE j \in 1..n  BY <1>7, <2>2, <2>4, <3>1, <3>2, <3>4
    <3> QED  BY <1>10, <3>3, <3>4
  <2> QED  BY <1>5, <1>7, <2>3, <2>4 DEF InTime
<1> QED  BY <1>14, <1>15, <1>16

LEMMA EInvInit == ReadingsInit => EInv
<1>1. Len(<< >>) = 0 /\ 1..0 = {}  OBVIOUS
<1> QED  BY <1>1, RInvInit DEF ReadingsInit, EInv, Tracks, Compares, InTime

LEMMA EInvNext ==
    ASSUME ~ErrorsMayLack, EInv, [ReadingsNext]_readingsVars
    PROVE  EInv'
<1>1. RInv'  BY RInvNext DEF EInv
<1>2. RInv /\ Tracks /\ Compares /\ InTime /\ LineTypeOK'  BY <1>1 DEF EInv, RInv
<1>3. ASSUME UNCHANGED <<readings, facts>>
      PROVE  Compares'
  BY <1>2, <1>3 DEF Compares, Accounts
<1>4. ASSUME UNCHANGED <<readings, clock>>
      PROVE  InTime'
  BY <1>2, <1>4 DEF InTime
<1>5. ASSUME NEW c \in Down, NEW e \in ErrorSteps, Errors(c, e)
      PROVE  EInv'
  <2>1. UNCHANGED <<readings, facts, clock>>  BY <1>5 DEF Errors, Change, tableVars
  <2>2. Tracks'  BY <1>2, <1>5, ErrorsTracked
  <2> QED  BY <1>1, <1>3, <1>4, <2>1, <2>2 DEF EInv
<1>6. CASE Reboot
  <2>1. UNCHANGED <<readings, facts, clock>>  BY <1>6 DEF Reboot, Change, tableVars
  <2>2. Tracks'  BY <1>2, <1>6, RebootTracked
  <2> QED  BY <1>1, <1>3, <1>4, <2>1, <2>2 DEF EInv
<1>7. ASSUME NEW c \in Down, ResetAlone(c)
      PROVE  EInv'
  <2>1. UNCHANGED <<readings, facts, clock>>  BY <1>7 DEF ResetAlone, Change, tableVars
  <2>2. Tracks'  BY <1>2, <1>7, ResetTracked
  <2> QED  BY <1>1, <1>3, <1>4, <2>1, <2>2 DEF EInv
<1>8. ASSUME NEW c \in Down,
             \/ LockOrUnlock(c)
             \/ \E p \in Powers, q \in Snrs : Signal(c, p, q)
             \/ \E o \in Orders : Modulate(c, o)
      PROVE  EInv'
  <2>1. UNCHANGED <<readings, facts, fact, clock>>
    BY <1>8 DEF LockOrUnlock, Signal, Modulate, Change, tableVars
  <2>2. modem \in [Down -> Receiver]  BY <1>2 DEF LineTypeOK, RInv
  <2>3. modem[c] \in Receiver  BY <2>2
  <2>4. \E r : modem' = [modem EXCEPT ![c] = r] /\ r.corr = modem[c].corr /\ r.lost = modem[c].lost
    <3>1. CASE LockOrUnlock(c)
      <4>1. modem' = [modem EXCEPT ![c] = [modem[c] EXCEPT !.locked = ~@]]  BY <3>1 DEF LockOrUnlock
      <4>2. [modem[c] EXCEPT !.locked = ~@].corr = modem[c].corr /\ [modem[c] EXCEPT !.locked = ~@].lost = modem[c].lost
        BY <2>3 DEF Receiver
      <4> QED  BY <4>1, <4>2
    <3>2. ASSUME NEW p \in Powers, NEW q \in Snrs, Signal(c, p, q)
          PROVE  \E r : modem' = [modem EXCEPT ![c] = r] /\ r.corr = modem[c].corr /\ r.lost = modem[c].lost
      <4>1. modem' = [modem EXCEPT ![c] = [modem[c] EXCEPT !.power = p, !.snr = q]]  BY <3>2 DEF Signal
      <4>2. /\ [modem[c] EXCEPT !.power = p, !.snr = q].corr = modem[c].corr
            /\ [modem[c] EXCEPT !.power = p, !.snr = q].lost = modem[c].lost
        BY <2>3 DEF Receiver
      <4> QED  BY <4>1, <4>2
    <3>3. ASSUME NEW o \in Orders, Modulate(c, o)
          PROVE  \E r : modem' = [modem EXCEPT ![c] = r] /\ r.corr = modem[c].corr /\ r.lost = modem[c].lost
      <4>1. modem' = [modem EXCEPT ![c] = [modem[c] EXCEPT !.mod = o]]  BY <3>3 DEF Modulate
      <4>2. [modem[c] EXCEPT !.mod = o].corr = modem[c].corr /\ [modem[c] EXCEPT !.mod = o].lost = modem[c].lost
        BY <2>3 DEF Receiver
      <4> QED  BY <4>1, <4>2
    <3> QED  BY <1>8, <3>1, <3>2, <3>3
  <2>5. \A d \in Down : modem'[d].corr = modem[d].corr /\ modem'[d].lost = modem[d].lost
    BY <2>2, <2>4
  <2>6. Tracks'  BY <1>2, <2>1, <2>5, SameTracked
  <2> QED  BY <1>1, <1>3, <1>4, <2>1, <2>6 DEF EInv
<1>9. ASSUME \/ \E u \in Up : UpLockOrUnlock(u)
             \/ \E u \in Up, p \in UpPowers : UpSignal(u, p)
             \/ \E u \in Up, o \in Orders : UpModulate(u, o)
             \/ Record \/ RecordFails
             \/ UNCHANGED readingsVars
      PROVE  EInv'
  <2>1. UNCHANGED <<modem, fact, readings, facts, clock>>
    BY <1>9 DEF UpLockOrUnlock, UpSignal, UpModulate, Record, RecordFails, readingsVars, Change, lineVars, tableVars
  <2>2. Tracks'  BY <1>2, <2>1, SameTracked
  <2> QED  BY <1>1, <1>3, <1>4, <2>1, <2>2 DEF EInv
<1>10. CASE NoReading
  <2>1. UNCHANGED <<modem, fact, readings, facts>> /\ clock' = clock + 1  BY <1>10 DEF NoReading, lineVars
  <2>2. Tracks'  BY <1>2, <2>1, SameTracked
  <2>3. PICK t \in Nat \ {0} : t = clock  BY <1>2 DEF InTime
  <2>4. \A i \in 1..Len(readings) : readings[i].time \in Nat \ {0} /\ readings[i].time < t
    BY <1>2, <2>3 DEF InTime
  <2>5. \A i \in 1..Len(readings) : readings[i].time < t + 1  BY <2>4
  <2>6. InTime'
    BY <1>2, <2>1, <2>3, <2>4, <2>5 DEF InTime
  <2> QED  BY <1>1, <1>3, <2>1, <2>2, <2>6 DEF EInv
<1>11. ASSUME NEW whole \in (IF ErrorsMayLack THEN BOOLEAN ELSE {TRUE}), Read(whole)
       PROVE  EInv'
  <2>1. whole = TRUE  OBVIOUS
  <2> QED  BY <1>1, <1>11, <2>1, ReadTracked DEF EInv
<1> QED  BY <1>5, <1>6, <1>7, <1>8, <1>9, <1>10, <1>11 DEF ReadingsNext

-----------------------------------------------------------------------------
(* The errors of a window, from its first reading to its last. *)

LEMMA WindowFacts ==
    ASSUME EInv
    PROVE  /\ DOMAIN readings = 1..Len(readings) /\ IsFiniteSet(1..Len(readings))
           /\ \A t : Before(t) \subseteq 1..Len(readings) /\ IsFiniteSet(Before(t))
           /\ \A from, to : Span(from, to) \subseteq 1..Len(readings) /\ IsFiniteSet(Span(from, to))
<1>1. DOMAIN readings = 1..Len(readings) /\ Len(readings) \in Nat
  BY SeqFacts DEF EInv, RInv, TablesTypeOK
<1>2. IsFiniteSet(1..Len(readings))  BY <1>1, FS_Interval
<1>3. \A S \in SUBSET (1..Len(readings)) : IsFiniteSet(S)  BY <1>2, FS_Subset
<1>4. \A t : Before(t) \in SUBSET (1..Len(readings))  BY <1>1 DEF Before
<1>5. ASSUME NEW from, NEW to
      PROVE  Span(from, to) \in SUBSET (1..Len(readings))
  <2>1. Between(from, to) \subseteq 1..Len(readings)  BY <1>1 DEF Between
  <2>2. Before(from) # {} => Max(Before(from)) \in Before(from)
    <3>1. IsFiniteSet(Before(from)) /\ Before(from) \subseteq Int  BY <1>1, <1>3, <1>4
    <3> QED  BY <3>1, MaxExists
  <2> QED  BY <1>4, <2>1, <2>2 DEF Span
<1> QED  BY <1>1, <1>2, <1>3, <1>4, <1>5

CorrDelta(c, P) == [p \in P |-> CounterDelta(readings[p[1]].down[c].corr, readings[p[2]].down[c].corr)]
LostDelta(c, P) == [p \in P |-> CounterDelta(readings[p[1]].down[c].lost, readings[p[2]].down[c].lost)]

LEMMA GrowthIs ==
    ASSUME NEW c, NEW P
    PROVE  Growth(c, P) = [corr |-> SumOf(CorrDelta(c, P), P), lost |-> SumOf(LostDelta(c, P), P)]
<1> DEFINE f(p) == CounterDelta(readings[p[1]].down[c].corr, readings[p[2]].down[c].corr)
           g(p) == CounterDelta(readings[p[1]].down[c].lost, readings[p[2]].down[c].lost)
<1>1. MapThenSumSet(f, P) = SumOf([p \in P |-> f(p)], P)  BY SumOfFunction
<1>2. MapThenSumSet(g, P) = SumOf([p \in P |-> g(p)], P)  BY SumOfFunction
<1>3. Growth(c, P) = [corr |-> MapThenSumSet(f, P), lost |-> MapThenSumSet(g, P)]  BY DEF Growth
<1> QED  BY <1>1, <1>2, <1>3 DEF CorrDelta, LostDelta

(* From one reading of a channel to a later one. *)
LEMMA Apart ==
    ASSUME EInv, NEW c \in Down, NEW i \in 1..Len(readings), NEW j \in 1..Len(readings), i < j,
           c \in DOMAIN readings[i].down, c \in DOMAIN readings[j].down
    PROVE  /\ CounterDelta(readings[i].down[c].corr, readings[j].down[c].corr) \in Int
           /\ CounterDelta(readings[i].down[c].lost, readings[j].down[c].lost) \in Int
           /\ CounterDelta(readings[i].down[c].corr, readings[j].down[c].corr) <= facts[j].corr[c] - facts[i].corr[c]
           /\ CounterDelta(readings[i].down[c].lost, readings[j].down[c].lost) <= facts[j].lost[c] - facts[i].lost[c]
           /\ Kept(c, i, j) =>
                /\ CounterDelta(readings[i].down[c].corr, readings[j].down[c].corr) = facts[j].corr[c] - facts[i].corr[c]
                /\ CounterDelta(readings[i].down[c].lost, readings[j].down[c].lost) = facts[j].lost[c] - facts[i].lost[c]
<1>1. Accounts(i, facts[j], readings[j].down)  BY DEF EInv, Compares
<1>2. PICK k : k = (facts[i].boots = facts[j].boots /\ facts[i].resets[c] = facts[j].resets[c])  OBVIOUS
<1>3. /\ Grew(readings[i].down[c].corr, facts[i].corr[c], readings[j].down[c].corr, facts[j].corr[c], k)
      /\ Grew(readings[i].down[c].lost, facts[i].lost[c], readings[j].down[c].lost, facts[j].lost[c], k)
      /\ k \in BOOLEAN /\ (Kept(c, i, j) => k)
  BY <1>1, <1>2 DEF Accounts, Kept
<1>4. RInv  BY DEF EInv
<1>5. PICK x \in Nat, f \in Nat, y \in Nat, g \in Nat :
           x = readings[i].down[c].corr /\ f = facts[i].corr[c] /\ y = readings[j].down[c].corr /\ g = facts[j].corr[c]
  BY <1>4, RowFacts
<1>6. PICK z \in Nat, h \in Nat, w \in Nat, l \in Nat :
           z = readings[i].down[c].lost /\ h = facts[i].lost[c] /\ w = readings[j].down[c].lost /\ l = facts[j].lost[c]
  BY <1>4, RowFacts
<1>9. Grew(x, f, y, g, k) /\ Grew(z, h, w, l, k) /\ k \in BOOLEAN
  BY <1>3, <1>5, <1>6
<1>7. CounterDelta(x, y) \in Int /\ CounterDelta(x, y) <= g - f /\ (k => CounterDelta(x, y) = g - f)
  BY <1>9 DEF Grew, CounterDelta
<1>8. CounterDelta(z, w) \in Int /\ CounterDelta(z, w) <= l - h /\ (k => CounterDelta(z, w) = l - h)
  BY <1>9 DEF Grew, CounterDelta
<1> QED  BY <1>3, <1>5, <1>6, <1>7, <1>8

LEMMA StepsAre == ASSUME NEW c, NEW I PROVE Steps(c, I) = Pairs({i \in I : c \in DOMAIN readings[i].down})
BY DEF Steps, Pairs

(* Restarts and resets only grow. *)
LEMMA KeptBetween ==
    ASSUME EInv, NEW c \in Down, NEW i \in 1..Len(readings), NEW j \in 1..Len(readings),
           NEW a \in 1..Len(readings), NEW b \in 1..Len(readings), i <= a, a < b, b <= j, Kept(c, i, j)
    PROVE  Kept(c, a, b)
<1>1. RInv  BY DEF EInv
<1>2. \A m \in 1..Len(readings) : facts[m].boots \in Nat /\ facts[m].resets[c] \in Nat
  BY <1>1, RowFacts
<1>3. \A m \in 1..Len(readings) : \A n \in 1..Len(readings) : m <= n =>
          facts[m].boots <= facts[n].boots /\ facts[m].resets[c] <= facts[n].resets[c]
  <2> TAKE m \in 1..Len(readings)
  <2> TAKE n \in 1..Len(readings)
  <2>1. CASE m < n  BY <2>1 DEF EInv, Compares, Accounts
  <2>2. CASE m = n  BY <1>2, <2>2
  <2>3. m \in Int /\ n \in Int  BY <1>1, SeqFacts DEF RInv, TablesTypeOK
  <2> QED  BY <2>1, <2>2, <2>3
<1>4. a <= b
  <2>1. a \in Int /\ b \in Int  BY <1>1, SeqFacts DEF RInv, TablesTypeOK
  <2> QED  BY <2>1
<1>5. /\ facts[i].boots <= facts[a].boots /\ facts[a].boots <= facts[b].boots /\ facts[b].boots <= facts[j].boots
      /\ facts[i].resets[c] <= facts[a].resets[c] /\ facts[a].resets[c] <= facts[b].resets[c]
      /\ facts[b].resets[c] <= facts[j].resets[c]
  BY <1>3, <1>4
<1>6. facts[i].boots = facts[j].boots /\ facts[i].resets[c] = facts[j].resets[c]  BY DEF Kept
<1>7. facts[a].boots = facts[b].boots
  BY <1>2, <1>5, <1>6
<1>8. facts[a].resets[c] = facts[b].resets[c]
  BY <1>2, <1>5, <1>6
<1> QED  BY <1>7, <1>8 DEF Kept

LEMMA GrowthIsReal ==
    ASSUME EInv, NEW c \in Down, NEW S, S \subseteq 1..Len(readings), S # {},
           \A i \in S : c \in DOMAIN readings[i].down
    PROVE  LET told == Growth(c, Pairs(S))
               real == Real(c, Min(S), Max(S))
           IN /\ told.corr <= real.corr /\ told.lost <= real.lost
              /\ Kept(c, Min(S), Max(S)) => told = real
<1>0. S \subseteq Int /\ IsFiniteSet(S)
  <2>1. IsFiniteSet(1..Len(readings))  BY WindowFacts
  <2>2. 1..Len(readings) \subseteq Int  OBVIOUS
  <2> QED  BY <2>1, <2>2, FS_Subset
<1>1. PICK i \in S : i = Min(S) /\ \A y \in S : i <= y  BY <1>0, MinExists
<1>2. PICK j \in S : j = Max(S) /\ \A y \in S : y <= j  BY <1>0, MaxExists
<1>3. RInv  BY DEF EInv
<1> DEFINE f == [n \in S |-> facts[n].corr[c]]
           h == [n \in S |-> facts[n].lost[c]]
           g == CorrDelta(c, Pairs(S))
           k == LostDelta(c, Pairs(S))
<1>4. \A n \in S : f[n] = facts[n].corr[c] /\ h[n] = facts[n].lost[c] /\ f[n] \in Int /\ h[n] \in Int
  BY <1>3, RowFacts
<1>5. ASSUME NEW p \in Pairs(S)
      PROVE  /\ g[p] \in Int /\ g[p] <= f[p[2]] - f[p[1]]
             /\ k[p] \in Int /\ k[p] <= h[p[2]] - h[p[1]]
             /\ Kept(c, i, j) => g[p] = f[p[2]] - f[p[1]] /\ k[p] = h[p[2]] - h[p[1]]
  <2>1. PICK a \in S, b \in S : a = p[1] /\ b = p[2] /\ a < b  BY PairFacts
  <2>2. /\ g[p] = CounterDelta(readings[a].down[c].corr, readings[b].down[c].corr)
        /\ k[p] = CounterDelta(readings[a].down[c].lost, readings[b].down[c].lost)
    BY <2>1 DEF CorrDelta, LostDelta
  <2>3. a \in 1..Len(readings) /\ b \in 1..Len(readings) /\ i \in 1..Len(readings) /\ j \in 1..Len(readings)
        /\ c \in DOMAIN readings[a].down /\ c \in DOMAIN readings[b].down
    OBVIOUS
  <2>4. Kept(c, i, j) => Kept(c, a, b)
    <3>1. i <= a /\ b <= j  BY <1>1, <1>2
    <3> QED  BY <2>1, <2>3, <3>1, KeptBetween
  <2> DEFINE u == CounterDelta(readings[a].down[c].corr, readings[b].down[c].corr)
             v == CounterDelta(readings[a].down[c].lost, readings[b].down[c].lost)
  <2>5. /\ u \in Int /\ v \in Int /\ u <= facts[b].corr[c] - facts[a].corr[c] /\ v <= facts[b].lost[c] - facts[a].lost[c]
        /\ Kept(c, a, b) => u = facts[b].corr[c] - facts[a].corr[c] /\ v = facts[b].lost[c] - facts[a].lost[c]
    BY <2>1, <2>3, Apart
  <2>6. f[a] = facts[a].corr[c] /\ f[b] = facts[b].corr[c] /\ h[a] = facts[a].lost[c] /\ h[b] = facts[b].lost[c]
    OBVIOUS
  <2> HIDE DEF f, h, g, k, u, v
  <2> QED  BY <2>1, <2>2, <2>4, <2>5, <2>6 DEF u, v
<1> HIDE DEF f, h, g, k
<1>6. /\ SumOf(g, Pairs(S)) <= f[j] - f[i]
      /\ (\A p \in Pairs(S) : g[p] = f[p[2]] - f[p[1]]) => SumOf(g, Pairs(S)) = f[j] - f[i]
  <2>1. \A p \in Pairs(S) : g[p] \in Int /\ g[p] <= f[p[2]] - f[p[1]]  BY <1>5
  <2>2. \A x \in S : f[x] \in Int  BY <1>4
  <2> QED  BY <1>0, <1>1, <1>2, <2>1, <2>2, AtMostTheEnds
<1>7. /\ SumOf(k, Pairs(S)) <= h[j] - h[i]
      /\ (\A p \in Pairs(S) : k[p] = h[p[2]] - h[p[1]]) => SumOf(k, Pairs(S)) = h[j] - h[i]
  <2>1. \A p \in Pairs(S) : k[p] \in Int /\ k[p] <= h[p[2]] - h[p[1]]  BY <1>5
  <2>2. \A x \in S : h[x] \in Int  BY <1>4
  <2> QED  BY <1>0, <1>1, <1>2, <2>1, <2>2, AtMostTheEnds
<1>8. Growth(c, Pairs(S)) = [corr |-> SumOf(g, Pairs(S)), lost |-> SumOf(k, Pairs(S))]
  BY GrowthIs DEF g, k
<1>9. Real(c, i, j) = [corr |-> f[j] - f[i], lost |-> h[j] - h[i]]
  BY <1>4 DEF Real
<1>10. Kept(c, i, j) => Growth(c, Pairs(S)) = Real(c, i, j)
  <2>1. SUFFICES ASSUME Kept(c, i, j) PROVE Growth(c, Pairs(S)) = Real(c, i, j)  OBVIOUS
  <2>2. SumOf(g, Pairs(S)) = f[j] - f[i] /\ SumOf(k, Pairs(S)) = h[j] - h[i]
    BY <1>5, <1>6, <1>7, <2>1
  <2> QED  BY <1>8, <1>9, <2>2
<1> QED  BY <1>1, <1>2, <1>6, <1>7, <1>8, <1>9, <1>10

(* At any time the counters of every reading account for those of a later  *)
(* one and of the modem, as EInv says: Totals.Read, CounterDelta and the   *)
(* order of the times collectOnce stores; for payloads that have the       *)
(* counters of all channels.                                               *)
THEOREM EInvariance ==
    ASSUME ~ErrorsMayLack
    PROVE  ReadingsSpec => []EInv
<1>1. ReadingsInit => EInv  BY EInvInit
<1>2. EInv /\ [ReadingsNext]_readingsVars => EInv'  BY EInvNext
<1> QED  BY <1>1, <1>2, PTL DEF ReadingsSpec

(* The errors a report counts in any window (ErrorTotals, CounterDelta) are *)
(* at most those the channel really had from its first reading there to its *)
(* last, and exactly those if its counters were not reset between; for     *)
(* payloads that have the counters of all channels.                        *)
THEOREM ErrorsReal ==
    ASSUME ~ErrorsMayLack
    PROVE  ReadingsSpec => []ErrorsAreReal
<1>1. EInv => ErrorsAreReal
  <2>0. \A from : \A to : DOMAIN ErrorTotals(from, to) = Counted(from, to)  BY DEF ErrorTotals
  <2>1. SUFFICES ASSUME EInv, NEW to \in 1..clock, NEW from \in 1..to, NEW c \in Counted(from, to)
                 PROVE  LET seen == Seen(c, from, to)
                            i == Min(seen)
                            j == Max(seen)
                            told == ErrorTotals(from, to)[c]
                        IN /\ told.corr <= Real(c, i, j).corr /\ told.lost <= Real(c, i, j).lost
                           /\ Kept(c, i, j) => told = Real(c, i, j)
    BY <2>0 DEF ErrorsAreReal
  <2> DEFINE S == Seen(c, from, to)
  <2>2. c \in Down /\ Cardinality(S) > 1  BY DEF Counted, Seen
  <2>3. S # {}
    <3>1. Cardinality({}) = 0  BY FS_EmptySet
    <3> HIDE DEF S
    <3> QED  BY <2>2, <3>1
  <2>4. S \subseteq 1..Len(readings) /\ \A i \in S : c \in DOMAIN readings[i].down
    BY <2>1, WindowFacts DEF Seen
  <2>5. ErrorTotals(from, to)[c] = Growth(c, Pairs(S))
    BY StepsAre DEF ErrorTotals, Seen
  <2> HIDE DEF S
  <2> QED  BY <2>1, <2>2, <2>3, <2>4, <2>5, GrowthIsReal DEF S
<1> QED  BY <1>1, EInvariance, PTL

-----------------------------------------------------------------------------
(* The counts of the pages. *)

OfChannel(c, I) == {i \in I : c \in DOMAIN readings[i].down}
LostOf(c, S) == Growth(c, Pairs(S)).lost
Lost(c, i, j) == CounterDelta(readings[i].down[c].lost, readings[j].down[c].lost)

LEMMA LostFacts ==
    ASSUME EInv, NEW c, NEW i \in 1..Len(readings), NEW j \in 1..Len(readings),
           c \in DOMAIN readings[i].down, c \in DOMAIN readings[j].down
    PROVE  Lost(c, i, j) \in Nat
<1>1. RInv  BY DEF EInv
<1>2. PICK x \in Nat, y \in Nat : x = readings[i].down[c].lost /\ y = readings[j].down[c].lost
  BY <1>1, RowFacts
<1>3. CounterDelta(x, y) \in Nat  BY DEF CounterDelta
<1> QED  BY <1>2, <1>3 DEF Lost

LEMMA LostOfFacts ==
    ASSUME EInv, NEW c, NEW S \in SUBSET (1..Len(readings)), \A i \in S : c \in DOMAIN readings[i].down
    PROVE  /\ LostOf(c, S) = SumOf(LostDelta(c, Pairs(S)), Pairs(S)) /\ LostOf(c, S) \in Int
           /\ IsFiniteSet(S) /\ S \subseteq Int /\ IsFiniteSet(Pairs(S))
           /\ \A p \in Pairs(S) : LostDelta(c, Pairs(S))[p] = Lost(c, p[1], p[2]) /\ Lost(c, p[1], p[2]) \in Nat
<1>1. IsFiniteSet(S) /\ S \subseteq Int
  <2>1. IsFiniteSet(1..Len(readings))  BY WindowFacts
  <2>2. 1..Len(readings) \subseteq Int  OBVIOUS
  <2> QED  BY <2>1, <2>2, FS_Subset
<1>2. IsFiniteSet(Pairs(S))  BY <1>1, PairsAreFinite
<1>3. LostOf(c, S) = SumOf(LostDelta(c, Pairs(S)), Pairs(S))
  BY GrowthIs DEF LostOf
<1>4. ASSUME NEW p \in Pairs(S)
      PROVE  LostDelta(c, Pairs(S))[p] = Lost(c, p[1], p[2]) /\ Lost(c, p[1], p[2]) \in Nat
  <2>1. p[1] \in S /\ p[2] \in S  BY PairFacts
  <2>2. Lost(c, p[1], p[2]) \in Nat  BY <2>1, LostFacts
  <2> QED  BY <2>2 DEF LostDelta, Lost
<1>5. \A p \in Pairs(S) : LostDelta(c, Pairs(S))[p] \in Int  BY <1>4
<1>6. SumOf(LostDelta(c, Pairs(S)), Pairs(S)) \in Int  BY <1>2, <1>5, SumTakesOut
<1> QED  BY <1>1, <1>2, <1>3, <1>4, <1>6

LEMMA MorePairsMoreLost ==
    ASSUME EInv, NEW c, NEW S \in SUBSET (1..Len(readings)), NEW T \in SUBSET (1..Len(readings)),
           \A i \in S \cup T : c \in DOMAIN readings[i].down, Pairs(S) \subseteq Pairs(T)
    PROVE  LostOf(c, S) <= LostOf(c, T)
<1> DEFINE g == LostDelta(c, Pairs(S))
           h == LostDelta(c, Pairs(T))
<1>1. /\ LostOf(c, S) = SumOf(g, Pairs(S)) /\ IsFiniteSet(Pairs(S))
      /\ \A p \in Pairs(S) : g[p] = Lost(c, p[1], p[2])
  BY LostOfFacts
<1>2. /\ LostOf(c, T) = SumOf(h, Pairs(T)) /\ IsFiniteSet(Pairs(T))
      /\ \A p \in Pairs(T) : h[p] = Lost(c, p[1], p[2]) /\ Lost(c, p[1], p[2]) \in Nat
  BY LostOfFacts
<1> HIDE DEF g, h
<1>3. SumOf(g, Pairs(S)) = SumOf(h, Pairs(S))
  <2>1. \A p \in Pairs(S) : g[p] \in Int /\ g[p] = h[p]
    <3> TAKE p \in Pairs(S)
    <3>1. g[p] = Lost(c, p[1], p[2]) /\ h[p] = Lost(c, p[1], p[2]) /\ Lost(c, p[1], p[2]) \in Nat  BY <1>1, <1>2
    <3> QED  BY <3>1
  <2> QED  BY <1>1, <2>1, SumEqual
<1>4. SumOf(h, Pairs(S)) <= SumOf(h, Pairs(T))
  <2>1. \A p \in Pairs(T) : h[p] \in Nat  BY <1>2
  <2> QED  BY <1>2, <2>1, SumOfMore
<1> QED  BY <1>1, <1>2, <1>3, <1>4

LEMMA FewHaveNoPairs ==
    ASSUME NEW S, S \subseteq Int, IsFiniteSet(S), ~(Cardinality(S) > 1)
    PROVE  Pairs(S) = {}
<1>1. SUFFICES ASSUME NEW p \in Pairs(S) PROVE FALSE
  OBVIOUS
<1>2. PICK a \in S, b \in S : a < b  BY PairFacts
<1>3. a \in Int /\ b \in Int /\ a # b  BY <1>2
<1>4. IsFiniteSet({a}) /\ Cardinality({a}) = 1  BY FS_Singleton
<1>5. Cardinality({a} \cup {b}) = Cardinality({a}) + 1  BY <1>3, <1>4, FS_AddElement
<1>6. {a} \cup {b} \subseteq S  OBVIOUS
<1>7. Cardinality({a} \cup {b}) <= Cardinality(S)  BY <1>6, FS_Subset
<1>8. Cardinality(S) \in Nat  BY FS_CardinalityType
<1> QED  BY <1>4, <1>5, <1>7, <1>8

(* The readings of a window follow one another, after the one before it. *)
LEMMA WindowOrder ==
    ASSUME EInv, NEW to \in 1..clock, NEW from \in 1..to
    PROVE  /\ \A i \in 1..Len(readings) : \A j \in 1..Len(readings) : readings[i].time <= readings[j].time <=> i <= j
           /\ \A i \in 1..Len(readings) : readings[i].time \in Nat
           /\ Between(from, to) \subseteq Span(from, to)
           /\ \A i \in Before(from) : \A j \in Between(from, to) : i < j
           /\ \A i \in Span(from, to) : \A j \in Span(from, to) : j < i => i \in Between(from, to)
           /\ Before(from) # {} => Span(from, to) = Between(from, to) \cup {Max(Before(from))}
           /\ Before(from) = {} => Span(from, to) = Between(from, to)
           /\ Before(from) # {} => Max(Before(from)) \in Before(from) /\ \A i \in Before(from) : i <= Max(Before(from))
<1>1. Len(readings) \in Nat /\ DOMAIN readings = 1..Len(readings) /\ from \in Nat /\ to \in Nat /\ from <= to
  BY SeqFacts DEF EInv, RInv, TablesTypeOK, InTime
<1>2. \A i \in 1..Len(readings) : readings[i].time \in Nat  BY DEF EInv, InTime
<1>3. \A i \in 1..Len(readings) : \A j \in 1..Len(readings) : i < j => readings[i].time < readings[j].time
  BY DEF EInv, InTime
<1>4. ASSUME NEW i \in 1..Len(readings), NEW j \in 1..Len(readings)
      PROVE  readings[i].time <= readings[j].time <=> i <= j
  <2>1. PICK s \in Nat, t \in Nat : s = readings[i].time /\ t = readings[j].time  BY <1>2
  <2>2. i \in Nat /\ j \in Nat  BY <1>1
  <2>3. (i < j => s < t) /\ (j < i => t < s) /\ (i = j => s = t)  BY <1>3, <2>1
  <2> QED  BY <2>1, <2>2, <2>3
<1>5. Between(from, to) \subseteq Span(from, to)  BY DEF Span
<1>6. ASSUME NEW i \in Before(from), NEW j \in Between(from, to)
      PROVE  i < j
  <2>1. i \in 1..Len(readings) /\ j \in 1..Len(readings)  BY <1>1 DEF Before, Between
  <2>2. readings[i].time < from /\ from <= readings[j].time  BY <1>1, <1>2 DEF Before, Between
  <2>3. ~(readings[j].time <= readings[i].time)  BY <1>1, <1>2, <2>1, <2>2
  <2>4. ~(j <= i)  BY <1>4, <2>1, <2>3
  <2> QED  BY <1>1, <2>1, <2>4
<1>7. Before(from) # {} => Max(Before(from)) \in Before(from) /\ \A i \in Before(from) : i <= Max(Before(from))
  <2>1. Before(from) \subseteq Int /\ IsFiniteSet(Before(from))  BY <1>1, WindowFacts
  <2> QED  BY <2>1, MaxExists
<1>8. /\ Before(from) # {} => Span(from, to) = Between(from, to) \cup {Max(Before(from))}
      /\ Before(from) = {} => Span(from, to) = Between(from, to)
  BY DEF Span
<1>9. ASSUME NEW i \in Span(from, to), NEW j \in Span(from, to), j < i
      PROVE  i \in Between(from, to)
  <2>1. SUFFICES ASSUME Before(from) # {}, i = Max(Before(from)) PROVE FALSE
    BY <1>8
  <2>0. i \in 1..Len(readings) /\ j \in 1..Len(readings)  BY WindowFacts
  <2>2. j # i
    <3>1. i \in Nat /\ j \in Nat  BY <1>1, <2>0
    <3> QED  BY <1>9, <3>1
  <2>3. j \in Between(from, to)  BY <1>8, <2>1, <2>2
  <2>4. i < j  BY <1>6, <1>7, <2>1, <2>3
  <2>5. i \in Int /\ j \in Int  BY <1>1, <2>0
  <2> QED  BY <1>9, <2>4, <2>5
<1> QED  BY <1>2, <1>4, <1>5, <1>6, <1>7, <1>8, <1>9

HistoryRows(c, from, to) ==
    OfChannel(c, Between(from, to)) \cup
    (IF OfChannel(c, Before(from)) = {} THEN {} ELSE {Max(OfChannel(c, Before(from)))})

(* The page of a channel has the pairs of the report, and maybe one more. *)
LEMMA HistoryFacts ==
    ASSUME EInv, NEW to \in 1..clock, NEW from \in 1..to, NEW c \in Down
    PROVE  /\ HistoryRows(c, from, to) \in SUBSET (1..Len(readings))
           /\ \A i \in HistoryRows(c, from, to) : c \in DOMAIN readings[i].down
           /\ ErrorHistory(c, from, to).lost = LostOf(c, HistoryRows(c, from, to))
           /\ Pairs(Seen(c, from, to)) \subseteq Pairs(HistoryRows(c, from, to))
           /\ (\A i \in 1..Len(readings) : c \in DOMAIN readings[i].down)
                 => HistoryRows(c, from, to) = Seen(c, from, to)
<1> DEFINE T == HistoryRows(c, from, to)
           S == Seen(c, from, to)
           M == OfChannel(c, Before(from))
<1>1. /\ DOMAIN readings = 1..Len(readings) /\ Len(readings) \in Nat
      /\ Before(from) \in SUBSET (1..Len(readings)) /\ Between(from, to) \in SUBSET (1..Len(readings))
      /\ Span(from, to) \in SUBSET (1..Len(readings))
  <2>1. Len(readings) \in Nat  BY SeqFacts DEF EInv, RInv, TablesTypeOK
  <2> QED  BY <2>1, WindowFacts DEF Between
<1>2. M # {} => Max(M) \in M /\ \A i \in M : i <= Max(M)
  <2>1. M \subseteq Before(from)  BY DEF OfChannel
  <2>2. M \subseteq Int /\ IsFiniteSet(M)
    <3>1. IsFiniteSet(Before(from))  BY WindowFacts
    <3>2. Before(from) \subseteq Int  BY <1>1
    <3> HIDE DEF M
    <3> QED  BY <2>1, <3>1, <3>2, FS_Subset
  <2> HIDE DEF M
  <2> QED  BY <2>2, MaxExists
<1>3. M \subseteq Before(from) /\ \A i \in M : c \in DOMAIN readings[i].down  BY DEF OfChannel
<1>4. T = OfChannel(c, Between(from, to)) \cup (IF M = {} THEN {} ELSE {Max(M)})
  BY DEF HistoryRows
<1> HIDE DEF M
<1>5. T \in SUBSET (1..Len(readings)) /\ \A i \in T : c \in DOMAIN readings[i].down
  <2>1. OfChannel(c, Between(from, to)) \subseteq 1..Len(readings)
        /\ \A i \in OfChannel(c, Between(from, to)) : c \in DOMAIN readings[i].down
    BY <1>1 DEF OfChannel
  <2>2. M # {} => Max(M) \in 1..Len(readings) /\ c \in DOMAIN readings[Max(M)].down
    BY <1>1, <1>2, <1>3
  <2> HIDE DEF T
  <2> QED  BY <1>4, <2>1, <2>2
<1>6. ErrorHistory(c, from, to).lost = LostOf(c, T)
  <2>1. OfChannel(c, T) = T  BY <1>5 DEF OfChannel
  <2>2. ErrorHistory(c, from, to) = Growth(c, Steps(c, T))
    BY DEF ErrorHistory, HistoryRows, OfChannel
  <2>3. Steps(c, T) = Pairs(OfChannel(c, T))  BY StepsAre DEF OfChannel
  <2> QED  BY <2>1, <2>2, <2>3 DEF LostOf
<1>7. S = OfChannel(c, Span(from, to))  BY DEF Seen, OfChannel
<1>8. /\ \A i \in Before(from) : \A j \in Between(from, to) : i < j
      /\ Between(from, to) \subseteq Span(from, to)
      /\ \A i \in Span(from, to) : i \notin Between(from, to) => i = Max(Before(from)) /\ Before(from) # {}
      /\ Before(from) # {} => Max(Before(from)) \in Before(from) /\ \A i \in Before(from) : i <= Max(Before(from))
      /\ Before(from) # {} => Span(from, to) = Between(from, to) \cup {Max(Before(from))}
      /\ Before(from) = {} => Span(from, to) = Between(from, to)
  <2>1. /\ Before(from) # {} => Span(from, to) = Between(from, to) \cup {Max(Before(from))}
        /\ Before(from) = {} => Span(from, to) = Between(from, to)
    BY WindowOrder
  <2>2. /\ \A i \in Before(from) : \A j \in Between(from, to) : i < j
        /\ Between(from, to) \subseteq Span(from, to)
        /\ Before(from) # {} => Max(Before(from)) \in Before(from) /\ \A i \in Before(from) : i <= Max(Before(from))
    BY WindowOrder
  <2>3. \A i \in Span(from, to) : i \notin Between(from, to) => i = Max(Before(from)) /\ Before(from) # {}
    BY <2>1
  <2> QED  BY <2>1, <2>2, <2>3
<1>9. ASSUME NEW i \in S
      PROVE  i \in T
  <2>1. i \in Span(from, to) /\ c \in DOMAIN readings[i].down  BY <1>7 DEF OfChannel
  <2>2. CASE i \in Between(from, to)  BY <1>4, <2>1, <2>2 DEF OfChannel
  <2>3. CASE i \notin Between(from, to)
    <3>1. i = Max(Before(from)) /\ i \in Before(from) /\ \A j \in Before(from) : j <= i  BY <1>8, <2>1, <2>3
    <3>2. i \in M  BY <2>1, <3>1 DEF M, OfChannel
    <3>3. Max(M) \in Before(from) /\ Max(M) <= i /\ i <= Max(M)  BY <1>2, <1>3, <3>1, <3>2
    <3>4. i \in Int /\ Max(M) \in Int
      <4>1. i \in 1..Len(readings) /\ Max(M) \in 1..Len(readings)  BY <1>1, <3>1, <3>3
      <4> QED  BY <1>1, <4>1
    <3>5. Max(M) = i  BY <3>3, <3>4
    <3> HIDE DEF T
    <3> QED  BY <1>4, <3>2, <3>5
  <2> QED  BY <2>2, <2>3
<1>10. ASSUME NEW p \in Pairs(S)
       PROVE  p \in Pairs(T)
  <2>1. PICK a \in S, b \in S : p = <<a, b>> /\ a < b /\ \A k \in S : ~(a < k /\ k < b)  BY PairFacts
  <2>2. a \in T /\ b \in T  BY <1>9
  <2>3. ASSUME NEW k \in T, a < k, k < b PROVE FALSE
    <3>1. k \notin S  BY <2>1, <2>3
    <3>2. k \notin OfChannel(c, Between(from, to))
      BY <1>7, <1>8, <3>1 DEF OfChannel
    <3>3. M # {} /\ k = Max(M) /\ k \in Before(from)
      <4> HIDE DEF T
      <4> QED  BY <1>2, <1>3, <1>4, <2>3, <3>2
    <3>4. a \in Span(from, to)  BY <1>7 DEF OfChannel
    <3>5. a \in 1..Len(readings) /\ k \in 1..Len(readings)  BY <1>1, <3>3, <3>4
    <3>6. k <= a \/ k < a
      <4>1. CASE a \in Between(from, to)  BY <1>8, <3>3, <4>1
      <4>2. CASE a \notin Between(from, to)
        <5>1. a = Max(Before(from)) /\ \A i \in Before(from) : i <= a  BY <1>8, <3>4, <4>2
        <5> QED  BY <3>3, <5>1
      <4> QED  BY <4>1, <4>2
    <3>7. a \in Int /\ k \in Int  BY <1>1, <3>5
    <3> QED  BY <2>3, <3>6, <3>7
  <2> HIDE DEF S, T
  <2> QED  BY <2>1, <2>2, <2>3 DEF Pairs
<1>11. ASSUME \A i \in 1..Len(readings) : c \in DOMAIN readings[i].down
       PROVE  T = S
  <2>1. M = Before(from)  BY <1>1, <1>11 DEF M, OfChannel
  <2>2. OfChannel(c, Between(from, to)) = Between(from, to) /\ OfChannel(c, Span(from, to)) = Span(from, to)
    BY <1>1, <1>11 DEF OfChannel
  <2> HIDE DEF T, S
  <2> QED  BY <1>4, <1>7, <1>8, <2>1, <2>2
<1> QED  BY <1>5, <1>6, <1>10, <1>11

(* What the reading i of a window adds to the errors of channel c, in the  *)
(* frieze and in the report.                                               *)
Earlier(i, I) == {j \in I : j < i /\ DOMAIN readings[j].down # {}}
CommonBefore(i, I) ==
    IF Earlier(i, I) = {} THEN {}
    ELSE DOMAIN readings[Max(Earlier(i, I))].down \cap DOMAIN readings[i].down
LineDelta(i, I, c) == IF c \in CommonBefore(i, I) THEN Lost(c, Max(Earlier(i, I)), i) ELSE 0
ReportDelta(i, S, c) == IF i \in S \ {Min(S)} THEN Lost(c, Max({j \in S : j < i}), i) ELSE 0

LEMMA EarlierFacts ==
    ASSUME EInv, NEW I \in SUBSET (1..Len(readings)), NEW i \in 1..Len(readings), Earlier(i, I) # {}
    PROVE  /\ Max(Earlier(i, I)) \in Earlier(i, I) /\ \A j \in Earlier(i, I) : j <= Max(Earlier(i, I))
<1>1. Earlier(i, I) \subseteq 1..Len(readings)  BY DEF Earlier
<1>2. IsFiniteSet(1..Len(readings)) /\ 1..Len(readings) \subseteq Int  BY WindowFacts
<1>3. IsFiniteSet(Earlier(i, I)) /\ Earlier(i, I) \subseteq Int  BY <1>1, <1>2, FS_Subset
<1> QED  BY <1>3, MaxExists

LEMMA LineDeltaIsInt ==
    ASSUME EInv, NEW I \in SUBSET (1..Len(readings)), NEW i \in 1..Len(readings), NEW c \in Down
    PROVE  LineDelta(i, I, c) \in Nat
<1>1. CASE c \in CommonBefore(i, I)
  <2>1. Earlier(i, I) # {} /\ c \in DOMAIN readings[Max(Earlier(i, I))].down /\ c \in DOMAIN readings[i].down
    BY <1>1 DEF CommonBefore
  <2>2. Max(Earlier(i, I)) \in 1..Len(readings)  BY <2>1, EarlierFacts DEF Earlier
  <2>3. Lost(c, Max(Earlier(i, I)), i) \in Nat  BY <2>1, <2>2, LostFacts
  <2> QED  BY <1>1, <2>3 DEF LineDelta
<1>2. CASE c \notin CommonBefore(i, I)  BY <1>2 DEF LineDelta
<1> QED  BY <1>1, <1>2

LEMMA LinePointIs ==
    ASSUME EInv, NEW to \in 1..clock, NEW from \in 1..to, NEW i \in Between(from, to)
    PROVE  LinePoint(i, from) = SumOf([c \in Down |-> LineDelta(i, Span(from, to), c)], Down)
<1> DEFINE I == Span(from, to)
           e == Earlier(i, I)
           e0 == {j \in Span(from, readings[i].time) : j < i /\ DOMAIN readings[j].down # {}}
           common == CommonBefore(i, I)
           common0 == IF e0 = {} THEN {} ELSE DOMAIN readings[Max(e0)].down \cap DOMAIN readings[i].down
           f(c) == CounterDelta(readings[Max(e0)].down[c].lost, readings[i].down[c].lost)
           g == [c \in common |-> Lost(c, Max(e), i)]
           h == [c \in Down |-> LineDelta(i, I, c)]
<1>1. /\ DOMAIN readings = 1..Len(readings) /\ i \in 1..Len(readings) /\ I \in SUBSET (1..Len(readings))
      /\ readings[i].time \in from..to /\ from \in Nat /\ to \in Nat
  BY WindowFacts DEF Between, EInv, InTime
<1>2. e0 = e
  <2>1. \A j \in 1..Len(readings) : readings[j].time <= readings[i].time <=> j <= i
    BY <1>1, WindowOrder
  <2>2. \A j \in 1..Len(readings) : readings[j].time \in Nat  BY WindowOrder
  <2>3. Len(readings) \in Nat  BY SeqFacts DEF EInv, RInv, TablesTypeOK
  <2>4. \A j \in 1..Len(readings) : j < i => (j \in Between(from, readings[i].time) <=> j \in Between(from, to))
    <3> TAKE j \in 1..Len(readings)
    <3>1. PICK s \in Nat, t \in Nat : s = readings[j].time /\ t = readings[i].time  BY <1>1, <2>2
    <3>2. j < i => s <= t
      <4>1. j < i => j <= i  BY <1>1, <2>3
      <4> QED  BY <2>1, <3>1, <4>1
    <3>3. t <= to  BY <1>1, <3>1
    <3>4. j \in Between(from, readings[i].time) <=> from <= s /\ s <= t
      BY <1>1, <3>1 DEF Between
    <3>5. j \in Between(from, to) <=> from <= s /\ s <= to
      BY <1>1, <3>1 DEF Between
    <3>6. s <= t => s <= to  BY <1>1, <3>3
    <3> QED  BY <3>2, <3>4, <3>5, <3>6
  <2>5. \A j \in 1..Len(readings) : j < i => (j \in Span(from, readings[i].time) <=> j \in Span(from, to))
    BY <2>4 DEF Span
  <2>6. \A j \in Span(from, readings[i].time) : j \in 1..Len(readings)  BY WindowFacts
  <2> QED  BY <1>1, <2>5, <2>6 DEF Earlier
<1>3. LinePoint(i, from) = MapThenSumSet(f, common0)
  BY DEF LinePoint
<1>4. MapThenSumSet(f, common0) = SumOf([c \in common0 |-> f(c)], common0)  BY SumOfFunction
<1>14. common0 = common /\ [c \in common0 |-> f(c)] = g
  <2> HIDE DEF e0, e
  <2> QED  BY <1>2 DEF CommonBefore, Lost, e
<1>5. common \in SUBSET Down
  <2>1. DOMAIN readings[i].down \subseteq Down  BY <1>1, RowFacts DEF EInv
  <2> QED  BY <2>1 DEF CommonBefore
<1>6. \A c \in common : g[c] = LineDelta(i, I, c)
  BY DEF LineDelta, Lost
<1>7. \A c \in Down : h[c] = LineDelta(i, I, c) /\ h[c] \in Int
  <2> TAKE c \in Down
  <2>1. LineDelta(i, I, c) \in Nat  BY <1>1, LineDeltaIsInt
  <2> QED  BY <2>1
<1>8. \A c \in Down \ common : LineDelta(i, I, c) = 0  BY DEF LineDelta
<1>9. IsFiniteSet(Down) /\ IsFiniteSet(common)  BY <1>5, DownIsFinite, FS_Subset
<1> HIDE DEF g, h, common, common0
<1>10. SumOf(g, common) = SumOf(h, common)
  <2>1. \A c \in common : g[c] \in Int /\ g[c] = h[c]  BY <1>5, <1>6, <1>7
  <2> QED  BY <1>9, <2>1, SumEqual
<1>11. SumOf(h, common) = SumOf(h, Down)
  <2>1. (\A c \in Down : h[c] \in Int) /\ (\A c \in Down \ common : h[c] = 0)  BY <1>7, <1>8
  <2> QED  BY <1>5, <1>9, <2>1, SumOfPart
<1> QED  BY <1>3, <1>4, <1>14, <1>10, <1>11 DEF h

LEMMA ReportByReading ==
    ASSUME EInv, NEW c \in Down, NEW B \in SUBSET (1..Len(readings)), NEW S \in SUBSET (1..Len(readings)),
           \A i \in S : c \in DOMAIN readings[i].down, S \ {Min(S)} \subseteq B
    PROVE  /\ \A i \in B : ReportDelta(i, S, c) \in Nat
           /\ LostOf(c, S) = SumOf([i \in B |-> ReportDelta(i, S, c)], B)
<1> DEFINE r == [i \in B |-> ReportDelta(i, S, c)]
           T == S \ {Min(S)}
           g == LostDelta(c, Pairs(S))
<1>1. /\ LostOf(c, S) = SumOf(g, Pairs(S)) /\ IsFiniteSet(S) /\ S \subseteq Int
      /\ \A p \in Pairs(S) : g[p] = Lost(c, p[1], p[2]) /\ Lost(c, p[1], p[2]) \in Nat
  BY LostOfFacts
<1>2. IsFiniteSet(B)
  <2>1. IsFiniteSet(1..Len(readings))  BY WindowFacts
  <2> QED  BY <2>1, FS_Subset
<1>3. ASSUME NEW i \in T
      PROVE  LET j == Max({k \in S : k < i}) IN j \in S /\ j < i /\ Lost(c, j, i) \in Nat
  <2> DEFINE L == {k \in S : k < i}
  <2>1. L # {} /\ L \subseteq Int /\ IsFiniteSet(L)
    <3>1. Min(S) \in S /\ Min(S) <= i  BY <1>1, MinExists
    <3>2. Min(S) # i /\ i \in Int /\ Min(S) \in Int  BY <1>1, <3>1
    <3>3. Min(S) < i  BY <3>1, <3>2
    <3>4. IsFiniteSet(L)  BY <1>1, FS_Subset
    <3> QED  BY <1>1, <3>1, <3>3, <3>4
  <2>2. Max(L) \in L
    <3> HIDE DEF L
    <3> QED  BY <2>1, MaxExists
  <2>3. Max(L) \in S /\ Max(L) < i /\ i \in S  BY <2>2
  <2>4. Lost(c, Max(L), i) \in Nat  BY <2>3, LostFacts
  <2> QED  BY <2>3, <2>4
<1>4. \A i \in B : ReportDelta(i, S, c) \in Nat
  BY <1>3 DEF ReportDelta
<1>5. \A i \in B : r[i] = ReportDelta(i, S, c) /\ r[i] \in Int
  BY <1>4
<1>6. \A i \in B \ T : r[i] = 0
  BY DEF ReportDelta
<1>7. ASSUME S # {}
      PROVE  SumOf(g, Pairs(S)) = SumOf(r, T)
  <2>1. \A p \in Pairs(S) : g[p] \in Int /\ r[p[2]] = g[p]
    <3> TAKE p \in Pairs(S)
    <3>1. PICK a \in S, b \in S : a = p[1] /\ b = p[2] /\ a < b /\ \A k \in S : ~(a < k /\ k < b)  BY PairFacts
    <3>2. a \in Int /\ b \in Int /\ \A k \in S : k \in Int  BY <1>1
    <3>3. b # Min(S)
      <4>1. Min(S) <= a /\ Min(S) \in Int  BY <1>1, <1>7, MinExists
      <4> QED  BY <3>1, <3>2, <4>1
    <3>4. Max({k \in S : k < b}) = a
      <4> DEFINE L == {k \in S : k < b}
      <4>1. a \in L /\ L \subseteq Int  BY <3>1, <3>2
      <4>2. \A k \in L : k <= a  BY <3>1, <3>2
      <4> HIDE DEF L
      <4>3. Max(L) = a  BY <4>1, <4>2, MaxIs
      <4> QED  BY <4>3 DEF L
    <3>5. b \in T /\ b \in B  BY <3>3
    <3>6. r[b] = Lost(c, a, b)
      <4>1. r[b] = ReportDelta(b, S, c)  BY <1>5, <3>5
      <4> QED  BY <3>4, <3>5, <4>1 DEF ReportDelta
    <3>7. g[p] = Lost(c, a, b) /\ g[p] \in Nat  BY <1>1, <3>1
    <3> QED  BY <3>1, <3>6, <3>7
  <2> HIDE DEF g, r
  <2> QED  BY <1>1, <1>7, <2>1, SumByEnds
<1>8. SumOf(g, Pairs(S)) = SumOf(r, T)
  <2>1. CASE S # {}  BY <1>7, <2>1
  <2>2. CASE S = {}
    <3>1. Pairs(S) = {} /\ T = {}  BY <2>2 DEF Pairs
    <3> HIDE DEF g, r, T
    <3>2. SumOf(g, {}) = 0 /\ SumOf(r, {}) = 0  BY SumUnfolds, FS_EmptySet
    <3> QED  BY <3>1, <3>2
  <2> QED  BY <2>1, <2>2
<1>9. SumOf(r, T) = SumOf(r, B)
  <2>1. T \in SUBSET B  OBVIOUS
  <2> HIDE DEF r, T
  <2> QED  BY <1>2, <1>5, <1>6, <2>1, SumOfPart
<1> QED  BY <1>1, <1>4, <1>8, <1>9

LEMMA SeenFacts ==
    ASSUME EInv, NEW to \in 1..clock, NEW from \in 1..to, NEW c \in Down
    PROVE  LET S == Seen(c, from, to)
           IN /\ S \in SUBSET (1..Len(readings)) /\ IsFiniteSet(S) /\ S \subseteq Int
              /\ \A i \in S : c \in DOMAIN readings[i].down
              /\ S \ {Min(S)} \subseteq Between(from, to)
              /\ \A i \in S \ {Min(S)} : Min(S) \in S /\ Min(S) < i
<1> DEFINE S == Seen(c, from, to)
<1>1. S \in SUBSET (1..Len(readings)) /\ \A i \in S : i \in Span(from, to) /\ c \in DOMAIN readings[i].down
  BY WindowFacts DEF Seen
<1> HIDE DEF S
<1>2. IsFiniteSet(S) /\ S \subseteq Int
  <2>1. IsFiniteSet(1..Len(readings)) /\ 1..Len(readings) \subseteq Int  BY WindowFacts
  <2> QED  BY <1>1, <2>1, FS_Subset
<1>3. ASSUME NEW i \in S, i # Min(S)
      PROVE  i \in Between(from, to) /\ Min(S) \in S /\ Min(S) < i
  <2>1. PICK n \in S : n = Min(S) /\ \A j \in S : n <= j  BY <1>2, MinExists
  <2>2. n <= i /\ n # i /\ n \in Int /\ i \in Int  BY <1>2, <1>3, <2>1
  <2>3. n < i  BY <2>2
  <2>4. i \in Span(from, to) /\ n \in Span(from, to)  BY <1>1
  <2> QED  BY <2>1, <2>3, <2>4, WindowOrder
<1> QED  BY <1>1, <1>2, <1>3 DEF S

(* A reading never adds more to the frieze than to the report. *)
LEMMA DeltasCompare ==
    ASSUME EInv, NEW to \in 1..clock, NEW from \in 1..to, NEW c \in Down, NEW i \in Between(from, to)
    PROVE  LET I == Span(from, to)
               S == Seen(c, from, to)
           IN /\ LineDelta(i, I, c) <= ReportDelta(i, S, c)
              /\ (\A j \in 1..Len(readings) : DOMAIN readings[j].down = Down)
                    => LineDelta(i, I, c) = ReportDelta(i, S, c)
<1> DEFINE I == Span(from, to)
           S == Seen(c, from, to)
           n == Max(Earlier(i, I))
<1>1. /\ S \in SUBSET (1..Len(readings)) /\ IsFiniteSet(S) /\ S \subseteq Int
      /\ \A j \in S : c \in DOMAIN readings[j].down
      /\ S \ {Min(S)} \subseteq Between(from, to)
      /\ \A j \in S \ {Min(S)} : Min(S) \in S /\ Min(S) < j
  BY SeenFacts
<1>2. I \in SUBSET (1..Len(readings)) /\ i \in I /\ i \in 1..Len(readings)
  BY WindowFacts, WindowOrder
<1>3. \A j : j \in S <=> j \in I /\ c \in DOMAIN readings[j].down  BY DEF Seen
<1>4. ReportDelta(i, S, c) \in Nat
  <2>1. Between(from, to) \in SUBSET (1..Len(readings))  BY WindowFacts DEF Between
  <2> HIDE DEF S
  <2> QED  BY <1>1, <2>1, ReportByReading
<1>5. LineDelta(i, I, c) \in Nat
  <2> HIDE DEF I
  <2> QED  BY <1>2, LineDeltaIsInt
<1> HIDE DEF I, S
<1>6. CASE c \in CommonBefore(i, I)
  <2>1. Earlier(i, I) # {} /\ c \in DOMAIN readings[n].down /\ c \in DOMAIN readings[i].down
    BY <1>6 DEF CommonBefore
  <2>2. n \in Earlier(i, I) /\ \A j \in Earlier(i, I) : j <= n
    BY <1>2, <2>1, EarlierFacts
  <2>3. n \in S /\ i \in S /\ n < i  BY <1>2, <1>3, <2>1, <2>2 DEF Earlier
  <2> HIDE DEF n
  <2>4. i # Min(S)
    <3>1. Min(S) <= n /\ Min(S) \in Int /\ n \in Int /\ i \in Int  BY <1>1, <2>3, MinExists
    <3> QED  BY <2>3, <3>1
  <2>5. Max({j \in S : j < i}) = n
    <3> DEFINE L == {j \in S : j < i}
    <3>1. n \in L /\ L \subseteq Int  BY <1>1, <2>3
    <3>2. ASSUME NEW j \in L PROVE j <= n
      <4>1. j \in I /\ j < i /\ DOMAIN readings[j].down # {}  BY <1>1, <1>3
      <4> QED  BY <2>2, <4>1 DEF Earlier
    <3> HIDE DEF L
    <3>3. Max(L) = n  BY <3>1, <3>2, MaxIs
    <3> QED  BY <3>3 DEF L
  <2>6. ReportDelta(i, S, c) = Lost(c, n, i)  BY <2>3, <2>4, <2>5 DEF ReportDelta
  <2>7. LineDelta(i, I, c) = Lost(c, n, i)  BY <1>6 DEF LineDelta, n
  <2> QED  BY <1>5, <2>6, <2>7 DEF I, S
<1>7. CASE c \notin CommonBefore(i, I)
  <2>1. LineDelta(i, I, c) = 0  BY <1>7 DEF LineDelta
  <2>2. ASSUME \A j \in 1..Len(readings) : DOMAIN readings[j].down = Down
        PROVE  ReportDelta(i, S, c) = 0
    <3>1. SUFFICES ASSUME i \in S \ {Min(S)} PROVE FALSE  BY DEF ReportDelta
    <3>2. Min(S) \in I /\ Min(S) < i /\ DOMAIN readings[Min(S)].down # {}
      BY <1>1, <1>3, <3>1
    <3>3. Earlier(i, I) # {}  BY <3>2 DEF Earlier
    <3>4. n \in 1..Len(readings)  BY <1>2, <3>3, EarlierFacts DEF Earlier
    <3>5. c \in DOMAIN readings[n].down /\ c \in DOMAIN readings[i].down  BY <1>2, <2>2, <3>4
    <3> QED  BY <1>7, <3>3, <3>5 DEF CommonBefore
  <2>3. 0 <= ReportDelta(i, S, c)  BY <1>4
  <2> QED  BY <2>1, <2>2, <2>3 DEF I, S
<1> QED  BY <1>6, <1>7

LEMMA TotalIs ==
    ASSUME EInv, NEW to \in 1..clock, NEW from \in 1..to
    PROVE  MapThenSumSet(LAMBDA c : ErrorTotals(from, to)[c].lost, DOMAIN ErrorTotals(from, to))
           = SumOf([c \in Down |-> LostOf(c, Seen(c, from, to))], Down)
<1> DEFINE C == DOMAIN ErrorTotals(from, to)
           f(c) == ErrorTotals(from, to)[c].lost
           g == [c \in C |-> f(c)]
           h == [c \in Down |-> LostOf(c, Seen(c, from, to))]
<1>0. C = Counted(from, to)  BY DEF ErrorTotals
<1>1. MapThenSumSet(f, C) = SumOf([c \in C |-> f(c)], C)  BY SumOfFunction
<1>2. C \in SUBSET Down  BY <1>0 DEF Counted
<1>3. \A c \in Down : h[c] = LostOf(c, Seen(c, from, to)) /\ h[c] \in Int
  <2> TAKE c \in Down
  <2> DEFINE S == Seen(c, from, to)
  <2>1. S \in SUBSET (1..Len(readings)) /\ \A i \in S : c \in DOMAIN readings[i].down  BY SeenFacts
  <2>2. LostOf(c, S) \in Int
    <3> HIDE DEF S
    <3> QED  BY <2>1, LostOfFacts
  <2> QED  BY <2>2
<1>4. \A c \in C : g[c] = h[c]
  <2> TAKE c \in C
  <2>1. ErrorTotals(from, to)[c] = Growth(c, Pairs(Seen(c, from, to)))
    BY <1>0, StepsAre DEF ErrorTotals, Seen
  <2> QED  BY <1>2, <1>3, <2>1 DEF LostOf
<1>5. \A c \in Down \ C : h[c] = 0
  <2> TAKE c \in Down \ C
  <2> DEFINE S == Seen(c, from, to)
  <2>1. ~(Cardinality(S) > 1)  BY <1>0 DEF Counted, Seen
  <2>2. S \in SUBSET (1..Len(readings)) /\ IsFiniteSet(S) /\ S \subseteq Int
        /\ \A i \in S : c \in DOMAIN readings[i].down
    BY SeenFacts
  <2> HIDE DEF S
  <2>3. Pairs(S) = {}  BY <2>1, <2>2, FewHaveNoPairs
  <2>4. LostOf(c, S) = SumOf(LostDelta(c, Pairs(S)), Pairs(S))  BY <2>2, LostOfFacts
  <2>5. LostOf(c, S) = 0  BY <2>3, <2>4, SumUnfolds, FS_EmptySet
  <2> QED  BY <1>3, <2>5 DEF S
<1> HIDE DEF C, g, h
<1>6. IsFiniteSet(Down) /\ IsFiniteSet(C)  BY <1>2, DownIsFinite, FS_Subset
<1>7. SumOf(g, C) = SumOf(h, C)
  <2>1. \A c \in C : g[c] \in Int /\ g[c] = h[c]  BY <1>2, <1>3, <1>4
  <2> QED  BY <1>6, <2>1, SumEqual
<1>8. SumOf(h, C) = SumOf(h, Down)
  <2>1. (\A c \in Down : h[c] \in Int) /\ (\A c \in Down \ C : h[c] = 0)  BY <1>3, <1>5
  <2> QED  BY <1>2, <1>6, <2>1, SumOfPart
<1> QED  BY <1>1, <1>7, <1>8 DEF C, g, h

LEMMA HistoryIs ==
    ASSUME EInv, NEW to \in 1..clock, NEW from \in 1..to
    PROVE  MapThenSumSet(LAMBDA c : ErrorHistory(c, from, to).lost, Down)
           = SumOf([c \in Down |-> LostOf(c, HistoryRows(c, from, to))], Down)
<1> DEFINE f(c) == ErrorHistory(c, from, to).lost
<1>1. MapThenSumSet(f, Down) = SumOf([c \in Down |-> f(c)], Down)  BY SumOfFunction
<1>2. \A c \in Down : ErrorHistory(c, from, to).lost = LostOf(c, HistoryRows(c, from, to))
  BY HistoryFacts
<1>3. [c \in Down |-> f(c)] = [c \in Down |-> LostOf(c, HistoryRows(c, from, to))]
  BY <1>2
<1> QED  BY <1>1, <1>3

(* The frieze, channel by channel. *)
LEMMA LineIs ==
    ASSUME EInv, NEW to \in 1..clock, NEW from \in 1..to
    PROVE  LineErrors(from, to)
           = SumOf([c \in Down |-> SumOf([i \in Between(from, to) |-> LineDelta(i, Span(from, to), c)],
                                         Between(from, to))], Down)
<1> DEFINE B == Between(from, to)
           I == Span(from, to)
           f(i) == LinePoint(i, from)
           m == [i \in B |-> [c \in Down |-> LineDelta(i, I, c)]]
<1>1. B \in SUBSET (1..Len(readings)) /\ I \in SUBSET (1..Len(readings)) /\ IsFiniteSet(1..Len(readings))
  BY WindowFacts DEF Between
<1>2. IsFiniteSet(B) /\ IsFiniteSet(Down)  BY <1>1, DownIsFinite, FS_Subset
<1>3. MapThenSumSet(f, B) = SumOf([i \in B |-> f(i)], B)  BY SumOfFunction
<1>4. LineErrors(from, to) = MapThenSumSet(f, B)  BY DEF LineErrors
<1>5. \A i \in B : LinePoint(i, from) = SumOf(m[i], Down)  BY LinePointIs
<1>6. [i \in B |-> f(i)] = [i \in B |-> SumOf(m[i], Down)]
  <2> HIDE DEF m, B
  <2> QED  BY <1>5
<1>7. \A i \in B : \A c \in Down : m[i][c] = LineDelta(i, I, c) /\ m[i][c] \in Int
  <2> TAKE i \in B
  <2> TAKE c \in Down
  <2>1. LineDelta(i, I, c) \in Nat
    <3>1. i \in 1..Len(readings)  BY <1>1
    <3> HIDE DEF I, B
    <3> QED  BY <1>1, <3>1, LineDeltaIsInt
  <2> QED  BY <2>1
<1>8. [c \in Down |-> SumOf([i \in B |-> m[i][c]], B)] = [c \in Down |-> SumOf([i \in B |-> LineDelta(i, I, c)], B)]
  <2>1. \A c \in Down : [i \in B |-> m[i][c]] = [i \in B |-> LineDelta(i, I, c)]
    <3> HIDE DEF m, B, I
    <3> QED  BY <1>7
  <2> HIDE DEF m, B, I
  <2> QED  BY <2>1
<1>9. SumOf([i \in B |-> SumOf(m[i], Down)], B) = SumOf([c \in Down |-> SumOf([i \in B |-> m[i][c]], B)], Down)
  <2>1. \A i \in B : \A c \in Down : m[i][c] \in Int  BY <1>7
  <2> HIDE DEF m, B
  <2> QED  BY <1>2, <2>1, SumSwaps
<1> QED  BY <1>3, <1>4, <1>6, <1>8, <1>9

(* The frieze, the report and the pages of the channels, for a window. *)
LEMMA ViewsCompare ==
    ASSUME EInv, NEW to \in 1..clock, NEW from \in 1..to
    PROVE  LET totals == ErrorTotals(from, to)
               total == MapThenSumSet(LAMBDA c : totals[c].lost, DOMAIN totals)
               line == LineErrors(from, to)
               history == MapThenSumSet(LAMBDA c : ErrorHistory(c, from, to).lost, Down)
           IN /\ line <= total /\ total <= history
              /\ (\A i \in 1..Len(readings) : DOMAIN readings[i].down = Down)
                   => line = total /\ total = history
<1> DEFINE B == Between(from, to)
           I == Span(from, to)
           rows(c) == [i \in B |-> LineDelta(i, I, c)]
           reps(c) == [i \in B |-> ReportDelta(i, Seen(c, from, to), c)]
           line == [c \in Down |-> SumOf(rows(c), B)]
           report == [c \in Down |-> LostOf(c, Seen(c, from, to))]
           page == [c \in Down |-> LostOf(c, HistoryRows(c, from, to))]
           full == \A i \in 1..Len(readings) : DOMAIN readings[i].down = Down
<1>2. B \in SUBSET (1..Len(readings)) /\ I \in SUBSET (1..Len(readings)) /\ IsFiniteSet(B) /\ IsFiniteSet(Down)
  <2>1. IsFiniteSet(1..Len(readings)) /\ B \in SUBSET (1..Len(readings)) /\ I \in SUBSET (1..Len(readings))
    BY WindowFacts DEF Between
  <2> QED  BY <2>1, DownIsFinite, FS_Subset
<1>3. ASSUME NEW c \in Down
      PROVE  /\ line[c] \in Int /\ report[c] \in Int /\ page[c] \in Int
             /\ line[c] <= report[c] /\ report[c] <= page[c]
             /\ full => line[c] = report[c] /\ report[c] = page[c]
  <2> DEFINE S == Seen(c, from, to)
             T == HistoryRows(c, from, to)
             l == rows(c)
             r == reps(c)
  <2>1. /\ S \in SUBSET (1..Len(readings)) /\ \A i \in S : c \in DOMAIN readings[i].down
        /\ S \ {Min(S)} \subseteq B
    BY SeenFacts
  <2>2. /\ T \in SUBSET (1..Len(readings)) /\ \A i \in T : c \in DOMAIN readings[i].down
        /\ Pairs(S) \subseteq Pairs(T)
        /\ (\A i \in 1..Len(readings) : c \in DOMAIN readings[i].down) => T = S
    BY HistoryFacts
  <2>3. (\A i \in B : ReportDelta(i, S, c) \in Nat) /\ LostOf(c, S) = SumOf(r, B)
    <3> HIDE DEF S, B
    <3> QED  BY <1>2, <2>1, ReportByReading DEF B, S
  <2>4. \A i \in B : l[i] = LineDelta(i, I, c) /\ l[i] \in Int
    <3> TAKE i \in B
    <3>1. LineDelta(i, I, c) \in Nat
      <4>1. i \in 1..Len(readings)  BY <1>2
      <4> HIDE DEF I, B
      <4> QED  BY <1>2, <4>1, LineDeltaIsInt
    <3> QED  BY <3>1
  <2>5. \A i \in B : r[i] = ReportDelta(i, S, c) /\ r[i] \in Int  BY <2>3
  <2>6. \A i \in B : l[i] <= r[i] /\ (full => l[i] = r[i])
    <3> TAKE i \in B
    <3>1. LineDelta(i, I, c) <= ReportDelta(i, S, c) /\ (full => LineDelta(i, I, c) = ReportDelta(i, S, c))
      BY DeltasCompare
    <3> QED  BY <2>4, <2>5, <3>1
  <2>7. line[c] = SumOf(l, B) /\ report[c] = SumOf(r, B) /\ page[c] = LostOf(c, T) /\ report[c] = LostOf(c, S)
    BY <2>3
  <2> HIDE DEF B, I, S, T, l, r, line, report, page
  <2>8. LostOf(c, S) <= LostOf(c, T) /\ LostOf(c, T) \in Int
    <3>1. \A i \in S \cup T : c \in DOMAIN readings[i].down  BY <2>1, <2>2
    <3> QED  BY <2>1, <2>2, <3>1, MorePairsMoreLost, LostOfFacts
  <2>9. SumOf(l, B) <= SumOf(r, B)  BY <1>2, <2>4, <2>5, <2>6, SumAtMost
  <2>10. full => SumOf(l, B) = SumOf(r, B)
    <3>1. SUFFICES ASSUME full PROVE SumOf(l, B) = SumOf(r, B)  OBVIOUS
    <3>2. \A i \in B : l[i] \in Int /\ l[i] = r[i]  BY <2>4, <2>6, <3>1
    <3> QED  BY <1>2, <3>2, SumEqual
  <2>11. SumOf(l, B) \in Int /\ SumOf(r, B) \in Int  BY <1>2, <2>4, <2>5, SumTakesOut
  <2>12. full => T = S  BY <2>2
  <2> QED  BY <2>7, <2>8, <2>9, <2>10, <2>11, <2>12
<1>4. /\ LineErrors(from, to) = SumOf(line, Down)
      /\ MapThenSumSet(LAMBDA c : ErrorTotals(from, to)[c].lost, DOMAIN ErrorTotals(from, to)) = SumOf(report, Down)
      /\ MapThenSumSet(LAMBDA c : ErrorHistory(c, from, to).lost, Down) = SumOf(page, Down)
  BY LineIs, TotalIs, HistoryIs
<1> HIDE DEF line, report, page
<1>5. SumOf(line, Down) <= SumOf(report, Down) /\ SumOf(report, Down) <= SumOf(page, Down)
  BY <1>2, <1>3, SumAtMost
<1>6. ASSUME full
      PROVE  SumOf(line, Down) = SumOf(report, Down) /\ SumOf(report, Down) = SumOf(page, Down)
  BY <1>2, <1>3, <1>6, SumEqual
<1> QED  BY <1>4, <1>5, <1>6

(* For every window, the frieze (LinePoints) shows at most the errors of the *)
(* report (ErrorTotals), and the report at most those of the pages of the  *)
(* channels (ErrorHistory); all three agree when every reading has the same *)
(* channels; for payloads that have the counters of all channels.          *)
THEOREM ViewsOrdered ==
    ASSUME ~ErrorsMayLack
    PROVE  ReadingsSpec => []ViewsAgree
<1>1. EInv => ViewsAgree  BY ViewsCompare DEF ViewsAgree
<1> QED  BY <1>1, EInvariance, PTL

-----------------------------------------------------------------------------
(* Since when a measure is out of range, found by walking back (Onset).    *)

(* The walk back from the latest row, one row after the other. *)
Look(dir, c, metric, i, o) == Step(o, readings[i].time, Judged(dir, readings[i][dir][c], metric))
Walks(h, dir, c, metric, S) ==
    h = [s \in SUBSET S |-> IF s = {} THEN NoOnset ELSE Look(dir, c, metric, Min(s), h[s \ {Min(s)}])]

(* An onset is found by a fold over the rows, that is by a walk. *)
LEMMA OnsetIs ==
    ASSUME NEW dir, NEW c, NEW metric
    PROVE  Onset(dir, c, metric)
           = Finish((CHOOSE h : Walks(h, dir, c, metric, Back(dir, c)))[Back(dir, c)])
BY DEF Onset, MapThenFoldSet, Walks, Look

Numbers(S) == S \subseteq Int /\ IsFiniteSet(S)

(* Some of finitely many numbers are finitely many. *)
LEMMA FewerNumbers ==
    ASSUME NEW S, Numbers(S), NEW T, T \subseteq S
    PROVE  Numbers(T) /\ IsFiniteSet(T)
BY FS_Subset DEF Numbers

(* A walk ends on the earliest row: the least of the set is looked at last. *)
LEMMA LowestFirst ==
    ASSUME NEW s, Numbers(s), s # {}
    PROVE  /\ Min(s) \in s /\ \A y \in s : Min(s) <= y
           /\ s \ {Min(s)} \subseteq s /\ s \ {Min(s)} # s
<1>1. Min(s) \in s /\ \A y \in s : Min(s) <= y  BY MinExists DEF Numbers
<1> QED  BY <1>1

(* What a walk gives on a set of rows, from what it gives without the earliest. *)
LEMMA WalkValue ==
    ASSUME NEW dir, NEW c, NEW metric, NEW S, NEW h, Walks(h, dir, c, metric, S), NEW s \in SUBSET S
    PROVE  h[s] = IF s = {} THEN NoOnset ELSE Look(dir, c, metric, Min(s), h[s \ {Min(s)}])
BY DEF Walks

(* Two walks agree on the rows both are over: a smallest set they differ on*)
(* would differ by one look from sets they agree on.                       *)
LEMMA WalksAgree ==
    ASSUME NEW dir, NEW c, NEW metric, NEW S, Numbers(S), NEW T, NEW h, NEW k,
           Walks(h, dir, c, metric, S), Walks(k, dir, c, metric, T)
    PROVE  \A u \in SUBSET S : u \subseteq T => h[u] = k[u]
<1> DEFINE F == {u \in SUBSET S : u \subseteq T /\ h[u] # k[u]}
<1>1. SUFFICES ASSUME F # {} PROVE FALSE  OBVIOUS
<1>3. F \subseteq SUBSET S /\ \A s \in F : IsFiniteSet(s) /\ Numbers(s)  BY FewerNumbers
<1>4. PICK u \in F : \A t \in F : t \subseteq u => t = u
  <2> HIDE DEF F
  <2> QED  BY <1>1, <1>3, Smallest
<1>5. u \in SUBSET S /\ u \in SUBSET T /\ h[u] # k[u]  OBVIOUS
<1>6. u # {}
  <2>1. h[{}] = NoOnset /\ k[{}] = NoOnset  BY WalkValue
  <2> QED  BY <1>5, <2>1
<1> DEFINE v == u \ {Min(u)}
<1>7. v \subseteq u /\ v # u
  <2>1. Numbers(u)  BY <1>3, <1>5
  <2> QED  BY <1>6, <2>1, LowestFirst
<1>8. h[v] = k[v]
  <2> HIDE DEF v
  <2> QED  BY <1>4, <1>7
<1>9. h[u] = Look(dir, c, metric, Min(u), h[v])
  <2> HIDE DEF F
  <2> QED  BY <1>5, <1>6, WalkValue
<1>10. k[u] = Look(dir, c, metric, Min(u), k[v])
  <2> HIDE DEF F
  <2> QED  BY <1>5, <1>6, WalkValue
<1> HIDE DEF F, v
<1> QED  BY <1>5, <1>8, <1>9, <1>10

(* There is a walk over any finite set of rows. *)
LEMMA WalkExists ==
    ASSUME NEW dir, NEW c, NEW metric, NEW S, Numbers(S)
    PROVE  \E h : Walks(h, dir, c, metric, S)
<1> DEFINE F == {s \in SUBSET S : ~ \E h : Walks(h, dir, c, metric, s)}
<1>1. SUFFICES ASSUME F # {} PROVE FALSE
  <2>1. S \in SUBSET S  OBVIOUS
  <2> QED  BY <2>1
<1>3. F \subseteq SUBSET S /\ \A s \in F : IsFiniteSet(s) /\ Numbers(s)  BY FewerNumbers
<1>4. PICK s \in F : \A t \in F : t \subseteq s => t = s
  <2> HIDE DEF F
  <2> QED  BY <1>1, <1>3, Smallest
<1>5. s \in SUBSET S /\ Numbers(s) /\ ~ \E h : Walks(h, dir, c, metric, s)  BY <1>3
<1> DEFINE H(t) == CHOOSE h : Walks(h, dir, c, metric, t)
           up(t) == t \ {Min(t)}
           k == [t \in SUBSET s |-> IF t = {} THEN NoOnset ELSE Look(dir, c, metric, Min(t), H(up(t))[up(t)])]
<1>6. ASSUME NEW t \in SUBSET s, t # s
      PROVE  Walks(H(t), dir, c, metric, t)
  <2>1. \E h : Walks(h, dir, c, metric, t)  BY <1>4, <1>6
  <2> QED  BY <2>1
<1>7. \A t \in SUBSET s : t # {} => up(t) \subseteq t /\ up(t) # t /\ up(t) \in SUBSET s /\ up(t) # s
  <2> TAKE t \in SUBSET s
  <2>1. Numbers(t)  BY <1>5, FewerNumbers
  <2>2. t # {} => t \ {Min(t)} \subseteq t /\ t \ {Min(t)} # t  BY <2>1, LowestFirst
  <2> QED  BY <2>2
<1> HIDE DEF F
<1>8. ASSUME NEW t \in SUBSET s, t # {}
      PROVE  k[up(t)] = H(up(t))[up(t)]
  <2> DEFINE u == up(t)
  <2>1. u \in SUBSET s /\ u # s  BY <1>7, <1>8
  <2>2. Walks(H(u), dir, c, metric, u) /\ Numbers(u)
    <3> HIDE DEF u, H
    <3> QED  BY <1>5, <1>6, <2>1, FewerNumbers
  <2>3. u \in SUBSET u  OBVIOUS
  <2>4. CASE u = {}
    <3>1. H(u)[u] = NoOnset
      <4> HIDE DEF u, H
      <4> QED  BY <2>2, <2>3, <2>4, WalkValue
    <3>2. k[u] = NoOnset
      <4> HIDE DEF u, H, up
      <4> QED  BY <2>1, <2>4
    <3> QED  BY <3>1, <3>2
  <2>5. CASE u # {}
    <3> DEFINE v == up(u)
    <3>1. v \subseteq u /\ v \in SUBSET s /\ v # s
      <4> HIDE DEF u, up
      <4> QED  BY <1>7, <2>1, <2>5
    <3>2. Walks(H(v), dir, c, metric, v)
      <4> HIDE DEF u, v, H
      <4> QED  BY <1>6, <3>1
    <3>3. H(u)[v] = H(v)[v]
      <4>1. v \in SUBSET u /\ v \subseteq v  BY <3>1
      <4> HIDE DEF u, v, H
      <4> QED  BY <2>2, <3>2, <4>1, WalksAgree
    <3>4. H(u)[u] = Look(dir, c, metric, Min(u), H(u)[v])
      <4> HIDE DEF u, H
      <4> QED  BY <2>2, <2>3, <2>5, WalkValue
    <3>5. k[u] = Look(dir, c, metric, Min(u), H(v)[v])
      <4> HIDE DEF u, H
      <4> QED  BY <2>1, <2>5
    <3> QED  BY <3>3, <3>4, <3>5
  <2> QED  BY <2>4, <2>5
<1>9. Walks(k, dir, c, metric, s)
  <2>1. \A t \in SUBSET s :
          (IF t = {} THEN NoOnset ELSE Look(dir, c, metric, Min(t), H(up(t))[up(t)]))
          = (IF t = {} THEN NoOnset ELSE Look(dir, c, metric, Min(t), k[up(t)]))
    <3> HIDE DEF k, H, up
    <3> QED  BY <1>8
  <2>2. k = [t \in SUBSET s |-> IF t = {} THEN NoOnset ELSE Look(dir, c, metric, Min(t), k[up(t)])]
    <3> HIDE DEF H, up
    <3> QED  BY <2>1
  <2> QED  BY <2>2 DEF Walks
<1> QED  BY <1>5, <1>9

Walked(dir, c, metric, S) == (CHOOSE h : Walks(h, dir, c, metric, S))[S]

(* The walk over a set is one look after the walk without the earliest row. *)
LEMMA WalkUnfolds ==
    ASSUME NEW dir, NEW c, NEW metric, NEW S, Numbers(S)
    PROVE  Walked(dir, c, metric, S)
           = IF S = {} THEN NoOnset ELSE Look(dir, c, metric, Min(S), Walked(dir, c, metric, S \ {Min(S)}))
<1> DEFINE H(t) == CHOOSE h : Walks(h, dir, c, metric, t)
           T == S \ {Min(S)}
<1>1. Walks(H(S), dir, c, metric, S)
  BY WalkExists
<1>2. Numbers(T) /\ T \subseteq S
  <2>1. T \subseteq S  OBVIOUS
  <2> HIDE DEF T
  <2> QED  BY <2>1, FewerNumbers
<1>3. Walks(H(T), dir, c, metric, T)
  BY <1>2, WalkExists
<1>4. H(S)[S] = IF S = {} THEN NoOnset ELSE Look(dir, c, metric, Min(S), H(S)[T])
  <2>1. S \in SUBSET S  OBVIOUS
  <2> HIDE DEF H
  <2> QED  BY <1>1, <2>1, WalkValue
<1>5. H(S)[T] = H(T)[T]
  <2>1. T \in SUBSET S /\ T \subseteq T  BY <1>2
  <2> HIDE DEF H, T
  <2> QED  BY <1>1, <1>3, <2>1, WalksAgree
<1>6. Walked(dir, c, metric, S) = H(S)[S] /\ Walked(dir, c, metric, T) = H(T)[T]
  BY DEF Walked
<1> HIDE DEF H
<1> QED  BY <1>4, <1>5, <1>6

(* What the walk knows after the rows of s, the latest of the rows R. *)
Bad(dir, c, metric, i) == Judged(dir, readings[i][dir][c], metric) >= Warning
Near(i, j) == readings[j].time - readings[i].time <= MaxGap
AnOnset == [start : SUBSET Int, atLeast : BOOLEAN, done : BOOLEAN]
Follow(R, i, j) == i \in R /\ j \in R /\ i < j /\ \A k \in R : ~(i < k /\ k < j)
Latests(s, R) == s \subseteq R /\ \A i \in s : \A j \in R : i <= j => j \in s
Onward(dir, c, metric, s, R, i) ==
    /\ i \in s
    /\ \A j \in s : i <= j => Bad(dir, c, metric, j)
    /\ \A j \in s : \A k \in s : i <= j /\ Follow(R, j, k) => Near(j, k)
Exactly(dir, c, metric, s, R, i) ==
    \E j \in s : Follow(R, j, i) /\ Near(j, i) /\ ~Bad(dir, c, metric, j)
OnsetTells(dir, c, metric, s, R, o) ==
    /\ o \in AnOnset
    /\ s = {} => o.start = {} /\ ~o.atLeast /\ ~o.done
    /\ s # {} => \E i \in s : /\ o.start = {readings[i].time}
                              /\ Onward(dir, c, metric, s, R, i)
                              /\ ~o.done => i = Min(s) /\ ~o.atLeast
                              /\ o.done /\ ~o.atLeast => Exactly(dir, c, metric, s, R, i)

(* One step, field by field. *)
LEMMA StepIs ==
    ASSUME NEW t \in Int, NEW level \in Int, NEW o \in AnOnset
    PROVE  LET r == Step(o, t, level)
           IN /\ r \in AnOnset
              /\ o.done => r = o
              /\ ~o.done /\ IsGap(o, t) => r.start = o.start /\ r.atLeast /\ r.done
              /\ ~o.done /\ ~IsGap(o, t) /\ ~(level >= Warning) => r.start = o.start /\ r.atLeast = o.atLeast /\ r.done
              /\ ~o.done /\ ~IsGap(o, t) /\ level >= Warning => r.start = {t} /\ r.atLeast = o.atLeast /\ ~r.done
<1>1. level < Warning <=> ~(level >= Warning)  BY DEF Warning
<1> DEFINE gap == [o EXCEPT !.atLeast = TRUE, !.done = TRUE]
           good == [o EXCEPT !.done = TRUE]
           bad == [o EXCEPT !.start = {t}]
<1>2. gap \in AnOnset /\ gap.start = o.start /\ gap.atLeast /\ gap.done
  BY DEF AnOnset
<1>3. good \in AnOnset /\ good.start = o.start /\ good.atLeast = o.atLeast /\ good.done
  BY DEF AnOnset
<1>4. bad \in AnOnset /\ bad.start = {t} /\ bad.atLeast = o.atLeast /\ bad.done = o.done
  BY DEF AnOnset
<1>5. Step(o, t, level) = IF o.done THEN o ELSE IF IsGap(o, t) THEN gap ELSE IF level < Warning THEN good ELSE bad
  BY DEF Step
<1> HIDE DEF gap, good, bad
<1>6. CASE o.done  BY <1>5, <1>6
<1>7. CASE ~o.done /\ IsGap(o, t)  BY <1>2, <1>5, <1>7
<1>8. CASE ~o.done /\ ~IsGap(o, t) /\ ~(level >= Warning)  BY <1>1, <1>3, <1>5, <1>8
<1>9. CASE ~o.done /\ ~IsGap(o, t) /\ level >= Warning  BY <1>1, <1>4, <1>5, <1>9
<1> QED  BY <1>6, <1>7, <1>8, <1>9

Judges(dir, c, metric, R) ==
    /\ R \subseteq 1..Len(readings) /\ Len(readings) \in R
    /\ \A i \in R : readings[i].time \in Nat /\ Judged(dir, readings[i][dir][c], metric) \in Int
    /\ Bad(dir, c, metric, Len(readings))

(* One more row, earlier than those walked over. *)
LEMMA LookTells ==
    ASSUME NEW dir, NEW c, NEW metric, NEW R, Judges(dir, c, metric, R),
           NEW s, Latests(s, R), NEW p \in s, \A y \in s : p <= y, Min(s) = p,
           NEW t, t = s \ {p}, t # {} => Min(t) \in t /\ \A y \in t : Min(t) <= y,
           NEW o, OnsetTells(dir, c, metric, t, R, o)
    PROVE  OnsetTells(dir, c, metric, s, R, Look(dir, c, metric, p, o))
<1> DEFINE level == Judged(dir, readings[p][dir][c], metric)
           time == readings[p].time
           r == Look(dir, c, metric, p, o)
<1>1. s \subseteq R /\ R \subseteq 1..Len(readings) /\ p \in R /\ time \in Int /\ level \in Int
  BY DEF Judges, Latests
<1>2. Len(readings) \in Nat
  <2>1. p \in 1..Len(readings)  BY <1>1
  <2>2. Len(readings) \in R  BY DEF Judges
  <2> QED  BY <1>1, <2>2
<1>3. \A i \in R : i \in Int  BY <1>1
<1>4. o \in AnOnset  BY DEF OnsetTells
<1>5. r = Step(o, time, level)  BY DEF Look
<1> HIDE DEF time, level, r
<1>6. /\ r \in AnOnset
      /\ o.done => r = o
      /\ ~o.done /\ IsGap(o, time) => r.start = o.start /\ r.atLeast /\ r.done
      /\ ~o.done /\ ~IsGap(o, time) /\ ~(level >= Warning) =>
             r.start = o.start /\ r.atLeast = o.atLeast /\ r.done
      /\ ~o.done /\ ~IsGap(o, time) /\ level >= Warning => r.start = {time} /\ r.atLeast = o.atLeast /\ ~r.done
  BY <1>1, <1>4, <1>5, StepIs
<1>7. Bad(dir, c, metric, p) <=> level >= Warning  BY DEF Bad, level
<1>8. CASE t = {}
  <2>1. s = {p}  BY <1>8
  <2>2. p = Len(readings)
    <3>1. Len(readings) \in R /\ p <= Len(readings)  BY <1>1, <1>2 DEF Judges
    <3>2. Len(readings) \in s  BY <3>1 DEF Latests
    <3> QED  BY <2>1, <3>2
  <2>3. Bad(dir, c, metric, p)  BY <2>2 DEF Judges
  <2>4. o.start = {} /\ ~o.atLeast /\ ~o.done  BY <1>8 DEF OnsetTells
  <2>5. ~IsGap(o, time)  BY <2>4 DEF IsGap
  <2>6. r.start = {time} /\ ~r.atLeast /\ ~r.done  BY <1>6, <1>7, <2>3, <2>4, <2>5
  <2>7. Onward(dir, c, metric, s, R, p)
    <3>1. \A j \in s : \A k \in s : ~Follow(R, j, k)  BY <1>1, <1>3, <2>1 DEF Follow
    <3> QED  BY <2>1, <2>3, <3>1 DEF Onward
  <2> QED  BY <1>6, <2>1, <2>6, <2>7 DEF OnsetTells, time, r
<1>9. CASE t # {}
  <2>1. PICK i \in t : /\ o.start = {readings[i].time}
                       /\ Onward(dir, c, metric, t, R, i)
                       /\ ~o.done => i = Min(t) /\ ~o.atLeast
                       /\ o.done /\ ~o.atLeast => Exactly(dir, c, metric, t, R, i)
    BY <1>9 DEF OnsetTells
  <2>2. i \in s /\ i \in R /\ i \in Int /\ p \in Int /\ p < i /\ readings[i].time \in Int
    <3>1. i \in s /\ i # p /\ p <= i /\ i \in R  BY <1>1
    <3>2. readings[i].time \in Nat  BY <3>1 DEF Judges
    <3> QED  BY <1>1, <1>3, <3>1, <3>2
  <2>3. Onward(dir, c, metric, s, R, i)
    <3>1. \A j \in s : i <= j => j \in t  BY <2>2
    <3>2. \A j \in s : \A k \in s : i <= j /\ Follow(R, j, k) => j \in t /\ k \in t
      <4> TAKE j \in s
      <4> TAKE k \in s
      <4>1. j \in Int /\ k \in Int  BY <1>1, <1>3
      <4>2. i <= j /\ j < k => p # j /\ p # k  BY <2>2, <4>1
      <4> QED  BY <4>2 DEF Follow
    <3> QED  BY <2>1, <2>2, <3>1, <3>2 DEF Onward
  <2>4. o.done /\ ~o.atLeast => Exactly(dir, c, metric, s, R, i)
    <3>1. t \subseteq s  OBVIOUS
    <3> QED  BY <2>1, <3>1 DEF Exactly
  <2>5. ~o.done => Follow(R, p, i)
    <3>1. SUFFICES ASSUME ~o.done, NEW k \in R, p < k, k < i PROVE FALSE
      BY <1>1, <2>2 DEF Follow
    <3>5. k \in Int  BY <1>3
    <3>2. k \in Int /\ p <= k /\ k # p  BY <2>2, <3>1, <3>5
    <3>3. k \in s  BY <3>2 DEF Latests
    <3>4. i <= k  BY <1>9, <2>1, <3>1, <3>2, <3>3
    <3> QED  BY <2>2, <3>1, <3>2, <3>4
  <2>6. IsGap(o, time) <=> ~Near(p, i)
    <3>1. MaxGap \in Nat  BY ReadingsAssumption DEF ReadingsAssumption
    <3>2. IsGap(o, time) <=> readings[i].time - time > MaxGap  BY <2>1 DEF IsGap
    <3>3. Near(p, i) <=> readings[i].time - time <= MaxGap  BY DEF Near, time
    <3> QED  BY <1>1, <2>2, <3>1, <3>2, <3>3
  <2>7. s # {} /\ p = Min(s)  OBVIOUS
  <2>8. CASE o.done
    <3>1. r = o  BY <1>6, <2>8
    <3> QED  BY <1>4, <2>1, <2>2, <2>3, <2>4, <2>7, <2>8, <3>1 DEF OnsetTells, r
  <2>9. CASE ~o.done /\ IsGap(o, time)
    <3>1. r.start = o.start /\ r.atLeast /\ r.done  BY <1>6, <2>9
    <3> QED  BY <1>6, <2>1, <2>2, <2>3, <2>7, <3>1 DEF OnsetTells, r
  <2>10. CASE ~o.done /\ ~IsGap(o, time) /\ ~(level >= Warning)
    <3>1. r.start = o.start /\ r.done  BY <1>6, <2>10
    <3>2. Exactly(dir, c, metric, s, R, i)  BY <1>7, <2>5, <2>6, <2>10 DEF Exactly
    <3> QED  BY <1>6, <2>1, <2>2, <2>3, <2>7, <3>1, <3>2 DEF OnsetTells, r
  <2>11. CASE ~o.done /\ ~IsGap(o, time) /\ level >= Warning
    <3>1. r.start = {time} /\ ~r.atLeast /\ ~r.done  BY <1>6, <2>1, <2>11
    <3>2. Onward(dir, c, metric, s, R, p)
      <4>1. \A j \in s : j = p \/ i <= j
        <5> TAKE j \in s
        <5>1. j \in t => i <= j  BY <1>9, <2>1, <2>11
        <5> QED  BY <5>1
      <4>2. \A j \in s : Bad(dir, c, metric, j)
        BY <1>7, <2>1, <2>11, <4>1 DEF Onward
      <4>3. ASSUME NEW j \in s, NEW k \in s, Follow(R, j, k)
            PROVE  Near(j, k)
        <5>1. CASE j = p
          <6>1. k \in Int /\ p < k /\ k # p  BY <1>1, <1>3, <2>2, <4>3, <5>1 DEF Follow
          <6>2. i <= k  BY <4>1, <6>1
          <6>3. ~(i < k)  BY <2>2, <4>3, <5>1 DEF Follow
          <6>4. k = i  BY <2>2, <6>1, <6>2, <6>3
          <6> QED  BY <2>6, <2>11, <5>1, <6>4
        <5>2. CASE j # p
          <6>1. i <= j /\ j \in Int /\ k \in Int  BY <1>1, <1>3, <4>1, <5>2
          <6>2. j < k  BY <4>3 DEF Follow
          <6>3. k # p  BY <2>2, <6>1, <6>2
          <6> QED  BY <2>1, <4>3, <5>2, <6>1, <6>3 DEF Onward
        <5> QED  BY <5>1, <5>2
      <4> QED  BY <4>2, <4>3 DEF Onward
    <3> QED  BY <1>6, <2>7, <3>1, <3>2 DEF OnsetTells, time, r
  <2> QED  BY <2>8, <2>9, <2>10, <2>11
<1> QED  BY <1>8, <1>9

(* What the whole walk knows. *)
LEMMA WalkTells ==
    ASSUME NEW dir, NEW c, NEW metric, NEW R, Judges(dir, c, metric, R), NEW W, Latests(W, R), IsFiniteSet(W)
    PROVE  OnsetTells(dir, c, metric, W, R, Walked(dir, c, metric, W))
<1> DEFINE Right(s) == OnsetTells(dir, c, metric, s, R, Walked(dir, c, metric, s))
           F == {s \in SUBSET W : Latests(s, R) /\ ~Right(s)}
<1>0. Numbers(W) /\ \A s \in SUBSET W : Numbers(s) /\ IsFiniteSet(s)
  <2>1. Numbers(W)  BY DEF Numbers, Latests, Judges
  <2> QED  BY <2>1, FewerNumbers
<1>1. SUFFICES ASSUME F # {} PROVE FALSE
  <2>1. W \in SUBSET W  OBVIOUS
  <2> QED  BY <2>1
<1>2. PICK s \in F : \A t \in F : t \subseteq s => t = s
  <2>1. \A t \in F : IsFiniteSet(t)  BY <1>0
  <2> HIDE DEF F
  <2> QED  BY <1>1, <2>1, Smallest
<1>3. s \in SUBSET W /\ Latests(s, R) /\ ~Right(s) /\ Numbers(s)  BY <1>0
<1>4. CASE s = {}
  <2>1. Walked(dir, c, metric, s) = NoOnset  BY <1>3, <1>4, WalkUnfolds
  <2>2. NoOnset \in AnOnset /\ NoOnset.start = {} /\ ~NoOnset.atLeast /\ ~NoOnset.done
    BY DEF NoOnset, AnOnset
  <2> QED  BY <1>3, <1>4, <2>1, <2>2 DEF OnsetTells
<1>5. CASE s # {}
  <2> DEFINE p == Min(s)
             t == s \ {p}
  <2>1. p \in s /\ (\A y \in s : p <= y) /\ t \subseteq s /\ t # s  BY <1>3, <1>5, LowestFirst
  <2> HIDE DEF F, Right
  <2>2. t \in SUBSET W /\ Numbers(t)  BY <1>0, <1>3, <2>1
  <2>3. t # {} => Min(t) \in t /\ \A y \in t : Min(t) <= y
    <3> HIDE DEF t
    <3> QED  BY <2>2, LowestFirst
  <2>4. Latests(t, R)
    <3>1. SUFFICES ASSUME NEW i \in t, NEW j \in R, i <= j PROVE j \in t
      BY <1>3, <2>1 DEF Latests
    <3>2. i \in s /\ j \in s /\ p <= i /\ i # p  BY <1>3, <2>1, <3>1 DEF Latests
    <3>3. i \in Int /\ j \in Int /\ p \in Int  BY <1>3, <2>1, <3>2 DEF Numbers
    <3> HIDE DEF p
    <3>4. j # p  BY <3>1, <3>2, <3>3
    <3> QED  BY <3>2, <3>4
  <2>5. Right(t)
    <3> HIDE DEF t
    <3> QED  BY <1>2, <2>1, <2>2, <2>4 DEF F
  <2>6. Walked(dir, c, metric, s) = Look(dir, c, metric, p, Walked(dir, c, metric, t))
    BY <1>3, <1>5, WalkUnfolds
  <2>7. OnsetTells(dir, c, metric, t, R, Walked(dir, c, metric, t))  BY <2>5 DEF Right
  <2>8. p = Min(s) /\ t = s \ {p}  OBVIOUS
  <2> HIDE DEF p, t
  <2>9. OnsetTells(dir, c, metric, s, R, Look(dir, c, metric, p, Walked(dir, c, metric, t)))
    BY <1>3, <2>1, <2>3, <2>7, <2>8, LookTells
  <2> QED  BY <1>3, <2>6, <2>9 DEF Right
<1> QED  BY <1>4, <1>5

(* There are finitely many levels. *)
LEMMA LevelsAreFinite == IsFiniteSet(0..4)
<1>1. PICK a \in Int, b \in Int : a = 0 /\ b = 4  OBVIOUS
<1>2. IsFiniteSet(a..b)  BY FS_Interval
<1> QED  BY <1>1, <1>2

(* The worst level is a level and no other is worse. *)
LEMMA WorstFacts ==
    ASSUME NEW S, S \subseteq 0..4
    PROVE  Worst(S) \in Int /\ \A x \in S : x <= Worst(S)
<1> DEFINE T == {Unknown} \cup S
<1>1. T \subseteq 0..4 /\ T # {}  BY DEF Unknown
<1>2. T \subseteq Int /\ IsFiniteSet(T)
  <2>1. IsFiniteSet(T)
    <3> HIDE DEF T
    <3> QED  BY <1>1, LevelsAreFinite, FS_Subset
  <2> QED  BY <1>1, <2>1
<1>3. S \subseteq T  OBVIOUS
<1> HIDE DEF T
<1>4. Max(T) \in T /\ \A y \in T : y <= Max(T)  BY <1>1, <1>2, MaxExists
<1> QED  BY <1>2, <1>3, <1>4 DEF Worst, T

(* The verdict on a measure is a level. *)
LEMMA LevelFacts ==
    /\ \A v, b : PowerLevel(v, b) \in 0..4
    /\ \A v, b : SnrLevel(v, b) \in 0..4
    /\ \A v, b : ModulationLevel(v, b) \in 0..4
BY DEF PowerLevel, SnrLevel, ModulationLevel, Unknown, Good, Tolerated, Warning, Critical

FindingsOf(dir, row) == IF dir = "down" THEN DownstreamFindings(row, {}, {}) ELSE UpstreamFindings(row)

(* So is that of every finding. *)
LEMMA FindingLevels ==
    ASSUME NEW dir, NEW row
    PROVE  \A f \in FindingsOf(dir, row) : f.level \in 0..4
<1>1. Warning \in 0..4  BY DEF Warning
<1>2. ASSUME NEW f \in DownstreamFindings(row, {}, {})
      PROVE  f.level \in 0..4
  <2> HIDE DEF Warning
  <2>1. CASE \E v \in row.power, b \in DownstreamPowerFor(row.mod) :
                 f = Finding("power", LET l == PowerLevel(v, b)
                                      IN IF l >= Warning /\ Implausible(row, {}) THEN Warning ELSE l)
    BY <1>1, <2>1, LevelFacts DEF Finding
  <2>2. CASE \E q \in row.snr, b \in SnrFor(row.mod) : f = Finding("snr", SnrLevel(q, b))
    BY <2>2, LevelFacts DEF Finding
  <2> QED  BY <2>1, <2>2 DEF DownstreamFindings
<1>3. ASSUME NEW f \in UpstreamFindings(row)
      PROVE  f.level \in 0..4
  <2>1. CASE \E v \in row.power, b \in UpstreamPowerFor(row.mod) : f = Finding("power", PowerLevel(v, b))
    BY <2>1, LevelFacts DEF Finding
  <2>2. CASE f = Finding("modulation", ModulationLevel(Order(row),
                          IF row.mod = 0 THEN OfdmaLimits ELSE Profile.upModulation))
    BY <2>2, LevelFacts DEF Finding
  <2> QED  BY <2>1, <2>2 DEF UpstreamFindings
<1> QED  BY <1>2, <1>3 DEF FindingsOf

(* A measure judged again is at least as bad as each of its findings. *)
LEMMA JudgedFacts ==
    ASSUME NEW dir, NEW row, NEW metric
    PROVE  /\ Judged(dir, row, metric) \in Int
           /\ \A f \in FindingsOf(dir, row) : f.metric = metric => f.level <= Judged(dir, row, metric)
<1> DEFINE S == {f.level : f \in {g \in FindingsOf(dir, row) : g.metric = metric}}
<1>1. S \subseteq 0..4  BY FindingLevels
<1>2. Judged(dir, row, metric) = Worst(S)  BY DEF Judged, Metric, FindingsOf
<1>3. \A f \in FindingsOf(dir, row) : f.metric = metric => f.level \in S  OBVIOUS
<1> HIDE DEF S
<1> QED  BY <1>1, <1>2, <1>3, WorstFacts

(* A measure that is out of range with its errors and neighbours is so alone. *)
LEMMA StillWarning ==
    ASSUME NEW row, NEW errors, NEW slope, NEW f \in DownstreamFindings(row, errors, slope),
           f.metric # "errors", f.level >= Warning
    PROVE  \E g \in FindingsOf("down", row) : g.metric = f.metric /\ g.level >= Warning
<1>1. CASE \E v \in row.power, b \in DownstreamPowerFor(row.mod) :
               f = Finding("power", LET l == PowerLevel(v, b)
                                    IN IF l >= Warning /\ Implausible(row, slope) THEN Warning ELSE l)
  <2>1. PICK v \in row.power, b \in DownstreamPowerFor(row.mod) :
               f = Finding("power", LET l == PowerLevel(v, b)
                                    IN IF l >= Warning /\ Implausible(row, slope) THEN Warning ELSE l)
    BY <1>1
  <2>2. f.metric = "power" /\ PowerLevel(v, b) >= Warning  BY <2>1 DEF Finding
  <2>3. ~Implausible(row, {})  BY DEF Implausible
  <2>4. Finding("power", PowerLevel(v, b)) \in DownstreamFindings(row, {}, {})
    BY <2>3 DEF DownstreamFindings
  <2>5. Finding("power", PowerLevel(v, b)) \in FindingsOf("down", row)  BY <2>4 DEF FindingsOf
  <2> QED  BY <2>2, <2>5 DEF Finding
<1>2. CASE \E q \in row.snr, b \in SnrFor(row.mod) : f = Finding("snr", SnrLevel(q, b))
  <2>1. f \in DownstreamFindings(row, {}, {})  BY <1>2 DEF DownstreamFindings
  <2> QED  BY <2>1 DEF FindingsOf
<1>3. CASE \E e \in errors : f = Finding("errors", ErrorLevel(e))
  BY <1>3 DEF Finding
<1> QED  BY <1>1, <1>2, <1>3 DEF DownstreamFindings

Rows(dir, c) == {i \in 1..Len(readings) : c \in DOMAIN readings[i][dir]}

(* The rows the pages go back over are the latest of the channel. *)
LEMMA BackFacts ==
    ASSUME EInv, NEW dir, NEW c, Len(readings) \in Rows(dir, c)
    PROVE  /\ Latests(Back(dir, c), Rows(dir, c)) /\ IsFiniteSet(Back(dir, c))
           /\ Len(readings) \in Back(dir, c)
<1> DEFINE n == Len(readings)
           R == Rows(dir, c)
           rows == {i \in DOMAIN readings : /\ c \in DOMAIN readings[i][dir]
                                           /\ readings[i].time >= Latest.time - Lookback}
           Above(i) == {j \in rows : j > i}
<1>1. n \in Nat /\ n \in 1..n /\ DOMAIN readings = 1..n
  BY SeqFacts DEF EInv, RInv, TablesTypeOK, Rows
<1>2. IsFiniteSet(1..n)  BY WindowFacts
<1>3. Back(dir, c) = {i \in rows : Cardinality(Above(i)) < MaxRunRows}  BY DEF Back
<1>4. rows \subseteq R /\ R \subseteq 1..n  BY <1>1 DEF Rows
<1>5. \A i \in rows : IsFiniteSet(Above(i)) /\ Cardinality(Above(i)) \in Nat
  <2>1. \A i \in rows : Above(i) \subseteq 1..n  BY <1>4
  <2>2. \A i \in rows : IsFiniteSet(Above(i))
    <3> HIDE DEF Above, rows
    <3> QED  BY <1>2, <2>1, FS_Subset
  <2> HIDE DEF Above, rows
  <2> QED  BY <2>2, FS_CardinalityType
<1>6. \A i \in 1..n : readings[i].time \in Nat
  BY DEF EInv, InTime
<1>7. \A i \in 1..n : \A j \in 1..n : i < j => readings[i].time < readings[j].time
  BY DEF EInv, InTime
<1>8. MaxRunRows \in Nat \ {0} /\ Lookback \in Nat  BY ReadingsAssumption DEF ReadingsAssumption
<1>9. ASSUME NEW i \in Back(dir, c), NEW j \in R, i <= j
      PROVE  j \in Back(dir, c)
  <2>1. i \in rows /\ Cardinality(Above(i)) < MaxRunRows  BY <1>3
  <2>2. i \in 1..n /\ j \in 1..n  BY <1>4, <2>1
  <2>3. readings[i].time <= readings[j].time
    <3>1. i = j \/ i < j  BY <1>9, <2>2
    <3> QED  BY <1>6, <1>7, <2>2, <3>1
  <2>4. Latest.time \in Nat  BY <1>1, <1>6 DEF Latest
  <2>5. readings[j].time >= Latest.time - Lookback
    <3>1. readings[i].time >= Latest.time - Lookback  BY <2>1
    <3> QED  BY <1>6, <1>8, <2>2, <2>3, <2>4, <3>1
  <2>6. j \in rows  BY <1>1, <2>2, <2>5 DEF Rows
  <2>7. Above(j) \subseteq Above(i)  BY <1>4, <1>9, <2>2
  <2>8. Cardinality(Above(j)) <= Cardinality(Above(i))
    <3> HIDE DEF Above, rows
    <3> QED  BY <1>5, <2>1, <2>7, FS_Subset
  <2>9. Cardinality(Above(i)) \in Nat /\ Cardinality(Above(j)) \in Nat  BY <1>5, <2>1, <2>6
  <2> HIDE DEF Above, rows
  <2>10. Cardinality(Above(j)) < MaxRunRows  BY <1>8, <2>1, <2>8, <2>9
  <2> QED  BY <1>3, <2>6, <2>10
<1>10. n \in Back(dir, c)
  <2>1. Latest.time \in Nat /\ Latest.time = readings[n].time  BY <1>1, <1>6 DEF Latest
  <2>2. n \in rows  BY <1>1, <1>8, <2>1 DEF Rows
  <2>3. Above(n) = {}  BY <1>1, <1>4
  <2>4. Cardinality(Above(n)) = 0  BY <2>3, FS_EmptySet
  <2> HIDE DEF Above, rows
  <2> QED  BY <1>3, <1>8, <2>2, <2>4
<1>11. IsFiniteSet(Back(dir, c))
  <2>1. Back(dir, c) \subseteq 1..n  BY <1>3, <1>4
  <2> QED  BY <1>2, <2>1, FS_Subset
<1>12. Back(dir, c) \subseteq R  BY <1>3, <1>4
<1> HIDE DEF n, R, rows, Above
<1> QED  BY <1>9, <1>10, <1>11, <1>12 DEF Latests, R, n

(* What the end of the walk adds. *)
LEMMA FinishIs ==
    ASSUME NEW o \in AnOnset, o.start # {}
    PROVE  Finish(o).start = o.start /\ (~Finish(o).atLeast => o.done /\ ~o.atLeast)
<1> DEFINE r == [o EXCEPT !.atLeast = TRUE]
<1>1. r.start = o.start /\ r.atLeast  BY DEF AnOnset
<1>2. Finish(o) = IF o.done THEN o ELSE r  BY DEF Finish
<1> HIDE DEF r
<1> QED  BY <1>1, <1>2

(* What a reason of the page is made of. *)
LEMMA ReasonFacts ==
    ASSUME NEW r \in Reasons, r.metric # "errors"
    PROVE  /\ r.dir \in {"down", "up"} /\ r.of \in DOMAIN Latest[r.dir]
           /\ r.onset = Onset(r.dir, r.of, r.metric)
           /\ \E g \in FindingsOf(r.dir, Latest[r.dir][r.of]) : g.metric = r.metric /\ g.level >= Warning
<1> DEFINE h == Health(Latest)
           why(dir, c, f) == [dir |-> dir, of |-> c, metric |-> f.metric, level |-> f.level,
                              onset |-> IF f.metric = "errors" THEN NoOnset ELSE Onset(dir, c, f.metric)]
<1>1. PICK dir, c, f : /\ dir \in {"down", "up"} /\ c \in DOMAIN h[dir] /\ f \in h[dir][c]
                       /\ f.level >= Warning /\ r = why(dir, c, f)
  <2> HIDE DEF h
  <2>1. Reasons = UNION {{why(x[1], x[2], f) : f \in {g \in h[x[1]][x[2]] : g.level >= Warning}} :
                         x \in {y \in {"down", "up"} \X (Down \cup Up) : y[2] \in DOMAIN h[y[1]]}}
    BY DEF Reasons, h
  <2> HIDE DEF why
  <2>2. PICK x \in {y \in {"down", "up"} \X (Down \cup Up) : y[2] \in DOMAIN h[y[1]]} :
           r \in {why(x[1], x[2], f) : f \in {g \in h[x[1]][x[2]] : g.level >= Warning}}
    BY <2>1
  <2>3. PICK f \in {g \in h[x[1]][x[2]] : g.level >= Warning} : r = why(x[1], x[2], f)
    BY <2>2
  <2>4. x[1] \in {"down", "up"} /\ x[2] \in DOMAIN h[x[1]]  BY <2>2
  <2> QED  BY <2>3, <2>4
<1>2. r.dir = dir /\ r.of = c /\ r.metric = f.metric
  BY <1>1
<1>3. r.onset = Onset(dir, c, f.metric)
  BY <1>1, <1>2
<1>4. /\ h.up = [u \in DOMAIN Latest.up |-> UpstreamFindings(Latest.up[u])]
      /\ DOMAIN h.down = DOMAIN Latest.down
      /\ \A d \in DOMAIN h.down : \E errors, slope :
            h.down[d] = DownstreamFindings(Latest.down[d], errors, slope)
  <2> DEFINE totals == ErrorTotals(Latest.time - Profile.errors.window, Latest.time)
             E(d) == IF d \in DOMAIN totals THEN {totals[d]} ELSE {}
             slope == Slope(Latest.down)
  <2>1. h = [down |-> [d \in DOMAIN Latest.down |-> DownstreamFindings(Latest.down[d], E(d), slope)],
             up |-> [u \in DOMAIN Latest.up |-> UpstreamFindings(Latest.up[u])]]
    BY DEF Health
  <2> HIDE DEF h, E, slope
  <2>2. /\ h.down = [d \in DOMAIN Latest.down |-> DownstreamFindings(Latest.down[d], E(d), slope)]
        /\ h.up = [u \in DOMAIN Latest.up |-> UpstreamFindings(Latest.up[u])]
    BY <2>1
  <2>3. \A d \in DOMAIN Latest.down : h.down[d] = DownstreamFindings(Latest.down[d], E(d), slope)
    BY <2>2
  <2>4. DOMAIN h.down = DOMAIN Latest.down  BY <2>2
  <2> QED  BY <2>2, <2>3, <2>4
<1> HIDE DEF h, why
<1>5. CASE dir = "down"
  <2>1. PICK errors, slope : c \in DOMAIN Latest.down /\ f \in DownstreamFindings(Latest.down[c], errors, slope)
    <3>1. c \in DOMAIN h.down /\ f \in h.down[c]  BY <1>1, <1>5
    <3> QED  BY <1>4, <3>1
  <2>2. f.metric # "errors"  BY <1>2
  <2>3. \E g \in FindingsOf("down", Latest.down[c]) : g.metric = f.metric /\ g.level >= Warning
    BY <1>1, <2>1, <2>2, StillWarning
  <2>4. Latest["down"] = Latest.down  OBVIOUS
  <2> QED  BY <1>2, <1>3, <1>5, <2>1, <2>3, <2>4
<1>6. CASE dir = "up"
  <2>1. c \in DOMAIN Latest.up /\ f \in UpstreamFindings(Latest.up[c])
    BY <1>1, <1>4, <1>6
  <2>2. f \in FindingsOf("up", Latest.up[c])  BY <2>1 DEF FindingsOf
  <2>3. Latest["up"] = Latest.up  OBVIOUS
  <2> QED  BY <1>1, <1>2, <1>3, <1>6, <2>1, <2>2, <2>3
<1> QED  BY <1>1, <1>5, <1>6

(* What a page says of the date a measure is out of range since is true of the*)
(* readings that are stored (downOnset, upOnset).                          *)
LEMMA DatesAreTrue ==
    ASSUME EInv
    PROVE  SinceIsTrue
<1>1. SUFFICES ASSUME pending, NEW r \in Reasons, r.metric # "errors"
               PROVE  LET rows == {i \in DOMAIN readings : r.of \in DOMAIN readings[i][r.dir]}
                          bad(i) == Judged(r.dir, readings[i][r.dir][r.of], r.metric) >= Warning
                          near(i, j) == readings[j].time - readings[i].time <= MaxGap
                          upper(i) == Min({j \in rows : j > i})
                      IN \E i \in rows :
                          /\ r.onset.start = {readings[i].time}
                          /\ \A j \in rows : j >= i => bad(j) /\ (j = Len(readings) \/ near(j, upper(j)))
                          /\ ~r.onset.atLeast =>
                                \E j \in rows : j < i /\ upper(j) = i /\ near(j, i) /\ ~bad(j)
  BY DEF SinceIsTrue
<1>2. PICK dir, c, metric, n : dir = r.dir /\ c = r.of /\ metric = r.metric /\ n = Len(readings)
  OBVIOUS
<1>3. /\ dir \in {"down", "up"} /\ c \in DOMAIN Latest[dir] /\ r.onset = Onset(dir, c, metric)
      /\ \E g \in FindingsOf(dir, Latest[dir][c]) : g.metric = metric /\ g.level >= Warning
  BY <1>1, <1>2, ReasonFacts
<1>4. /\ n \in Nat /\ n \in 1..n /\ DOMAIN readings = 1..n
      /\ \A i \in 1..n : readings[i].time \in Nat
      /\ Latest = readings[n]
  <2>1. DOMAIN readings = 1..n /\ n \in Nat /\ n # 0  BY <1>1, <1>2, SeqFacts DEF EInv, RInv, TablesTypeOK
  <2> QED  BY <1>2, <2>1 DEF EInv, InTime, Latest
<1> DEFINE R == Rows(dir, c)
           W == Back(dir, c)
           o == Walked(dir, c, metric, W)
<1>5. n \in R /\ R = {i \in DOMAIN readings : c \in DOMAIN readings[i][dir]}
  BY <1>2, <1>3, <1>4 DEF Rows
<1>6. Latests(W, R) /\ IsFiniteSet(W) /\ n \in W  BY <1>2, <1>5, BackFacts
<1>7. Judges(dir, c, metric, R)
  <2>1. R \subseteq 1..n  BY <1>2 DEF Rows
  <2>2. \A i \in R : Judged(dir, readings[i][dir][c], metric) \in Int  BY JudgedFacts
  <2>3. Bad(dir, c, metric, n)
    <3>1. PICK g \in FindingsOf(dir, Latest[dir][c]) : g.metric = metric /\ g.level >= Warning  BY <1>3
    <3>2. g.level \in 0..4  BY FindingLevels
    <3>3. g.level <= Judged(dir, Latest[dir][c], metric) /\ Judged(dir, Latest[dir][c], metric) \in Int
      BY <3>1, JudgedFacts
    <3>4. Judged(dir, Latest[dir][c], metric) >= Warning  BY <3>1, <3>2, <3>3 DEF Warning
    <3> QED  BY <1>4, <3>4 DEF Bad
  <2> HIDE DEF R
  <2> QED  BY <1>2, <1>4, <1>5, <2>1, <2>2, <2>3 DEF Judges
<1>8. OnsetTells(dir, c, metric, W, R, o)  BY <1>6, <1>7, WalkTells
<1>9. r.onset = Finish(o)  BY <1>3, OnsetIs DEF Walked
<1> HIDE DEF R, W, o
<1>10. PICK i \in W : /\ o.start = {readings[i].time}
                      /\ Onward(dir, c, metric, W, R, i)
                      /\ o.done /\ ~o.atLeast => Exactly(dir, c, metric, W, R, i)
  BY <1>6, <1>8 DEF OnsetTells
<1>11. r.onset.start = {readings[i].time} /\ (~r.onset.atLeast => Exactly(dir, c, metric, W, R, i))
  BY <1>8, <1>9, <1>10, FinishIs DEF OnsetTells
<1> DEFINE Later(j) == {k \in R : k > j}
           upper(j) == Min(Later(j))
<1>12. i \in R /\ R \subseteq 1..n /\ W \subseteq R /\ \A j \in R : j \in Int /\ j <= n
  <2>1. R \subseteq 1..n  BY <1>2, <1>7 DEF Judges
  <2> QED  BY <1>4, <1>6, <2>1 DEF Latests
<1>13. ASSUME NEW j \in R, j # n
       PROVE  Follow(R, j, upper(j))
  <2> DEFINE S == Later(j)
  <2>1. n \in S
    <3>1. n \in Int /\ j \in Int /\ j <= n  BY <1>4, <1>12
    <3> QED  BY <1>5, <1>13, <3>1
  <2>2. S \subseteq 1..n  BY <1>12
  <2>3. IsFiniteSet(S)
    <3>1. IsFiniteSet(1..n)  BY <1>2, WindowFacts
    <3> HIDE DEF S
    <3> QED  BY <2>2, <3>1, FS_Subset
  <2>4. Min(S) \in S /\ \A y \in S : Min(S) <= y
    <3>1. S # {} /\ S \subseteq Int  BY <2>1, <2>2
    <3> HIDE DEF S
    <3> QED  BY <2>3, <3>1, MinExists
  <2>5. Min(S) \in R /\ j < Min(S) /\ Min(S) \in Int
    <3>1. Min(S) \in R /\ Min(S) > j  BY <2>4
    <3>2. Min(S) \in Int /\ j \in Int
      <4> HIDE DEF S
      <4> QED  BY <1>12, <3>1
    <3> HIDE DEF S
    <3> QED  BY <3>1, <3>2
  <2>6. ASSUME NEW k \in R, j < k, k < Min(S)
        PROVE  FALSE
    <3>1. k \in S  BY <1>12, <2>6
    <3>2. Min(S) <= k /\ k \in Int  BY <1>12, <2>4, <3>1
    <3> HIDE DEF S
    <3> QED  BY <2>5, <2>6, <3>2
  <2> HIDE DEF S
  <2> QED  BY <2>5, <2>6 DEF Follow, S
<1>14. ASSUME NEW j \in R, NEW k \in R, Follow(R, j, k)
       PROVE  upper(j) = k /\ j < k
  <2>1. j < k /\ k \in Int /\ j \in Int  BY <1>12, <1>14 DEF Follow
  <2>2. k \in Later(j)  BY <2>1
  <2>3. \A y \in Later(j) : k <= y
    <3> TAKE y \in Later(j)
    <3>1. y \in R /\ y > j /\ y \in Int  BY <1>12
    <3>2. ~(j < y /\ y < k)  BY <1>14, <3>1 DEF Follow
    <3> QED  BY <2>1, <3>1, <3>2
  <2>4. Later(j) \subseteq Int  BY <1>12
  <2> HIDE DEF Later
  <2> QED  BY <2>1, <2>2, <2>3, <2>4, MinIs
<1> HIDE DEF upper
<1>15. ASSUME NEW j \in R, j >= i
       PROVE  Bad(dir, c, metric, j) /\ (j = n \/ Near(j, upper(j)))
  <2>1. i <= j /\ j \in W
    <3>1. i <= j  BY <1>12, <1>15
    <3> QED  BY <1>6, <3>1 DEF Latests
  <2>2. j # n => Near(j, upper(j))
    <3>1. SUFFICES ASSUME j # n PROVE Near(j, upper(j))  OBVIOUS
    <3>2. Follow(R, j, upper(j))  BY <1>13, <3>1
    <3>3. upper(j) \in R /\ i <= upper(j)
      <4>1. upper(j) \in R /\ j < upper(j)  BY <3>2 DEF Follow
      <4>2. upper(j) \in Int /\ j \in Int /\ i \in Int  BY <1>12, <4>1
      <4> QED  BY <2>1, <4>1, <4>2
    <3>4. upper(j) \in W  BY <1>6, <3>3 DEF Latests
    <3> QED  BY <1>10, <2>1, <3>2, <3>4 DEF Onward
  <2> QED  BY <1>10, <2>1, <2>2 DEF Onward
<1>16. ASSUME ~r.onset.atLeast
       PROVE  \E j \in R : j < i /\ upper(j) = i /\ Near(j, i) /\ ~Bad(dir, c, metric, j)
  <2>1. PICK j \in W : Follow(R, j, i) /\ Near(j, i) /\ ~Bad(dir, c, metric, j)
    BY <1>11, <1>16 DEF Exactly
  <2>2. j \in R  BY <1>12
  <2> QED  BY <1>12, <1>14, <2>1, <2>2
<1> QED
  <2>1. R = {k \in DOMAIN readings : r.of \in DOMAIN readings[k][r.dir]}  BY <1>2, <1>5
  <2>2. \A j \in R : upper(j) = Min({k \in R : k > j})  BY DEF upper
  <2>3. \A j : Bad(dir, c, metric, j) <=> Judged(r.dir, readings[j][r.dir][r.of], r.metric) >= Warning
    BY <1>2 DEF Bad
  <2>4. \A j, k : Near(j, k) <=> readings[k].time - readings[j].time <= MaxGap  BY DEF Near
  <2> DEFINE rows == {k \in DOMAIN readings : r.of \in DOMAIN readings[k][r.dir]}
  <2>5. \E m \in rows :
            /\ r.onset.start = {readings[m].time}
            /\ \A j \in rows : j >= m => Bad(dir, c, metric, j) /\ (j = Len(readings) \/ Near(j, upper(j)))
            /\ ~r.onset.atLeast => \E j \in rows : j < m /\ upper(j) = m /\ Near(j, m) /\ ~Bad(dir, c, metric, j)
    <3>1. rows = R  BY <2>1
    <3> HIDE DEF rows
    <3> QED  BY <1>2, <1>11, <1>12, <1>15, <1>16, <3>1
  <2> QED  BY <1>5, <2>1, <2>2, <2>3, <2>4, <2>5

-----------------------------------------------------------------------------
(* The episodes of errors. *)

(* The events of a reading that tell of a spike: one at most. *)
SpikeKinds == {"errors", "errorsEnd"}
Silent(s) == IsSeq(s) /\ \A i \in 1..Len(s) : s[i].kind \notin SpikeKinds
Lone(s, e) ==
    /\ IsSeq(s)
    /\ \A i \in 1..Len(s) : s[i].kind \in SpikeKinds => Len(e) = 1 /\ s[i] = e[1]
    /\ \A i \in 1..Len(s) : \A j \in 1..Len(s) : s[i].kind \in SpikeKinds /\ s[j].kind \in SpikeKinds => i = j

(* Where the elements of two sequences are once they are one. *)
LEMMA ConcatPlaces ==
    ASSUME NEW s, NEW t, IsSeq(s), IsSeq(t), NEW i \in 1..Len(s \o t)
    PROVE  \/ i \in 1..Len(s) /\ (s \o t)[i] = s[i]
           \/ i - Len(s) \in 1..Len(t) /\ (s \o t)[i] = t[i - Len(s)] /\ i = Len(s) + (i - Len(s))
<1>1. Len(s) \in Nat /\ Len(t) \in Nat /\ Len(s \o t) = Len(s) + Len(t)  BY SeqFacts, ConcatFacts
<1>2. CASE i \in 1..Len(s)  BY <1>2, ConcatFacts
<1>3. CASE i \notin 1..Len(s)
  <2>1. i - Len(s) \in 1..Len(t) /\ i = Len(s) + (i - Len(s))  BY <1>1, <1>3
  <2>2. (s \o t)[Len(s) + (i - Len(s))] = t[i - Len(s)]  BY <2>1, ConcatFacts
  <2> QED  BY <2>1, <2>2
<1> QED  BY <1>2, <1>3

(* Sequences that tell of no spike, one after the other. *)
LEMMA SilentConcat ==
    ASSUME NEW s, NEW t, Silent(s), Silent(t)
    PROVE  Silent(s \o t)
<1>1. IsSeq(s) /\ IsSeq(t) /\ IsSeq(s \o t)  BY ConcatFacts DEF Silent
<1>2. ASSUME NEW i \in 1..Len(s \o t)
      PROVE  (s \o t)[i].kind \notin SpikeKinds
  <2>1. CASE i \in 1..Len(s) /\ (s \o t)[i] = s[i]  BY <2>1 DEF Silent
  <2>2. CASE i - Len(s) \in 1..Len(t) /\ (s \o t)[i] = t[i - Len(s)]  BY <2>2 DEF Silent
  <2> QED  BY <1>1, <2>1, <2>2, ConcatPlaces
<1> QED  BY <1>1, <1>2 DEF Silent

(* A spike told after other events. *)
LEMMA LoneAfter ==
    ASSUME NEW s, NEW t, NEW e, Silent(s), Lone(t, e)
    PROVE  Lone(s \o t, e)
<1>1. IsSeq(s) /\ IsSeq(t) /\ IsSeq(s \o t)  BY ConcatFacts DEF Silent, Lone
<1>2. ASSUME NEW i \in 1..Len(s \o t), (s \o t)[i].kind \in SpikeKinds
      PROVE  i - Len(s) \in 1..Len(t) /\ (s \o t)[i] = t[i - Len(s)] /\ i = Len(s) + (i - Len(s))
  <2>1. ~(i \in 1..Len(s) /\ (s \o t)[i] = s[i])  BY <1>2 DEF Silent
  <2> QED  BY <1>1, <2>1, ConcatPlaces
<1>3. ASSUME NEW i \in 1..Len(s \o t), (s \o t)[i].kind \in SpikeKinds
      PROVE  Len(e) = 1 /\ (s \o t)[i] = e[1]
  BY <1>2, <1>3 DEF Lone
<1>4. ASSUME NEW i \in 1..Len(s \o t), NEW j \in 1..Len(s \o t),
             (s \o t)[i].kind \in SpikeKinds, (s \o t)[j].kind \in SpikeKinds
      PROVE  i = j
  <2>1. i - Len(s) = j - Len(s)  BY <1>2, <1>4 DEF Lone
  <2>2. Len(s) \in Nat /\ Len(s \o t) \in Nat  BY <1>1, SeqFacts
  <2> QED  BY <2>1, <2>2
<1> QED  BY <1>1, <1>3, <1>4 DEF Lone

(* A spike told before other events. *)
LEMMA LoneBefore ==
    ASSUME NEW s, NEW t, NEW e, Lone(s, e), Silent(t)
    PROVE  Lone(s \o t, e)
<1>1. IsSeq(s) /\ IsSeq(t) /\ IsSeq(s \o t)  BY ConcatFacts DEF Silent, Lone
<1>2. ASSUME NEW i \in 1..Len(s \o t), (s \o t)[i].kind \in SpikeKinds
      PROVE  i \in 1..Len(s) /\ (s \o t)[i] = s[i]
  <2>1. ~(i - Len(s) \in 1..Len(t) /\ (s \o t)[i] = t[i - Len(s)])  BY <1>2 DEF Silent
  <2> QED  BY <1>1, <2>1, ConcatPlaces
<1> QED  BY <1>1, <1>2 DEF Lone

(* An event that is not of a spike, if it is there. *)
LEMMA SilentIf ==
    ASSUME NEW b, NEW e, e.kind \notin SpikeKinds
    PROVE  Silent(If(b, e))
<1>1. IsSeq(If(b, e)) /\ \A i \in 1..Len(If(b, e)) : If(b, e)[i] = e  BY IfFacts
<1> QED  BY <1>1 DEF Silent

(* An event of another kind. *)
LEMMA SilentEvent ==
    ASSUME NEW b, NEW kind \in {"restart", "lost", "back", "modulation", "power", "state"},
           NEW dir, NEW of, NEW level, NEW total
    PROVE  Silent(If(b, Event(kind, dir, of, level, total)))
<1>1. Event(kind, dir, of, level, total).kind = kind  BY DEF Event
<1>2. kind \notin SpikeKinds  BY DEF SpikeKinds
<1> QED  BY <1>1, <1>2, SilentIf

(* The other parts of a comparison tell of no spike. *)
LEMMA SilentParts ==
    /\ \A dir, before, after : Silent(ChannelEvents(dir, before, after)) /\ Silent(ModulationEvents(dir, before, after))
    /\ \A dir, before, after, shift : Silent(PowerEvents(dir, before, after, shift))
    /\ \A h : Silent(StateEvents(h))
<1>1. ASSUME NEW dir, NEW before, NEW after
      PROVE  Silent(ChannelEvents(dir, before, after))
  <2> DEFINE lost == If(before \ after # {}, Event("lost", dir, before \ after, Warning, 0))
             back == If(after \ before # {}, Event("back", dir, after \ before, Good, 0))
  <2>1. Silent(lost) /\ Silent(back)  BY SilentEvent
  <2>2. ChannelEvents(dir, before, after) = lost \o back  BY DEF ChannelEvents
  <2> HIDE DEF lost, back
  <2> QED  BY <2>1, <2>2, SilentConcat
<1>2. ASSUME NEW dir, NEW before, NEW after
      PROVE  Silent(ModulationEvents(dir, before, after))
  <2> DEFINE moved(sign) == {c \in DOMAIN before \cap DOMAIN after :
                            before[c] # 0 /\ after[c] # 0 /\ sign * (after[c] - before[c]) > 0}
             lower == If(moved(-1) # {}, Event("modulation", dir, moved(-1), Warning, 0))
             higher == If(moved(1) # {}, Event("modulation", dir, moved(1), Good, 0))
  <2>1. ModulationEvents(dir, before, after) = lower \o higher  BY DEF ModulationEvents
  <2>2. Silent(lower) /\ Silent(higher)  BY SilentEvent
  <2> HIDE DEF lower, higher
  <2> QED  BY <2>1, <2>2, SilentConcat
<1>3. ASSUME NEW dir, NEW before, NEW after, NEW shift
      PROVE  Silent(PowerEvents(dir, before, after, shift))
  <2>1. PICK b : PowerEvents(dir, before, after, shift) = If(b, Event("power", dir, {}, Warning, 0))
    BY DEF PowerEvents
  <2> QED  BY <2>1, SilentEvent
<1>4. ASSUME NEW h
      PROVE  Silent(StateEvents(h))
  <2>1. PICK b, dir, of, level : StateEvents(h) = If(b, Event("state", dir, of, level, 0))
    BY DEF StateEvents
  <2> QED  BY <2>1, SilentEvent
<1> QED  BY <1>1, <1>2, <1>3, <1>4

(* The part that tells of spikes has one event at most, dated by the reading. *)
LEMMA SpikesAlone ==
    ASSUME NEW prev, NEW cur
    PROVE  /\ Lone(SpikeEvents(prev, cur), SpikeEvents(prev, cur))
           /\ Len(SpikeEvents(prev, cur)) = 1 =>
                LET e == SpikeEvents(prev, cur)[1]
                IN /\ e.time = readings[Len(readings)].time
                   /\ \/ e.kind = "errors" /\ OpenSpike = {} /\ UncorrectedDelta(prev, cur) >= Profile.errors.spike
                      \/ /\ e.kind = "errorsEnd" /\ OpenSpike # {}
                         /\ e.total = LostSince((CHOOSE x \in OpenSpike : TRUE).time, cur)
<1> DEFINE spike == UncorrectedDelta(prev, cur) >= Profile.errors.spike
           total == LostSince((CHOOSE x \in OpenSpike : TRUE).time, cur)
           start == Event("errors", "down", {}, Warning, 0)
           end == Event("errorsEnd", "down", {}, Good, total)
           s == SpikeEvents(prev, cur)
<1>1. s = IF ~Calibrated THEN << >> ELSE IF OpenSpike = {} THEN If(spike, start) ELSE If(~spike, end)
  BY DEF SpikeEvents
<1>2. /\ start.time = readings[Len(readings)].time /\ start.kind = "errors"
      /\ end.time = readings[Len(readings)].time /\ end.kind = "errorsEnd" /\ end.total = total
  BY DEF Event
<1> HIDE DEF spike, total, start, end, s
<1>3. /\ IsSeq(If(spike, start)) /\ \A i \in 1..Len(If(spike, start)) : i = 1 /\ If(spike, start)[i] = start /\ spike
      /\ IsSeq(If(~spike, end)) /\ \A i \in 1..Len(If(~spike, end)) : i = 1 /\ If(~spike, end)[i] = end /\ ~spike
  <2> DEFINE calm == ~spike
             x == If(spike, start)
             y == If(calm, end)
  <2>1. IsSeq(x) /\ \A i \in 1..Len(x) : i = 1 /\ x[i] = start /\ spike  BY IfFacts
  <2>2. IsSeq(y) /\ \A i \in 1..Len(y) : i = 1 /\ y[i] = end /\ calm  BY IfFacts
  <2> QED  BY <2>1, <2>2
<1>4. IsSeq(<< >>) /\ Len(<< >>) = 0 /\ \A i \in 1..0 : FALSE
  <2>1. << >> \in Seq({}) /\ Len(<< >>) = 0  OBVIOUS
  <2>2. IsSeq(<< >>)  BY <2>1, IsSeqOf
  <2> QED  BY <2>1, <2>2
<1>5. IsSeq(s) /\ \A i \in 1..Len(s) : /\ i = 1
                                       /\ \/ s[i] = start /\ OpenSpike = {} /\ spike
                                          \/ s[i] = end /\ OpenSpike # {}
  BY <1>1, <1>3, <1>4
<1>6. Len(s) \in Nat  BY <1>5, SeqFacts
<1>7. Lone(s, s)
  <2>1. \A i \in 1..Len(s) : Len(s) = 1
    <3> TAKE i \in 1..Len(s)
    <3>1. Len(s) \in 1..Len(s) /\ i \in 1..Len(s)  BY <1>6
    <3> QED  BY <1>5, <3>1
  <2>2. \A i \in 1..Len(s) : i = 1  BY <1>5
  <2> QED  BY <1>5, <2>1, <2>2 DEF Lone
<1>8. Len(s) = 1 => 1 \in 1..Len(s)  OBVIOUS
<1> QED  BY <1>2, <1>5, <1>7, <1>8 DEF s, spike, total

(* So has the whole comparison, and the first reading has none. *)
LEMMA DetectSpikes ==
    ASSUME TablesTypeOK
    PROVE  LET n == Len(readings)
               e == SpikeEvents(readings[n - 1], readings[n])
           IN /\ n = 1 => Silent(Detect)
              /\ n # 1 => Lone(Detect, e)
<1> DEFINE n == Len(readings)
           prev == readings[n - 1]
           cur == readings[n]
           state == StateEvents(Health(cur))
           e == SpikeEvents(prev, cur)
           r == If(Restarted(prev, cur), Event("restart", "down", {}, Warning, 0))
           d == ChannelEvents("down", DOMAIN prev.down, DOMAIN cur.down)
           u == ChannelEvents("up", DOMAIN prev.up, DOMAIN cur.up)
           m == ModulationEvents("down", [c \in DOMAIN prev.down |-> prev.down[c].mod],
                                         [c \in DOMAIN cur.down |-> cur.down[c].mod])
           o == ModulationEvents("up", [c \in DOMAIN prev.up |-> Order(prev.up[c])],
                                       [c \in DOMAIN cur.up |-> Order(cur.up[c])])
           p == PowerEvents("down", prev.down, cur.down, Profile.shiftDown)
           q == PowerEvents("up", prev.up, cur.up, Profile.shiftUp)
<1>1. Detect = (IF n = 1 THEN << >> ELSE Changed(prev, cur)) \o state  BY DEF Detect
<1>2. Changed(prev, cur) = r \o d \o u \o m \o o \o p \o q \o e  BY DEF Changed
<1>3. Silent(r)  BY SilentEvent
<1>4. Silent(d) /\ Silent(u) /\ Silent(m) /\ Silent(o) /\ Silent(p) /\ Silent(q) /\ Silent(state)
  BY SilentParts
<1>5. Lone(e, e)  BY SpikesAlone
<1>6. Silent(<< >>)
  <2>1. << >> \in Seq({}) /\ Len(<< >>) = 0  OBVIOUS
  <2>2. IsSeq(<< >>)  BY <2>1, IsSeqOf
  <2> QED  BY <2>1, <2>2 DEF Silent
<1> HIDE DEF state, e, r, d, u, m, o, p, q
<1>7. Silent(r \o d \o u \o m \o o \o p \o q)
  <2>1. \A s, t : Silent(s) /\ Silent(t) => Silent(s \o t)  BY SilentConcat
  <2> QED  BY <1>3, <1>4, <2>1
<1> DEFINE a == r \o d \o u \o m \o o \o p \o q
<1>8. Lone(a \o e, e)
  <2>1. Silent(a)  BY <1>7
  <2> HIDE DEF a
  <2> QED  BY <1>5, <2>1, LoneAfter
<1>9. Changed(prev, cur) = a \o e  BY <1>2
<1> HIDE DEF a, prev, cur
<1>10. CASE n = 1
  <2>1. Detect = << >> \o state  BY <1>1, <1>10
  <2>2. Silent(Detect)  BY <1>4, <1>6, <2>1, SilentConcat
  <2> QED  BY <1>10, <2>2
<1>11. CASE n # 1
  <2>1. Detect = (a \o e) \o state  BY <1>1, <1>9, <1>11
  <2>2. Lone(Detect, e)  BY <1>4, <1>8, <2>1, LoneBefore
  <2> QED  BY <1>11, <2>2 DEF e, prev, cur
<1> QED  BY <1>10, <1>11

(* The errors of the line only grow. *)
Grows == \A c \in Down :
    /\ \A i \in 1..Len(readings) : facts[i].lost[c] <= fact.lost[c]
    /\ \A i \in 1..Len(readings) : \A j \in 1..Len(readings) : i < j => facts[i].lost[c] <= facts[j].lost[c]

LineLost(i, j) == SumOf([c \in Down |-> facts[j].lost[c] - facts[i].lost[c]], Down)

(* What is counted since reading a goes from the one before it to the last. *)
LEMMA SinceSpan ==
    ASSUME EInv, NEW n, n = Len(readings), NEW a \in 2..n
    PROVE  /\ readings[n].time \in 1..clock /\ readings[a].time \in 1..readings[n].time
           /\ Span(readings[a].time, readings[n].time) = (a - 1)..n
<1> DEFINE from == readings[a].time
           to == readings[n].time
<1>1. n \in Nat /\ DOMAIN readings = 1..n /\ a \in 1..n /\ a - 1 \in 1..n /\ n \in 1..n /\ a \in Int
  <2>1. n \in Nat /\ DOMAIN readings = 1..n  BY SeqFacts DEF EInv, RInv, TablesTypeOK
  <2> QED  BY <2>1
<1>2. /\ clock \in Nat \ {0}
      /\ \A i \in 1..n : readings[i].time \in Nat \ {0} /\ readings[i].time < clock
      /\ \A i \in 1..n : \A j \in 1..n : i < j => readings[i].time < readings[j].time
  BY DEF EInv, InTime
<1>3. from \in Nat \ {0} /\ to \in Nat \ {0} /\ to < clock  BY <1>1, <1>2
<1>4. from <= to
  <2>1. a < n \/ a = n  BY <1>1
  <2> QED  BY <1>1, <1>2, <1>3, <2>1
<1>5. to \in 1..clock /\ from \in 1..to  BY <1>2, <1>3, <1>4
<1> HIDE DEF from, to
<1>6. \A i \in 1..n : \A j \in 1..n : readings[i].time <= readings[j].time <=> i <= j
  BY <1>5, WindowOrder
<1>7. ASSUME NEW i \in 1..n
      PROVE  /\ readings[i].time < from <=> i < a
             /\ readings[i].time \in from..to <=> i >= a
  <2>1. readings[i].time \in Nat /\ i \in Int  BY <1>2
  <2>2. (from <= readings[i].time <=> a <= i) /\ (readings[i].time <= to <=> i <= n)
    BY <1>1, <1>6 DEF from, to
  <2> QED  BY <1>1, <1>3, <2>1, <2>2
<1>8. Between(from, to) = a..n  BY <1>1, <1>7 DEF Between
<1>9. Before(from) = 1..(a - 1)  BY <1>1, <1>7 DEF Before
<1>10. Max(Before(from)) = a - 1 /\ Before(from) # {}
  <2> DEFINE S == 1..(a - 1)
  <2>1. S \subseteq Int /\ a - 1 \in S /\ \A y \in S : y <= a - 1  BY <1>1
  <2> HIDE DEF S
  <2>2. Max(S) = a - 1  BY <2>1, MaxIs
  <2> QED  BY <1>9, <2>1, <2>2 DEF S
<1>11. Span(from, to) = (a..n) \cup {a - 1}  BY <1>8, <1>10 DEF Span
<1>12. (a..n) \cup {a - 1} = (a - 1)..n  BY <1>1
<1> QED  BY <1>5, <1>11, <1>12 DEF from, to

(* Since reading a, the program counts at least what reading a had more    *)
(* than the one before, and no more than the line had since that one.      *)
LEMMA SinceTotal ==
    ASSUME EInv, Grows, NEW n, n = Len(readings), NEW a \in 2..n
    PROVE  /\ UncorrectedDelta(readings[a - 1], readings[a]) \in Int
           /\ UncorrectedDelta(readings[a - 1], readings[a]) <= LostSince(readings[a].time, readings[n])
           /\ LostSince(readings[a].time, readings[n]) <= LineLost(a - 1, n)
           /\ LostSince(readings[a].time, readings[n]) \in Int
<1> DEFINE from == readings[a].time
           to == readings[n].time
           b == a - 1
           common == DOMAIN readings[b].down \cap DOMAIN readings[a].down
           S(c) == Seen(c, from, to)
           f == [c \in common |-> Lost(c, b, a)]
           g == [c \in Down |-> LostOf(c, S(c))]
           h == [c \in Down |-> facts[n].lost[c] - facts[b].lost[c]]
<1>1. to \in 1..clock /\ from \in 1..to /\ Span(from, to) = b..n  BY SinceSpan
<1>2. /\ n \in Nat /\ a \in 1..n /\ b \in 1..n /\ n \in 1..n /\ b < a /\ a \in b..n /\ b \in b..n
      /\ a \in Int /\ b \in Int
  <2>1. n \in Nat  BY SeqFacts DEF EInv, RInv, TablesTypeOK
  <2> QED  BY <2>1
<1>3. LostSince(from, readings[n]) = SumOf(g, Down)
  <2>1. LostSince(from, readings[n]) = MapThenSumSet(LAMBDA c : ErrorTotals(from, to)[c].lost, DOMAIN ErrorTotals(from, to))
    BY DEF LostSince
  <2> QED  BY <1>1, <2>1, TotalIs
<1>4. UncorrectedDelta(readings[b], readings[a]) = SumOf(f, common)
  <2> DEFINE d(c) == CounterDelta(readings[b].down[c].lost, readings[a].down[c].lost)
  <2>1. MapThenSumSet(d, common) = SumOf([c \in common |-> d(c)], common)  BY SumOfFunction
  <2>2. UncorrectedDelta(readings[b], readings[a]) = MapThenSumSet(d, common)
    BY DEF UncorrectedDelta, Common
  <2>3. [c \in common |-> d(c)] = f  BY DEF Lost
  <2> QED  BY <2>1, <2>2, <2>3
<1>5. common \subseteq Down /\ IsFiniteSet(Down)
  <2>1. DOMAIN readings[a].down \subseteq Down  BY <1>2, RowFacts DEF EInv
  <2> QED  BY <2>1, DownIsFinite
<1>6. ASSUME NEW c \in Down
      PROVE  /\ S(c) \in SUBSET (1..Len(readings)) /\ IsFiniteSet(S(c)) /\ S(c) \subseteq Int
             /\ \A i \in S(c) : c \in DOMAIN readings[i].down /\ i \in b..n
             /\ IsFiniteSet(Pairs(S(c))) /\ LostOf(c, S(c)) \in Int
             /\ LostOf(c, S(c)) = SumOf(LostDelta(c, Pairs(S(c))), Pairs(S(c)))
             /\ \A p \in Pairs(S(c)) : LostDelta(c, Pairs(S(c)))[p] = Lost(c, p[1], p[2]) /\ Lost(c, p[1], p[2]) \in Nat
  <2> DEFINE T == S(c)
  <2>1. T \in SUBSET (1..Len(readings)) /\ IsFiniteSet(T) /\ T \subseteq Int /\ \A i \in T : c \in DOMAIN readings[i].down
    BY <1>1, SeenFacts
  <2>2. \A i \in T : i \in b..n  BY <1>1 DEF Seen
  <2> HIDE DEF T
  <2>3. /\ IsFiniteSet(Pairs(T)) /\ LostOf(c, T) \in Int
        /\ LostOf(c, T) = SumOf(LostDelta(c, Pairs(T)), Pairs(T))
        /\ \A p \in Pairs(T) : LostDelta(c, Pairs(T))[p] = Lost(c, p[1], p[2]) /\ Lost(c, p[1], p[2]) \in Nat
    BY <2>1, LostOfFacts
  <2> QED  BY <2>1, <2>2, <2>3 DEF T
<1>7. ASSUME NEW c \in Down
      PROVE  LostOf(c, S(c)) \in Nat
  <2> DEFINE P == Pairs(S(c))
             k == LostDelta(c, P)
  <2>1. IsFiniteSet(P) /\ LostOf(c, S(c)) = SumOf(k, P) /\ LostOf(c, S(c)) \in Int
        /\ \A p \in P : k[p] \in Nat
    BY <1>6
  <2>2. SumOf(k, {}) = 0 /\ {} \in SUBSET P
    <3> HIDE DEF P, k
    <3> QED  BY <2>1, SumIsInt
  <2> HIDE DEF P, k
  <2>3. SumOf(k, {}) <= SumOf(k, P)  BY <2>1, <2>2, SumOfMore
  <2> QED  BY <2>1, <2>2, <2>3
<1>8. ASSUME NEW c \in common
      PROVE  Lost(c, b, a) \in Nat /\ Lost(c, b, a) <= LostOf(c, S(c))
  <2> DEFINE P == Pairs(S(c))
             k == LostDelta(c, P)
             p == <<b, a>>
  <2>1. c \in Down  BY <1>5
  <2>2. b \in S(c) /\ a \in S(c)  BY <1>1, <1>2 DEF Seen
  <2>3. p \in P
    <3>1. \A i \in S(c) : ~(b < i /\ i < a)  BY <1>2, <1>6, <2>1
    <3>2. p \in S(c) \X S(c) /\ p[1] = b /\ p[2] = a  BY <2>2
    <3> HIDE DEF S, p
    <3> QED  BY <1>2, <3>1, <3>2 DEF Pairs, P
  <2>4. IsFiniteSet(P) /\ LostOf(c, S(c)) = SumOf(k, P) /\ \A q \in P : k[q] = Lost(c, q[1], q[2]) /\ k[q] \in Nat
    BY <1>6, <2>1
  <2>5. k[p] = Lost(c, b, a) /\ k[p] \in Nat  BY <2>3, <2>4
  <2> HIDE DEF P, k, p
  <2>6. SumOf(k, {p}) <= SumOf(k, P)  BY <2>3, <2>4, SumOfMore
  <2>7. SumOf(k, {p}) = k[p]
    <3>1. k[p] \in Int  BY <2>5
    <3> QED  BY <3>1, SumOfOne
  <2> QED  BY <2>4, <2>5, <2>6, <2>7
<1>9. ASSUME NEW c \in Down
      PROVE  h[c] \in Int /\ LostOf(c, S(c)) <= h[c]
  <2>0. \A i \in 1..n : facts[i].lost[c] \in Nat  BY RowFacts DEF EInv
  <2>1. h[c] = facts[n].lost[c] - facts[b].lost[c] /\ h[c] \in Int  BY <1>2, <2>0
  <2>2. \A i \in 1..n : \A j \in 1..n : i <= j => facts[i].lost[c] <= facts[j].lost[c]
    <3> TAKE i \in 1..n
    <3> TAKE j \in 1..n
    <3>1. i < j => facts[i].lost[c] <= facts[j].lost[c]  BY DEF Grows
    <3>2. i = j => facts[i].lost[c] <= facts[j].lost[c]  BY <2>0
    <3>3. i \in Int /\ j \in Int  OBVIOUS
    <3> QED  BY <3>1, <3>2, <3>3
  <2> DEFINE T == S(c)
  <2>3. T \in SUBSET (1..Len(readings)) /\ IsFiniteSet(T) /\ T \subseteq Int
        /\ \A i \in T : c \in DOMAIN readings[i].down /\ i \in b..n
    BY <1>6
  <2>4. LostOf(c, T) = SumOf(LostDelta(c, Pairs(T)), Pairs(T)) /\ LostOf(c, T) \in Int  BY <1>6
  <2> HIDE DEF T
  <2>5. CASE T = {}
    <3>1. Pairs(T) = {}  BY <2>5 DEF Pairs
    <3>2. LostOf(c, T) = 0  BY <2>4, <3>1, SumUnfolds, FS_EmptySet
    <3>3. facts[b].lost[c] <= facts[n].lost[c] /\ facts[b].lost[c] \in Nat /\ facts[n].lost[c] \in Nat
      BY <1>2, <2>0, <2>2
    <3>4. 0 <= h[c]  BY <2>1, <3>3
    <3> QED  BY <2>1, <3>2, <3>4 DEF T
  <2>6. CASE T # {}
    <3>1. Min(T) \in T /\ Max(T) \in T  BY <2>3, <2>6, MinExists, MaxExists
    <3>2. PICK i, j : i = Min(T) /\ j = Max(T)  OBVIOUS
    <3>3. i \in 1..n /\ j \in 1..n /\ b <= i /\ j <= n
      <4>1. i \in b..n /\ j \in b..n  BY <2>3, <3>1, <3>2
      <4>2. b \in Int /\ n \in Int /\ 1 <= b  BY <1>2
      <4> HIDE DEF b
      <4> QED  BY <4>1, <4>2
    <3>4. Growth(c, Pairs(T)).lost <= Real(c, i, j).lost  BY <2>3, <2>6, <3>2, GrowthIsReal
    <3>5. LostOf(c, T) <= facts[j].lost[c] - facts[i].lost[c]  BY <3>4 DEF LostOf, Real
    <3>6. /\ facts[b].lost[c] <= facts[i].lost[c] /\ facts[j].lost[c] <= facts[n].lost[c]
          /\ facts[b].lost[c] \in Nat /\ facts[i].lost[c] \in Nat
          /\ facts[j].lost[c] \in Nat /\ facts[n].lost[c] \in Nat
      BY <1>2, <2>0, <2>2, <3>3
    <3>7. LostOf(c, T) <= facts[n].lost[c] - facts[b].lost[c]  BY <2>4, <3>5, <3>6
    <3> QED  BY <2>1, <3>7 DEF T
  <2> QED  BY <2>5, <2>6
<1> HIDE DEF S, common, b
<1>10. SumOf(f, common) \in Int /\ SumOf(f, common) <= SumOf(g, common)
  <2>1. \A c \in common : f[c] \in Int /\ g[c] \in Int /\ f[c] <= g[c]
    <3> TAKE c \in common
    <3>1. c \in Down /\ f[c] = Lost(c, b, a) /\ g[c] = LostOf(c, S(c))  BY <1>5
    <3> QED  BY <1>7, <1>8, <3>1
  <2>2. IsFiniteSet(common)  BY <1>5, FS_Subset
  <2> HIDE DEF f, g
  <2> QED  BY <2>1, <2>2, SumAtMost, SumIsInt
<1>11. SumOf(g, common) <= SumOf(g, Down)
  <2>1. \A c \in Down : g[c] \in Nat  BY <1>7
  <2> HIDE DEF g
  <2> QED  BY <1>5, <2>1, SumOfMore
<1>12. SumOf(g, Down) \in Int /\ SumOf(g, Down) <= SumOf(h, Down)
  <2>1. \A c \in Down : g[c] \in Int /\ h[c] \in Int /\ g[c] <= h[c]  BY <1>7, <1>9
  <2> HIDE DEF g, h
  <2> QED  BY <1>5, <2>1, SumAtMost, SumIsInt
<1>13. SumOf(g, common) \in Int
  <2>1. \A c \in common : g[c] \in Int  BY <1>5, <1>7
  <2>2. IsFiniteSet(common)  BY <1>5, FS_Subset
  <2> HIDE DEF g
  <2> QED  BY <2>1, <2>2, SumIsInt
<1>14. LineLost(b, n) = SumOf(h, Down)  BY DEF LineLost
<1> HIDE DEF f, g, h
<1> QED  BY <1>3, <1>4, <1>10, <1>11, <1>12, <1>13, <1>14 DEF b

(* What the journal s tells of spikes: each is of a reading, begins when   *)
(* none lasts, and ends with a total that the line can justify.            *)
SpikesOf(s) == {k \in 1..Len(s) : s[k].kind \in SpikeKinds}
Prior(s, l, k) == l \in SpikesOf(s) /\ l < k /\ \A m \in SpikesOf(s) : m < k => m <= l
StoredAt(e, j) == j \in 2..Len(readings) /\ readings[j].time = e.time
Begins(j) == UncorrectedDelta(readings[j - 1], readings[j]) >= Profile.errors.spike
SpikeTold(s, k) ==
    /\ \E j : StoredAt(s[k], j) /\ (s[k].kind = "errors" => Begins(j))
    /\ s[k].kind = "errors" => \A l : Prior(s, l, k) => s[l].kind = "errorsEnd"
    /\ s[k].kind = "errorsEnd" =>
          \E l, a, b : /\ Prior(s, l, k) /\ s[l].kind = "errors"
                       /\ StoredAt(s[l], a) /\ StoredAt(s[k], b)
                       /\ s[k].total >= Profile.errors.spike /\ s[k].total <= LineLost(a - 1, b)
SpikesTold == \A k \in SpikesOf(events) : SpikeTold(events, k)
SInv == EInv /\ Grows /\ SpikesTold

(* The spikes of a journal, once events are added to it. *)
LEMMA OldSpikes ==
    ASSUME NEW s, NEW t, IsSeq(s), IsSeq(t)
    PROVE  /\ \A k \in 1..Len(s) : (s \o t)[k] = s[k]
           /\ \A k \in 1..Len(s) : k \in SpikesOf(s \o t) <=> k \in SpikesOf(s)
           /\ \A k \in 1..Len(s) : \A l : Prior(s \o t, l, k) <=> Prior(s, l, k)
           /\ \A k \in SpikesOf(s) : k \in 1..Len(s) /\ k \in SpikesOf(s \o t)
<1>1. Len(s) \in Nat /\ Len(t) \in Nat /\ Len(s \o t) = Len(s) + Len(t) /\ IsSeq(s \o t)
  BY SeqFacts, ConcatFacts
<1>2. \A k \in 1..Len(s) : (s \o t)[k] = s[k]  BY ConcatFacts
<1>3. \A k \in 1..Len(s) : k \in SpikesOf(s \o t) <=> k \in SpikesOf(s)
  BY <1>1, <1>2 DEF SpikesOf
<1>4. \A k \in SpikesOf(s) : k \in 1..Len(s)  BY DEF SpikesOf
<1>5. ASSUME NEW k \in 1..Len(s)
      PROVE  \A m : m < k => (m \in SpikesOf(s \o t) <=> m \in SpikesOf(s))
  <2>1. SUFFICES ASSUME NEW m, m < k PROVE m \in SpikesOf(s \o t) <=> m \in SpikesOf(s)
    OBVIOUS
  <2>2. ASSUME m \in SpikesOf(s \o t)
        PROVE  m \in 1..Len(s)
    <3>1. m \in 1..Len(s \o t)  BY <2>2 DEF SpikesOf
    <3> QED  BY <1>1, <2>1, <3>1
  <2> QED  BY <1>3, <1>4, <2>2
<1>6. \A k \in 1..Len(s) : \A l : Prior(s \o t, l, k) <=> Prior(s, l, k)
  BY <1>5 DEF Prior
<1> QED  BY <1>2, <1>3, <1>4, <1>6

(* The latest spike, as LastEvent finds it. *)
LEMMA OpenSpikeIs ==
    ASSUME IsSeq(events)
    PROVE  /\ SpikesOf(events) = {} => OpenSpike = {}
           /\ \A l \in SpikesOf(events) : (\A m \in SpikesOf(events) : m <= l) =>
                 OpenSpike = IF events[l].kind = "errors" THEN {events[l]} ELSE {}
<1>1. DOMAIN events = 1..Len(events) /\ Len(events) \in Nat  BY SeqFacts
<1>2. LastOf(SpikeKinds) = IF SpikesOf(events) = {} THEN {} ELSE {events[Max(SpikesOf(events))]}
  BY <1>1 DEF LastOf, SpikesOf
<1>3. OpenSpike = {e \in LastOf(SpikeKinds) : e.kind = "errors"}  BY DEF OpenSpike, SpikeKinds
<1>4. SpikesOf(events) = {} => OpenSpike = {}  BY <1>2, <1>3
<1>5. ASSUME NEW l \in SpikesOf(events), \A m \in SpikesOf(events) : m <= l
      PROVE  OpenSpike = IF events[l].kind = "errors" THEN {events[l]} ELSE {}
  <2>1. SpikesOf(events) \subseteq Int  BY <1>1 DEF SpikesOf
  <2>2. Max(SpikesOf(events)) = l  BY <1>5, <2>1, MaxIs
  <2>3. LastOf(SpikeKinds) = {events[l]}  BY <1>2, <2>2
  <2> QED  BY <1>3, <2>3
<1> QED  BY <1>4, <1>5

(* What was told of spikes remains true once readings are added. *)
LEMMA Carried ==
    ASSUME NEW n \in Nat, n = Len(readings), NEW m \in Nat, m = Len(readings'), n <= m,
           \A j \in 1..n : readings'[j] = readings[j] /\ facts'[j] = facts[j],
           NEW s, NEW k, SpikeTold(s, k)
    PROVE  SpikeTold(s, k)'
<1>1. \A j \in 2..n : /\ j \in 2..m /\ j \in 1..n /\ j - 1 \in 1..n
                     /\ readings'[j] = readings[j] /\ readings'[j - 1] = readings[j - 1]
                     /\ facts'[j] = facts[j] /\ facts'[j - 1] = facts[j - 1]
  <2> TAKE j \in 2..n
  <2>1. j \in 2..m /\ j \in 1..n /\ j - 1 \in 1..n  OBVIOUS
  <2> QED  BY <2>1
<1>2. \A e, j : StoredAt(e, j) => j \in 2..n /\ StoredAt(e, j)'
  BY <1>1 DEF StoredAt
<1>3. ASSUME NEW j \in 2..n, Begins(j)
      PROVE  Begins(j)'
  BY <1>1, <1>3 DEF Begins
<1>4. ASSUME NEW a \in 2..n, NEW b \in 2..n
      PROVE  LineLost(a - 1, b)' = LineLost(a - 1, b)
  BY <1>1 DEF LineLost
<1> QED  BY <1>2, <1>3, <1>4 DEF SpikeTold, Prior

(* The events of a comparison keep the journal of spikes true. *)
LEMMA RecordTold ==
    ASSUME SInv, Record
    PROVE  SpikesTold'
<1>1. PICK n, s, old : n = Len(readings) /\ s = Detect /\ old = events  OBVIOUS
<1>2. pending /\ events' = old \o s /\ UNCHANGED <<readings, facts>>
  BY <1>1 DEF Record
<1>3. EInv /\ RInv /\ TablesTypeOK /\ Grows  BY DEF SInv, EInv, RInv
<1>4. /\ IsSeq(old) /\ IsSeq(events) /\ n \in Nat /\ n # 0 /\ n \in 1..n
      /\ IsSeq(s)
  <2>1. IsSeq(events) /\ n \in Nat /\ n # 0  BY <1>1, <1>2, <1>3, SeqFacts DEF TablesTypeOK
  <2>2. IsSeq(s)  BY <1>1, <1>3, DetectSpikes DEF Silent, Lone
  <2> QED  BY <1>1, <2>1, <2>2
<1>5. Len(old) \in Nat /\ Len(s) \in Nat /\ Len(old \o s) = Len(old) + Len(s)
  BY <1>4, SeqFacts, ConcatFacts
<1>6. ASSUME NEW k \in 1..Len(old), k \in SpikesOf(old)
      PROVE  SpikeTold(old \o s, k)
  <2>1. SpikeTold(old, k)  BY <1>1, <1>6 DEF SInv, SpikesTold
  <2>2. (old \o s)[k] = old[k] /\ \A l : Prior(old \o s, l, k) <=> Prior(old, l, k)
    BY <1>4, OldSpikes
  <2>3. \A l : Prior(old, l, k) => (old \o s)[l] = old[l]
    <3>1. \A l : Prior(old, l, k) => l \in 1..Len(old)  BY DEF Prior, SpikesOf
    <3> QED  BY <1>4, <3>1, OldSpikes
  <2> QED  BY <2>1, <2>2, <2>3 DEF SpikeTold
<1>7. ASSUME NEW k \in SpikesOf(old \o s), k \notin 1..Len(old)
      PROVE  SpikeTold(old \o s, k)
  <2> DEFINE prev == readings[n - 1]
             cur == readings[n]
             t == SpikeEvents(prev, cur)
  <2>1. k \in 1..Len(old \o s) /\ (old \o s)[k].kind \in SpikeKinds  BY <1>7 DEF SpikesOf
  <2>2. PICK i : i = k - Len(old)  OBVIOUS
  <2>3. i \in 1..Len(s) /\ (old \o s)[k] = s[i] /\ k = Len(old) + i
    BY <1>4, <1>7, <2>1, <2>2, ConcatPlaces
  <2>4. n # 1
    <3>1. n = 1 => Silent(s)  BY <1>1, <1>3, DetectSpikes
    <3> QED  BY <2>1, <2>3, <3>1 DEF Silent
  <2>5. Lone(s, t)  BY <1>1, <1>3, <2>4, DetectSpikes
  <2>6. Len(t) = 1 /\ s[i] = t[1]  BY <2>1, <2>3, <2>5 DEF Lone
  <2>7. PICK e : e = s[i]  OBVIOUS
  <2>8. /\ e.time = cur.time
        /\ \/ e.kind = "errors" /\ OpenSpike = {} /\ UncorrectedDelta(prev, cur) >= Profile.errors.spike
           \/ /\ e.kind = "errorsEnd" /\ OpenSpike # {}
              /\ e.total = LostSince((CHOOSE x \in OpenSpike : TRUE).time, cur)
    <3>1. PICK p, c : p = readings[Len(readings) - 1] /\ c = readings[Len(readings)]  OBVIOUS
    <3>2. t = SpikeEvents(p, c) /\ prev = p /\ cur = c  BY <1>1, <3>1
    <3>3. Len(SpikeEvents(p, c)) = 1 /\ e = SpikeEvents(p, c)[1]  BY <2>6, <2>7, <3>2
    <3> HIDE DEF t, prev, cur
    <3>4. PICK from : from = (CHOOSE x \in OpenSpike : TRUE).time  OBVIOUS
    <3>5. /\ e.time = readings[Len(readings)].time
          /\ \/ e.kind = "errors" /\ OpenSpike = {} /\ UncorrectedDelta(p, c) >= Profile.errors.spike
             \/ e.kind = "errorsEnd" /\ OpenSpike # {} /\ e.total = LostSince(from, c)
      BY <3>3, <3>4, SpikesAlone
    <3> QED  BY <3>1, <3>2, <3>4, <3>5
  <2>9. StoredAt(e, n)
    <3>1. n \in 2..n  BY <1>4, <2>4
    <3> QED  BY <1>1, <2>8, <3>1 DEF StoredAt
  <2>10. \A m \in SpikesOf(old \o s) : m < k => m \in SpikesOf(old)
    <3>1. SUFFICES ASSUME NEW m \in SpikesOf(old \o s), m < k PROVE m \in SpikesOf(old)
      OBVIOUS
    <3>2. m \in 1..Len(old \o s) /\ (old \o s)[m].kind \in SpikeKinds  BY DEF SpikesOf
    <3>3. m \in 1..Len(old)
      <4>1. SUFFICES ASSUME m \notin 1..Len(old) PROVE FALSE  OBVIOUS
      <4>2. m - Len(old) \in 1..Len(s) /\ (old \o s)[m] = s[m - Len(old)]
        BY <1>4, <3>2, <4>1, ConcatPlaces
      <4>3. m - Len(old) = i  BY <2>1, <2>3, <2>5, <3>2, <4>2 DEF Lone
      <4>4. m \in Int  BY <3>2
      <4> QED  BY <1>5, <2>3, <3>1, <4>3, <4>4
    <3> QED  BY <1>4, <3>1, <3>3, OldSpikes
  <2>11. \A m \in SpikesOf(old) : m \in SpikesOf(old \o s) /\ m < k /\ (old \o s)[m] = old[m] /\ m \in Int
    <3> TAKE m \in SpikesOf(old)
    <3>1. m \in 1..Len(old) /\ m \in SpikesOf(old \o s) /\ (old \o s)[m] = old[m]  BY <1>4, OldSpikes
    <3> QED  BY <1>5, <2>3, <3>1
  <2>12. \A l : Prior(old \o s, l, k) <=> l \in SpikesOf(old) /\ \A m \in SpikesOf(old) : m <= l
    <3> TAKE l
    <3>1. ASSUME Prior(old \o s, l, k)
          PROVE  l \in SpikesOf(old) /\ \A m \in SpikesOf(old) : m <= l
      BY <2>10, <2>11, <3>1 DEF Prior
    <3>2. ASSUME l \in SpikesOf(old), \A m \in SpikesOf(old) : m <= l
          PROVE  Prior(old \o s, l, k)
      BY <2>10, <2>11, <3>2 DEF Prior
    <3> QED  BY <3>1, <3>2
  <2>13. \A l : Prior(old \o s, l, k) => OpenSpike = IF old[l].kind = "errors" THEN {old[l]} ELSE {}
    BY <1>1, <1>4, <2>12, OpenSpikeIs
  <2>14. (old \o s)[k] = e  BY <2>3, <2>7
  <2> HIDE DEF t
  <2>15. CASE e.kind = "errors"
    <3>1. OpenSpike = {} /\ Begins(n)  BY <2>8, <2>15 DEF Begins
    <3>2. ASSUME NEW l, Prior(old \o s, l, k)
          PROVE  (old \o s)[l].kind = "errorsEnd"
      <4>1. old[l].kind # "errors"  BY <2>13, <3>1, <3>2
      <4>2. l \in SpikesOf(old) /\ (old \o s)[l] = old[l]  BY <2>11, <2>12, <3>2
      <4> QED  BY <4>1, <4>2 DEF SpikesOf, SpikeKinds
    <3> QED  BY <2>9, <2>14, <2>15, <3>1, <3>2 DEF SpikeTold
  <2>16. CASE e.kind = "errorsEnd"
    <3>1. OpenSpike # {} /\ e.total = LostSince((CHOOSE x \in OpenSpike : TRUE).time, cur)
      BY <2>8, <2>16
    <3>2. SpikesOf(old) # {}  BY <1>1, <1>4, <3>1, OpenSpikeIs
    <3>3. PICK l \in SpikesOf(old) : \A m \in SpikesOf(old) : m <= l
      <4>1. SpikesOf(old) \subseteq 1..Len(old)  BY DEF SpikesOf
      <4>2. IsFiniteSet(SpikesOf(old)) /\ SpikesOf(old) \subseteq Int
        <5>1. IsFiniteSet(1..Len(old))  BY <1>5, FS_Interval
        <5> QED  BY <4>1, <5>1, FS_Subset
      <4> QED  BY <3>2, <4>2, MaxExists
    <3>4. Prior(old \o s, l, k)  BY <2>12, <3>3
    <3>5. old[l].kind = "errors" /\ OpenSpike = {old[l]}  BY <2>13, <3>1, <3>4
    <3>6. e.total = LostSince(old[l].time, cur)  BY <3>1, <3>5
    <3>7. PICK a : StoredAt(old[l], a) /\ Begins(a)
      BY <1>1, <3>3, <3>5 DEF SInv, SpikesTold, SpikeTold
    <3>8. a \in 2..n /\ old[l].time = readings[a].time  BY <1>1, <3>7 DEF StoredAt
    <3>9. /\ UncorrectedDelta(readings[a - 1], readings[a]) \in Int
          /\ UncorrectedDelta(readings[a - 1], readings[a]) <= LostSince(readings[a].time, readings[n])
          /\ LostSince(readings[a].time, readings[n]) <= LineLost(a - 1, n)
          /\ LostSince(readings[a].time, readings[n]) \in Int
      BY <1>1, <1>3, <3>8, SinceTotal
    <3>10. Profile.errors.spike \in Int  BY ReadingsAssumption DEF ReadingsAssumption
    <3>11. e.total >= Profile.errors.spike /\ e.total <= LineLost(a - 1, n)
      <4>1. e.total = LostSince(readings[a].time, readings[n])  BY <3>6, <3>8
      <4>2. UncorrectedDelta(readings[a - 1], readings[a]) >= Profile.errors.spike  BY <3>7 DEF Begins
      <4> QED  BY <3>9, <3>10, <4>1, <4>2
    <3>12. (old \o s)[l] = old[l]  BY <2>11, <3>3
    <3> QED  BY <2>9, <2>14, <2>16, <3>4, <3>5, <3>7, <3>11, <3>12 DEF SpikeTold
  <2> QED  BY <2>8, <2>15, <2>16
<1>8. \A k \in SpikesOf(old \o s) : SpikeTold(old \o s, k)
  <2> TAKE k \in SpikesOf(old \o s)
  <2>1. k \in 1..Len(old) => k \in SpikesOf(old)  BY <1>4, OldSpikes
  <2> QED  BY <1>6, <1>7, <2>1
<1>9. \A k \in SpikesOf(old \o s) : SpikeTold(old \o s, k)'
  <2> TAKE k \in SpikesOf(old \o s)
  <2>1. SpikeTold(old \o s, k)  BY <1>8
  <2>2. n = Len(readings) /\ n = Len(readings') /\ n <= n
        /\ \A j \in 1..n : readings'[j] = readings[j] /\ facts'[j] = facts[j]
    BY <1>1, <1>2, <1>4
  <2>3. PICK z : z = old \o s  OBVIOUS
  <2>4. SpikeTold(z, k)'  BY <1>4, <2>1, <2>2, <2>3, Carried
  <2> QED  BY <2>3, <2>4
<1> QED  BY <1>2, <1>9 DEF SpikesTold

(* So does a reading that is stored. *)
LEMMA ReadTold ==
    ASSUME SInv, Read(TRUE)
    PROVE  Grows' /\ SpikesTold'
<1>1. PICK n, s, f, old : n = Len(readings) /\ s = Snapshot(Payload(TRUE), clock) /\ f = fact /\ old = events
  OBVIOUS
<1>2. /\ readings' = Append(readings, s) /\ facts' = Append(facts, f)
      /\ fact' = f /\ events' = old
  BY <1>1 DEF Read, lineVars
<1>3. RInv /\ TablesTypeOK /\ LineTypeOK /\ Grows  BY DEF SInv, EInv, RInv
<1>4. IsSeq(readings) /\ IsSeq(facts) /\ Len(facts) = n /\ n \in Nat
  BY <1>1, <1>3, SeqFacts DEF TablesTypeOK
<1>5. /\ Len(readings') = n + 1
      /\ \A j \in 1..n : readings'[j] = readings[j] /\ facts'[j] = facts[j]
      /\ facts'[n + 1] = f
  BY <1>1, <1>2, <1>4, AppendFacts
<1>6. Grows'
  <2> SUFFICES ASSUME NEW c \in Down
               PROVE  /\ \A i \in 1..(n + 1) : facts'[i].lost[c] <= f.lost[c]
                      /\ \A i \in 1..(n + 1) : \A j \in 1..(n + 1) : i < j => facts'[i].lost[c] <= facts'[j].lost[c]
    BY <1>2, <1>5 DEF Grows
  <2>1. f.lost[c] \in Nat  BY <1>1, <1>3, LineFacts DEF LineTypeOK
  <2>2. /\ \A i \in 1..n : facts[i].lost[c] <= f.lost[c]
        /\ \A i \in 1..n : \A j \in 1..n : i < j => facts[i].lost[c] <= facts[j].lost[c]
    BY <1>1, <1>3 DEF Grows
  <2>3. \A i \in 1..(n + 1) : i \in 1..n \/ i = n + 1  BY <1>4
  <2>4. ASSUME NEW i \in 1..(n + 1)
        PROVE  facts'[i].lost[c] <= f.lost[c]
    <3>1. f.lost[c] <= f.lost[c]  BY <2>1
    <3> QED  BY <1>5, <2>2, <2>3, <3>1
  <2>5. ASSUME NEW i \in 1..(n + 1), NEW j \in 1..(n + 1), i < j
        PROVE  facts'[i].lost[c] <= facts'[j].lost[c]
    <3>1. i \in 1..n  BY <1>4, <2>5
    <3>2. CASE j = n + 1  BY <1>5, <2>4, <3>2
    <3>3. CASE j \in 1..n  BY <1>5, <2>2, <2>5, <3>1, <3>3
    <3> QED  BY <2>3, <3>2, <3>3
  <2> QED  BY <2>4, <2>5
<1>7. ASSUME NEW k \in SpikesOf(old)
      PROVE  SpikeTold(old, k)'
  <2>1. SpikeTold(old, k)  BY <1>1 DEF SInv, SpikesTold
  <2>2. n + 1 \in Nat /\ n <= n + 1  BY <1>4
  <2> QED  BY <1>1, <1>4, <1>5, <2>1, <2>2, Carried
<1> QED  BY <1>2, <1>6, <1>7 DEF SpikesTold

(* A step that adds no reading, no event and takes no error away. *)
LEMMA StillTold ==
    ASSUME SInv, UNCHANGED <<readings, facts, events>>, LineTypeOK',
           \A c \in Down : fact.lost[c] <= fact'.lost[c]
    PROVE  Grows' /\ SpikesTold'
<1>1. PICK n, old : n = Len(readings) /\ old = events  OBVIOUS
<1>2. RInv /\ TablesTypeOK /\ LineTypeOK /\ Grows  BY DEF SInv, EInv, RInv
<1>3. n \in Nat /\ n <= n  BY <1>1, <1>2, SeqFacts DEF TablesTypeOK
<1>4. Grows'
  <2> SUFFICES ASSUME NEW c \in Down, NEW i \in 1..Len(readings)
               PROVE  facts[i].lost[c] <= fact'.lost[c]
    BY <1>2 DEF Grows
  <2>1. facts[i].lost[c] <= fact.lost[c] /\ fact.lost[c] <= fact'.lost[c]  BY <1>2 DEF Grows
  <2>2. facts[i].lost[c] \in Nat  BY <1>2, RowFacts
  <2>3. fact.lost[c] \in Nat  BY <1>2, LineFacts DEF LineTypeOK
  <2>4. fact'.lost[c] \in Nat  BY LineFacts DEF LineTypeOK
  <2> QED  BY <2>1, <2>2, <2>3, <2>4
<1>5. ASSUME NEW k \in SpikesOf(old)
      PROVE  SpikeTold(old, k)'
  <2>1. SpikeTold(old, k)  BY <1>1 DEF SInv, SpikesTold
  <2>2. n = Len(readings') /\ \A j \in 1..n : readings'[j] = readings[j] /\ facts'[j] = facts[j]  BY <1>1
  <2> QED  BY <1>1, <1>3, <2>1, <2>2, Carried
<1> QED  BY <1>1, <1>4, <1>5 DEF SpikesTold

(* There is no spike at first. *)
LEMMA SInvInit == ReadingsInit => SInv
<1>1. Len(<< >>) = 0 /\ 1..0 = {}  OBVIOUS
<1>2. ReadingsInit => Grows  BY <1>1 DEF ReadingsInit, Grows
<1>3. ReadingsInit => SpikesTold  BY <1>1 DEF ReadingsInit, SpikesTold, SpikesOf
<1> QED  BY <1>2, <1>3, EInvInit DEF SInv

(* No step disturbs the invariant of the spikes. *)
LEMMA SInvNext ==
    ASSUME ~ErrorsMayLack, SInv, [ReadingsNext]_readingsVars
    PROVE  SInv'
<1>1. EInv' /\ LineTypeOK'
  <2>1. EInv'  BY EInvNext DEF SInv
  <2> QED  BY <2>1 DEF EInv, RInv
<1>2. modem \in [Down -> Receiver] /\ fact \in Fact  BY DEF SInv, EInv, RInv, LineTypeOK
<1>3. \A c \in Down : fact.lost[c] \in Nat /\ fact.lost[c] <= fact.lost[c]
  <2>1. \A c \in Down : fact.lost[c] \in Nat  BY <1>2, LineFacts
  <2> QED  BY <2>1
<1>4. ASSUME NEW c \in Down, NEW e \in ErrorSteps, Errors(c, e)
      PROVE  SInv'
  <2>1. UNCHANGED <<readings, facts, events>>  BY <1>4 DEF Errors, Change, tableVars
  <2>2. e.lost \in Nat  BY ReadingsAssumption DEF ReadingsAssumption
  <2>3. fact'.lost = [fact.lost EXCEPT ![c] = @ + e.lost]  BY <1>2, <1>4 DEF Errors, Fact
  <2>4. fact.lost \in [Down -> Nat]  BY <1>2, FactFacts
  <2>5. \A d \in Down : fact.lost[d] <= fact'.lost[d]
    <3> TAKE d \in Down
    <3>1. d = c => fact'.lost[d] = fact.lost[d] + e.lost  BY <2>3, <2>4
    <3>2. d # c => fact'.lost[d] = fact.lost[d]  BY <2>3, <2>4
    <3> QED  BY <1>3, <2>2, <3>1, <3>2
  <2> QED  BY <1>1, <2>1, <2>5, StillTold DEF SInv
<1>5. ASSUME \/ Reboot \/ NoReading \/ RecordFails
             \/ \E c \in Down : ResetAlone(c) \/ LockOrUnlock(c)
             \/ \E c \in Down, p \in Powers, q \in Snrs : Signal(c, p, q)
             \/ \E c \in Down, o \in Orders : Modulate(c, o)
             \/ \E u \in Up : UpLockOrUnlock(u)
             \/ \E u \in Up, p \in UpPowers : UpSignal(u, p)
             \/ \E u \in Up, o \in Orders : UpModulate(u, o)
             \/ UNCHANGED readingsVars
      PROVE  SInv'
  <2>1. UNCHANGED <<readings, facts, events>>
    BY <1>5 DEF Reboot, ResetAlone, NoReading, RecordFails, LockOrUnlock, Signal, Modulate, UpLockOrUnlock,
                UpSignal, UpModulate, readingsVars, Change, lineVars, tableVars
  <2>2. fact'.lost = fact.lost
    <3>1. CASE Reboot  BY <1>2, <3>1 DEF Reboot, Fact
    <3>2. CASE \E c \in Down : ResetAlone(c)  BY <1>2, <3>2 DEF ResetAlone, Fact
    <3>3. CASE UNCHANGED fact  BY <3>3
    <3> QED
      BY <1>5, <3>1, <3>2, <3>3 DEF NoReading, RecordFails, LockOrUnlock, Signal, Modulate, UpLockOrUnlock,
                UpSignal, UpModulate, readingsVars, lineVars
  <2> QED  BY <1>1, <1>3, <2>1, <2>2, StillTold DEF SInv
<1>6. ASSUME NEW whole \in (IF ErrorsMayLack THEN BOOLEAN ELSE {TRUE}), Read(whole)
      PROVE  SInv'
  <2>1. whole = TRUE  OBVIOUS
  <2> QED  BY <1>1, <1>6, <2>1, ReadTold DEF SInv
<1>7. CASE Record
  <2>1. UNCHANGED <<readings, facts, fact>>  BY <1>7 DEF Record, lineVars
  <2>2. Grows'  BY <2>1 DEF SInv, Grows
  <2> QED  BY <1>1, <1>7, <2>2, RecordTold DEF SInv
<1> QED  BY <1>4, <1>5, <1>6, <1>7 DEF ReadingsNext

(* The invariant behind the episodes of errors: spikes begin when none    *)
(* lasts, end when one does, and the errors of the line only grow.         *)
THEOREM SInvariance ==
    ASSUME ~ErrorsMayLack
    PROVE  ReadingsSpec => []SInv
<1>1. ReadingsInit => SInv  BY SInvInit
<1>2. SInv /\ [ReadingsNext]_readingsVars => SInv'  BY SInvNext
<1> QED  BY <1>1, <1>2, PTL DEF ReadingsSpec

(* An episode of errors is as its property says. *)
LEMMA SpikesFollow ==
    ASSUME SInv
    PROVE  SpikesAreWhole
<1>1. PICK n, old : n = Len(readings) /\ old = events  OBVIOUS
<1>2. EInv /\ TablesTypeOK  BY DEF SInv, EInv, RInv
<1>3. /\ DOMAIN readings = 1..n /\ n \in Nat
      /\ DOMAIN events = 1..Len(events) /\ Len(events) \in Nat
  BY <1>1, <1>2, SeqFacts DEF TablesTypeOK
<1> DEFINE spikes == {k \in DOMAIN events : events[k].kind \in {"errors", "errorsEnd"}}
           at(k) == CHOOSE j \in DOMAIN readings : readings[j].time = events[k].time
           earlier(k) == {l \in spikes : l < k}
           latest(k) == Max(earlier(k))
<1>4. spikes = SpikesOf(events) /\ spikes \subseteq 1..Len(events)
  BY <1>3 DEF SpikesOf, SpikeKinds
<1>5. ASSUME NEW k, NEW j, StoredAt(events[k], j)
      PROVE  at(k) = j
  <2>1. j \in 1..n /\ readings[j].time = events[k].time  BY <1>1, <1>3, <1>5 DEF StoredAt
  <2>2. ASSUME NEW i \in 1..n, readings[i].time = events[k].time
        PROVE  i = j
    <3>1. \A a \in 1..n : readings[a].time \in Nat  BY <1>1, <1>2 DEF EInv, InTime
    <3>2. i < j => readings[i].time < readings[j].time  BY <1>1, <1>2, <2>1 DEF EInv, InTime
    <3>3. j < i => readings[j].time < readings[i].time  BY <1>1, <1>2, <2>1 DEF EInv, InTime
    <3>4. i \in Int /\ j \in Int  BY <2>1
    <3> QED  BY <2>1, <2>2, <3>1, <3>2, <3>3, <3>4
  <2> QED  BY <1>3, <2>1, <2>2
<1>6. ASSUME NEW k \in spikes
      PROVE  /\ \A l : Prior(events, l, k) => l = latest(k) /\ earlier(k) # {}
             /\ earlier(k) # {} => Prior(events, latest(k), k)
  <2> DEFINE E == earlier(k)
  <2>1. E \subseteq Int /\ IsFiniteSet(E)
    <3>1. E \subseteq 1..Len(events)  BY <1>4
    <3>2. IsFiniteSet(1..Len(events))  BY <1>3, FS_Interval
    <3>3. E \subseteq Int  BY <3>1
    <3>4. IsFiniteSet(E)
      <4> HIDE DEF E
      <4> QED  BY <3>1, <3>2, FS_Subset
    <3> QED  BY <3>3, <3>4
  <2>2. ASSUME NEW l, Prior(events, l, k)
        PROVE  l = Max(E) /\ E # {}
    <3>1. l \in E /\ \A y \in E : y <= l  BY <1>4, <2>2 DEF Prior
    <3> HIDE DEF E
    <3> QED  BY <2>1, <3>1, MaxIs
  <2>3. ASSUME E # {}
        PROVE  Prior(events, Max(E), k)
    <3>1. Max(E) \in E /\ \A y \in E : y <= Max(E)
      <4> HIDE DEF E
      <4> QED  BY <2>1, <2>3, MaxExists
    <3>2. PICK m : m = Max(E)  OBVIOUS
    <3>3. m \in SpikesOf(events) /\ m < k /\ \A y \in SpikesOf(events) : y < k => y <= m
      BY <1>4, <3>1, <3>2
    <3> QED  BY <3>2, <3>3 DEF Prior
  <2> QED  BY <2>2, <2>3
<1>7. ASSUME NEW i, NEW j
      PROVE  MapThenSumSet(LAMBDA c : Real(c, i, j).lost, Down) = LineLost(i, j)
  <2> DEFINE d(c) == Real(c, i, j).lost
  <2>1. MapThenSumSet(d, Down) = SumOf([c \in Down |-> d(c)], Down)  BY SumOfFunction
  <2>2. [c \in Down |-> d(c)] = [c \in Down |-> facts[j].lost[c] - facts[i].lost[c]]  BY DEF Real
  <2> QED  BY <2>1, <2>2 DEF LineLost
<1> HIDE DEF at, latest, earlier
<1>8. ASSUME NEW k \in spikes
      PROVE  IF events[k].kind = "errors"
             THEN earlier(k) = {} \/ events[latest(k)].kind = "errorsEnd"
             ELSE /\ earlier(k) # {} /\ events[latest(k)].kind = "errors"
                  /\ events[k].total >= Profile.errors.spike
                  /\ events[k].total <= LineLost(at(latest(k)) - 1, at(k))
  <2>1. SpikeTold(events, k)  BY <1>4, <1>8 DEF SInv, SpikesTold
  <2>2. events[k].kind = "errors" \/ events[k].kind = "errorsEnd"  OBVIOUS
  <2>3. CASE events[k].kind = "errors"  BY <1>6, <2>1, <2>3 DEF SpikeTold
  <2>4. CASE events[k].kind = "errorsEnd"
    <3>1. PICK l, a, b : /\ Prior(events, l, k) /\ events[l].kind = "errors"
                         /\ StoredAt(events[l], a) /\ StoredAt(events[k], b)
                         /\ events[k].total >= Profile.errors.spike /\ events[k].total <= LineLost(a - 1, b)
      BY <2>1, <2>4 DEF SpikeTold
    <3>2. l = latest(k) /\ earlier(k) # {}  BY <1>6, <3>1
    <3>3. at(l) = a /\ at(k) = b  BY <1>5, <3>1
    <3> QED  BY <2>4, <3>1, <3>2, <3>3
  <2> QED  BY <2>2, <2>3, <2>4
<1> QED
  <2> SUFFICES ASSUME NEW k \in spikes
               PROVE  IF events[k].kind = "errors"
                      THEN earlier(k) = {} \/ events[latest(k)].kind = "errorsEnd"
                      ELSE /\ earlier(k) # {} /\ events[latest(k)].kind = "errors"
                           /\ events[k].total >= Profile.errors.spike
                           /\ events[k].total <= MapThenSumSet(
                                  LAMBDA c : Real(c, at(latest(k)) - 1, at(k)).lost, Down)
    BY DEF SpikesAreWhole, at, latest, earlier
  <2>1. MapThenSumSet(LAMBDA c : Real(c, at(latest(k)) - 1, at(k)).lost, Down)
        = LineLost(at(latest(k)) - 1, at(k))
    BY <1>7
  <2> QED  BY <1>8, <2>1

(* Whatever the thresholds and the readings, an episode of errors or of a  *)
(* measure out of range began and ended when the journal and the pages say *)
(* (spikeEvents, downOnset, upOnset), for payloads that have the counters  *)
(* of all channels.                                                        *)
THEOREM EpisodesTrue ==
    ASSUME ~ErrorsMayLack
    PROVE  ReadingsSpec => []EpisodesAreTrue
<1>1. SInv => EpisodesAreTrue
  <2>1. SInv => SinceIsTrue  BY DatesAreTrue DEF SInv
  <2> QED  BY <2>1, SpikesFollow DEF EpisodesAreTrue
<1> QED  BY <1>1, SInvariance, PTL
=============================================================================
