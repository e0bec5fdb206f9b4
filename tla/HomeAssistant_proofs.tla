------------------------ MODULE HomeAssistant_proofs ------------------------
(***************************************************************************)
(* Theorems about HomeAssistant, for any number of publishers, tests,      *)
(* presses, cuts and packets under way, and any inbox of two or more; then *)
(* about ModemRestart, which a press of its button calls, as the pages do. *)
(***************************************************************************)
EXTENDS HomeAssistant, ModemRestart, TLAPS

InSession == pc \in {"hello", "read", "send", "ping", "wait"}

Message == [press : Nat, retain : BOOLEAN]
Packet ==
    {[kind |-> "bye"], [kind |-> "subscribe"], [kind |-> "ping"]}
    \cup [kind : {"button", "online"}, value : BOOLEAN]
    \cup [kind : {"state"}, value : Statuses]

(* What TypeOK leaves out. *)
Types ==
    /\ inbox \in Seq(Message) /\ wire \in [Conns -> Seq(Packet)]
    /\ status \in Statuses /\ presses \in 0 .. MaxPresses
    /\ heard \subseteq 1 .. presses /\ conns \in Nat /\ Conns \subseteq Nat

(* The broker only knows the last connection; a session has one that is    *)
(* not closed, and nobody writes on those that do not exist yet.           *)
Connections ==
    /\ live \subseteq {conns} /\ closed \subseteq 1 .. conns
    /\ InSession => conn \in 1 .. conns /\ conn \notin closed
    /\ ~InSession => conn \in closed \/ conn > conns
    /\ \A c \in Conns : c > conns => wire[c] = <<>>
    /\ pc = "hello" => wire[conn] = <<>> /\ conn \notin subscribed

(* The inbox has the presses of this session, and one message kept by the  *)
(* broker at most: the one that came with the subscription.                *)
Inbox ==
    /\ ~InSession => inbox = <<>> /\ pressing = 0
    /\ \A i \in 1 .. Len(inbox) : ~inbox[i].retain => inbox[i].press \in heard
    /\ \A i, j \in 1 .. Len(inbox) : inbox[i].retain /\ inbox[j].retain => i = j
    /\ \A i \in 1 .. Len(inbox) : inbox[i].retain => conn \in subscribed
    /\ owed => pressing = 0

(* A session subscribes once and only says what is true. *)
Says(w, kind) == \E i \in 1 .. Len(w) : w[i].kind = kind
Clean(w) ==
    /\ \A i \in 1 .. Len(w) :
          /\ w[i].kind # "bye"
          /\ w[i].kind \in {"button", "online"} => w[i].value = TRUE
    /\ \A i, j \in 1 .. Len(w) : w[i].kind = "subscribe" /\ w[j].kind = "subscribe" => i = j

(* The state sent last is the last under way, or on show. *)
LastState(w, v) ==
    \E i \in 1 .. Len(w) :
        /\ w[i].kind = "state" /\ w[i].value = v
        /\ \A j \in i + 1 .. Len(w) : w[j].kind # "state"
Final(w, show, v) ==
    IF v = Unsent THEN ~Says(w, "state")
    ELSE LastState(w, v) \/ (~Says(w, "state") /\ show = v)

Said ==
    /\ InSession => /\ Clean(wire[conn])
                    /\ Says(wire[conn], "subscribe") => conn \notin subscribed
    /\ InSession /\ pc # "hello" /\ Working(conn) =>
          /\ available \/ Says(wire[conn], "online")
          /\ button \/ Says(wire[conn], "button")
          /\ Final(wire[conn], shown, last)

IInv == TypeOK /\ Types /\ Connections /\ Inbox /\ Said /\ OnlyFreshPresses /\ NoPressIsLost

-----------------------------------------------------------------------------
(* What is under way on a connection. *)

LEMMA TailFacts ==
    ASSUME NEW S, NEW w \in Seq(S), w # <<>>
    PROVE  /\ Tail(w) \in Seq(S) /\ Len(Tail(w)) = Len(w) - 1 /\ Len(w) \in Nat /\ Len(w) > 0
           /\ Head(w) = w[1] /\ Head(w) \in S
           /\ \A i \in 1 .. Len(Tail(w)) : Tail(w)[i] = w[i + 1] /\ i + 1 \in 1 .. Len(w)
OBVIOUS

LEMMA PushFacts ==
    ASSUME NEW S, NEW w \in Seq(S), NEW p \in S
    PROVE  /\ w \o <<p>> \in Seq(S) /\ Len(w \o <<p>>) = Len(w) + 1 /\ Len(w) \in Nat
           /\ \A i \in 1 .. Len(w) : (w \o <<p>>)[i] = w[i]
           /\ (w \o <<p>>)[Len(w) + 1] = p
OBVIOUS

(* A packet is taken from a queue. *)
LEMMA SaysTail ==
    ASSUME NEW w \in Seq(Packet), w # <<>>, NEW kind
    PROVE  /\ Says(Tail(w), kind) => Says(w, kind)
           /\ Says(w, kind) => Head(w).kind = kind \/ Says(Tail(w), kind)
<1>1. ASSUME NEW i \in 1 .. Len(w), w[i].kind = kind, i # 1
      PROVE  Says(Tail(w), kind)
  <2>1. i - 1 \in 1 .. Len(Tail(w)) /\ Tail(w)[i - 1] = w[i]
    BY <1>1, TailFacts
  <2> QED BY <1>1, <2>1 DEF Says
<1>2. Says(w, kind) => Head(w).kind = kind \/ Says(Tail(w), kind)
  BY <1>1, TailFacts DEF Says
<1>3. Says(Tail(w), kind) => Says(w, kind)
  BY TailFacts DEF Says
<1> QED BY <1>2, <1>3

LEMMA CleanTail ==
    ASSUME NEW w \in Seq(Packet), w # <<>>, Clean(w)
    PROVE  /\ Clean(Tail(w))
           /\ Head(w).kind # "bye"
           /\ Head(w).kind \in {"button", "online"} => Head(w).value = TRUE
           /\ Head(w).kind = "subscribe" => ~Says(Tail(w), "subscribe") /\ Says(w, "subscribe")
<1> DEFINE t == Tail(w)
<1>1. /\ Len(w) \in Nat /\ Len(w) > 0 /\ Head(w) = w[1] /\ Len(t) = Len(w) - 1
      /\ \A i \in 1 .. Len(t) : t[i] = w[i + 1] /\ i + 1 \in 1 .. Len(w)
  BY TailFacts
<1> HIDE DEF t
<1>2. Clean(t)
  <2>1. \A i \in 1 .. Len(t) :
            /\ t[i].kind # "bye"
            /\ t[i].kind \in {"button", "online"} => t[i].value = TRUE
    BY <1>1 DEF Clean
  <2>2. ASSUME NEW i \in 1 .. Len(t), NEW j \in 1 .. Len(t),
               t[i].kind = "subscribe", t[j].kind = "subscribe"
        PROVE  i = j
    <3>1. i + 1 = j + 1
      BY <1>1, <2>2 DEF Clean
    <3> QED BY <1>1, <3>1
  <2> QED BY <2>1, <2>2 DEF Clean
<1>3. /\ Head(w).kind # "bye"
      /\ Head(w).kind \in {"button", "online"} => Head(w).value = TRUE
  BY <1>1 DEF Clean
<1>4. Head(w).kind = "subscribe" => ~Says(t, "subscribe") /\ Says(w, "subscribe")
  BY <1>1 DEF Clean, Says
<1> QED BY <1>2, <1>3, <1>4 DEF t

LEMMA FinalTail ==
    ASSUME NEW w \in Seq(Packet), w # <<>>, NEW show, NEW v, Final(w, show, v)
    PROVE  Final(Tail(w), IF Head(w).kind = "state" THEN Head(w).value ELSE show, v)
<1> DEFINE t == Tail(w)
<1> DEFINE s == IF Head(w).kind = "state" THEN Head(w).value ELSE show
<1>1. /\ Len(w) \in Nat /\ Len(w) > 0 /\ Head(w) = w[1] /\ Len(t) = Len(w) - 1
      /\ \A i \in 1 .. Len(t) : t[i] = w[i + 1] /\ i + 1 \in 1 .. Len(w)
  BY TailFacts
<1>2. Says(t, "state") => Says(w, "state")
  BY SaysTail
<1> SUFFICES Final(t, s, v)
  OBVIOUS
<1> HIDE DEF t, s
<1>3. CASE v = Unsent
  BY <1>2, <1>3 DEF Final
<1>4. CASE v # Unsent /\ LastState(w, v)
  <2>1. PICK i \in 1 .. Len(w) : /\ w[i].kind = "state" /\ w[i].value = v
                                 /\ \A j \in i + 1 .. Len(w) : w[j].kind # "state"
    BY <1>4 DEF LastState
  <2>2. CASE i = 1
    <3>1. s = v
      BY <1>1, <2>1, <2>2 DEF s
    <3>2. ~Says(t, "state")
      <4>1. \A j \in 1 .. Len(t) : j + 1 \in i + 1 .. Len(w)
        BY <1>1, <2>2
      <4> QED BY <1>1, <2>1, <4>1 DEF Says
    <3> QED BY <1>4, <3>1, <3>2 DEF Final
  <2>3. CASE i # 1
    <3>1. i - 1 \in 1 .. Len(t) /\ t[i - 1] = w[i]
      BY <1>1, <2>3
    <3>2. \A j \in (i - 1) + 1 .. Len(t) : t[j].kind # "state"
      <4>1. \A j \in (i - 1) + 1 .. Len(t) : j + 1 \in i + 1 .. Len(w) /\ j \in 1 .. Len(t)
        BY <1>1, <2>3
      <4> QED BY <1>1, <2>1, <4>1
    <3>3. LastState(t, v)
      BY <2>1, <3>1, <3>2 DEF LastState
    <3> QED BY <1>4, <3>3 DEF Final
  <2> QED BY <2>2, <2>3
<1>5. CASE v # Unsent /\ ~Says(w, "state") /\ show = v
  <2>1. s = v
    BY <1>1, <1>5 DEF s, Says
  <2> QED BY <1>2, <1>5, <2>1 DEF Final
<1> QED BY <1>3, <1>4, <1>5 DEF Final

(* A packet is written at the end of a queue. *)
LEMMA CleanPush ==
    ASSUME NEW w \in Seq(Packet), Clean(w), NEW p \in Packet, p.kind \in {"state", "ping"}
    PROVE  /\ Clean(w \o <<p>>)
           /\ \A kind \in {"subscribe", "online", "button"} :
                 Says(w \o <<p>>, kind) <=> Says(w, kind)
<1> DEFINE t == w \o <<p>>
<1>1. /\ Len(w) \in Nat /\ Len(t) = Len(w) + 1 /\ t[Len(w) + 1] = p
      /\ \A i \in 1 .. Len(w) : t[i] = w[i]
  BY PushFacts
<1> HIDE DEF t
<1>2. \A i \in 1 .. Len(t) : i \in 1 .. Len(w) \/ i = Len(w) + 1
  BY <1>1
<1>3. Clean(t)
  BY <1>1, <1>2 DEF Clean
<1>4. \A kind \in {"subscribe", "online", "button"} : Says(t, kind) <=> Says(w, kind)
  BY <1>1, <1>2 DEF Says
<1> QED BY <1>3, <1>4 DEF t

LEMMA FinalPush ==
    ASSUME NEW w \in Seq(Packet), NEW show, NEW v, NEW p \in Packet
    PROVE  /\ p.kind = "ping" /\ Final(w, show, v) => Final(w \o <<p>>, show, v)
           /\ p.kind = "state" /\ p.value = v /\ v # Unsent => Final(w \o <<p>>, show, v)
<1> DEFINE t == w \o <<p>>
<1>1. /\ Len(w) \in Nat /\ Len(t) = Len(w) + 1 /\ t[Len(w) + 1] = p
      /\ \A i \in 1 .. Len(w) : t[i] = w[i]
  BY PushFacts
<1> HIDE DEF t
<1>2. \A i \in 1 .. Len(t) : i \in 1 .. Len(w) \/ i = Len(w) + 1
  BY <1>1
<1>3. ASSUME p.kind = "ping", Final(w, show, v) PROVE Final(t, show, v)
  <2>1. Says(t, "state") => Says(w, "state")
    BY <1>1, <1>2, <1>3 DEF Says
  <2>2. ASSUME LastState(w, v) PROVE LastState(t, v)
    <3>1. PICK i \in 1 .. Len(w) : /\ w[i].kind = "state" /\ w[i].value = v
                                   /\ \A j \in i + 1 .. Len(w) : w[j].kind # "state"
      BY <2>2 DEF LastState
    <3>2. \A j \in i + 1 .. Len(t) : t[j].kind # "state"
      <4>1. \A j \in i + 1 .. Len(t) : j \in i + 1 .. Len(w) \/ j = Len(w) + 1
        BY <1>1
      <4>2. \A j \in i + 1 .. Len(w) : t[j] = w[j]
        BY <1>1
      <4> QED BY <1>1, <1>3, <3>1, <4>1, <4>2
    <3>3. i \in 1 .. Len(t) /\ t[i] = w[i]
      BY <1>1
    <3> QED BY <3>1, <3>2, <3>3 DEF LastState
  <2> QED BY <1>3, <2>1, <2>2 DEF Final
<1>4. ASSUME p.kind = "state", p.value = v, v # Unsent PROVE Final(t, show, v)
  <2>1. Len(t) \in 1 .. Len(t) /\ t[Len(t)] = p /\ Len(t) + 1 .. Len(t) = {}
    BY <1>1
  <2>2. LastState(t, v)
    BY <1>4, <2>1 DEF LastState
  <2> QED BY <1>4, <2>2 DEF Final
<1> QED BY <1>3, <1>4 DEF t

-----------------------------------------------------------------------------
(* The types, apart: what is true or false, and the rest. *)

Flags ==
    /\ connected \in BOOLEAN /\ cancelled \in BOOLEAN /\ pong \in BOOLEAN
    /\ available \in BOOLEAN /\ button \in BOOLEAN /\ owed \in BOOLEAN
Presses == (0 .. presses) \cup {Old}
Values ==
    /\ pc \in {"off", "dial", "hello", "read", "send", "ping", "wait", "backoff"}
    /\ conn \in Conns /\ seen \in Statuses
    /\ last \in Statuses \cup {Unsent} /\ shown \in Statuses \cup {Unsent}
    /\ Len(inbox) <= InboxSize
    /\ live \subseteq 1 .. conns /\ subscribed \subseteq 1 .. conns
    /\ kept \in Presses /\ pressing \in Presses

LEMMA TypeParts ==
    /\ TypeOK => Flags /\ Values
    /\ Flags /\ Values /\ Connections => TypeOK
BY DEF TypeOK, Flags, Values, Presses, Connections, InSession

LEMMA TypePartsNext == Flags' /\ Values' /\ Connections' => TypeOK'
BY DEF TypeOK, Flags, Values, Presses, Connections, InSession

(* The invariant, without the types TypeParts puts together. *)
LEMMA Parts ==
    Flags' /\ Values' /\ Types' /\ Connections' /\ Inbox' /\ Said' /\ OnlyFreshPresses'
        /\ NoPressIsLost' => IInv'
BY TypePartsNext DEF IInv

LEMMA SentFacts ==
    ASSUME Types, conn \in Conns, NEW packets \in Seq(Packet), wire' = Sent(conn, packets)
    PROVE  /\ wire' \in [Conns -> Seq(Packet)]
           /\ \A c \in Conns : c # conn => wire'[c] = wire[c]
           /\ wire'[conn] = IF Working(conn) THEN wire[conn] \o packets ELSE wire[conn]
<1>1. wire \in [Conns -> Seq(Packet)] /\ wire[conn] \in Seq(Packet)
  BY DEF Types
<1>2. wire[conn] \o packets \in Seq(Packet)
  BY <1>1
<1>3. CASE Working(conn)
  <2>1. wire' = [wire EXCEPT ![conn] = wire[conn] \o packets]
    BY <1>3 DEF Sent
  <2> QED BY <1>1, <1>2, <1>3, <2>1
<1>4. CASE ~Working(conn)
  BY <1>1, <1>4 DEF Sent
<1> QED BY <1>3, <1>4

-----------------------------------------------------------------------------
(* The steps that touch neither the connections nor what is said. *)

LEMMA QuietKeeps ==
    ASSUME IInv,
           UNCHANGED <<conn, wire, live, cut, closed, subscribed, retainedVars, inbox, heard, owed,
                       last, conns, presses>>,
           pressing' \in {pressing, 0}, InSession' <=> InSession, pc = "hello" <=> pc' = "hello",
           pc' \in {"off", "dial", "hello", "read", "send", "ping", "wait", "backoff"},
           connected' \in BOOLEAN, cancelled' \in BOOLEAN, pong' \in BOOLEAN,
           seen' \in Statuses, status' \in Statuses
    PROVE  IInv'
<1> USE DEF IInv, retainedVars
<1>1. Flags'
  BY TypeParts DEF Flags
<1>2. 0 \in Presses'
  BY DEF Presses, Types
<1>3. Values'
  BY <1>2, TypeParts DEF Values, Presses
<1>4. Types' /\ Connections'
  BY DEF Types, Connections
<1>5. Inbox' /\ OnlyFreshPresses' /\ NoPressIsLost'
  BY DEF Inbox, OnlyFreshPresses, NoPressIsLost
<1>6. Said'
  BY DEF Said, Working
<1> QED BY <1>1, <1>3, <1>4, <1>5, <1>6, Parts

LEMMA StepQuiet ==
    ASSUME IInv, Read \/ Pong \/ NextTurn \/ Retry \/ Start \/ Cancel \/ LineChanges \/ RestartEnds
    PROVE  IInv'
<1> USE DEF IInv, InSession
<1>0. /\ connected \in BOOLEAN /\ cancelled \in BOOLEAN /\ pong \in BOOLEAN
      /\ seen \in Statuses /\ status \in Statuses
      /\ pc \in {"off", "dial", "hello", "read", "send", "ping", "wait", "backoff"}
  BY TypeParts DEF Flags, Values, Types
<1>1. CASE Read \/ NextTurn
  BY <1>0, <1>1, QuietKeeps DEF Read, NextTurn, brokerVars, counters, pressVars
<1>2. CASE Pong
  BY <1>0, <1>2, QuietKeeps DEF Pong, brokerVars, counters, pressVars
<1>3. CASE Retry
  BY <1>0, <1>3, QuietKeeps DEF Retry, brokerVars, counters, pressVars
<1>4. CASE Start
  BY <1>0, <1>4, QuietKeeps DEF Start, brokerVars, counters, pressVars
<1>5. CASE Cancel
  BY <1>0, <1>5, QuietKeeps DEF Cancel, brokerVars, counters, pressVars
<1>6. CASE LineChanges
  <2>1. status' \in Statuses
    BY <1>0, <1>6, HomeAssistantAssumption DEF LineChanges, Statuses, HomeAssistantAssumption
  <2> QED BY <1>0, <1>6, <2>1, QuietKeeps DEF LineChanges, clientVars, brokerVars, counters, pressVars
<1>7. CASE RestartEnds
  BY <1>0, <1>7, QuietKeeps DEF RestartEnds, brokerVars, counters, pressVars
<1> QED BY <1>1, <1>2, <1>3, <1>4, <1>5, <1>6, <1>7

-----------------------------------------------------------------------------
(* The end of a session. *)

LEMMA SessionEnds ==
    ASSUME IInv, InSession, NEW packets \in Seq(Packet), wire' = Sent(conn, packets),
           closed' = closed \cup {conn}, pc' \in {"off", "backoff"}, SessionOver,
           connected' \in BOOLEAN,
           UNCHANGED <<conn, cancelled, seen, last, pong, status, live, cut, subscribed,
                       retainedVars, conns, presses>>
    PROVE  IInv'
<1> USE DEF IInv, retainedVars
<1>0. inbox' = <<>> /\ pressing' = 0 /\ heard' = {} /\ owed' = FALSE
  BY DEF SessionOver
<1>1. conn \in Conns /\ conn \in 1 .. conns /\ ~InSession'
  BY TypeParts DEF Values, Connections, InSession
<1>2. /\ wire' \in [Conns -> Seq(Packet)]
      /\ \A c \in Conns : c # conn => wire'[c] = wire[c]
  BY <1>1, SentFacts
<1>3. Flags'
  BY <1>0, TypeParts DEF Flags
<1>4. 0 \in Presses' /\ Len(inbox') = 0
  BY <1>0 DEF Presses, Types
<1>5. InboxSize \in Nat
  BY HomeAssistantAssumption DEF HomeAssistantAssumption
<1>6. Values'
  BY <1>0, <1>4, <1>5, TypeParts DEF Values, Presses
<1>7. Types'
  BY <1>0, <1>2 DEF Types
<1>8. Connections'
  <2>1. \A c \in Conns : c > conns => c # conn
    BY <1>1 DEF Types
  <2>2. closed' \subseteq 1 .. conns
    BY <1>1 DEF Connections
  <2> QED BY <1>1, <1>2, <2>1, <2>2 DEF Connections, InSession
<1>9. Inbox' /\ OnlyFreshPresses' /\ NoPressIsLost'
  BY <1>0, <1>4 DEF Inbox, OnlyFreshPresses, NoPressIsLost
<1>10. Said'
  BY <1>1 DEF Said
<1> QED BY <1>3, <1>6, <1>7, <1>8, <1>9, <1>10, Parts

LEMMA StepSessionEnds ==
    ASSUME IInv, Broken \/ PingTimesOut \/ Leave \/ ReadFails
    PROVE  IInv'
<1> USE DEF InSession
<1>1. /\ <<[kind |-> "bye"]>> \in Seq(Packet)
      /\ <<[kind |-> "online", value |-> FALSE], [kind |-> "bye"]>> \in Seq(Packet)
  BY DEF Packet
<1>2. connected \in BOOLEAN /\ cancelled \in BOOLEAN
  BY TypeParts DEF Flags, IInv
<1>3. CASE Broken \/ PingTimesOut
  <2>1. EndSession /\ InSession
    BY <1>3 DEF Broken, PingTimesOut
  <2>2. connected' \in BOOLEAN
    BY <1>2, <2>1 DEF EndSession
  <2> QED BY <1>1, <2>1, <2>2, SessionEnds DEF EndSession
<1>4. CASE Goodbye /\ InSession
  BY <1>1, <1>2, <1>4, SessionEnds DEF Goodbye
<1>5. CASE ReadFails /\ ~Goodbye
  <2>1. seen \in Statuses /\ status \in Statuses /\ pong \in BOOLEAN
    BY TypeParts DEF IInv, Values, Flags, Types
  <2> QED BY <1>2, <1>5, <2>1, QuietKeeps DEF ReadFails, brokerVars, pressVars
<1> QED BY <1>3, <1>4, <1>5 DEF Leave, ReadFails

-----------------------------------------------------------------------------
(* What the broker accepts. *)

LEMMA AcceptFacts ==
    ASSUME IInv, NEW c \in Conns, Accept(c)
    PROVE  /\ c = conns + 1 /\ conns' = c /\ conns \in Nat
           /\ live' = {c} /\ c \in 1 .. conns' /\ 1 .. conns \subseteq 1 .. conns'
           /\ c \notin closed /\ c \notin subscribed /\ wire[c] = <<>>
           /\ available' \in BOOLEAN
<1>1. c = conns + 1 /\ conns' = c /\ live' = (live \ live) \cup {c} /\ conns \in Nat
  BY DEF Accept, Superseded, IInv, Types
<1>2. available' \in BOOLEAN
  BY TypeParts DEF IInv, Flags, Accept
<1>3. c \notin 1 .. conns /\ c > conns /\ c \in 1 .. conns' /\ 1 .. conns \subseteq 1 .. conns'
  BY <1>1
<1>4. c \notin closed /\ c \notin subscribed /\ wire[c] = <<>>
  BY <1>3, TypeParts DEF IInv, Connections, Values
<1> QED BY <1>1, <1>2, <1>3, <1>4

(* A session begins on a connection that nothing was said on. *)
LEMMA StepDial == ASSUME IInv, Dial PROVE IInv'
<1> USE DEF IInv
<1>1. PICK c \in Conns : Accept(c) /\ conn' = c
  BY DEF Dial
<1>2. /\ pc = "dial" /\ pc' = "hello"
      /\ UNCHANGED <<connected, cancelled, seen, last, pong, inbox, pressing, status, wire, closed,
                     subscribed, shown, button, kept, presses, heard, owed>>
  BY DEF Dial, pressVars
<1>3. /\ c = conns + 1 /\ conns' = c /\ conns \in Nat
      /\ live' = {c} /\ c \in 1 .. conns' /\ 1 .. conns \subseteq 1 .. conns'
      /\ c \notin closed /\ c \notin subscribed /\ wire[c] = <<>> /\ available' \in BOOLEAN
  BY <1>1, AcceptFacts
<1>4. inbox = <<>> /\ pressing = 0
  BY <1>2 DEF Inbox, InSession
<1>5. Flags'
  BY <1>2, <1>3, TypeParts DEF Flags
<1>6. Values'
  BY <1>1, <1>2, <1>3, TypeParts DEF Values, Presses
<1>7. Types'
  BY <1>2, <1>3 DEF Types
<1>8. Connections'
  <2>1. closed' \subseteq 1 .. conns'
    BY <1>2, <1>3 DEF Connections
  <2>2. \A d \in Conns : d > conns' => wire'[d] = <<>>
    BY <1>2, <1>3 DEF Connections, Types
  <2> QED BY <1>1, <1>2, <1>3, <2>1, <2>2 DEF Connections, InSession
<1>9. Inbox' /\ OnlyFreshPresses' /\ NoPressIsLost'
  BY <1>2, <1>4 DEF Inbox, OnlyFreshPresses, NoPressIsLost, InSession
<1>10. Said'
  <2>1. Len(wire'[conn']) = 0
    BY <1>1, <1>2, <1>3
  <2> QED BY <1>2, <2>1 DEF Said, Clean, Says
<1> QED BY <1>5, <1>6, <1>7, <1>8, <1>9, <1>10, Parts

(* A connection under the identifier of the session, by the test of the    *)
(* settings or a dial answered too late, ends that of the session.         *)
LEMMA OthersKeep ==
    ASSUME IInv, NEW c \in Conns, Accept(c), closed' = closed \cup {c}, NEW q \in Seq(Packet),
           wire' = [wire EXCEPT ![c] = q],
           InSession' <=> InSession, pc = "hello" <=> pc' = "hello",
           pc' \in {"off", "dial", "hello", "read", "send", "ping", "wait", "backoff"},
           connected' \in BOOLEAN,
           UNCHANGED <<conn, cancelled, seen, last, pong, inbox, pressing, status, subscribed,
                       shown, button, kept, presses, heard, owed>>
    PROVE  IInv'
<1> USE DEF IInv
<1>1. /\ c = conns + 1 /\ conns' = c /\ conns \in Nat
      /\ live' = {c} /\ c \in 1 .. conns' /\ 1 .. conns \subseteq 1 .. conns'
      /\ c \notin closed /\ c \notin subscribed /\ wire[c] = <<>> /\ available' \in BOOLEAN
  BY AcceptFacts
<1>2. wire \in [Conns -> Seq(Packet)] /\ conn \in Conns /\ conn \in Nat
  BY TypeParts DEF Types, Values
<1>3. /\ wire' \in [Conns -> Seq(Packet)]
      /\ \A d \in Conns : d # c => wire'[d] = wire[d]
  BY <1>2
<1>4. InSession => conn # c
  BY <1>1 DEF Connections
<1>5. Flags'
  BY <1>1, TypeParts DEF Flags
<1>6. Values'
  BY <1>1, TypeParts DEF Values, Presses
<1>7. Types'
  BY <1>1, <1>3 DEF Types
<1>8. Connections'
  <2>1. closed' \subseteq 1 .. conns'
    BY <1>1 DEF Connections
  <2>2. \A d \in Conns : d > conns' => wire'[d] = <<>>
    BY <1>1, <1>3 DEF Connections, Types
  <2>3. InSession' => conn' \in 1 .. conns' /\ conn' \notin closed'
    BY <1>1, <1>4 DEF Connections
  <2>4. ~InSession' => conn' \in closed' \/ conn' > conns'
    BY <1>1, <1>2 DEF Connections
  <2>5. pc' = "hello" => wire'[conn'] = <<>> /\ conn' \notin subscribed'
    BY <1>2, <1>3, <1>4 DEF Connections, InSession
  <2> QED BY <1>1, <2>1, <2>2, <2>3, <2>4, <2>5 DEF Connections
<1>9. Inbox' /\ OnlyFreshPresses' /\ NoPressIsLost'
  BY DEF Inbox, OnlyFreshPresses, NoPressIsLost
<1>10. Said'
  <2>1. InSession => wire'[conn'] = wire[conn] /\ conn' \notin live'
    BY <1>1, <1>2, <1>3, <1>4
  <2> QED BY <2>1 DEF Said, Working
<1> QED BY <1>5, <1>6, <1>7, <1>8, <1>9, <1>10, Parts

LEMMA StepTest == ASSUME IInv, Test PROVE IInv'
<1>1. PICK c \in Conns :
         /\ Accept(c) /\ closed' = closed \cup {c}
         /\ wire' = [wire EXCEPT ![c] = <<[kind |-> "button", value |-> FALSE],
                                          [kind |-> "online", value |-> TRUE], [kind |-> "bye"]>>]
  BY DEF Test
<1>2. <<[kind |-> "button", value |-> FALSE], [kind |-> "online", value |-> TRUE],
        [kind |-> "bye"]>> \in Seq(Packet)
  BY DEF Packet
<1>3. connected \in BOOLEAN
      /\ pc \in {"off", "dial", "hello", "read", "send", "ping", "wait", "backoff"}
  BY TypeParts DEF IInv, Flags, Values
<1>4. /\ UNCHANGED <<pc, connected>>
      /\ UNCHANGED <<conn, cancelled, seen, last, pong, inbox, pressing, status, subscribed,
                     shown, button, kept, presses, heard, owed>>
  BY DEF Test, clientVars, pressVars
<1>5. InSession' <=> InSession
  BY <1>4 DEF InSession
<1> QED BY <1>1, <1>2, <1>3, <1>4, <1>5, OthersKeep

LEMMA StepDialFails == ASSUME IInv, DialFails PROVE IInv'
<1> USE DEF InSession
<1>1. /\ pc = "dial" /\ pc' \in {"off", "backoff"}
      /\ UNCHANGED <<conn, cancelled, seen, last, pong, inbox, pressing, status, wire, subscribed,
                     shown, button, kept, presses, heard, owed>>
  BY DEF DialFails, pressVars
<1>2. /\ connected' \in BOOLEAN /\ cancelled \in BOOLEAN /\ pong \in BOOLEAN
      /\ seen \in Statuses /\ status \in Statuses
  BY TypeParts DEF DialFails, IInv, Flags, Values, Types
<1>3. CASE UNCHANGED <<live, cut, available, conns, closed>>
  BY <1>1, <1>2, <1>3, QuietKeeps DEF retainedVars
<1>4. ASSUME NEW c \in Conns, Accept(c), closed' = closed \cup {c} PROVE IInv'
  <2>1. wire[c] = <<>> /\ wire \in [Conns -> Seq(Packet)]
    BY <1>4, AcceptFacts DEF IInv, Types
  <2>2. wire' = [wire EXCEPT ![c] = <<>>] /\ <<>> \in Seq(Packet)
    BY <1>1, <2>1
  <2> QED BY <1>1, <1>2, <1>4, <2>2, OthersKeep
<1> QED BY <1>3, <1>4 DEF DialFails

-----------------------------------------------------------------------------
(* What the session says. *)

LEMMA SpeaksKeeps ==
    ASSUME IInv, InSession, NEW packets \in Seq(Packet), wire' = Sent(conn, packets),
           pc' \in {"read", "ping", "wait"}, connected' \in BOOLEAN, pong' \in BOOLEAN,
           last' \in Statuses \cup {Unsent},
           UNCHANGED <<conn, cancelled, seen, inbox, pressing, status, live, cut, closed, subscribed,
                       retainedVars, conns, presses, heard, owed>>,
           Working(conn) =>
               /\ Clean(wire[conn] \o packets)
               /\ Says(wire[conn] \o packets, "subscribe") => conn \notin subscribed
               /\ available \/ Says(wire[conn] \o packets, "online")
               /\ button \/ Says(wire[conn] \o packets, "button")
               /\ Final(wire[conn] \o packets, shown, last')
    PROVE  IInv'
<1> USE DEF IInv, retainedVars
<1>1. conn \in Conns /\ conn \in 1 .. conns /\ InSession'
  BY TypeParts DEF Values, Connections, InSession
<1>2. /\ wire' \in [Conns -> Seq(Packet)]
      /\ \A c \in Conns : c # conn => wire'[c] = wire[c]
      /\ wire'[conn] = IF Working(conn) THEN wire[conn] \o packets ELSE wire[conn]
  BY <1>1, SentFacts
<1>3. Flags'
  BY TypeParts DEF Flags
<1>4. Values'
  BY TypeParts DEF Values, Presses
<1>5. Types'
  BY <1>2 DEF Types
<1>6. Connections'
  <2>1. \A c \in Conns : c > conns => c # conn
    BY <1>1 DEF Types
  <2> QED BY <1>1, <1>2, <2>1 DEF Connections
<1>7. Inbox' /\ OnlyFreshPresses' /\ NoPressIsLost'
  BY <1>1 DEF Inbox, OnlyFreshPresses, NoPressIsLost
<1>8. Said'
  <2>1. CASE Working(conn)
    BY <1>1, <1>2, <2>1 DEF Said, Working
  <2>2. CASE ~Working(conn)
    BY <1>1, <1>2, <2>2 DEF Said, Working
  <2> QED BY <2>1, <2>2
<1> QED BY <1>3, <1>4, <1>5, <1>6, <1>7, <1>8, Parts

LEMMA StepHello == ASSUME IInv, Hello PROVE IInv'
<1> DEFINE q == <<[kind |-> "button", value |-> TRUE], [kind |-> "online", value |-> TRUE],
                  [kind |-> "subscribe"]>>
<1>1. /\ pc = "hello" /\ pc' = "read" /\ connected' \in BOOLEAN /\ last' = Unsent
      /\ wire' = Sent(conn, q)
      /\ UNCHANGED <<conn, cancelled, seen, pong, inbox, pressing, status, live, cut, closed, subscribed,
                     retainedVars, conns, presses, heard, owed>>
  BY DEF Hello, First, counters, pressVars
<1>2. InSession /\ wire[conn] = <<>> /\ conn \notin subscribed /\ pong \in BOOLEAN
  BY <1>1, TypeParts DEF InSession, IInv, Connections, Flags
<1>3. q \in Seq(Packet) /\ Len(q) = 3
  BY DEF Packet
<1>4. /\ q[1].kind = "button" /\ q[1].value = TRUE /\ q[2].kind = "online" /\ q[2].value = TRUE
      /\ q[3].kind = "subscribe"
  OBVIOUS
<1> HIDE DEF q
<1>5. wire[conn] \o q = q
  BY <1>2, <1>3
<1>6. \A i \in 1 .. Len(q) : i = 1 \/ i = 2 \/ i = 3
  BY <1>3
<1>7. Clean(q)
  BY <1>4, <1>6 DEF Clean
<1>8. Says(q, "online") /\ Says(q, "button")
  BY <1>3, <1>4 DEF Says
<1>9. Final(q, shown, Unsent)
  BY <1>4, <1>6 DEF Final, Says
<1> QED BY <1>1, <1>2, <1>3, <1>5, <1>7, <1>8, <1>9, SpeaksKeeps DEF retainedVars

LEMMA StepPublish == ASSUME IInv, Publish PROVE IInv'
<1> USE DEF IInv
<1> DEFINE p == [kind |-> "state", value |-> seen]
<1>1. /\ pc = "send" /\ pc' = "wait" /\ last' = seen
      /\ wire' = Sent(conn, <<p>>)
      /\ UNCHANGED <<conn, connected, cancelled, seen, pong, inbox, pressing, status, live, cut, closed,
                     subscribed, retainedVars, conns, presses, heard, owed>>
  BY DEF Publish, counters, pressVars
<1>2. /\ seen \in Statuses /\ seen # Unsent /\ conn \in Conns
      /\ connected \in BOOLEAN /\ pong \in BOOLEAN
  BY TypeParts DEF Values, Flags, Statuses, Unsent
<1>3. p \in Packet /\ p.kind = "state" /\ p.value = seen
  BY <1>2 DEF Packet
<1> HIDE DEF p
<1>4. InSession /\ wire[conn] \in Seq(Packet) /\ Clean(wire[conn])
  BY <1>1, <1>2 DEF InSession, Types, Said
<1>5. /\ Clean(wire[conn] \o <<p>>)
      /\ \A kind \in {"subscribe", "online", "button"} :
            Says(wire[conn] \o <<p>>, kind) <=> Says(wire[conn], kind)
  BY <1>3, <1>4, CleanPush
<1>6. Final(wire[conn] \o <<p>>, shown, last')
  BY <1>1, <1>2, <1>3, <1>4, FinalPush
<1>7. /\ Says(wire[conn], "subscribe") => conn \notin subscribed
      /\ Working(conn) => (available \/ Says(wire[conn], "online"))
                          /\ (button \/ Says(wire[conn], "button"))
  BY <1>1, <1>4 DEF Said
<1>8. Working(conn) =>
          /\ Clean(wire[conn] \o <<p>>)
          /\ Says(wire[conn] \o <<p>>, "subscribe") => conn \notin subscribed
          /\ available \/ Says(wire[conn] \o <<p>>, "online")
          /\ button \/ Says(wire[conn] \o <<p>>, "button")
          /\ Final(wire[conn] \o <<p>>, shown, last')
  BY <1>5, <1>6, <1>7
<1>9. <<p>> \in Seq(Packet) /\ connected' \in BOOLEAN /\ pong' \in BOOLEAN
      /\ last' \in Statuses \cup {Unsent}
  BY <1>1, <1>2, <1>3
<1> QED BY <1>1, <1>4, <1>8, <1>9, SpeaksKeeps

LEMMA StepPing == ASSUME IInv, Ping PROVE IInv'
<1> USE DEF IInv
<1> DEFINE p == [kind |-> "ping"]
<1>1. /\ pc = "send" /\ pc' = "ping" /\ last' = last /\ pong' \in BOOLEAN
      /\ wire' = Sent(conn, <<p>>)
      /\ UNCHANGED <<conn, connected, cancelled, seen, inbox, pressing, status, live, cut, closed,
                     subscribed, retainedVars, conns, presses, heard, owed>>
  BY DEF Ping, counters, pressVars
<1>2. conn \in Conns /\ connected \in BOOLEAN /\ last \in Statuses \cup {Unsent}
  BY TypeParts DEF Values, Flags
<1>3. p \in Packet /\ p.kind = "ping"
  BY DEF Packet
<1> HIDE DEF p
<1>4. InSession /\ wire[conn] \in Seq(Packet) /\ Clean(wire[conn])
  BY <1>1, <1>2 DEF InSession, Types, Said
<1>5. /\ Clean(wire[conn] \o <<p>>)
      /\ \A kind \in {"subscribe", "online", "button"} :
            Says(wire[conn] \o <<p>>, kind) <=> Says(wire[conn], kind)
  BY <1>3, <1>4, CleanPush
<1>6. /\ Says(wire[conn], "subscribe") => conn \notin subscribed
      /\ Working(conn) => /\ available \/ Says(wire[conn], "online")
                          /\ button \/ Says(wire[conn], "button")
                          /\ Final(wire[conn], shown, last)
  BY <1>1, <1>4 DEF Said
<1>7. Working(conn) => Final(wire[conn] \o <<p>>, shown, last')
  BY <1>1, <1>3, <1>4, <1>6, FinalPush
<1>8. Working(conn) =>
          /\ Clean(wire[conn] \o <<p>>)
          /\ Says(wire[conn] \o <<p>>, "subscribe") => conn \notin subscribed
          /\ available \/ Says(wire[conn] \o <<p>>, "online")
          /\ button \/ Says(wire[conn] \o <<p>>, "button")
          /\ Final(wire[conn] \o <<p>>, shown, last')
  BY <1>5, <1>6, <1>7
<1>9. <<p>> \in Seq(Packet) /\ connected' \in BOOLEAN /\ pong' \in BOOLEAN
      /\ last' \in Statuses \cup {Unsent}
  BY <1>1, <1>2, <1>3
<1> QED BY <1>1, <1>4, <1>8, <1>9, SpeaksKeeps

-----------------------------------------------------------------------------
(* The connections that end by themselves. *)

LEMMA StepWill == ASSUME IInv, NEW c \in Conns, Will(c) PROVE IInv'
<1> USE DEF IInv
<1>1. /\ c \in live /\ live' = live \ {c} /\ cut' = cut \ {c} /\ available' \in BOOLEAN
      /\ UNCHANGED <<pc, conn, connected, cancelled, seen, last, pong, inbox, pressing, status, wire,
                     closed, subscribed, shown, button, kept, conns, presses, heard, owed>>
  BY DEF Will, clientVars, counters, pressVars
<1>2. Flags' /\ Values' /\ Types'
  BY <1>1, TypeParts DEF Flags, Values, Presses, Types
<1>3. Connections'
  BY <1>1 DEF Connections, InSession
<1>4. Inbox' /\ OnlyFreshPresses' /\ NoPressIsLost'
  BY <1>1 DEF Inbox, InSession, OnlyFreshPresses, NoPressIsLost
<1>5. ~Working(conn)'
  BY <1>1 DEF Connections, Working
<1>6. Said'
  BY <1>1, <1>5 DEF Said, InSession
<1> QED BY <1>2, <1>3, <1>4, <1>6, Parts

LEMMA StepCut == ASSUME IInv, NEW c \in Conns, Cut(c) PROVE IInv'
<1> USE DEF IInv
<1>1. /\ cut' = cut \cup {c} /\ wire' = [wire EXCEPT ![c] = <<>>]
      /\ UNCHANGED <<pc, conn, connected, cancelled, seen, last, pong, inbox, pressing, status, live,
                     closed, subscribed, available, shown, button, kept, conns, presses, heard, owed>>
  BY DEF Cut, clientVars, retainedVars, pressVars
<1>2. Flags' /\ Values'
  BY <1>1, TypeParts DEF Flags, Values, Presses
<1>3. /\ wire' \in [Conns -> Seq(Packet)] /\ wire'[c] = <<>> /\ Len(wire'[c]) = 0
      /\ \A d \in Conns : d # c => wire'[d] = wire[d]
  BY <1>1 DEF Types
<1>4. conn \in Conns
  BY TypeParts DEF Values
<1>5. Types' /\ Connections'
  BY <1>1, <1>3, <1>4 DEF Types, Connections, InSession
<1>6. Inbox' /\ OnlyFreshPresses' /\ NoPressIsLost'
  BY <1>1 DEF Inbox, InSession, OnlyFreshPresses, NoPressIsLost
<1>7. Said'
  <2>1. CASE conn = c
    <3>1. ~Working(conn)' /\ Len(wire'[conn']) = 0
      BY <1>1, <1>3, <2>1 DEF Working
    <3> QED BY <3>1 DEF Said, Clean, Says
  <2>2. CASE conn # c
    BY <1>1, <1>3, <1>4, <2>2 DEF Said, InSession, Working
  <2> QED BY <2>1, <2>2
<1> QED BY <1>2, <1>5, <1>6, <1>7, Parts

-----------------------------------------------------------------------------
(* The inbox. *)

LEMMA DeliverFacts ==
    ASSUME inbox \in Seq(Message), Len(inbox) <= InboxSize, InboxSize \in Nat, NEW m \in Message
    PROVE  /\ Delivered(m) \in Seq(Message) /\ Len(Delivered(m)) <= InboxSize /\ Len(inbox) \in Nat
           /\ Room => /\ Len(Delivered(m)) = Len(inbox) + 1
                      /\ \A i \in 1 .. Len(inbox) : Delivered(m)[i] = inbox[i]
                      /\ Delivered(m)[Len(inbox) + 1] = m
           /\ ~Room => Delivered(m) = inbox /\ Len(inbox) = InboxSize
<1>1. CASE Room
  BY <1>1 DEF Delivered, Room
<1>2. CASE ~Room
  BY <1>2 DEF Delivered, Room
<1> QED BY <1>1, <1>2

LEMMA InboxFacts ==
    ASSUME IInv
    PROVE  /\ inbox \in Seq(Message) /\ Len(inbox) <= InboxSize /\ InboxSize \in Nat
           /\ InboxSize >= 2 /\ DOMAIN inbox = 1 .. Len(inbox)
BY HomeAssistantAssumption, TypeParts DEF HomeAssistantAssumption, IInv, Types, Values

(* A connection that listens is that of a session. *)
LEMMA ListeningFacts ==
    ASSUME IInv, Working(conn), Listening(conn)
    PROVE  InSession
<1>1. conn \in live /\ conn \notin closed /\ conn \in Conns
  BY TypeParts DEF IInv, Values, Working, Listening
<1> QED BY <1>1, TypeParts DEF IInv, Connections, Types, Values

LEMMA StepCommand == ASSUME IInv, Command PROVE IInv'
<1> USE DEF IInv
<1> DEFINE m == Head(inbox)
<1> DEFINE begins == IsPress(m) /\ pressing = 0
<1>1. /\ pc = "wait" /\ inbox # <<>> /\ inbox' = Tail(inbox)
      /\ pressing' = IF begins THEN m.press ELSE pressing
      /\ owed' = (owed /\ ~begins)
      /\ UNCHANGED <<pc, conn, connected, cancelled, seen, last, pong, status, wire, live, cut, closed,
                     subscribed, retainedVars, conns, presses, heard>>
  BY DEF Command, brokerVars, counters
<1>2. /\ inbox' \in Seq(Message) /\ Len(inbox') = Len(inbox) - 1 /\ Len(inbox) \in Nat
      /\ Len(inbox) > 0 /\ m = inbox[1]
      /\ \A i \in 1 .. Len(inbox') : inbox'[i] = inbox[i + 1] /\ i + 1 \in 1 .. Len(inbox)
  BY <1>1, TailFacts, InboxFacts
<1> HIDE DEF m
<1>3. begins => m.press \in heard /\ m.press \in Presses
  <2>1. begins => m.press \in heard
    <3>1. 1 \in 1 .. Len(inbox)
      BY <1>2
    <3>2. ~inbox[1].retain => inbox[1].press \in heard
      BY <3>1 DEF Inbox
    <3> QED BY <1>2, <3>2 DEF IsPress
  <2>2. heard \subseteq Presses
    BY DEF Types, Presses
  <2> QED BY <2>1, <2>2
<1>4. owed' \in BOOLEAN
  BY <1>1, TypeParts DEF Flags
<1>5. Flags'
  BY <1>1, <1>4, TypeParts DEF Flags, retainedVars
<1>6. pressing' \in Presses
  BY <1>1, <1>3, TypeParts DEF Values
<1>7. Len(inbox') <= InboxSize
  BY <1>2, InboxFacts
<1>8. Values'
  BY <1>1, <1>6, <1>7, TypeParts DEF Values, Presses, retainedVars
<1>9. Types' /\ Connections'
  BY <1>1, <1>2 DEF Types, Connections, InSession
<1>10. Inbox'
  <2>1. \A i \in 1 .. Len(inbox') : ~inbox'[i].retain => inbox'[i].press \in heard
    BY <1>2 DEF Inbox
  <2>2. \A i, j \in 1 .. Len(inbox') : inbox'[i].retain /\ inbox'[j].retain => i = j
    <3>1. ASSUME NEW i \in 1 .. Len(inbox'), NEW j \in 1 .. Len(inbox'),
                 inbox'[i].retain, inbox'[j].retain
          PROVE  i = j
      <4>1. i + 1 = j + 1
        BY <1>2, <3>1 DEF Inbox
      <4> QED BY <1>2, <4>1
    <3> QED BY <3>1
  <2>3. \A i \in 1 .. Len(inbox') : inbox'[i].retain => conn \in subscribed
    BY <1>2 DEF Inbox
  <2>4. owed' => pressing' = 0
    BY <1>1 DEF Inbox
  <2>5. InSession'
    BY <1>1 DEF InSession
  <2> QED BY <1>1, <2>1, <2>2, <2>3, <2>4, <2>5 DEF Inbox
<1>11. OnlyFreshPresses'
  BY <1>1, <1>3 DEF OnlyFreshPresses
<1>12. NoPressIsLost'
  <2> SUFFICES ASSUME owed' PROVE \E i \in 1 .. Len(inbox') : ~inbox'[i].retain
    BY <1>2 DEF NoPressIsLost
  <2>1. owed /\ ~begins
    BY <1>1
  <2>2. pressing = 0 /\ m.retain
    BY <2>1 DEF Inbox, IsPress
  <2>3. PICK i \in 1 .. Len(inbox) : ~inbox[i].retain
    BY <2>1, InboxFacts DEF NoPressIsLost
  <2>4. i # 1
    BY <1>2, <2>2, <2>3
  <2>5. i - 1 \in 1 .. Len(inbox') /\ inbox'[i - 1] = inbox[i]
    BY <1>2, <2>4
  <2> QED BY <2>3, <2>5
<1>13. Said'
  BY <1>1 DEF Said, InSession, Working, retainedVars
<1> QED BY <1>5, <1>8, <1>9, <1>10, <1>11, <1>12, <1>13, Parts

LEMMA StepPress == ASSUME IInv, Press PROVE IInv'
<1> USE DEF IInv
<1> DEFINE here == Working(conn) /\ conn \in subscribed /\ Listening(conn)
<1> DEFINE m == [press |-> presses + 1, retain |-> FALSE]
<1>1. /\ presses < MaxPresses /\ presses' = presses + 1
      /\ heard' = IF here THEN heard \cup {presses + 1} ELSE heard
      /\ inbox' = IF here THEN Delivered(m) ELSE inbox
      /\ owed' = (owed \/ (here /\ pressing = 0))
      /\ UNCHANGED <<pc, conn, connected, cancelled, seen, last, pong, pressing, status, wire, live, cut,
                     closed, subscribed, retainedVars, conns>>
  BY DEF Press
<1>2. /\ presses \in Nat /\ presses' \in 0 .. MaxPresses /\ presses + 1 \in 1 .. presses'
      /\ 0 .. presses \subseteq 0 .. presses' /\ 1 .. presses \subseteq 1 .. presses'
  BY <1>1, HomeAssistantAssumption DEF Types, HomeAssistantAssumption
<1>3. m \in Message /\ m.retain = FALSE /\ m.press = presses + 1
  BY <1>2 DEF Message
<1>4. here => InSession
  BY ListeningFacts
<1> HIDE DEF here, m
<1>5. /\ inbox \in Seq(Message) /\ Len(inbox) <= InboxSize /\ InboxSize \in Nat
      /\ InboxSize >= 2 /\ DOMAIN inbox = 1 .. Len(inbox) /\ Len(inbox) \in Nat
  BY InboxFacts
<1>6. /\ inbox' \in Seq(Message) /\ Len(inbox') <= InboxSize
      /\ here /\ Room => /\ Len(inbox') = Len(inbox) + 1
                         /\ \A i \in 1 .. Len(inbox) : inbox'[i] = inbox[i]
                         /\ inbox'[Len(inbox) + 1] = m
      /\ ~(here /\ Room) => inbox' = inbox
      /\ here /\ ~Room => Len(inbox) = InboxSize
  BY <1>1, <1>3, <1>5, DeliverFacts
<1>7. owed' \in BOOLEAN
  BY <1>1, TypeParts DEF Flags
<1>8. Flags'
  BY <1>1, <1>7, TypeParts DEF Flags, retainedVars
<1>9. Presses \subseteq Presses'
  BY <1>2 DEF Presses, Old
<1>10. Values'
  BY <1>1, <1>6, <1>9, TypeParts DEF Values, retainedVars
<1>11. heard' \subseteq 1 .. presses'
  BY <1>1, <1>2 DEF Types
<1>12. Types' /\ Connections'
  BY <1>1, <1>2, <1>6, <1>11 DEF Types, Connections, InSession
<1>13. \A i \in 1 .. Len(inbox') :
           (i \in 1 .. Len(inbox) /\ inbox'[i] = inbox[i]) \/ (here /\ inbox'[i] = m)
  <2>1. CASE here /\ Room
    BY <1>5, <1>6, <2>1
  <2>2. CASE ~(here /\ Room)
    BY <1>6, <2>2
  <2> QED BY <2>1, <2>2
<1>14. Inbox'
  <2>1. \A i \in 1 .. Len(inbox') : ~inbox'[i].retain => inbox'[i].press \in heard'
    BY <1>1, <1>3, <1>13 DEF Inbox
  <2>2. \A i \in 1 .. Len(inbox') :
            inbox'[i].retain => i \in 1 .. Len(inbox) /\ inbox[i].retain
    BY <1>3, <1>13
  <2>3. ~InSession => inbox' = <<>> /\ pressing' = 0
    BY <1>1, <1>4 DEF Inbox
  <2>4. owed' => pressing' = 0
    BY <1>1 DEF Inbox
  <2>5. InSession' <=> InSession
    BY <1>1 DEF InSession
  <2> QED BY <1>1, <2>1, <2>2, <2>3, <2>4, <2>5 DEF Inbox
<1>15. OnlyFreshPresses'
  BY <1>1 DEF OnlyFreshPresses
<1>16. NoPressIsLost'
  <2> SUFFICES ASSUME owed' PROVE \E i \in 1 .. Len(inbox') : ~inbox'[i].retain
    BY <1>6 DEF NoPressIsLost
  <2>1. CASE here /\ Room
    BY <1>3, <1>5, <1>6, <2>1
  <2>2. CASE here /\ ~Room
    <3>1. 1 \in 1 .. Len(inbox) /\ 2 \in 1 .. Len(inbox) /\ inbox' = inbox
      <4>1. Len(inbox) = InboxSize /\ inbox' = inbox
        BY <1>6, <2>2
      <4> QED BY <1>5, <4>1
    <3>2. ~(inbox[1].retain /\ inbox[2].retain)
      BY <3>1 DEF Inbox
    <3> QED BY <3>1, <3>2
  <2>3. CASE ~here
    BY <1>1, <1>5, <1>6, <2>3 DEF NoPressIsLost
  <2> QED BY <2>1, <2>2, <2>3
<1>17. Said'
  BY <1>1 DEF Said, InSession, Working, retainedVars
<1> QED BY <1>8, <1>10, <1>12, <1>14, <1>15, <1>16, <1>17, Parts

-----------------------------------------------------------------------------
(* What the broker receives. *)

(* A packet of another connection, of one that is closed or of the session.*)
LEMMA StepReceive == ASSUME IInv, NEW c \in Conns, Receive(c) PROVE IInv'
<1> USE DEF IInv
<1> DEFINE p == Head(wire[c])
<1> DEFINE m == [press |-> kept, retain |-> TRUE]
<1> DEFINE kept1 == p.kind = "subscribe" /\ kept # 0 /\ Listening(c)
<1>1. /\ Working(c) /\ wire[c] # <<>> /\ wire' = [wire EXCEPT ![c] = Tail(wire[c])]
      /\ live' = (IF p.kind = "bye" THEN live \ {c} ELSE live)
      /\ subscribed' = (IF p.kind = "subscribe" THEN subscribed \cup {c} ELSE subscribed)
      /\ pong' = (pong \/ (p.kind = "ping" /\ Listening(c)))
      /\ available' = (IF p.kind = "online" THEN p.value ELSE available)
      /\ button' = (IF p.kind = "button" THEN p.value ELSE button)
      /\ shown' = (IF p.kind = "state" THEN p.value ELSE shown)
      /\ inbox' = (IF kept1 THEN Delivered(m) ELSE inbox)
      /\ UNCHANGED <<pc, conn, connected, cancelled, seen, last, pressing, status, cut, closed, kept,
                     conns, presses, heard, owed>>
  BY DEF Receive, counters, pressVars
<1>2. wire[c] \in Seq(Packet) /\ p \in Packet /\ Tail(wire[c]) \in Seq(Packet)
  BY <1>1, TailFacts DEF Types
<1>3. /\ p.kind \in {"online", "button"} => p.value \in BOOLEAN
      /\ p.kind = "state" => p.value \in Statuses
  BY <1>2 DEF Packet
<1>4. /\ wire' \in [Conns -> Seq(Packet)] /\ wire'[c] = Tail(wire[c])
      /\ \A d \in Conns : d # c => wire'[d] = wire[d]
  BY <1>1, <1>2 DEF Types
<1>5. /\ c \in live /\ c = conns /\ conn \in Conns /\ conns \in Nat
      /\ InSession /\ conn # c => conn \notin live
  BY <1>1, TypeParts DEF Working, Connections, Values, Types
<1>6. Listening(c) => c = conn /\ InSession
  BY <1>1, ListeningFacts DEF Listening
<1>7. ASSUME InSession, c = conn
      PROVE  /\ Clean(wire'[conn]) /\ p.kind # "bye"
             /\ p.kind \in {"button", "online"} => p.value = TRUE
             /\ p.kind = "subscribe" => conn \notin subscribed
             /\ Says(wire'[conn], "subscribe") => conn \notin subscribed'
  <2>1. Clean(wire[c]) /\ (Says(wire[c], "subscribe") => conn \notin subscribed)
    BY <1>7 DEF Said
  <2>2. /\ Clean(wire'[conn]) /\ p.kind # "bye"
        /\ p.kind \in {"button", "online"} => p.value = TRUE
        /\ p.kind = "subscribe" => ~Says(wire'[conn], "subscribe") /\ Says(wire[c], "subscribe")
    BY <1>1, <1>2, <1>4, <1>7, <2>1, CleanTail
  <2>3. Says(wire'[conn], "subscribe") => Says(wire[c], "subscribe")
    BY <1>1, <1>2, <1>4, <1>7, SaysTail
  <2>4. Says(wire'[conn], "subscribe") => conn \notin subscribed'
    BY <1>1, <2>1, <2>2, <2>3
  <2> QED BY <2>1, <2>2, <2>4
<1>8. kept \in Nat
  BY TypeParts, HomeAssistantAssumption DEF Values, Presses, Types, Old, HomeAssistantAssumption
<1>9. /\ inbox \in Seq(Message) /\ Len(inbox) <= InboxSize /\ InboxSize \in Nat
      /\ DOMAIN inbox = 1 .. Len(inbox) /\ Len(inbox) \in Nat /\ m \in Message
  BY <1>8, InboxFacts DEF Message
<1>10. /\ m.retain = TRUE
       /\ kept1 => c = conn /\ InSession /\ p.kind = "subscribe"
  BY <1>6
<1> HIDE DEF p, m, kept1
<1>11. /\ inbox' \in Seq(Message) /\ Len(inbox') <= InboxSize /\ Len(inbox') \in Nat
       /\ kept1 /\ Room => /\ Len(inbox') = Len(inbox) + 1
                           /\ \A i \in 1 .. Len(inbox) : inbox'[i] = inbox[i]
                           /\ inbox'[Len(inbox) + 1] = m
       /\ ~(kept1 /\ Room) => inbox' = inbox
  <2>1. CASE kept1
    <3>1. inbox' = Delivered(m)
      BY <1>1, <2>1
    <3>2. /\ Delivered(m) \in Seq(Message) /\ Len(Delivered(m)) <= InboxSize
          /\ Room => /\ Len(Delivered(m)) = Len(inbox) + 1
                     /\ \A i \in 1 .. Len(inbox) : Delivered(m)[i] = inbox[i]
                     /\ Delivered(m)[Len(inbox) + 1] = m
          /\ ~Room => Delivered(m) = inbox
      BY <1>9, DeliverFacts
    <3>3. Len(inbox') \in Nat
      BY <3>1, <3>2
    <3> QED BY <2>1, <3>1, <3>2, <3>3
  <2>2. CASE ~kept1
    <3>1. inbox' = inbox
      BY <1>1, <2>2
    <3> QED BY <1>9, <2>2, <3>1
  <2> QED BY <2>1, <2>2
<1>12. Flags'
  <2>1. available' \in BOOLEAN
    BY <1>1, <1>3, TypeParts DEF Flags
  <2>2. button' \in BOOLEAN
    BY <1>1, <1>3, TypeParts DEF Flags
  <2>3. pong' \in BOOLEAN
    BY <1>1, TypeParts DEF Flags
  <2> QED BY <1>1, <2>1, <2>2, <2>3, TypeParts DEF Flags
<1>13. Values'
  <2>1. shown' \in Statuses \cup {Unsent}
    BY <1>1, <1>3, TypeParts DEF Values
  <2>2. live' \subseteq 1 .. conns /\ subscribed' \subseteq 1 .. conns
    BY <1>1, <1>5, TypeParts DEF Values
  <2> QED BY <1>1, <1>11, <2>1, <2>2, TypeParts DEF Values, Presses
<1>14. Types'
  BY <1>1, <1>4, <1>11 DEF Types
<1>15. InSession' <=> InSession
  BY <1>1 DEF InSession
<1>16. Connections'
  <2>1. \A d \in Conns : d > conns => d # c
    BY <1>5
  <2>2. pc = "hello" => c # conn
    BY <1>1 DEF Connections
  <2>3. pc' = "hello" => wire'[conn'] = <<>> /\ conn' \notin subscribed'
    BY <1>1, <1>4, <1>5, <2>2 DEF Connections
  <2> QED BY <1>1, <1>4, <1>15, <2>1, <2>3 DEF Connections
<1>17. Inbox' /\ NoPressIsLost'
  <2>1. CASE kept1 /\ Room
    <3>1. c = conn /\ InSession /\ conn \notin subscribed /\ conn \in subscribed'
      <4>1. c = conn /\ InSession /\ p.kind = "subscribe"
        BY <1>10, <2>1
      <4>2. conn \notin subscribed
        BY <1>7, <4>1
      <4>3. conn \in subscribed'
        BY <1>1, <4>1
      <4> QED BY <4>1, <4>2, <4>3
    <3>2. \A i \in 1 .. Len(inbox) : ~inbox[i].retain
      BY <3>1 DEF Inbox
    <3>3. \A i \in 1 .. Len(inbox') :
              i \in 1 .. Len(inbox) \/ (i = Len(inbox) + 1 /\ inbox'[i].retain)
      <4>1. Len(inbox') = Len(inbox) + 1 /\ inbox'[Len(inbox) + 1] = m
        BY <1>11, <2>1
      <4>2. inbox'[Len(inbox) + 1].retain
        BY <1>10, <4>1
      <4> QED BY <1>9, <4>1, <4>2
    <3>4. \A i \in 1 .. Len(inbox) : inbox'[i] = inbox[i] /\ i \in 1 .. Len(inbox')
      BY <1>9, <1>11, <2>1
    <3>5. \A i \in 1 .. Len(inbox') : ~inbox'[i].retain => inbox'[i].press \in heard
      BY <3>3, <3>4 DEF Inbox
    <3>6. \A i, j \in 1 .. Len(inbox') : inbox'[i].retain /\ inbox'[j].retain => i = j
      BY <3>2, <3>3, <3>4
    <3>7. Inbox'
      BY <1>1, <1>15, <3>1, <3>5, <3>6 DEF Inbox
    <3>8. NoPressIsLost'
      BY <1>1, <1>9, <1>11, <3>4 DEF NoPressIsLost
    <3> QED BY <3>7, <3>8
  <2>2. CASE ~(kept1 /\ Room)
    <3>1. inbox' = inbox /\ subscribed \subseteq subscribed'
      BY <1>1, <1>11, <2>2
    <3> QED BY <1>1, <1>15, <3>1 DEF Inbox, NoPressIsLost
  <2> QED BY <2>1, <2>2
<1>18. OnlyFreshPresses'
  BY <1>1 DEF OnlyFreshPresses
<1>19. Said'
  <2>1. CASE InSession /\ c = conn
    <3>1. /\ Clean(wire'[conn])
          /\ Says(wire'[conn], "subscribe") => conn \notin subscribed'
          /\ p.kind \in {"button", "online"} => p.value = TRUE
      BY <1>7, <2>1
    <3>2. ASSUME pc # "hello" PROVE /\ available \/ Says(wire[conn], "online")
                                    /\ button \/ Says(wire[conn], "button")
                                    /\ Final(wire[conn], shown, last)
      BY <1>1, <2>1, <3>2 DEF Said
    <3>3. \A kind : Says(wire[conn], kind) => p.kind = kind \/ Says(wire'[conn], kind)
      BY <1>1, <1>2, <1>4, <2>1, SaysTail DEF p
    <3>4. pc # "hello" => available' \/ Says(wire'[conn], "online")
      BY <1>1, <3>1, <3>2, <3>3
    <3>5. pc # "hello" => button' \/ Says(wire'[conn], "button")
      BY <1>1, <3>1, <3>2, <3>3
    <3>6. pc # "hello" => Final(wire'[conn], shown', last)
      BY <1>1, <1>2, <1>4, <2>1, <3>2, FinalTail DEF p
    <3> QED BY <1>1, <1>15, <3>1, <3>4, <3>5, <3>6 DEF Said
  <2>2. CASE InSession /\ c # conn
    <3>1. wire'[conn] = wire[conn] /\ conn \notin live' /\ (conn \in subscribed' <=> conn \in subscribed)
      BY <1>1, <1>4, <1>5, <2>2
    <3> QED BY <1>1, <2>2, <3>1 DEF Said, Working
  <2>3. CASE ~InSession
    BY <1>15, <2>3 DEF Said
  <2> QED BY <2>1, <2>2, <2>3
<1> QED BY <1>12, <1>13, <1>14, <1>16, <1>17, <1>18, <1>19, Parts

-----------------------------------------------------------------------------
(* The theorems. *)

LEMMA InitIInv == HomeAssistantAssumption /\ Init => IInv
<1> SUFFICES ASSUME HomeAssistantAssumption, Init PROVE IInv
  OBVIOUS
<1> USE DEF Init
<1>1. 1 \in Conns /\ Conns \subseteq Nat /\ 1 \in Statuses
  BY DEF HomeAssistantAssumption, Conns, Statuses
<1>2. 0 \in Presses /\ Old \in Presses /\ Len(inbox) = 0 /\ InboxSize \in Nat
  BY DEF Presses, HomeAssistantAssumption
<1>3. Flags
  BY DEF Flags
<1>4. Values
  BY <1>1, <1>2 DEF Values
<1>5. Types
  BY <1>1 DEF Types, HomeAssistantAssumption
<1>6. Connections
  BY <1>1 DEF Connections, InSession
<1>7. Inbox /\ Said /\ OnlyFreshPresses /\ NoPressIsLost
  BY <1>2 DEF Inbox, Said, InSession, OnlyFreshPresses, NoPressIsLost
<1> QED BY <1>3, <1>4, <1>5, <1>6, <1>7, TypeParts DEF IInv

LEMMA NextIInv == HomeAssistantAssumption /\ IInv /\ [Next]_vars => IInv'
<1> SUFFICES ASSUME HomeAssistantAssumption, IInv, [Next]_vars PROVE IInv'
  OBVIOUS
<1>1. CASE UNCHANGED vars
  <2>1. /\ connected \in BOOLEAN /\ cancelled \in BOOLEAN /\ pong \in BOOLEAN
        /\ seen \in Statuses /\ status \in Statuses
        /\ pc \in {"off", "dial", "hello", "read", "send", "ping", "wait", "backoff"}
    BY TypeParts DEF IInv, Flags, Values, Types
  <2> QED BY <1>1, <2>1, QuietKeeps
          DEF vars, clientVars, brokerVars, counters, pressVars, InSession
<1>2. CASE Client
  BY <1>2, StepQuiet, StepSessionEnds, StepDial, StepDialFails, StepHello, StepPublish,
     StepPing, StepCommand DEF Client
<1>3. CASE Broker
  BY <1>3, StepReceive, StepWill DEF Broker
<1>4. CASE RestartEnds \/ Start \/ Cancel \/ Test \/ LineChanges \/ Press \/ \E c \in Conns : Cut(c)
  BY <1>4, StepQuiet, StepTest, StepPress, StepCut
<1> QED BY <1>1, <1>2, <1>3, <1>4 DEF Next

(* The inductive invariant: one connection at a time, and what is under    *)
(* way on that of the session settles what is on show (session, Connect).  *)
THEOREM Invariance == Spec => []IInv
BY HomeAssistantAssumption, InitIInv, NextIInv, PTL DEF Spec

(* Every variable keeps its type, and a session has a connection that it   *)
(* has not closed (Run, session).                                          *)
THEOREM TypeCorrect == Spec => []TypeOK
<1>1. IInv => TypeOK
  BY DEF IInv
<1> QED BY <1>1, Invariance, PTL

(* The modem is never restarted by a press the broker kept, nor by one of  *)
(* an earlier session, however often the connection is lost (command).     *)
THEOREM FreshPresses == Spec => []OnlyFreshPresses
<1>1. IInv => OnlyFreshPresses
  BY DEF IInv
<1> QED BY <1>1, Invariance, PTL

(* A press that comes while no restart is under way has one in the inbox   *)
(* until a restart begins, even when the inbox was full (Client.listen).   *)
THEOREM PressesKept == Spec => []NoPressIsLost
<1>1. IInv => NoPressIsLost
  BY DEF IInv
<1> QED BY <1>1, Invariance, PTL

(* Once all it said is received, a session is shown as available, with its *)
(* button and the state it sent last, whatever was cut, answered late or   *)
(* tested from the settings before (session, Test, goodbye).               *)
THEOREM ShownTruly == Spec => []ShownIsTrue
<1>1. IInv => ShownIsTrue
  <2> SUFFICES ASSUME IInv, pc = "wait", Working(conn), wire[conn] = <<>>
               PROVE  available /\ button /\ (last # Unsent => shown = last)
    BY DEF ShownIsTrue
  <2>1. Len(wire[conn]) = 0
    OBVIOUS
  <2>2. \A kind : ~Says(wire[conn], kind)
    BY <2>1 DEF Says
  <2>3. \A v : ~LastState(wire[conn], v)
    BY <2>1 DEF LastState
  <2>4. /\ available \/ Says(wire[conn], "online")
        /\ button \/ Says(wire[conn], "button")
        /\ Final(wire[conn], shown, last)
    BY DEF IInv, Said, InSession
  <2> QED BY <2>2, <2>3, <2>4 DEF Final
<1> QED BY <1>1, Invariance, PTL

-----------------------------------------------------------------------------
(***************************************************************************)
(* ModemRestart, for any number of callers.                                *)
(*                                                                         *)
(* The argument is the two locks.  Whoever is past the guard holds         *)
(* restartMu, so what the guard saw of the journal stays true until the    *)
(* modem takes the request (Guarded), and a restart taken is followed by   *)
(* its entry before anybody looks again (Told).  Whoever is in the driver  *)
(* holds mu, so nobody else drops the session of its login.                *)
(***************************************************************************)

InRequest == {"guard", "call", "journal"} \cup Inside

Locks ==
    /\ \A c \in Callers : stage[c] \in InRequest => restartMu = c
    /\ \A p \in Procs : stage[p] \in Inside => mu = p

(* A request still to be sent was not taken. *)
Fresh == \A c \in Callers : stage[c] \in {"asked", "guard", "call"} \cup (Inside \ {"taken"})
                              => tries[c] = 0

Dates ==
    /\ asked <= now /\ lastTake <= now
    /\ takes > 0 => lastTake >= 0

(* What the guard saw is still true, for a call that can still send. *)
Guarded == restartFaults = 0 =>
    \A c \in Callers \ over : stage[c] \in {"call"} \cup (Inside \ {"taken"}) => ~TooSoon

(* The latest restart taken is in the journal or on its way there. *)
Told == takes > 0 /\ ~untold /\ restartFaults = 0 =>
    \/ lastTake <= asked
    \/ \E c \in Callers : stage[c] \in {"taken", "journal"} /\ tries[c] > 0

RestartInv ==
    /\ RestartTypeOK /\ Locks /\ Fresh /\ Dates /\ Guarded /\ Told
    /\ NeverReplayed /\ SentWithASession

USE DEF Procs, At

LEMMA RestartInvInit == ModemRestartAssumption /\ RestartInit => RestartInv
<1> SUFFICES ASSUME ModemRestartAssumption, RestartInit PROVE RestartInv
  OBVIOUS
<1> USE DEF RestartInit
<1>1. RestartTypeOK
  BY DEF RestartTypeOK, Noted
<1>2. Locks /\ Fresh /\ Dates
  BY DEF Locks, InRequest, Inside, Fresh, Dates
<1>3. Guarded /\ Told /\ NeverReplayed /\ SentWithASession
  BY DEF Guarded, Told, Inside, NeverReplayed, SentWithASession
<1> QED BY <1>1, <1>2, <1>3 DEF RestartInv

-----------------------------------------------------------------------------
(* The steps around the driver. *)

LEMMA AskStep ==
    ASSUME ModemRestartAssumption, RestartInv, NEW c \in Callers, Ask(c) PROVE RestartInv'
<1> USE DEF RestartInv, Ask, lockVars
<1>1. RestartTypeOK'
  BY DEF RestartTypeOK, Noted
<1>2. Locks' /\ Fresh' /\ Dates'
  BY DEF RestartTypeOK, Locks, InRequest, Inside, Fresh, Dates
<1>3. Guarded' /\ Told'
  BY DEF RestartTypeOK, Guarded, Told, TooSoon, Inside
<1>4. NeverReplayed' /\ SentWithASession'
  BY DEF RestartTypeOK, NeverReplayed, SentWithASession
<1> QED BY <1>1, <1>2, <1>3, <1>4

LEMMA EnterRequestStep ==
    ASSUME ModemRestartAssumption, RestartInv, NEW c \in Callers, EnterRequest(c) PROVE RestartInv'
<1> USE DEF RestartInv, EnterRequest, boundVars, takeVars
<1>1. RestartTypeOK'
  BY DEF RestartTypeOK
<1>2. Locks' /\ Fresh' /\ Dates'
  BY DEF ModemRestartAssumption, RestartTypeOK, Locks, InRequest, Inside, Fresh, Dates
<1>3. Guarded' /\ Told'
  BY DEF RestartTypeOK, Guarded, Told, TooSoon, Inside
<1>4. NeverReplayed' /\ SentWithASession'
  BY DEF RestartTypeOK, NeverReplayed, SentWithASession
<1> QED BY <1>1, <1>2, <1>3, <1>4

LEMMA RefusedStep ==
    ASSUME ModemRestartAssumption, RestartInv, NEW c \in Callers, Refused(c) PROVE RestartInv'
<1> USE DEF RestartInv, Refused, Return, boundVars, takeVars
<1>1. RestartTypeOK'
  BY DEF RestartTypeOK
<1>2. Locks' /\ Fresh' /\ Dates'
  BY DEF ModemRestartAssumption, RestartTypeOK, Locks, InRequest, Inside, Fresh, Dates
<1>3. Guarded' /\ Told'
  BY DEF RestartTypeOK, Guarded, Told, TooSoon, Inside
<1>4. NeverReplayed' /\ SentWithASession'
  BY DEF RestartTypeOK, NeverReplayed, SentWithASession
<1> QED BY <1>1, <1>2, <1>3, <1>4

LEMMA GrantedStep ==
    ASSUME ModemRestartAssumption, RestartInv, NEW c \in Callers, Granted(c) PROVE RestartInv'
<1> USE DEF RestartInv, Granted, lockVars, takeVars
<1>0. restartFaults' \in Nat /\ (restartFaults' = 0 => restartFaults = 0 /\ (~TooSoon \/ c \in over))
  BY DEF RestartFault, RestartTypeOK
<1>1. RestartTypeOK'
  BY <1>0 DEF RestartTypeOK
<1>2. Locks' /\ Fresh' /\ Dates'
  BY DEF RestartTypeOK, Locks, InRequest, Inside, Fresh, Dates
<1>3. Guarded' /\ Told'
  BY <1>0 DEF RestartTypeOK, Guarded, Told, TooSoon, Inside
<1>4. NeverReplayed' /\ SentWithASession'
  BY DEF RestartTypeOK, NeverReplayed, SentWithASession
<1> QED BY <1>1, <1>2, <1>3, <1>4

(* Nobody else is past the guard when the entry changes it. *)
LEMMA JournalStep ==
    ASSUME ModemRestartAssumption, RestartInv, NEW c \in Callers, Journal(c) \/ JournalFails(c)
    PROVE  RestartInv'
<1> USE DEF RestartInv, Journal, JournalFails, RestartFault, Return, boundVars, takeVars
<1>1. RestartTypeOK'
  <2>1. restartFaults' \in Nat /\ requests' \in Nat /\ crashes' \in Nat
        /\ asked' \in Nat \cup {-1}
    BY DEF RestartTypeOK
  <2>3. untold' \in BOOLEAN
    <3>1. CASE Journal(c)
      BY <3>1 DEF RestartTypeOK
    <3>2. CASE JournalFails(c)
      BY <3>2
    <3> QED BY <3>1, <3>2
  <2>2. stage' = [stage EXCEPT ![c] = "rest"] /\ outcome' = [outcome EXCEPT ![c] = outcome[c]]
        /\ restartMu' = None
        /\ UNCHANGED <<now, over, mu, token, tries, takes, lastTake>>
    OBVIOUS
  <2> QED BY <2>1, <2>2, <2>3 DEF RestartTypeOK
<1>2. Locks' /\ Fresh' /\ Dates'
  BY DEF ModemRestartAssumption, RestartTypeOK, Locks, InRequest, Inside, Fresh, Dates
<1>3. \A d \in Callers \ {c} : stage[d] \notin InRequest /\ stage'[d] = stage[d]
  BY DEF RestartTypeOK, Locks, InRequest
<1>4. Guarded' /\ Told'
  BY <1>3 DEF RestartTypeOK, Guarded, Told, Dates, InRequest, Inside
<1>5. NeverReplayed' /\ SentWithASession'
  BY DEF RestartTypeOK, NeverReplayed, SentWithASession
<1> QED BY <1>1, <1>2, <1>4, <1>5

-----------------------------------------------------------------------------
(* The driver. *)

LEMMA PollStep ==
    ASSUME ModemRestartAssumption, RestartInv, Poll PROVE RestartInv'
<1> USE DEF RestartInv, Poll, lockVars, boundVars, takeVars, ModemRestartAssumption
<1>1. RestartTypeOK'
  BY DEF RestartTypeOK
<1>2. Locks' /\ Fresh' /\ Dates'
  BY DEF RestartTypeOK, Locks, InRequest, Inside, Fresh, Dates
<1>3. Guarded' /\ Told'
  BY DEF RestartTypeOK, Guarded, Told, TooSoon, Inside
<1>4. NeverReplayed' /\ SentWithASession'
  BY DEF RestartTypeOK, NeverReplayed, SentWithASession
<1> QED BY <1>1, <1>2, <1>3, <1>4

LEMMA EnterDriverStep ==
    ASSUME ModemRestartAssumption, RestartInv, NEW p \in Procs, EnterDriver(p) PROVE RestartInv'
<1> USE DEF RestartInv, EnterDriver, Enter, boundVars, takeVars, ModemRestartAssumption
<1>1. RestartTypeOK'
  BY DEF RestartTypeOK, Inside
<1>2. Locks' /\ Fresh' /\ Dates'
  BY DEF RestartTypeOK, Locks, InRequest, Inside, Fresh, Dates
<1>3. Guarded' /\ Told'
  BY DEF RestartTypeOK, Guarded, Told, TooSoon, Inside
<1>4. NeverReplayed' /\ SentWithASession'
  BY DEF RestartTypeOK, NeverReplayed, SentWithASession
<1> QED BY <1>1, <1>2, <1>3, <1>4

LEMMA LoginOkStep ==
    ASSUME ModemRestartAssumption, RestartInv, NEW p \in Procs, LoginOk(p) \/ LogInAgain(p)
    PROVE  RestartInv'
<1> USE DEF RestartInv, LoginOk, LogInAgain, Denied, lockVars, boundVars, takeVars,
        ModemRestartAssumption
<1>1. RestartTypeOK'
  BY DEF RestartTypeOK, Inside
<1>2. Locks' /\ Fresh' /\ Dates'
  BY DEF RestartTypeOK, Locks, InRequest, Inside, Fresh, Dates
<1>3. Guarded' /\ Told'
  BY DEF RestartTypeOK, Guarded, Told, TooSoon, Inside
<1>4. NeverReplayed' /\ SentWithASession'
  BY DEF RestartTypeOK, Locks, Inside, NeverReplayed, SentWithASession
<1> QED BY <1>1, <1>2, <1>3, <1>4

(* A call that leaves drops the session of nobody else. *)
LEMMA Alone ==
    ASSUME RestartInv, NEW p \in Procs, stage[p] \in Inside
    PROVE  \A q \in Procs \ {p} : stage[q] \notin Inside
  BY DEF RestartInv, Locks

LEMMA ReadStep ==
    ASSUME ModemRestartAssumption, RestartInv, ReadLoginFails \/ ModemRead \/ ModemReadFails PROVE RestartInv'
<1> USE DEF RestartInv, ModemRestartAssumption
<1>1. /\ stage[Collector] \in Inside /\ stage' = [stage EXCEPT ![Collector] = "rest"]
      /\ mu' = None /\ token' \in {token, "none"}
      /\ UNCHANGED <<now, over, outcome, restartMu, asked, requests, restartFaults, crashes,
                     tries, takes, lastTake, untold>>
  BY DEF ReadLoginFails, ModemRead, ModemReadFails, LeaveRead, boundVars, takeVars, Inside
<1>2. \A q \in Callers : stage[q] \notin Inside
  BY <1>1, Alone
<1>3. RestartTypeOK'
  BY <1>1 DEF RestartTypeOK
<1>4. Locks' /\ Fresh' /\ Dates'
  BY <1>1, <1>2 DEF RestartTypeOK, Locks, InRequest, Inside, Fresh, Dates
<1>5. Guarded' /\ Told'
  BY <1>1 DEF RestartTypeOK, Guarded, Told, TooSoon, Inside
<1>6. NeverReplayed' /\ SentWithASession'
  BY <1>1, <1>2 DEF RestartTypeOK, Inside, NeverReplayed, SentWithASession
<1> QED BY <1>3, <1>4, <1>5, <1>6

(* A request that leaves the driver goes to the journal, or ends. *)
LEMMA LeaveRestartStep ==
    ASSUME ModemRestartAssumption, RestartInv, NEW c \in Callers,
           NEW out \in Noted \cup {"erreur"}, stage[c] \in Inside,
           LeaveRestart(c, out),
           UNCHANGED <<now, over, asked, boundVars, takeVars>>,
           untold' \in BOOLEAN, untold => untold',
           stage[c] = "taken" /\ out \notin Noted => untold'
    PROVE  RestartInv'
<1> USE DEF RestartInv, ModemRestartAssumption, boundVars, takeVars
<1>1. /\ mu' = None /\ token' = "none"
      /\ outcome' = [outcome EXCEPT ![c] = out]
      /\ \/ out \in Noted /\ stage' = [stage EXCEPT ![c] = "journal"] /\ restartMu' = restartMu
         \/ out \notin Noted /\ stage' = [stage EXCEPT ![c] = "rest"] /\ restartMu' = None
  BY DEF LeaveRestart, Return
<1>2. \A q \in Procs \ {c} : stage[q] \notin Inside /\ stage'[q] = stage[q]
  BY <1>1, Alone DEF RestartTypeOK
<1>3. \A q \in Callers \ {c} : stage[q] \notin InRequest
  BY DEF Locks, InRequest
<1>4. stage'[c] \in {"journal", "rest"}
  BY <1>1 DEF RestartTypeOK
<1>5. RestartTypeOK'
  BY <1>1 DEF RestartTypeOK
<1>6. Locks'
  BY <1>1, <1>2, <1>3, <1>4 DEF RestartTypeOK, Locks, InRequest, Inside
<1>7. Fresh' /\ Dates'
  BY <1>2, <1>4 DEF Fresh, Dates, Inside
<1>8. Guarded'
  BY <1>2, <1>4 DEF Guarded, TooSoon, Inside
<1>9. Told'
  <2>1. CASE stage[c] = "taken" /\ out \notin Noted
    BY <2>1 DEF Told
  <2>2. CASE stage[c] = "taken" /\ out \in Noted
    <3>1. tries[c] > 0 => stage'[c] = "journal" /\ tries'[c] > 0
      BY <1>1, <2>2 DEF RestartTypeOK
    <3>2. \A q \in Callers : stage[q] \in {"taken", "journal"} => q = c
      BY <1>3 DEF InRequest, Inside
    <3> QED
      BY <3>1, <3>2 DEF Told
  <2>3. CASE stage[c] # "taken"
    <3>1. \A q \in Callers : stage[q] \notin {"taken", "journal"}
      BY <1>3, <2>3 DEF InRequest, Inside
    <3> QED
      BY <3>1 DEF Told
  <2> QED BY <2>1, <2>2, <2>3
<1>10. NeverReplayed' /\ SentWithASession'
  BY <1>2, <1>4 DEF Inside, NeverReplayed, SentWithASession
<1> QED BY <1>5, <1>6, <1>7, <1>8, <1>9, <1>10

LEMMA LeaveStep ==
    ASSUME ModemRestartAssumption, RestartInv, NEW c \in Callers,
           RestartLoginFails(c) \/ Answer(c) \/ NoAnswer(c) \/ Turned(c)
    PROVE  RestartInv'
<1>1. untold \in BOOLEAN
  BY DEF RestartInv, RestartTypeOK
<1>2. CASE RestartLoginFails(c)
  BY <1>1, <1>2, LeaveRestartStep DEF RestartLoginFails, Inside
<1>3. CASE Answer(c)
  BY <1>1, <1>3, LeaveRestartStep DEF Answer, Inside, Noted
<1>4. CASE NoAnswer(c)
  <2>1. Silence(c) \in Noted \cup {"erreur"} /\ (Silence(c) \notin Noted => c \in over)
    BY DEF Silence, Noted
  <2>2. stage[c] \in Inside /\ LeaveRestart(c, Silence(c))
        /\ untold' = (untold \/ (stage[c] = "taken" /\ c \in over))
        /\ UNCHANGED <<now, over, asked, boundVars, takeVars>>
    BY <1>4 DEF NoAnswer, Inside
  <2> QED BY <1>1, <2>1, <2>2, LeaveRestartStep
<1>5. CASE Turned(c)
  BY <1>1, <1>5, LeaveRestartStep DEF Turned, Inside
<1> QED BY <1>2, <1>3, <1>4, <1>5

(* What the guard saw, and what was journaled since the last restart, when *)
(* the modem takes one.                                                    *)
LEMMA TakeIsApart ==
    ASSUME ModemRestartAssumption, RestartInv, NEW c \in Callers, Take(c),
           takes > 0, ~untold, restartFaults = 0
    PROVE  now - lastTake >= RestartGuard
<1>1. stage[c] \in {"send", "resend"}
  BY DEF Take
<1>2. \A d \in Callers : stage[d] \notin {"taken", "journal"}
  BY <1>1 DEF RestartInv, Locks, InRequest, Inside
<1>3. lastTake <= asked /\ lastTake >= 0
  BY <1>2 DEF RestartInv, Told, Dates
<1>4. ~TooSoon
  BY <1>1 DEF RestartInv, Guarded, Inside, Take
<1> QED
  BY <1>3, <1>4 DEF TooSoon, RestartInv, RestartTypeOK, ModemRestartAssumption

LEMMA TakeStep ==
    ASSUME ModemRestartAssumption, RestartInv, NEW c \in Callers, Take(c) PROVE RestartInv'
<1> USE DEF RestartInv, Take, lockVars, boundVars, ModemRestartAssumption
<1>1. tries[c] = 0 /\ tries'[c] = 1 /\ \A d \in Callers \ {c} : tries'[d] = tries[d]
  BY DEF RestartTypeOK, Fresh, Inside
<1>2. RestartTypeOK'
  <2>1. stage' = [stage EXCEPT ![c] = "taken"] /\ tries' = [tries EXCEPT ![c] = tries[c] + 1]
        /\ token' = "over" /\ takes' = takes + 1 /\ lastTake' = now /\ untold' = FALSE
        /\ UNCHANGED <<now, over, outcome, restartMu, mu, asked, requests, restartFaults, crashes>>
    OBVIOUS
  <2>2. tries' \in [Callers -> Nat]
    BY <2>1 DEF RestartTypeOK
  <2>3. stage' \in [Procs -> {"rest", "asked", "guard", "call", "journal"} \cup Inside]
    BY <2>1 DEF RestartTypeOK, Inside
  <2>4. now' \in Nat /\ lastTake' \in Nat /\ takes' \in Nat
    BY <2>1 DEF RestartTypeOK
  <2>6. untold' \in BOOLEAN
    BY <2>1
  <2> HIDE DEF Take, RestartInv
  <2>5. RestartTypeOK
    BY DEF RestartInv
  <2> QED BY <2>1, <2>2, <2>3, <2>4, <2>5, <2>6 DEF RestartTypeOK
<1>3. Locks'
  BY DEF RestartTypeOK, Locks, InRequest, Inside
<1>4. Fresh' /\ Dates'
  BY <1>1 DEF RestartTypeOK, Inside, Fresh, Dates
<1>5. Guarded' /\ Told'
  BY <1>1 DEF RestartTypeOK, Guarded, Told, TooSoon, Inside
<1>6. NeverReplayed' /\ SentWithASession'
  BY <1>1 DEF RestartTypeOK, NeverReplayed, SentWithASession
<1> QED BY <1>2, <1>3, <1>4, <1>5, <1>6

-----------------------------------------------------------------------------
(* The rest of the world. *)
LEMMA WorldStep ==
    ASSUME ModemRestartAssumption, RestartInv,
           (\E p \in Procs : ContextEnds(p)) \/ SessionExpires \/ Tick
    PROVE  RestartInv'
<1> USE DEF RestartInv, ModemRestartAssumption, ContextEnds, SessionExpires, Tick, lockVars,
        boundVars, takeVars
<1>1. RestartTypeOK'
  BY DEF RestartTypeOK
<1>2. Locks' /\ Fresh' /\ Dates'
  BY DEF RestartTypeOK, Locks, InRequest, Inside, Fresh, Dates
<1>3. Guarded' /\ Told'
  BY DEF RestartTypeOK, Guarded, Told, TooSoon, Inside
<1>4. NeverReplayed' /\ SentWithASession'
  BY DEF RestartTypeOK, NeverReplayed, SentWithASession
<1> QED BY <1>1, <1>2, <1>3, <1>4

LEMMA CrashStep ==
    ASSUME ModemRestartAssumption, RestartInv, Crash PROVE RestartInv'
<1> USE DEF RestartInv, ModemRestartAssumption, Crash, takeVars
<1>1. RestartTypeOK'
  BY DEF RestartTypeOK, Noted
<1>2. Locks' /\ Fresh' /\ Dates'
  BY DEF RestartTypeOK, Locks, InRequest, Inside, Fresh, Dates
<1>3. Guarded' /\ Told'
  BY DEF RestartTypeOK, Guarded, Told, Inside
<1>4. NeverReplayed' /\ SentWithASession'
  BY DEF RestartTypeOK, NeverReplayed, SentWithASession
<1> QED BY <1>1, <1>2, <1>3, <1>4

LEMMA StutterStep ==
    ASSUME RestartInv, UNCHANGED restartVars PROVE RestartInv'
  BY DEF RestartInv, restartVars, lockVars, boundVars, takeVars, RestartTypeOK, Locks, Fresh, Dates, Guarded,
     TooSoon, Told, NeverReplayed, SentWithASession

LEMMA RestartInvNext == ModemRestartAssumption /\ RestartInv /\ [RestartNext]_restartVars => RestartInv'
<1> SUFFICES ASSUME ModemRestartAssumption, RestartInv, [RestartNext]_restartVars PROVE RestartInv'
  OBVIOUS
<1>1. ASSUME NEW c \in Callers, Steps(c) PROVE RestartInv'
  BY <1>1, RefusedStep, GrantedStep, JournalStep, LeaveStep, TakeStep, LoginOkStep
     DEF Steps
<1>2. CASE ReadSteps
  BY <1>2, ReadStep, LoginOkStep DEF ReadSteps
<1> QED
  BY <1>1, <1>2, AskStep, EnterRequestStep, PollStep, EnterDriverStep, WorldStep,
     CrashStep, StutterStep DEF RestartNext

-----------------------------------------------------------------------------
(* RestartInv holds of every state the requests can be in. *)
THEOREM RestartInvariance == RestartSpec => []RestartInv
<1>1. RestartInit => RestartInv
  BY RestartInvInit, ModemRestartAssumption
<1>2. RestartInv /\ [RestartNext]_restartVars => RestartInv'
  BY RestartInvNext, ModemRestartAssumption
<1> QED
  BY <1>1, <1>2, PTL DEF RestartSpec

(* The state keeps its types (service/restart.go, modem/cga4233.go). *)
THEOREM RestartTypeCorrect == RestartSpec => []RestartTypeOK
<1>1. RestartInv => RestartTypeOK
  BY DEF RestartInv
<1> QED BY <1>1, RestartInvariance, PTL

(* A request the modem may have executed is never sent again               *)
(* (CGA4233.Restart), whoever else asks or reads meanwhile.                *)
THEOREM Replayed == RestartSpec => []NeverReplayed
<1>1. RestartInv => NeverReplayed
  BY DEF RestartInv
<1> QED BY <1>1, RestartInvariance, PTL

(* Nothing is sent to the modem without a session (CGA4233.mu). *)
THEOREM SessionKept == RestartSpec => []SentWithASession
<1>1. RestartInv => SentWithASession
  BY DEF RestartInv
<1> QED BY <1>1, RestartInvariance, PTL

(* The guard of ten minutes holds for any number of requests at once       *)
(* (service.RestartModem), as long as the journal answers and no request   *)
(* died under way.                                                         *)
THEOREM TakesApart == RestartSpec => TakesAreApart
<1> DEFINE Step == takes' # takes /\ takes > 0 /\ ~untold /\ restartFaults = 0
                     => now - lastTake >= RestartGuard
<1>1. ASSUME [RestartNext]_restartVars, \A c \in Callers : ~Take(c) PROVE takes' = takes
  BY <1>1 DEF RestartNext, Ask, EnterRequest, Steps, Refused, Granted, Journal, JournalFails,
     RestartLoginFails, Answer, NoAnswer, Turned, LoginOk, LogInAgain, Poll, ReadSteps,
     ReadLoginFails, ModemRead, ModemReadFails, EnterDriver, ContextEnds, SessionExpires, Crash, Tick,
     takeVars, restartVars
<1>2. RestartInv /\ [RestartNext]_restartVars => Step
  BY <1>1, TakeIsApart, ModemRestartAssumption
<1> QED
  BY <1>2, RestartInvariance, PTL DEF RestartSpec, TakesAreApart
=============================================================================
