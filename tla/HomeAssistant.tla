--------------------------- MODULE HomeAssistant ---------------------------
(***************************************************************************)
(* The publication of the state of the line to an MQTT broker, for Home    *)
(* Assistant, and the button that restarts the modem.  Each step of the    *)
(* publisher is what it does between two waits:                            *)
(*                                                                         *)
(*   dial -> hello -> read -> send [-> ping] -> wait -> read ...           *)
(*   any error -> backoff -> dial;  the context ends -> off                *)
(*                                                                         *)
(* A connection is told by its rank.  Its packets are delivered in order   *)
(* until it is cut; the broker has one session per client identifier, ends *)
(* the earlier connection that uses it, and publishes the will of a        *)
(* connection that ends without DISCONNECT ("bye").  The page of settings  *)
(* has a test that connects under the same identifier.                     *)
(*                                                                         *)
(* What a reading of the status and the description of the sensors hold is *)
(* abstracted to a value; of the descriptions only the button is told      *)
(* apart, which comes and goes.                                            *)
(***************************************************************************)
EXTENDS Integers, Sequences

CONSTANTS
    MaxStatus,   \* bound on the states of the line, one after the other
    InboxSize,   \* mqtt: eight messages
    MaxStarts,   \* bound on the publishers started
    MaxTests,    \* bound on the tests from the page
    MaxPresses,  \* bound on the presses of the button
    MaxFaults,   \* bound on cuts, failures and slow answers
    MaxWire      \* bound on the packets under way

ASSUME HomeAssistantAssumption ==
    /\ {MaxStatus, MaxStarts} \subseteq Nat \ {0}
    /\ {MaxTests, MaxPresses, MaxFaults, MaxWire} \subseteq Nat
    /\ InboxSize \in Nat /\ InboxSize >= 2

Unsent == 0
Old == MaxPresses + 1
Statuses == 1 .. MaxStatus

Conns == 1 .. 2 * MaxStarts + MaxTests + MaxFaults

VARIABLES
    pc,         \* where the publisher is
    conn,       \* its connection, or the last it had
    connected,  \* Publisher.connected, what the page of settings shows
    cancelled,  \* its context has ended
    seen, last, \* the status read, the one last sent in the session
    pong,       \* Client.pong
    inbox,      \* Client.inbox
    pressing,   \* the press whose restart holds the lock of the session, or 0
    status,     \* the state of the line
    wire,       \* packets on their way to the broker
    live, cut, closed, subscribed,  \* connections: known to the broker, cut, closed by the client
    shown,      \* what the broker retains: state of the line,
    available,  \*   availability,
    button,     \*   description of the button,
    kept,       \*   a press wrongly published as retained, long ago, or 0
    conns, starts, tests, presses, faults,
    heard,      \* history: the presses published to the present session
    owed        \* history: one came while no restart ran, and none has begun since

clientVars == <<pc, conn, connected, cancelled, seen, last, pong, inbox, pressing>>
retainedVars == <<shown, available, button, kept>>
brokerVars == <<wire, live, cut, closed, subscribed, retainedVars>>
counters == <<conns, starts, tests, presses, faults>>
pressVars == <<heard, owed>>
vars == <<clientVars, status, brokerVars, counters, pressVars>>

Working(c) == c \in live /\ c \notin cut
Fault == faults < MaxFaults /\ faults' = faults + 1

(* Client.write: what is written to a dead connection goes nowhere. *)
Sent(c, packets) == IF Working(c) THEN [wire EXCEPT ![c] = @ \o packets] ELSE wire

-----------------------------------------------------------------------------
(* The connection. *)

SlipSuperseded == {}                 \* each connection under an identifier of its own
Superseded == live                   \* ClientID: nodeID

(* The broker accepts a connection and ends the one it replaces. *)
Accept(c) ==
    /\ conns < 2 * MaxStarts + MaxTests + MaxFaults
    /\ c = conns + 1 /\ conns' = c
    /\ live' = (live \ Superseded) \cup {c}
    /\ cut' = cut \ Superseded
    /\ available' = (available /\ Superseded = {})

(* mqtt.Dial, answered in time. *)
Dial ==
    /\ pc = "dial" /\ ~cancelled
    /\ \E c \in Conns : Accept(c) /\ conn' = c
    /\ pc' = "hello"
    /\ UNCHANGED <<connected, cancelled, seen, last, pong, inbox, pressing, status, wire, closed,
                   subscribed, shown, button, kept, starts, tests, presses, faults, pressVars>>

(* The inbox and the lock go with the session; a restart under way goes on *)
(* unseen (module ModemRestart).                                           *)
SessionOver == inbox' = <<>> /\ pressing' = 0 /\ heard' = {} /\ owed' = FALSE

(* What session and Run do of an error: Close says goodbye if it can, the  *)
(* context is looked at, then the wait.                                    *)
EndSession ==
    /\ wire' = Sent(conn, <<[kind |-> "bye"]>>)
    /\ closed' = closed \cup {conn}
    /\ pc' = IF cancelled THEN "off" ELSE "backoff"
    /\ connected' = (connected /\ cancelled)
    /\ SessionOver
    /\ UNCHANGED <<conn, cancelled, seen, last, pong, status, live, cut, subscribed, retainedVars,
                   conns, starts, tests, presses>>

(* Dial fails: the broker is out of reach, refuses, or answers too late; in *)
(* the last case it has a session that the client has closed.              *)
DialFails ==
    /\ pc = "dial"
    /\ \/ cancelled /\ UNCHANGED <<live, cut, available, conns, closed, faults>>
       \/ Fault /\ UNCHANGED <<live, cut, available, conns, closed>>
       \/ Fault /\ \E c \in Conns : Accept(c) /\ closed' = closed \cup {c}
    /\ pc' = IF cancelled THEN "off" ELSE "backoff"
    /\ connected' = (connected /\ cancelled)
    /\ UNCHANGED <<conn, cancelled, seen, last, pong, inbox, pressing, status, wire, subscribed,
                   shown, button, kept, starts, tests, presses, pressVars>>

SlipFirst == last  \* last is kept with the publisher
First == Unsent    \* var last []byte, in session

(* Connect publishes the descriptions, then "online"; session subscribes.  *)
Hello ==
    /\ pc = "hello"
    /\ wire' = Sent(conn, <<[kind |-> "button", value |-> TRUE], [kind |-> "online", value |-> TRUE],
                            [kind |-> "subscribe"]>>)
    /\ pc' = "read" /\ connected' = TRUE
    /\ last' = First
    /\ UNCHANGED <<conn, cancelled, seen, pong, inbox, pressing, status, live, cut, closed, subscribed,
                   retainedVars, counters, pressVars>>

(* A write fails, or the listening goroutine sees the connection end. *)
Broken ==
    /\ pc \in {"hello", "send", "ping", "wait"}
    /\ ~Working(conn)
    /\ EndSession /\ UNCHANGED faults

-----------------------------------------------------------------------------
(* One turn of the session. *)

Read ==
    /\ pc = "read" /\ (Working(conn) => Len(wire[conn]) < MaxWire)
    /\ seen' = status
    /\ pc' = "send"
    /\ UNCHANGED <<conn, connected, cancelled, last, pong, inbox, pressing, status, brokerVars, counters, pressVars>>

(* goodbye, then Close. *)
Goodbye ==
    /\ wire' = Sent(conn, <<[kind |-> "online", value |-> FALSE], [kind |-> "bye"]>>)
    /\ closed' = closed \cup {conn}
    /\ pc' = "off"
    /\ SessionOver
    /\ UNCHANGED <<conn, connected, cancelled, seen, last, pong, status, live, cut, subscribed,
                   retainedVars, conns, starts, tests, presses>>

ReadFails ==
    /\ pc = "read"
    /\ \/ cancelled /\ Goodbye /\ UNCHANGED faults
       \/ /\ ~cancelled /\ Fault
          /\ pc' = "wait"
          /\ UNCHANGED <<conn, connected, cancelled, seen, last, pong, inbox, pressing, status, brokerVars,
                         conns, starts, tests, presses, pressVars>>

(* A status that differs from the last one sent is sent; so is any, every  *)
(* five minutes.                                                           *)
Publish ==
    /\ pc = "send"
    /\ wire' = Sent(conn, <<[kind |-> "state", value |-> seen]>>)
    /\ last' = seen
    /\ pc' = "wait"
    /\ UNCHANGED <<conn, connected, cancelled, seen, pong, inbox, pressing, status, live, cut, closed, subscribed,
                   retainedVars, counters, pressVars>>

Ping ==
    /\ pc = "send" /\ seen = last
    /\ wire' = Sent(conn, <<[kind |-> "ping"]>>)
    /\ pong' = FALSE
    /\ pc' = "ping"
    /\ UNCHANGED <<conn, connected, cancelled, seen, last, inbox, pressing, status, live, cut, closed, subscribed,
                   retainedVars, counters, pressVars>>

Pong ==
    /\ pc = "ping" /\ pong
    /\ pc' = "wait" /\ pong' = FALSE
    /\ UNCHANGED <<conn, connected, cancelled, seen, last, inbox, pressing, status, brokerVars, counters, pressVars>>

(* The broker works and its answer is late. *)
PingTimesOut ==
    /\ pc = "ping" /\ ~pong /\ Working(conn)
    /\ Fault
    /\ EndSession

NextTurn ==
    /\ pc = "wait"
    /\ pc' = "read"
    /\ UNCHANGED <<conn, connected, cancelled, seen, last, pong, inbox, pressing, status, brokerVars, counters, pressVars>>

Leave ==
    /\ pc = "wait" /\ cancelled
    /\ Goodbye /\ UNCHANGED faults

SlipIsPress(message) == TRUE
IsPress(message) == ~message.retain

(* pressing.TryLock. *)
Command ==
    /\ pc = "wait" /\ inbox # <<>>
    /\ inbox' = Tail(inbox)
    /\ LET begins == IsPress(Head(inbox)) /\ pressing = 0
       IN  /\ pressing' = IF begins THEN Head(inbox).press ELSE pressing
           /\ owed' = (owed /\ ~begins)
    /\ UNCHANGED <<pc, conn, connected, cancelled, seen, last, pong, status, brokerVars, counters, heard>>

RestartEnds ==
    /\ pressing # 0
    /\ pressing' = 0
    /\ UNCHANGED <<pc, conn, connected, cancelled, seen, last, pong, inbox, status, brokerVars, counters, pressVars>>

-----------------------------------------------------------------------------
(* Run, and what starts and stops it. *)

Retry ==
    /\ pc = "backoff"
    /\ pc' = IF cancelled THEN "off" ELSE "dial"
    /\ UNCHANGED <<conn, connected, cancelled, seen, last, pong, inbox, pressing, status, brokerVars, counters, pressVars>>

Start ==
    /\ pc = "off" /\ starts < MaxStarts
    /\ starts' = starts + 1
    /\ pc' = "dial"
    /\ connected' = FALSE /\ cancelled' = FALSE
    /\ UNCHANGED <<conn, seen, last, pong, inbox, pressing, status, brokerVars, conns, tests, presses, faults, pressVars>>

Cancel ==
    /\ pc # "off" /\ ~cancelled
    /\ cancelled' = TRUE
    /\ UNCHANGED <<pc, conn, connected, seen, last, pong, inbox, pressing, status, brokerVars, counters, pressVars>>

(* homeassistant.Test: its configuration has no button. *)
Test ==
    /\ tests < MaxTests /\ tests' = tests + 1
    /\ \E c \in Conns :
          /\ Accept(c)
          /\ wire' = [wire EXCEPT ![c] = <<[kind |-> "button", value |-> FALSE],
                                           [kind |-> "online", value |-> TRUE], [kind |-> "bye"]>>]
          /\ closed' = closed \cup {c}
    /\ UNCHANGED <<clientVars, status, subscribed, shown, button, kept, starts, presses, faults, pressVars>>

-----------------------------------------------------------------------------
(* The broker, the network, the line. *)

SlipRoom == Len(inbox) < 1
Room == Len(inbox) < InboxSize  \* select on c.inbox with a default case

(* Client.listen takes a message, or drops it when the inbox is full. *)
Delivered(message) == IF Room THEN Append(inbox, message) ELSE inbox

Listening(c) == c = conn /\ c \notin closed

Receive(c) ==
    /\ Working(c) /\ wire[c] # <<>>
    /\ LET packet == Head(wire[c]) IN
          /\ wire' = [wire EXCEPT ![c] = Tail(@)]
          /\ live' = IF packet.kind = "bye" THEN live \ {c} ELSE live
          /\ subscribed' = IF packet.kind = "subscribe" THEN subscribed \cup {c} ELSE subscribed
          /\ pong' = (pong \/ (packet.kind = "ping" /\ Listening(c)))
          /\ available' = IF packet.kind = "online" THEN packet.value ELSE available
          /\ button' = IF packet.kind = "button" THEN packet.value ELSE button
          /\ shown' = IF packet.kind = "state" THEN packet.value ELSE shown
          /\ inbox' = IF packet.kind = "subscribe" /\ kept # 0 /\ Listening(c)
                      THEN Delivered([press |-> kept, retain |-> TRUE]) ELSE inbox
    /\ UNCHANGED <<pc, conn, connected, cancelled, seen, last, pressing, status, cut, closed, kept, counters, pressVars>>

(* The broker loses a connection that said no goodbye: the will. *)
Will(c) ==
    /\ c \in live
    /\ c \in cut \/ (c \in closed /\ wire[c] = <<>>)
    /\ live' = live \ {c} /\ cut' = cut \ {c}
    /\ available' = FALSE
    /\ UNCHANGED <<clientVars, status, wire, closed, subscribed, shown, button, kept, counters, pressVars>>

Cut(c) ==
    /\ c \in live /\ c \notin cut
    /\ Fault
    /\ cut' = cut \cup {c}
    /\ wire' = [wire EXCEPT ![c] = <<>>]
    /\ UNCHANGED <<clientVars, status, live, closed, subscribed, retainedVars, conns, starts, tests, presses, pressVars>>

(* Home Assistant publishes without retaining (Discovery, retain: false). *)
Press ==
    /\ presses < MaxPresses /\ presses' = presses + 1
    /\ LET here == Working(conn) /\ conn \in subscribed /\ Listening(conn)
       IN  /\ heard' = IF here THEN heard \cup {presses + 1} ELSE heard
           /\ inbox' = IF here THEN Delivered([press |-> presses + 1, retain |-> FALSE]) ELSE inbox
           /\ owed' = (owed \/ (here /\ pressing = 0))
    /\ UNCHANGED <<pc, conn, connected, cancelled, seen, last, pong, pressing, status, wire, live, cut, closed,
                   subscribed, retainedVars, conns, starts, tests, faults>>

LineChanges ==
    /\ status < MaxStatus
    /\ status' = status + 1
    /\ UNCHANGED <<clientVars, brokerVars, counters, pressVars>>

-----------------------------------------------------------------------------

Init ==
    /\ pc = "off" /\ conn = 1 /\ connected = FALSE /\ cancelled = FALSE
    /\ seen = 1 /\ last = Unsent /\ pong = FALSE /\ inbox = <<>> /\ pressing = 0
    /\ status = 1
    /\ wire = [c \in Conns |-> <<>>]
    /\ live = {} /\ cut = {} /\ closed = {} /\ subscribed = {}
    /\ shown = Unsent /\ available = FALSE /\ button = FALSE /\ kept \in {0, Old}
    /\ conns = 0 /\ starts = 0 /\ tests = 0 /\ presses = 0 /\ faults = 0
    /\ heard = {} /\ owed = FALSE

Client ==
    \/ Dial \/ DialFails \/ Hello \/ Broken \/ Read \/ ReadFails \/ Publish \/ Ping \/ Pong
    \/ PingTimesOut \/ NextTurn \/ Leave \/ Command \/ Retry

Broker == \E c \in Conns : Receive(c) \/ Will(c)

Next ==
    \/ Client \/ Broker
    \/ RestartEnds \/ Start \/ Cancel \/ Test \/ LineChanges \/ Press
    \/ \E c \in Conns : Cut(c)

(* The calls of the publisher end by a timeout.  A dead connection is told *)
(* by the retransmissions of TCP, and done stays closed until a turn of    *)
(* the session selects it.  The broker goes on.                            *)
Fairness ==
    /\ WF_vars(Dial \/ DialFails \/ Hello \/ Read \/ Publish \/ Ping \/ Pong \/ NextTurn \/ Retry)
    /\ SF_vars(Broken)
    /\ \A c \in Conns : WF_vars(Receive(c) \/ Will(c))

Spec == Init /\ [][Next]_vars
FairSpec == Spec /\ Fairness

-----------------------------------------------------------------------------
(* Properties. *)

(* Types; a publisher that works has a connection of its own. *)
TypeOK ==
    /\ pc \in {"off", "dial", "hello", "read", "send", "ping", "wait", "backoff"}
    /\ conn \in Conns /\ {connected, cancelled, pong, available, button, owed} \subseteq BOOLEAN
    /\ seen \in Statuses /\ last \in Statuses \cup {Unsent} /\ shown \in Statuses \cup {Unsent}
    /\ Len(inbox) <= InboxSize
    /\ live \subseteq 1 .. conns /\ subscribed \subseteq 1 .. conns /\ {kept, pressing} \subseteq (0 .. presses) \cup {Old}
    /\ pc \in {"read", "send", "ping", "wait"} => conn \notin closed

(* A restart begins only for a press published to the very session that   *)
(* heard it: never for one that the broker kept, however often the         *)
(* publisher comes back (homeassistant.go:12-14).                          *)
OnlyFreshPresses == pressing # 0 => pressing \in heard

(* A press that arrives while no restart of its session is under way is    *)
(* not lost: until one begins or the session ends there is one to take in  *)
(* the inbox, even when it was full.                                       *)
NoPressIsLost == owed => \E i \in DOMAIN inbox : ~inbox[i].retain

(* Once everything sent is received, a session that works is shown as      *)
(* available with its button, and the state on show is the one read last,  *)
(* whatever was cut, closed late or tested before.                         *)
ShownIsTrue ==
    pc = "wait" /\ Working(conn) /\ wire[conn] = <<>> =>
        available /\ button /\ (last # Unsent => shown = last)

(* A publisher that is not stopped ends up available, after any cut, slow  *)
(* answer or test: the session before never has the last word.             *)
ComesBack == <>[](cancelled \/ pc = "off" \/ available)

(* "Un message de derniere volonte rend les capteurs indisponibles si Mire *)
(* s'arrete" (homeassistant.go:10-11): not after a session that ended by   *)
(* an error, whose Close takes the will back.                              *)
OfflineOnceStopped == pc = "off" /\ live = {} => ~available
=============================================================================
