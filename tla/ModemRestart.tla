--------------------------- MODULE ModemRestart ---------------------------
(***************************************************************************)
(* The restart of the modem: service.RestartModem, which any number of     *)
(* pages and of presses in Home Assistant may call at once, over the       *)
(* driver of internal/modem/cga4233.go, which the collection loop shares   *)
(* with them.  Two locks are taken in order:                               *)
(*                                                                         *)
(*   restartMu  one request at a time, from the look at the guard to the   *)
(*              entry in the journal;                                      *)
(*   mu         of the driver, one call at a time, for the modem grants    *)
(*              one session only.                                          *)
(*                                                                         *)
(* A call of the driver is login, request and, when the modem says that    *)
(* the session is over, one more login and one more request:               *)
(*                                                                         *)
(*   call -> login -> send -> [taken] ->                                   *)
(*                     \-> relogin -> resend -> [taken] ->                 *)
(*                                                                         *)
(* "taken" is a request to restart that the modem has executed, its answer *)
(* still on the way.  Until then, and while it waits for mu, the context   *)
(* of the call may end: it lasts 45 seconds, waiting included              *)
(* (restartTimeout, modemTimeout), the calls before it may hold mu longer, *)
(* and the one of Home Assistant ends with each save of the settings.      *)
(*                                                                         *)
(* A definition whose name starts with Slip is a plausible mistake in the  *)
(* definition that follows it; no action uses it.                          *)
(***************************************************************************)
EXTENDS Integers

CONSTANTS
    Callers,      \* pages and presses that ask for a restart
    Collector,    \* the collection loop, which reads with the same driver
    None,         \* nobody
    RestartGuard, \* how long a second request is refused, in ticks
    MaxRequests,  \* bound on the requests
    MaxTime,      \* bound on the clock
    MaxRestartFaults \* bound on the calls of the journal that fail and the
                  \* deaths of the process, together

Procs == Callers \cup {Collector}

ASSUME ModemRestartAssumption ==
    /\ Collector \notin Callers /\ None \notin Procs
    /\ RestartGuard \in Nat
    /\ MaxRequests \in Nat /\ MaxTime \in Nat
    /\ MaxRestartFaults \in Nat

VARIABLES
    now,       \* the clock
    stage,     \* where each call is
    over,      \* whose context has ended
    outcome,   \* of the latest request of each caller
    restartMu, \* who holds it
    mu,        \* who holds the driver
    token,     \* of the driver: none, valid, or of a session that is over
    asked,     \* date of the latest request of the journal (-1: none)
    requests, restartFaults, crashes,
    tries,     \* history: restarts the modem took from each request
    takes,     \* history: restarts it took in all
    lastTake,  \* history: date of the latest
    untold     \* history: its request died, or its entry could not be written

lockVars == <<restartMu, mu>>
boundVars == <<requests, restartFaults, crashes>>
takeVars == <<tries, takes, lastTake>>
restartVars == <<now, stage, over, outcome, lockVars, token, asked, boundVars, takeVars, untold>>

-----------------------------------------------------------------------------
(* Outcome.Noted: the request goes to the journal.  One value stands for   *)
(* "demande", "sans-reponse" and "refuse", which differ in the words of    *)
(* the page only.                                                          *)
Noted == {"notee"}

Inside == {"login", "send", "taken", "relogin", "resend"}
At(p, s) == stage' = [stage EXCEPT ![p] = s]

MayFail == restartFaults + crashes < MaxRestartFaults
RestartFault == MayFail /\ restartFaults' = restartFaults + 1

-----------------------------------------------------------------------------
(* service.RestartModem, around the driver. *)

(* A page, or a press, asks: a goroutine is started. *)
Ask(c) ==
    /\ stage[c] = "rest" /\ requests < MaxRequests
    /\ At(c, "asked")
    /\ over' = over \ {c}
    /\ outcome' = [outcome EXCEPT ![c] = "none"]
    /\ tries' = [tries EXCEPT ![c] = 0]
    /\ requests' = requests + 1
    /\ UNCHANGED <<now, lockVars, token, asked, restartFaults, crashes, takes, lastTake, untold>>

EnterRequest(c) ==
    /\ stage[c] = "asked" /\ restartMu = None
    /\ restartMu' = c
    /\ At(c, "guard")
    /\ UNCHANGED <<now, over, outcome, mu, token, asked, boundVars, takeVars, untold>>

(* The request ends; restartMu is released. *)
SlipReturn(c, out) ==  \* the lock kept when the modem is out of reach
    /\ At(c, "rest")
    /\ outcome' = [outcome EXCEPT ![c] = out]
    /\ restartMu' = IF out = "erreur" THEN restartMu ELSE None
Return(c, out) ==
    /\ At(c, "rest")
    /\ outcome' = [outcome EXCEPT ![c] = out]
    /\ restartMu' = None

TooSoon == asked # -1 /\ now - asked < RestartGuard

Refused(c) ==
    /\ stage[c] = "guard" /\ TooSoon
    /\ Return(c, "trop-tot")
    /\ UNCHANGED <<now, over, mu, token, asked, boundVars, takeVars, untold>>

(* A journal that cannot be read refuses nothing; nor can it be under a    *)
(* context that has ended.                                                 *)
Granted(c) ==
    /\ stage[c] = "guard"
    /\ \/ (~TooSoon \/ c \in over) /\ UNCHANGED restartFaults
       \/ RestartFault
    /\ At(c, "call")
    /\ UNCHANGED <<now, over, outcome, lockVars, token, asked, requests, crashes,
                   takeVars, untold>>

(* store.SaveEvents, under a context that does not end. *)
Journal(c) ==
    /\ stage[c] = "journal"
    /\ asked' = now
    /\ Return(c, outcome[c])
    /\ UNCHANGED <<now, over, mu, token, boundVars, takeVars, untold>>

JournalFails(c) ==
    /\ stage[c] = "journal" /\ RestartFault
    /\ Return(c, outcome[c])
    /\ untold' = (untold \/ tries[c] > 0)
    /\ UNCHANGED <<now, over, mu, token, asked, requests, crashes, takeVars>>

-----------------------------------------------------------------------------
(* The driver. *)

(* Collector.collectOnce *)
Poll ==
    /\ stage[Collector] = "rest"
    /\ At(Collector, "call")
    /\ over' = over \ {Collector}
    /\ UNCHANGED <<now, outcome, lockVars, token, asked, boundVars, takeVars, untold>>

Enter(p) == mu = None /\ mu' = p

EnterDriver(p) ==
    /\ stage[p] = "call" /\ Enter(p)
    /\ At(p, IF token = "none" THEN "login" ELSE "send")
    /\ UNCHANGED <<now, over, outcome, restartMu, token, asked, boundVars, takeVars, untold>>

LoginOk(p) ==
    /\ stage[p] \in {"login", "relogin"} /\ p \notin over
    /\ token' = "valid"
    /\ At(p, IF stage[p] = "login" THEN "send" ELSE "resend")
    /\ UNCHANGED <<now, over, outcome, lockVars, asked, boundVars, takeVars, untold>>

(* The call returns and mu is released.  CGA4233.Restart leaves no session *)
(* behind, for it dies with the modem.                                     *)
LeaveRestart(c, out) ==
    /\ mu' = None /\ token' = "none"
    /\ IF out \in Noted
       THEN /\ At(c, "journal")
            /\ outcome' = [outcome EXCEPT ![c] = out]
            /\ UNCHANGED restartMu
       ELSE Return(c, out)

LeaveRead(t) == token' = t /\ mu' = None

(* The password is refused, the modem is silent or the context has ended. *)
RestartLoginFails(c) ==
    /\ stage[c] \in {"login", "relogin"}
    /\ LeaveRestart(c, "erreur")
    /\ UNCHANGED <<now, over, asked, boundVars, takeVars, untold>>

ReadLoginFails ==
    /\ stage[Collector] \in {"login", "relogin"}
    /\ LeaveRead("none") /\ At(Collector, "rest")
    /\ UNCHANGED <<now, over, outcome, restartMu, asked, boundVars, takeVars, untold>>

(* The modem says that the session is over: 401, 403, or "unauthorized". *)
SlipDenied(p) == stage[p] \in {"send", "taken"} /\ token = "over"  \* any failure retried
Denied(p) == stage[p] = "send" /\ token = "over"

LogInAgain(p) ==
    /\ Denied(p)
    /\ token' = "none"
    /\ At(p, "relogin")
    /\ UNCHANGED <<now, over, outcome, lockVars, asked, boundVars, takeVars, untold>>

(* The modem takes the request, and its sessions die with it. *)
Take(c) ==
    /\ stage[c] \in {"send", "resend"} /\ c \notin over /\ token = "valid"
    /\ At(c, "taken")
    /\ token' = "over"
    /\ tries' = [tries EXCEPT ![c] = @ + 1]
    /\ takes' = takes + 1 /\ lastTake' = now
    /\ untold' = FALSE
    /\ UNCHANGED <<now, over, outcome, lockVars, asked, boundVars>>

(* It answers 200, whatever the content, or answers otherwise or not at    *)
(* all: it is restarting.                                                  *)
Answer(c) ==
    /\ stage[c] = "taken"
    /\ \E out \in Noted : LeaveRestart(c, out)
    /\ UNCHANGED <<now, over, asked, boundVars, takeVars, untold>>

(* No answer came: noAnswer tells the end of the context from the silence  *)
(* of the modem.                                                           *)
SlipSilence(c) == "erreur"  \* a silence taken for a modem out of reach
Silence(c) == IF c \in over THEN "erreur" ELSE "notee"

NoAnswer(c) ==
    /\ stage[c] \in {"send", "resend", "taken"}
    /\ LeaveRestart(c, Silence(c))
    /\ untold' = (untold \/ (stage[c] = "taken" /\ c \in over))
    /\ UNCHANGED <<now, over, asked, boundVars, takeVars>>

(* It answers without restarting: no, 200 or anything else; to the second  *)
(* request, also that the session is over.                                 *)
Turned(c) ==
    /\ \/ stage[c] = "send" /\ token = "valid"
       \/ stage[c] = "resend"
    /\ \E out \in Noted : LeaveRestart(c, out)
    /\ UNCHANGED <<now, over, asked, boundVars, takeVars, untold>>

(* CGA4233.Snapshot; a second refusal drops the session. *)
ModemRead ==
    /\ stage[Collector] \in {"send", "resend"} /\ token = "valid" /\ Collector \notin over
    /\ LeaveRead(token) /\ At(Collector, "rest")
    /\ UNCHANGED <<now, over, outcome, restartMu, asked, boundVars, takeVars, untold>>

ModemReadFails ==
    /\ stage[Collector] \in {"send", "resend"}
    /\ LeaveRead(IF stage[Collector] = "send" THEN token ELSE "none")
    /\ At(Collector, "rest")
    /\ UNCHANGED <<now, over, outcome, restartMu, asked, boundVars, takeVars, untold>>

-----------------------------------------------------------------------------
(* The rest of the world. *)

(* The context of a call ends. *)
ContextEnds(p) ==
    /\ stage[p] \in {"asked", "guard", "call"} \cup Inside /\ p \notin over
    /\ over' = over \cup {p}
    /\ UNCHANGED <<now, stage, outcome, lockVars, token, asked, boundVars, takeVars, untold>>

(* The session times out, or somebody opens the interface of the modem. *)
SessionExpires ==
    /\ token = "valid"
    /\ token' = "over"
    /\ UNCHANGED <<now, stage, over, outcome, lockVars, asked, boundVars, takeVars, untold>>

(* The process dies and starts again: only the journal is left. *)
Crash ==
    /\ MayFail /\ crashes' = crashes + 1
    /\ stage' = [p \in Procs |-> "rest"] /\ over' = {}
    /\ outcome' = [c \in Callers |-> "none"]
    /\ restartMu' = None /\ mu' = None /\ token' = "none"
    /\ untold' = (untold \/ \E c \in Callers : stage[c] \in {"taken", "journal"} /\ tries[c] > 0)
    /\ UNCHANGED <<now, asked, requests, restartFaults, takeVars>>

Tick ==
    /\ now < MaxTime /\ now' = now + 1
    /\ UNCHANGED <<stage, over, outcome, lockVars, token, asked, boundVars, takeVars, untold>>

RestartInit ==
    /\ now = 0
    /\ stage = [p \in Procs |-> "rest"] /\ over = {}
    /\ outcome = [c \in Callers |-> "none"]
    /\ restartMu = None /\ mu = None /\ token = "none" /\ asked = -1
    /\ requests = 0 /\ restartFaults = 0 /\ crashes = 0
    /\ tries = [c \in Callers |-> 0] /\ takes = 0 /\ lastTake = -1 /\ untold = FALSE

(* The steps of a request that are its own, the two locks aside. *)
Steps(c) ==
    \/ Refused(c) \/ Granted(c) \/ Journal(c) \/ JournalFails(c)
    \/ RestartLoginFails(c) \/ Take(c) \/ Answer(c) \/ NoAnswer(c) \/ Turned(c)
    \/ LoginOk(c) \/ LogInAgain(c)

ReadSteps ==
    \/ ReadLoginFails \/ ModemRead \/ ModemReadFails
    \/ LoginOk(Collector) \/ LogInAgain(Collector)

RestartNext ==
    \/ \E c \in Callers : Ask(c) \/ EnterRequest(c) \/ Steps(c)
    \/ Poll \/ ReadSteps
    \/ \E p \in Procs : EnterDriver(p) \/ ContextEnds(p)
    \/ SessionExpires \/ Crash \/ Tick

RestartSpec == RestartInit /\ [][RestartNext]_restartVars

(* Every request of the network and of the database is bounded by a        *)
(* timeout, and a mutex of Go goes to the longest waiting after a          *)
(* millisecond, so nobody waits for it for ever while it is released.      *)
RestartFairness ==
    /\ WF_restartVars(ReadSteps)
    /\ \A c \in Callers : WF_restartVars(Steps(c)) /\ SF_restartVars(EnterRequest(c))
    /\ \A p \in Procs : SF_restartVars(EnterDriver(p))

FairRestartSpec == RestartSpec /\ RestartFairness

-----------------------------------------------------------------------------
(* What is promised. *)

(* Every variable keeps its type. *)
RestartTypeOK ==
    /\ now \in Nat
    /\ stage \in [Procs -> {"rest", "asked", "guard", "call", "journal"} \cup Inside]
    /\ over \subseteq Procs
    /\ outcome \in [Callers -> Noted \cup {"none", "trop-tot", "erreur"}]
    /\ restartMu \in Callers \cup {None} /\ mu \in Procs \cup {None}
    /\ token \in {"none", "valid", "over"}
    /\ asked \in Nat \cup {-1}
    /\ requests \in Nat /\ restartFaults \in Nat /\ crashes \in Nat
    /\ tries \in [Callers -> Nat] /\ takes \in Nat
    /\ lastTake \in Nat \cup {-1} /\ untold \in BOOLEAN

(* A request the modem may have executed is never sent again ("Une demande *)
(* restee sans reponse n'est jamais rejouee", cga4233_manage.go:340).      *)
NeverReplayed == \A c \in Callers : tries[c] <= 1

(* No request leaves the driver without a session: a call that ends one    *)
(* does it before or after the others, never under them.                   *)
SentWithASession == \A p \in Procs : stage[p] \in {"send", "resend"} => token # "none"

(* The guard, over the entry, the silence of the modem and requests made   *)
(* at once: as long as the journal answers, the modem takes no restart     *)
(* within RestartGuard of another whose request came to its end.           *)
TakesAreApart ==
    [][takes' # takes /\ takes > 0 /\ ~untold /\ restartFaults = 0
         => now - lastTake >= RestartGuard]_restartVars

(* The page says of a request that ended with "erreur" that the modem did  *)
(* not restart (webview/modem.go:48), and docs/fonctionnement.md:53 that   *)
(* one request is made in ten minutes.  With a journal that answers and a  *)
(* process that does not die, no restart is ever taken within RestartGuard *)
(* of another.                                                             *)
OneTakePerGuard ==
    [][takes' # takes /\ takes > 0 => now - lastTake >= RestartGuard]_restartVars

(* Every request gets its outcome: the two locks never block each other,   *)
(* whatever fails inside.                                                  *)
EveryRequestEnds == \A c \in Callers : stage[c] = "asked" ~> stage[c] = "rest"
==========================================================================
