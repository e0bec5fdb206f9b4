---------------------------- MODULE Interface -----------------------------
(***************************************************************************)
(* Who may use the pages: the first password chosen in the assistant, the  *)
(* logins, the changes of password from the settings or the command line,  *)
(* and the demonstration that the first page offers until a password is    *)
(* chosen.  Requests are handled at once, a statement or a locked section  *)
(* at a time.                                                              *)
(*                                                                         *)
(*   setup   asks -> choosing -> openFirst -> stopping [-> closing]        *)
(*   login   checkLogin -> openLogin                                       *)
(*   change  checkChange -> changing -> revoking -> openChange             *)
(*   start   starting;   quit   stopping [-> closing]                      *)
(*                                                                         *)
(* A password is told by the rank of its hash, a session by the rank of    *)
(* its token.  The limiter of logins only refuses requests and is left     *)
(* out.                                                                    *)
(*                                                                         *)
(* A definition whose name starts with Slip is a plausible mistake in the  *)
(* definition that follows it; no action uses it.                          *)
(***************************************************************************)
EXTENDS Integers

CONSTANTS
    Browsers,     \* each makes one request at a time
    Cli,          \* the command "mot-de-passe"
    MaxRequests,  \* bound on the requests
    MaxFaults     \* bound on the statements that fail and the deaths of the process

Procs == Browsers \cup {Cli}

ASSUME InterfaceAssumption ==
    Cli \notin Browsers /\ MaxRequests \in Nat /\ MaxFaults \in Nat

VARIABLES
    hash,      \* the password in force, 0 before the first
    passwords, \* passwords chosen so far
    sessions,  \* table of sessions
    tokens,    \* sessions opened so far
    cookie,    \* token of each browser
    inDemo,    \* its cookie that asks for the demonstration
    pc,        \* where each request is
    mine,      \* the password each request has checked or chosen
    served,    \* demoState.handler and close: the demonstration shown, or 0
    work,      \* demoState.work: the latest preparation, or 0
    demos,     \* the preparations, and what became of them
    closing,   \* the demonstration each request is closing
    requests, faults,
    revokes,   \* history: times all sessions were closed
    closed,    \* history: latest password whose change has closed them
    seenAt,    \* history: the value of revokes when mine was checked
    chosen,    \* history: times the assistant chose the password
    straddled  \* history: a stop came during a preparation

accessVars == <<hash, passwords, sessions, tokens, cookie, mine, inDemo>>
demoVars == <<served, work, demos, closing>>
historyVars == <<revokes, closed, seenAt, chosen>>
vars == <<accessVars, pc, demoVars, requests, faults, historyVars, straddled>>

Goto(p, s) == pc' = [pc EXCEPT ![p] = s]
Request(p) == pc[p] = "idle" /\ requests < MaxRequests /\ requests' = requests + 1
Fault == faults < MaxFaults /\ faults' = faults + 1

(* Sessions.Valid; an expired session is taken out of the table (Expire). *)
LoggedIn(b) == \E s \in sessions : s.token = cookie[b]

-----------------------------------------------------------------------------
(* The first password. *)

(* handleSetupPassword, up to the read of auth.HasPassword. *)
Setup(b) ==
    /\ Request(b) /\ hash = 0
    /\ Goto(b, "choosing")
    /\ UNCHANGED <<accessVars, demoVars, faults, historyVars, straddled>>

MayAdd == hash = 0  \* ON CONFLICT DO NOTHING

(* SetInitialPassword; refused when another request has chosen meanwhile. *)
Choose(b) ==
    /\ pc[b] = "choosing"
    /\ \/ /\ MayAdd
          /\ passwords' = passwords + 1 /\ hash' = passwords + 1
          /\ mine' = [mine EXCEPT ![b] = passwords + 1]
          /\ seenAt' = [seenAt EXCEPT ![b] = revokes]
          /\ chosen' = chosen + 1
          /\ Goto(b, "openFirst")
       \/ /\ ~MayAdd
          /\ Goto(b, "idle")
          /\ UNCHANGED <<passwords, hash, mine, seenAt, chosen>>
    /\ UNCHANGED <<sessions, tokens, cookie, inDemo, demoVars, requests, faults, revokes, closed, straddled>>

-----------------------------------------------------------------------------
(* Sessions. *)

Login(b) ==
    /\ Request(b)
    /\ Goto(b, "checkLogin")
    /\ UNCHANGED <<accessVars, demoVars, faults, historyVars, straddled>>

(* handlePassword, behind requireAuth. *)
Change(b) ==
    /\ Request(b) /\ LoggedIn(b)
    /\ Goto(b, "checkChange")
    /\ UNCHANGED <<accessVars, demoVars, faults, historyVars, straddled>>

(* auth.Check: one read of the hash.  A wrong password ends the request. *)
Check(b) ==
    /\ pc[b] \in {"checkLogin", "checkChange"}
    /\ \/ /\ hash # 0
          /\ mine' = [mine EXCEPT ![b] = hash]
          /\ seenAt' = [seenAt EXCEPT ![b] = revokes]
          /\ Goto(b, IF pc[b] = "checkLogin" THEN "openLogin" ELSE "changing")
       \/ Goto(b, "idle") /\ UNCHANGED <<mine, seenAt>>
    /\ UNCHANGED <<hash, passwords, sessions, tokens, cookie, inDemo, demoVars, requests, faults,
                   revokes, closed, chosen, straddled>>

(* The command changes the password of whoever has the machine. *)
Command ==
    /\ Request(Cli)
    /\ Goto(Cli, "changing")
    /\ UNCHANGED <<accessVars, demoVars, faults, historyVars, straddled>>

(* SetPassword: the hash is replaced, then all sessions are closed. *)
Replace(p) ==
    /\ pc[p] = "changing"
    /\ passwords' = passwords + 1 /\ hash' = passwords + 1
    /\ mine' = [mine EXCEPT ![p] = passwords + 1]
    /\ seenAt' = [seenAt EXCEPT ![p] = revokes]
    /\ Goto(p, "revoking")
    /\ UNCHANGED <<sessions, tokens, cookie, inDemo, demoVars, requests, faults, revokes, closed,
                   chosen, straddled>>

SlipRemaining(p) == {s \in sessions : p = Cli \/ s.token # cookie[p]}  \* Revoke for RevokeAll
Remaining(p) == {}

RevokeAll(p) ==
    /\ pc[p] = "revoking"
    /\ sessions' = Remaining(p)
    /\ revokes' = revokes + 1
    /\ closed' = IF mine[p] > closed THEN mine[p] ELSE closed
    /\ Goto(p, IF p = Cli THEN "idle" ELSE "openChange")
    /\ UNCHANGED <<hash, passwords, tokens, cookie, mine, inDemo, demoVars, requests, faults,
                   seenAt, chosen, straddled>>

NewToken == tokens + 1

(* openSession: whether the password it follows is still in force is not   *)
(* looked at again.                                                        *)
Open(b) ==
    /\ pc[b] \in {"openFirst", "openLogin", "openChange"}
    /\ tokens' = NewToken
    /\ sessions' = sessions \cup
           {[token |-> NewToken, of |-> mine[b], late |-> seenAt[b] < revokes]}
    /\ cookie' = [cookie EXCEPT ![b] = NewToken]
    /\ Goto(b, IF pc[b] = "openFirst" THEN "stopping" ELSE "idle")
    /\ UNCHANGED <<hash, passwords, mine, inDemo, demoVars, requests, faults, historyVars, straddled>>

(* handleLogout: the row may stay when the statement fails. *)
Logout(b) ==
    /\ Request(b)
    /\ cookie' = [cookie EXCEPT ![b] = 0]
    /\ \/ /\ sessions' = {s \in sessions : s.token # cookie[b]}
          /\ UNCHANGED faults
       \/ Fault /\ UNCHANGED sessions
    /\ UNCHANGED <<hash, passwords, tokens, mine, inDemo, pc, demoVars, historyVars, straddled>>

(* A session reaches its end; its row is removed by Prune, once a day. *)
Expire ==
    /\ \E s \in sessions : sessions' = sessions \ {s}
    /\ UNCHANGED <<hash, passwords, tokens, cookie, mine, inDemo, pc, demoVars, requests, faults,
                   historyVars, straddled>>

(* A statement fails and the request ends with an error. *)
StatementFails(p) ==
    /\ pc[p] \in {"choosing", "checkLogin", "checkChange", "changing", "revoking",
                  "openFirst", "openLogin", "openChange"}
    /\ Fault
    /\ Goto(p, "idle")
    /\ UNCHANGED <<accessVars, demoVars, requests, historyVars, straddled>>

-----------------------------------------------------------------------------
(* The demonstration. *)

InState(S) == {d \in DOMAIN demos : demos[d] \in S}
Preparing == InState({"preparing", "ready"})

(* handleDemoStart: what it asks of the base, then what it does under the  *)
(* lock of the demonstration.                                              *)
DemoStart(b) ==
    /\ Request(b) /\ hash = 0
    /\ Goto(b, "starting")
    /\ inDemo' = [inDemo EXCEPT ![b] = TRUE]
    /\ UNCHANGED <<hash, passwords, sessions, tokens, cookie, mine, demoVars, faults,
                   historyVars, straddled>>

SlipMustPrepare == served = 0
MustPrepare == served = 0 /\ (work = 0 \/ work \in InState({"failed"}))

Prepare(b) ==
    /\ pc[b] = "starting"
    /\ \/ /\ MustPrepare
          /\ \E d \in DOMAIN demos :
              /\ demos[d] = "none" /\ \A e \in DOMAIN demos : e < d => demos[e] # "none"
              /\ demos' = [demos EXCEPT ![d] = "preparing"]
              /\ work' = d
       \/ ~MustPrepare /\ UNCHANGED <<demos, work>>
    /\ Goto(b, "idle")
    /\ UNCHANGED <<accessVars, served, closing, requests, faults, historyVars, straddled>>

(* StartDemo: a base, its history and its tasks, within three minutes. *)
PrepareEnds(d) ==
    /\ demos[d] = "preparing"
    /\ \/ demos' = [demos EXCEPT ![d] = "ready"] /\ UNCHANGED faults
       \/ Fault /\ demos' = [demos EXCEPT ![d] = "failed"]
    /\ UNCHANGED <<accessVars, pc, served, work, closing, requests, historyVars, straddled>>

(* The preparation puts its demonstration in service. *)
Install(d) ==
    /\ demos[d] = "ready"
    /\ demos' = [demos EXCEPT ![d] = "open"]
    /\ served' = d
    /\ UNCHANGED <<accessVars, pc, work, closing, requests, faults, historyVars, straddled>>

(* handleDemoQuit *)
Quit(b) ==
    /\ Request(b)
    /\ Goto(b, "stopping")
    /\ UNCHANGED <<accessVars, demoVars, faults, historyVars, straddled>>

(* stopDemo: what is shown is taken under the lock, and closed outside it. *)
Taken == served

Stop(b) ==
    /\ pc[b] = "stopping"
    /\ closing' = [closing EXCEPT ![b] = Taken]
    /\ served' = 0 /\ work' = 0
    /\ Goto(b, IF Taken = 0 THEN "idle" ELSE "closing")
    /\ inDemo' = [inDemo EXCEPT ![b] = FALSE]
    /\ straddled' = (straddled \/ Preparing # {})
    /\ UNCHANGED <<hash, passwords, sessions, tokens, cookie, mine, demos, requests, faults, historyVars>>

(* demoInstance.Close: its tasks end, its base is removed. *)
Close(b) ==
    /\ pc[b] = "closing"
    /\ demos' = [demos EXCEPT ![closing[b]] = "closed"]
    /\ closing' = [closing EXCEPT ![b] = 0]
    /\ Goto(b, "idle")
    /\ UNCHANGED <<accessVars, served, work, requests, faults, historyVars, straddled>>

-----------------------------------------------------------------------------
(* The process stops or dies, with the demonstrations and the requests; it *)
(* starts again on the base, and browsers keep their cookies.              *)
Crash ==
    /\ Fault
    /\ pc' = [p \in Procs |-> "idle"]
    /\ mine' = [p \in Procs |-> 0] /\ seenAt' = [p \in Procs |-> 0]
    /\ served' = 0 /\ work' = 0
    /\ closing' = [p \in Procs |-> 0]
    /\ demos' = [d \in DOMAIN demos |-> IF demos[d] = "none" THEN "none" ELSE "closed"]
    /\ UNCHANGED <<hash, passwords, sessions, tokens, cookie, inDemo, requests, revokes,
                   closed, chosen, straddled>>

Init ==
    /\ hash = 0 /\ passwords = 0 /\ sessions = {} /\ tokens = 0
    /\ cookie = [b \in Browsers |-> 0] /\ inDemo = [b \in Browsers |-> FALSE]
    /\ pc = [p \in Procs |-> "idle"]
    /\ mine = [p \in Procs |-> 0] /\ seenAt = [p \in Procs |-> 0]
    /\ served = 0 /\ work = 0
    /\ demos = [d \in 1..MaxRequests |-> "none"]
    /\ closing = [p \in Procs |-> 0]
    /\ requests = 0 /\ faults = 0
    /\ revokes = 0 /\ closed = 0 /\ chosen = 0 /\ straddled = FALSE

Next ==
    \/ \E b \in Browsers :
        \/ Setup(b) \/ Choose(b)
        \/ Login(b) \/ Change(b) \/ Check(b) \/ Open(b) \/ Logout(b)
        \/ DemoStart(b) \/ Prepare(b) \/ Quit(b) \/ Stop(b) \/ Close(b)
    \/ \E p \in Procs : Replace(p) \/ RevokeAll(p) \/ StatementFails(p)
    \/ \E d \in DOMAIN demos : PrepareEnds(d) \/ Install(d)
    \/ Command \/ Expire \/ Crash

Spec == Init /\ [][Next]_vars

-----------------------------------------------------------------------------
(* What a browser that asks for a page is answered: the page, or another   *)
(* address to ask.  "wait" is the page of a preparation.                   *)

Routes == {"page", "login", "setup", "wait"}

SlipAlreadyIn(b) == cookie[b] # 0  \* a cookie is enough
AlreadyIn(b) == LoggedIn(b)

PageAnswer(b) == IF LoggedIn(b) THEN "shown" ELSE IF hash = 0 THEN "setup" ELSE "login"
LoginAnswer(b) == IF hash = 0 THEN "setup" ELSE IF AlreadyIn(b) THEN "page" ELSE "shown"
SetupAnswer(b) == IF hash = 0 THEN "shown" ELSE IF LoggedIn(b) THEN "page" ELSE "login"
WaitAnswers == {"shown", "page", "setup"}  \* under way or failed, ready, unknown

(* withDemo: the demonstration answers in the place of the instance, but   *)
(* for the addresses of the demonstration itself.                          *)
Answers(b, route) ==
    CASE route = "wait" -> WaitAnswers
      [] route # "wait" /\ inDemo[b] /\ served # 0 ->
             {IF route = "page" THEN "shown" ELSE "page"}
      [] OTHER -> {[page |-> PageAnswer(b), login |-> LoginAnswer(b),
                    setup |-> SetupAnswer(b)][route]}

Follow(b, routes) == UNION {Answers(b, r) : r \in routes \ {"shown"}}

-----------------------------------------------------------------------------
(* What is promised. *)

(* Every variable keeps its type; a request closes a demonstration only    *)
(* while it is at that step.                                               *)
TypeOK ==
    /\ passwords \in Nat /\ hash \in {0, passwords} /\ tokens \in Nat
    /\ sessions \subseteq [token : 1..tokens, of : 1..passwords, late : BOOLEAN]
    /\ \A s, t \in sessions : s.token = t.token => s = t
    /\ cookie \in [Browsers -> 0..tokens] /\ inDemo \in [Browsers -> BOOLEAN]
    /\ pc \in [Procs -> {"idle", "choosing", "openFirst", "checkLogin", "openLogin",
                         "checkChange", "changing", "revoking", "openChange",
                         "starting", "stopping", "closing"}]
    /\ mine \in [Procs -> 0..passwords] /\ seenAt \in [Procs -> 0..revokes]
    /\ served \in {0} \cup DOMAIN demos /\ work \in {0} \cup DOMAIN demos
    /\ demos \in [1..MaxRequests ->
                     {"none", "preparing", "ready", "failed", "open", "closed"}]
    /\ closing \in [Procs -> {0} \cup DOMAIN demos]
    /\ \A p \in Procs : pc[p] = "closing" <=> closing[p] # 0
    /\ requests \in 0..MaxRequests /\ faults \in 0..MaxFaults
    /\ revokes \in Nat /\ closed \in 0..passwords /\ chosen \in Nat
    /\ straddled \in BOOLEAN

(* A change of password closes the sessions of before, the ones opened     *)
(* while it goes on included: a session of a password that was replaced    *)
(* outlives the change only when its own password was checked before the   *)
(* sessions were closed and its row written after.                         *)
ChangeClosesSessions == \A s \in sessions : s.of < closed => s.late

(* The first password is chosen once, by whichever of the assistants was   *)
(* first, and never replaces one ("Une fois le mot de passe choisi, cette  *)
(* etape est fermee", setup.go:122).                                       *)
ChosenOnce == chosen <= 1

(* The password in force is the only one that lets in, but for such rows.  *)
PasswordStands == ChosenOnce /\ ChangeClosesSessions

(* The demonstration that is shown runs; and one that runs is shown, or    *)
(* being put in service, or being closed: never left with nobody to stop   *)
(* it, unless a stop came while one was being prepared.                    *)
DemoIsKept ==
    /\ served # 0 => demos[served] = "open"
    /\ straddled \/ \A d \in DOMAIN demos :
           demos[d] = "open" => d = served \/ \E p \in Procs : closing[p] = d

(* Whatever page is asked for, with whatever cookies are left, redirects   *)
(* end: the pages that send to each other (the assistant, the login, the   *)
(* demonstration) never do so in a circle.                                 *)
RedirectsEnd ==
    \A b \in Browsers : Follow(b, Follow(b, Follow(b, Follow(b, Routes)))) = {}

(* "Choisir le mot de passe de l'instance l'arrete" (demo.go:18).  Once    *)
(* the assistant has chosen it, every request and preparation over and     *)
(* nothing failed, no demonstration runs.                                  *)
DemoEndsAtInstallation ==
    chosen # 0 /\ faults = 0 /\ Preparing = {} /\ (\A p \in Procs : pc[p] = "idle")
        => \A d \in DOMAIN demos : demos[d] # "open"
==========================================================================
