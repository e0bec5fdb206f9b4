------------------------- MODULE Interface_proofs -------------------------
(***************************************************************************)
(* Theorems about the two parts of the pages: who may use them             *)
(* (Interface), for any number of browsers, requests and faults, and the   *)
(* settings a person meets there (Settings, at the end).                   *)
(*                                                                         *)
(* The password (First, Late): a request that still believes in a password *)
(* that a change has replaced read it before the sessions were closed.     *)
(*                                                                         *)
(* The demonstration (Closing, Alone): what a request closes is no longer  *)
(* shown and nobody else closes it; and as long as no stop came during a   *)
(* preparation, the latest preparation is the only one.                    *)
(*                                                                         *)
(* The redirects need no invariant: they end in every state.               *)
(***************************************************************************)
EXTENDS Interface, Settings, TLAPS

(* Nothing was chosen before there is a password. *)
First == chosen \in {0, 1} /\ (hash = 0 => chosen = 0)

(* A request that opens sessions, or closes them, knows for which password. *)
Knowing == {"revoking", "openFirst", "openLogin", "openChange"}

Late ==
    \A p \in Procs : pc[p] \in Knowing =>
        mine[p] # 0 /\ (mine[p] < closed => seenAt[p] < revokes)

Closing ==
    \A p \in Procs : closing[p] # 0 =>
        /\ demos[closing[p]] = "open" /\ closing[p] # served
        /\ \A q \in Procs \ {p} : closing[q] # closing[p]

Alone == straddled \/ \A d \in Preparing : d = work /\ served = 0

SessionsType == sessions \subseteq [token : 1..tokens, of : 1..passwords, late : BOOLEAN]

Access == First /\ Late /\ ChangeClosesSessions
DemoShown == Closing /\ Alone /\ DemoIsKept

IInv == TypeOK /\ Access /\ DemoShown

USE InterfaceAssumption DEF InterfaceAssumption, Procs

LEMMA InitIInv == Init => IInv
<1> SUFFICES ASSUME Init PROVE IInv
  OBVIOUS
<1>1. TypeOK
  <2> USE DEF Init
  <2>1. SessionsType /\ \A s, t \in sessions : s.token = t.token => s = t
    BY DEF SessionsType
  <2>2. /\ demos \in [1..MaxRequests ->
                          {"none", "preparing", "ready", "failed", "open", "closed"}]
        /\ closing \in [Procs -> {0} \cup DOMAIN demos]
        /\ \A p \in Procs : pc[p] = "closing" <=> closing[p] # 0
    OBVIOUS
  <2>3. /\ cookie \in [Browsers -> 0..tokens] /\ inDemo \in [Browsers -> BOOLEAN]
        /\ mine \in [Procs -> 0..passwords] /\ seenAt \in [Procs -> 0..revokes]
    OBVIOUS
  <2> HIDE DEF Procs
  <2>4. pc \in [Procs -> {"idle", "choosing", "openFirst", "checkLogin", "openLogin",
                         "checkChange", "changing", "revoking", "openChange",
                         "starting", "stopping", "closing"}]
    OBVIOUS
  <2>5. /\ served \in {0} \cup DOMAIN demos /\ work \in {0} \cup DOMAIN demos
        /\ straddled \in BOOLEAN
    OBVIOUS
  <2>6. /\ passwords \in Nat /\ hash \in {0, passwords} /\ tokens \in Nat
        /\ requests \in 0..MaxRequests /\ faults \in 0..MaxFaults
        /\ revokes \in Nat /\ closed \in 0..passwords /\ chosen \in Nat
    OBVIOUS
  <2> HIDE DEF Init
  <2> QED BY <2>1, <2>2, <2>3, <2>4, <2>5, <2>6 DEF TypeOK, SessionsType
<1>2. Access
  BY DEF Init, Access, First, Late, Knowing, ChangeClosesSessions
<1>3. DemoShown
  BY DEF Init, DemoShown, Closing, Alone, Preparing, InState, DemoIsKept
<1> QED BY <1>1, <1>2, <1>3 DEF IInv

-----------------------------------------------------------------------------
(* What a step that leaves the demonstration, or the access, alone keeps.  *)

LEMMA ShownKept ==
    ASSUME DemoShown, UNCHANGED <<demoVars, straddled>> PROVE DemoShown'
BY DEF DemoShown, Closing, Alone, Preparing, InState, DemoIsKept, demoVars

LEMMA AccessKept ==
    ASSUME TypeOK, Access,
           UNCHANGED <<hash, sessions, mine, historyVars>>,
           \A p \in Procs : pc'[p] \in Knowing => pc[p] \in Knowing
    PROVE  Access'
BY DEF Access, First, Late, ChangeClosesSessions, historyVars

-----------------------------------------------------------------------------
(* The passwords and the sessions. *)

LEMMA SessionsKept ==
    ASSUME TypeOK, sessions' \subseteq sessions, tokens' = tokens,
           passwords' \in {passwords, passwords + 1}
    PROVE  /\ SessionsType'
           /\ \A s, t \in sessions' : s.token = t.token => s = t
<1>1. 1..passwords \subseteq 1..passwords'
  BY DEF TypeOK
<1>2. [token : 1..tokens, of : 1..passwords, late : BOOLEAN]
          \subseteq [token : 1..tokens', of : 1..passwords', late : BOOLEAN]
  BY <1>1
<1> QED BY <1>2 DEF TypeOK, SessionsType

LEMMA AskStep ==
    ASSUME IInv, NEW b \in Browsers, Setup(b) \/ Login(b) \/ Change(b) \/ Quit(b)
    PROVE  IInv'
<1> USE DEF IInv, Setup, Login, Change, Quit, Request, Goto, accessVars, demoVars, historyVars
<1>1. /\ pc[b] = "idle" /\ requests < MaxRequests /\ requests' = requests + 1
      /\ \E s \in {"choosing", "checkLogin", "checkChange", "stopping"} :
            pc' = [pc EXCEPT ![b] = s]
      /\ UNCHANGED <<accessVars, demoVars, faults, historyVars, straddled>>
  OBVIOUS
<1> HIDE DEF Setup, Login, Change, Quit
<1>2. TypeOK'
  BY <1>1 DEF TypeOK
<1>3. Access'
  BY <1>1, AccessKept DEF TypeOK, Knowing
<1> QED BY <1>1, <1>2, <1>3, ShownKept

LEMMA CommandStep == ASSUME IInv, Command PROVE IInv'
<1> USE DEF IInv, Command, Request, Goto, accessVars, demoVars, historyVars
<1>1. TypeOK'
  BY DEF TypeOK
<1>2. Access'
  BY AccessKept DEF TypeOK, Knowing
<1> QED BY <1>1, <1>2, ShownKept

LEMMA ChooseStep == ASSUME IInv, NEW b \in Browsers, Choose(b) PROVE IInv'
<1> USE DEF IInv, Choose, MayAdd, Goto, demoVars
<1>1. CASE hash # 0
  <2>1. UNCHANGED <<hash, sessions, mine, historyVars>>
    BY <1>1 DEF historyVars
  <2>2. TypeOK'
    BY <1>1 DEF TypeOK
  <2>3. Access'
    BY <1>1, <2>1, AccessKept DEF TypeOK, Knowing
  <2> QED BY <2>2, <2>3, ShownKept
<1>2. CASE hash = 0
  <2>1. /\ passwords' = passwords + 1 /\ hash' = passwords + 1 /\ chosen' = chosen + 1
        /\ mine' = [mine EXCEPT ![b] = passwords + 1]
        /\ seenAt' = [seenAt EXCEPT ![b] = revokes]
        /\ pc' = [pc EXCEPT ![b] = "openFirst"]
    BY <1>2
  <2>2. TypeOK'
    BY <2>1, SessionsKept DEF TypeOK, SessionsType
  <2>3. First'
    BY <1>2, <2>1 DEF TypeOK, Access, First
  <2>4. Late'
    BY <2>1 DEF TypeOK, Access, Late, Knowing
  <2>5. ChangeClosesSessions'
    BY DEF Access, ChangeClosesSessions
  <2> QED BY <2>2, <2>3, <2>4, <2>5, ShownKept DEF Access
<1> QED BY <1>1, <1>2

LEMMA CheckStep == ASSUME IInv, NEW b \in Browsers, Check(b) PROVE IInv'
<1> USE DEF IInv, Check, Goto, demoVars
<1>1. /\ mine' \in {mine, [mine EXCEPT ![b] = hash]}
      /\ seenAt' \in {seenAt, [seenAt EXCEPT ![b] = revokes]}
      /\ \E s \in {"idle", "openLogin", "changing"} : pc' = [pc EXCEPT ![b] = s]
      /\ pc[b] # "closing"
  OBVIOUS
<1>2. TypeOK'
  <2> HIDE DEF Check
  <2>1. mine' \in [Procs -> 0..passwords] /\ seenAt' \in [Procs -> 0..revokes]
    <3>1. hash \in 0..passwords /\ revokes \in 0..revokes
      BY DEF TypeOK
    <3>2. mine \in [Procs -> 0..passwords] /\ seenAt \in [Procs -> 0..revokes]
      BY DEF TypeOK
    <3> QED BY <1>1, <3>1, <3>2
  <2>2. /\ pc' \in [Procs -> {"idle", "choosing", "openFirst", "checkLogin", "openLogin",
                             "checkChange", "changing", "revoking", "openChange",
                             "starting", "stopping", "closing"}]
        /\ \A p \in Procs : pc'[p] = "closing" <=> closing[p] # 0
    BY <1>1 DEF TypeOK
  <2> QED BY <2>1, <2>2 DEF TypeOK, Check
<1>3. First' /\ Late'
  BY DEF TypeOK, Access, First, Late, Knowing
<1>4. ChangeClosesSessions'
  BY DEF Access, ChangeClosesSessions
<1> QED BY <1>2, <1>3, <1>4, ShownKept DEF Access

LEMMA ReplaceStep == ASSUME IInv, NEW p \in Procs, Replace(p) PROVE IInv'
<1> USE DEF IInv, Replace, Goto, demoVars
<1>1. TypeOK'
  BY DEF TypeOK
<1>2. First' /\ Late'
  BY DEF TypeOK, Access, First, Late, Knowing
<1>3. ChangeClosesSessions'
  BY DEF Access, ChangeClosesSessions
<1> QED BY <1>1, <1>2, <1>3, ShownKept DEF Access

LEMMA RevokeStep == ASSUME IInv, NEW p \in Procs, RevokeAll(p) PROVE IInv'
<1> USE DEF IInv, RevokeAll, Remaining, Goto, demoVars
<1>1. TypeOK'
  BY DEF TypeOK
<1>2. First' /\ Late'
  BY DEF TypeOK, Access, First, Late, Knowing
<1>3. ChangeClosesSessions'
  BY DEF ChangeClosesSessions
<1> QED BY <1>1, <1>2, <1>3, ShownKept DEF Access

LEMMA OpenStep == ASSUME IInv, NEW b \in Browsers, Open(b) PROVE IInv'
<1> USE DEF IInv, Open, NewToken, Goto, demoVars, historyVars
<1> DEFINE new == [token |-> tokens + 1, of |-> mine[b], late |-> seenAt[b] < revokes]
<1>1. mine[b] \in 1..passwords /\ (mine[b] < closed => seenAt[b] < revokes)
  BY DEF TypeOK, Access, Late, Knowing
<1>2. sessions' = sessions \cup {new} /\ tokens' = tokens + 1
  OBVIOUS
<1>3. SessionsType'
  <2>1. [token : 1..tokens, of : 1..passwords, late : BOOLEAN]
            \subseteq [token : 1..(tokens + 1), of : 1..passwords, late : BOOLEAN]
    BY DEF TypeOK
  <2>2. new \in [token : 1..(tokens + 1), of : 1..passwords, late : BOOLEAN]
    BY <1>1 DEF TypeOK
  <2>3. sessions \subseteq [token : 1..tokens, of : 1..passwords, late : BOOLEAN]
    BY DEF TypeOK
  <2> HIDE DEF new
  <2> QED BY <1>2, <2>1, <2>2, <2>3 DEF SessionsType
<1>4. TypeOK'
  <2>1. \A s \in sessions : s.token # new.token
    BY DEF TypeOK
  <2>2. \A s, t \in sessions' : s.token = t.token => s = t
    <3> HIDE DEF new
    <3> QED BY <1>2, <2>1 DEF TypeOK
  <2> QED BY <1>3, <2>2 DEF TypeOK, SessionsType
<1>5. First' /\ Late'
  BY DEF TypeOK, Access, First, Late, Knowing
<1>6. ChangeClosesSessions'
  <2>1. new.of < closed => new.late
    BY <1>1
  <2> HIDE DEF new
  <2> QED BY <1>2, <2>1 DEF Access, ChangeClosesSessions
<1> QED BY <1>4, <1>5, <1>6, ShownKept DEF Access

LEMMA FewerSessionsStep ==
    ASSUME IInv, Expire \/ \E b \in Browsers : Logout(b) PROVE IInv'
<1> USE DEF IInv, Expire, Logout, Request, Fault, demoVars, historyVars
<1>1. sessions' \subseteq sessions
  OBVIOUS
<1>2. TypeOK'
  <2>1. CASE Expire
    BY <1>1, <2>1, SessionsKept DEF TypeOK, SessionsType
  <2>2. ASSUME NEW b \in Browsers, Logout(b) PROVE TypeOK'
    <3>1. cookie' \in [Browsers -> 0..tokens]
      BY <2>2 DEF TypeOK
    <3>2. requests' \in 0..MaxRequests /\ faults' \in 0..MaxFaults
      BY <2>2 DEF TypeOK
    <3> QED BY <1>1, <2>2, <3>1, <3>2, SessionsKept DEF TypeOK, SessionsType
  <2> QED BY <2>1, <2>2
<1>3. Access'
  BY <1>1 DEF Access, First, Late, ChangeClosesSessions
<1> QED BY <1>2, <1>3, ShownKept

LEMMA FailStep == ASSUME IInv, NEW p \in Procs, StatementFails(p) PROVE IInv'
<1> USE DEF IInv, StatementFails, Fault, Goto, accessVars, demoVars, historyVars
<1>1. pc[p] # "closing" /\ pc' = [pc EXCEPT ![p] = "idle"]
  OBVIOUS
<1>2. faults' \in 0..MaxFaults
  BY DEF TypeOK
<1> HIDE DEF Fault
<1>3. /\ pc' \in [Procs -> {"idle", "choosing", "openFirst", "checkLogin", "openLogin",
                           "checkChange", "changing", "revoking", "openChange",
                           "starting", "stopping", "closing"}]
      /\ \A q \in Procs : pc'[q] = "closing" <=> closing[q] # 0
  BY <1>1 DEF TypeOK
<1>4. TypeOK'
  BY <1>2, <1>3 DEF TypeOK
<1>5. Access'
  BY <1>1, AccessKept DEF TypeOK, Knowing
<1> QED BY <1>4, <1>5, ShownKept

-----------------------------------------------------------------------------
(* The demonstration. *)

LEMMA StartStep == ASSUME IInv, NEW b \in Browsers, DemoStart(b) PROVE IInv'
<1> USE DEF IInv, DemoStart, Request, Goto, demoVars, historyVars
<1>1. TypeOK'
  BY DEF TypeOK
<1>2. Access'
  BY AccessKept DEF TypeOK, Knowing
<1> QED BY <1>1, <1>2, ShownKept

LEMMA PrepareStep == ASSUME IInv, NEW b \in Browsers, Prepare(b) PROVE IInv'
<1> USE DEF IInv, Prepare, MustPrepare, Goto, accessVars, historyVars
<1>1. TypeOK'
  BY DEF TypeOK
<1>2. Access'
  BY AccessKept DEF TypeOK, Knowing
<1>3. CASE UNCHANGED <<demos, work>>
  BY <1>1, <1>2, <1>3, ShownKept DEF demoVars
<1>4. CASE MustPrepare /\ ~UNCHANGED <<demos, work>>
  <2>1. PICK d \in DOMAIN demos :
            demos[d] = "none" /\ demos' = [demos EXCEPT ![d] = "preparing"] /\ work' = d
    BY <1>4
  <2>2. straddled \/ Preparing = {}
    BY <1>4 DEF DemoShown, Alone, Preparing, InState, TypeOK
  <2>3. Closing' /\ DemoIsKept'
    BY <2>1 DEF TypeOK, DemoShown, Closing, DemoIsKept
  <2>4. Alone'
    BY <1>4, <2>1, <2>2 DEF Alone, Preparing, InState
  <2> QED BY <1>1, <1>2, <2>3, <2>4 DEF DemoShown
<1> QED BY <1>3, <1>4

LEMMA PrepareEndsStep ==
    ASSUME IInv, NEW d \in DOMAIN demos, PrepareEnds(d) PROVE IInv'
<1> USE DEF IInv, PrepareEnds, Fault, accessVars, historyVars
<1>1. TypeOK'
  BY DEF TypeOK
<1>2. Access'
  BY AccessKept
<1>3. Closing' /\ DemoIsKept'
  BY DEF TypeOK, DemoShown, Closing, DemoIsKept
<1>4. Alone'
  BY DEF DemoShown, Alone, Preparing, InState
<1> QED BY <1>1, <1>2, <1>3, <1>4 DEF DemoShown

LEMMA InstallStep == ASSUME IInv, NEW d \in DOMAIN demos, Install(d) PROVE IInv'
<1> USE DEF IInv, Install, accessVars, historyVars
<1>1. TypeOK'
  BY DEF TypeOK
<1>2. Access'
  BY AccessKept
<1>3. Closing'
  BY DEF TypeOK, DemoShown, Closing
<1>4. straddled \/ (d = work /\ served = 0)
  BY DEF DemoShown, Alone, Preparing, InState
<1>5. DemoIsKept'
  BY <1>4 DEF TypeOK, DemoShown, DemoIsKept
<1>6. Alone'
  BY <1>4 DEF DemoShown, Alone, Preparing, InState
<1> QED BY <1>1, <1>2, <1>3, <1>5, <1>6 DEF DemoShown

LEMMA StopStep == ASSUME IInv, NEW b \in Browsers, Stop(b) PROVE IInv'
<1> USE DEF IInv, Stop, Taken, Goto, historyVars
<1>1. TypeOK'
  BY DEF TypeOK
<1>2. Access'
  BY AccessKept DEF TypeOK, Knowing
<1>3. closing[b] = 0
  BY DEF TypeOK
<1>4. Closing'
  BY <1>3 DEF TypeOK, DemoShown, Closing, DemoIsKept
<1>5. DemoIsKept'
  <2> SUFFICES ASSUME ~straddled', NEW d \in DOMAIN demos', demos'[d] = "open"
               PROVE  \E p \in Procs : closing'[p] = d
    BY DEF DemoIsKept
  <2>1. d = served \/ \E p \in Procs : closing[p] = d
    BY DEF DemoShown, DemoIsKept
  <2>2. d # 0
    BY DEF TypeOK
  <2>3. CASE d = served
    BY <2>3 DEF TypeOK
  <2>4. CASE \E p \in Procs : closing[p] = d
    BY <2>2, <2>4, <1>3 DEF TypeOK
  <2> QED BY <2>1, <2>3, <2>4
<1>6. Alone'
  BY DEF Alone, Preparing, InState
<1> QED BY <1>1, <1>2, <1>4, <1>5, <1>6 DEF DemoShown

LEMMA CloseStep == ASSUME IInv, NEW b \in Browsers, Close(b) PROVE IInv'
<1> USE DEF IInv, Close, Goto, accessVars, historyVars
<1>1. closing[b] # 0 /\ closing[b] \in DOMAIN demos
  BY DEF TypeOK
<1>2. TypeOK'
  BY <1>1 DEF TypeOK
<1>3. Access'
  BY AccessKept DEF TypeOK, Knowing
<1>4. Closing'
  BY <1>1 DEF TypeOK, DemoShown, Closing
<1>5. DemoIsKept'
  BY <1>1 DEF TypeOK, DemoShown, Closing, DemoIsKept
<1>6. Alone'
  BY <1>1 DEF DemoShown, Closing, Alone, Preparing, InState
<1> QED BY <1>2, <1>3, <1>4, <1>5, <1>6 DEF DemoShown

LEMMA CrashStep == ASSUME IInv, Crash PROVE IInv'
<1> USE DEF IInv, Crash, Fault
<1>1. TypeOK'
  BY DEF TypeOK
<1>2. Access'
  BY DEF Access, First, Late, Knowing, ChangeClosesSessions
<1>3. DemoShown'
  BY DEF TypeOK, DemoShown, Closing, Alone, Preparing, InState, DemoIsKept
<1> QED BY <1>1, <1>2, <1>3

-----------------------------------------------------------------------------

LEMMA NextIInv == IInv /\ [Next]_vars => IInv'
<1> SUFFICES ASSUME IInv, [Next]_vars PROVE IInv'
  OBVIOUS
<1>1. ASSUME NEW b \in Browsers,
             Setup(b) \/ Choose(b) \/ Login(b) \/ Change(b) \/ Check(b) \/ Open(b)
      PROVE  IInv'
  BY <1>1, AskStep, ChooseStep, CheckStep, OpenStep
<1>2. ASSUME NEW b \in Browsers,
             DemoStart(b) \/ Prepare(b) \/ Quit(b) \/ Stop(b) \/ Close(b)
      PROVE  IInv'
  BY <1>2, StartStep, PrepareStep, AskStep, StopStep, CloseStep
<1>3. ASSUME NEW p \in Procs, Replace(p) \/ RevokeAll(p) \/ StatementFails(p) PROVE IInv'
  BY <1>3, ReplaceStep, RevokeStep, FailStep
<1>4. ASSUME NEW d \in DOMAIN demos, PrepareEnds(d) \/ Install(d) PROVE IInv'
  BY <1>4, PrepareEndsStep, InstallStep
<1>5. CASE Expire \/ \E b \in Browsers : Logout(b)
  BY <1>5, FewerSessionsStep
<1>6. CASE Command \/ Crash
  BY <1>6, CommandStep, CrashStep
<1>7. CASE UNCHANGED vars
  <2>1. TypeOK'
    BY <1>7 DEF IInv, TypeOK, vars, accessVars, demoVars, historyVars
  <2>2. Access'
    BY <1>7 DEF IInv, Access, First, Late, ChangeClosesSessions, vars, accessVars, historyVars
  <2> QED BY <1>7, <2>1, <2>2, ShownKept DEF IInv, vars
<1> QED BY <1>1, <1>2, <1>3, <1>4, <1>5, <1>6, <1>7 DEF Next

(* What holds at every step of the requests, the preparations and the      *)
(* deaths of the process (auth.go, bootstrap.go, session.go, demo.go).     *)
THEOREM Invariance == Spec => []IInv
BY InitIInv, NextIInv, PTL DEF Spec

(* Every variable keeps its type; a request closes a demonstration only    *)
(* while it is at that step (demo.go).                                     *)
THEOREM TypeCorrect == Spec => []TypeOK
<1>1. IInv => TypeOK
  BY DEF IInv
<1> QED BY <1>1, Invariance, PTL

(* However many browsers are in the assistant, one of them chooses the     *)
(* first password, once (SetInitialPassword); and a session of a replaced  *)
(* password survives the change only when its login straddled the closing  *)
(* of the sessions (SetPassword, openSession).                             *)
THEOREM PasswordKept == Spec => []PasswordStands
<1>1. IInv => ChosenOnce
  BY DEF IInv, Access, First, ChosenOnce
<1>2. IInv => ChangeClosesSessions
  BY DEF IInv, Access
<1>3. IInv => PasswordStands
  BY <1>1, <1>2 DEF PasswordStands
<1> QED BY <1>3, Invariance, PTL

(* The demonstration shown runs, and none runs that nobody will stop, but  *)
(* after a stop in the middle of a preparation (stopDemo, prepareDemo).    *)
THEOREM DemoKept == Spec => []DemoIsKept
<1>1. IInv => DemoIsKept
  BY DEF IInv, DemoShown
<1> QED BY <1>1, Invariance, PTL

-----------------------------------------------------------------------------
(* The redirects: once past the page of a preparation, each answer brings  *)
(* nearer to a page that is shown.                                         *)

LEMMA ShownLast ==
    ASSUME NEW b, NEW R, R \subseteq {"shown"} PROVE Follow(b, R) = {}
BY DEF Follow

LEMMA AnswersOf ==
    ASSUME NEW b
    PROVE  /\ Answers(b, "wait") = {"shown", "page", "setup"}
           /\ inDemo[b] /\ served # 0 =>
                  /\ Answers(b, "page") = {"shown"}
                  /\ Answers(b, "login") = {"page"} /\ Answers(b, "setup") = {"page"}
           /\ ~(inDemo[b] /\ served # 0) =>
                  /\ Answers(b, "page") = {PageAnswer(b)}
                  /\ Answers(b, "login") = {LoginAnswer(b)}
                  /\ Answers(b, "setup") = {SetupAnswer(b)}
BY DEF Answers, WaitAnswers

LEMMA CircleFree == RedirectsEnd
<1> SUFFICES ASSUME NEW b \in Browsers
             PROVE  Follow(b, Follow(b, Follow(b, Follow(b, Routes)))) = {}
  BY DEF RedirectsEnd
<1> DEFINE F1 == Follow(b, Routes)
           F2 == Follow(b, F1)
           F3 == Follow(b, F2)
           Near == IF inDemo[b] /\ served # 0 THEN "page"
                   ELSE IF hash = 0 THEN "setup"
                   ELSE IF LoggedIn(b) THEN "page" ELSE "login"
<1>1. /\ \A r \in Routes : Answers(b, r) \subseteq {"shown", "page", "login", "setup"}
      /\ \A r \in {"page", "login", "setup"} : Answers(b, r) \subseteq {"shown", Near}
      /\ Answers(b, Near) = {"shown"}
  <2>1. CASE inDemo[b] /\ served # 0
    BY <2>1, AnswersOf DEF Routes
  <2>2. CASE ~(inDemo[b] /\ served # 0) /\ hash = 0
    BY <2>2, AnswersOf DEF Routes, PageAnswer, LoginAnswer, SetupAnswer
  <2>3. CASE ~(inDemo[b] /\ served # 0) /\ hash # 0
    BY <2>3, AnswersOf DEF Routes, PageAnswer, LoginAnswer, SetupAnswer, AlreadyIn
  <2> QED BY <2>1, <2>2, <2>3
<1> HIDE DEF Near
<1>2. F1 \subseteq {"shown", "page", "login", "setup"}
  <2>1. \A r \in Routes \ {"shown"} :
            Answers(b, r) \subseteq {"shown", "page", "login", "setup"}
    BY <1>1
  <2> QED BY <2>1 DEF Follow
<1> HIDE DEF F1
<1>3. F2 \subseteq {"shown", Near}
  <2>1. \A r \in F1 \ {"shown"} : Answers(b, r) \subseteq {"shown", Near}
    BY <1>1, <1>2
  <2> QED BY <2>1 DEF Follow
<1> HIDE DEF F2
<1>4. F3 \subseteq {"shown"}
  <2>1. \A r \in F2 \ {"shown"} : Answers(b, r) \subseteq {"shown"}
    BY <1>1, <1>3
  <2> QED BY <2>1 DEF Follow
<1>5. Follow(b, F3) = {}
  BY <1>4, ShownLast
<1> QED BY <1>5 DEF F1, F2

(* No page, with whatever cookies are left, redirects for ever             *)
(* (requireAuth, handleLogin, handleSetup, withDemo).                      *)
THEOREM RedirectsStop == Spec => []RedirectsEnd
BY CircleFree, PTL

-----------------------------------------------------------------------------
(* Settings: any sections, typed values and environments.                    *)
(*                                                                           *)
(* SInv: what is on record, imposed and in force passes the check of its     *)
(* setting, and what has a default is never blank in force.  The pages, the  *)
(* trials and the limits follow from it alone.                               *)

LEMMA KeysAre == Keys = {
    "ModemModel", "ModemURL", "ModemPassword", "Interval", "RetentionDays",
    "RetentionGB", "Profile", "MonthlyFee", "ProbeOn", "ProbeTargets",
    "ProbeInterval", "SpeedOn", "SpeedSource", "SpeedURL", "SpeedToken",
    "SpeedUser", "SpeedPassword", "NotifyOn", "NotifyService", "NotifyLink",
    "NtfyTopic", "GotifyURL", "GotifyToken", "DiscordURL", "TelegramToken",
    "TelegramChat", "SlackURL", "MailServer", "MailFrom", "MailTo",
    "WebhookURL", "WeatherOn", "WeatherPosition", "MQTTOn", "MQTTServer",
    "BackupOn", "BackupKeep", "UpdateCheck"}
BY DEF Keys, Def

(* The definitions, but for the model, are of these sorts. *)
Sorts == {
    Text("url"), Secret(None), Number("duration", "10m", "interval"),
    Number("integer", "3650", "positive"),
    Number("number", "5", "positive"), Select("voo", Profiles),
    Number("number", "", "positive"), Switch("true"),
    Field("text", "h:443", <<>>, "targets"),
    Number("duration", "5s", "probe"), Switch("false"),
    Select("speedtest-tracker", <<"speedtest-tracker", "unifi">>),
    Text(None), Select("ntfy", Services), Secret("url"),
    Text("hostport"), Text("mail"), Text("mqtt"),
    Number("integer", "7", "copies")}

LEMMA DefSorts == ASSUME NEW k \in Keys, k # "ModemModel" PROVE Def[k] \in Sorts
<1>1. /\ Def["ModemURL"] \in Sorts /\ Def["ModemPassword"] \in Sorts
      /\ Def["Interval"] \in Sorts /\ Def["RetentionDays"] \in Sorts
      /\ Def["RetentionGB"] \in Sorts /\ Def["Profile"] \in Sorts
  BY DEF Def, Sorts
<1>2. /\ Def["MonthlyFee"] \in Sorts /\ Def["ProbeOn"] \in Sorts
      /\ Def["ProbeTargets"] \in Sorts /\ Def["ProbeInterval"] \in Sorts
      /\ Def["SpeedOn"] \in Sorts /\ Def["SpeedSource"] \in Sorts
  BY DEF Def, Sorts
<1>3. /\ Def["SpeedURL"] \in Sorts /\ Def["SpeedToken"] \in Sorts
      /\ Def["SpeedUser"] \in Sorts /\ Def["SpeedPassword"] \in Sorts
      /\ Def["NotifyOn"] \in Sorts /\ Def["NotifyService"] \in Sorts
  BY DEF Def, Sorts
<1>4. /\ Def["NotifyLink"] \in Sorts /\ Def["NtfyTopic"] \in Sorts
      /\ Def["GotifyURL"] \in Sorts /\ Def["GotifyToken"] \in Sorts
      /\ Def["DiscordURL"] \in Sorts /\ Def["TelegramToken"] \in Sorts
  BY DEF Def, Sorts
<1>5. /\ Def["TelegramChat"] \in Sorts /\ Def["SlackURL"] \in Sorts
      /\ Def["MailServer"] \in Sorts /\ Def["MailFrom"] \in Sorts
      /\ Def["MailTo"] \in Sorts /\ Def["WebhookURL"] \in Sorts
  BY DEF Def, Sorts
<1>6. /\ Def["WeatherOn"] \in Sorts /\ Def["WeatherPosition"] \in Sorts
      /\ Def["MQTTOn"] \in Sorts /\ Def["MQTTServer"] \in Sorts
      /\ Def["BackupOn"] \in Sorts /\ Def["BackupKeep"] \in Sorts
  BY DEF Def, Sorts
<1>7. /\ Def["UpdateCheck"] \in Sorts
  BY DEF Def, Sorts
<1> QED BY <1>1, <1>2, <1>3, <1>4, <1>5, <1>6, <1>7, KeysAre

ValidAs(d, v) ==
    \/ v = "" /\ d.kind \in {"bool", "integer", "number", "duration"}
    \/ OfKind(d, v) /\ Passes(d.check, v)

LEMMA SortFacts ==
    ASSUME NEW d \in Sorts
    PROVE  /\ ValidAs(d, "") /\ (d.default # "" => ValidAs(d, d.default))
           /\ d.kind = "select" => d.default # ""
<1> DEFINE Fine(x) == /\ ValidAs(x, "") /\ (x.default # "" => ValidAs(x, x.default))
                      /\ x.kind = "select" => x.default # ""
<1>1. \A b \in {"true", "false"} : Fine(Switch(b))
  BY DEF Switch, Field, ValidAs, OfKind, Passes, None
<1>2. \A c \in {None, "url", "hostport", "mail", "mqtt"} : Fine(Text(c))
  BY DEF Text, Field, ValidAs, OfKind, Passes, None
<1>3. \A c \in {None, "url"} : Fine(Secret(c))
  BY DEF Secret, Field, ValidAs, OfKind, Passes, None
<1>4. /\ Fine(Number("duration", "10m", "interval")) /\ Fine(Number("duration", "5s", "probe"))
      /\ Fine(Number("integer", "3650", "positive")) /\ Fine(Number("integer", "7", "copies"))
      /\ Fine(Number("number", "5", "positive")) /\ Fine(Number("number", "", "positive"))
  BY DEF Number, Field, ValidAs, OfKind, Passes, Integers, Numbers, Durations
<1>5. Fine(Field("text", "h:443", <<>>, "targets"))
  BY DEF Field, ValidAs, OfKind, Passes
<1>6. ASSUME NEW o, NEW i \in DOMAIN o, NEW v, o[i] = v, v # "" PROVE Fine(Select(v, o))
  BY <1>6 DEF Select, Field, ValidAs, OfKind, Passes, None
<1>7. Fine(Select("voo", Profiles))
  <2>1. 2 \in DOMAIN Profiles /\ Profiles[2] = "voo"
    BY DEF Profiles
  <2> QED BY <1>6, <2>1
<1>8. Fine(Select("speedtest-tracker", <<"speedtest-tracker", "unifi">>))
  <2> DEFINE o == <<"speedtest-tracker", "unifi">>
  <2>1. 1 \in DOMAIN o /\ o[1] = "speedtest-tracker"
    OBVIOUS
  <2> HIDE DEF o
  <2>2. Fine(Select("speedtest-tracker", o))
    BY <1>6, <2>1
  <2> QED BY <2>2 DEF o
<1>9. Fine(Select("ntfy", Services))
  <2>1. 1 \in DOMAIN Services /\ Services[1] = "ntfy"
    BY DEF Services
  <2> QED BY <1>6, <2>1
<1>10. Fine(d)
  <2> HIDE DEF Fine
  <2> QED BY <1>1, <1>2, <1>3, <1>4, <1>5, <1>7, <1>8, <1>9 DEF Sorts
<1> QED BY <1>10

LEMMA ValidIs == \A k, v : Valid(k, v) <=> ValidAs(Def[k], v)
BY DEF Valid, ValidAs

(* What a definition owes: a default its own check accepts, a blank that is *)
(* accepted, and a list other than that of the models shows its default.   *)
LEMMA DefFacts ==
    ASSUME NEW k \in Keys
    PROVE  /\ Valid(k, "") /\ (Def[k].default # "" => Valid(k, Def[k].default))
           /\ Of(k, "select") /\ k # "ModemModel" => Def[k].default # ""
<1>1. CASE k = "ModemModel"
  <2>1. /\ Def["ModemModel"].kind = "select" /\ Def["ModemModel"].default = ""
        /\ Def["ModemModel"].check = "none"
    BY DEF Def, Select, Field, None
  <2>2. OfKind(Def["ModemModel"], "")
    BY <2>1 DEF OfKind
  <2>3. Passes(Def["ModemModel"].check, "")
    BY <2>1 DEF Passes
  <2> QED BY <1>1, <2>1, <2>2, <2>3 DEF Valid
<1>2. CASE k # "ModemModel"
  BY <1>2, DefSorts, SortFacts, ValidIs DEF Of
<1> QED BY <1>1, <1>2

(* An address that is accepted has its scheme. *)
LEMMA Normal ==
    ASSUME NEW k \in Keys, NEW v, Valid(k, v)
    PROVE  Normalize(k, v) = v
<1>1. CASE k \in Completes
  <2>1. /\ Def["ModemURL"] = Field("text", "", <<>>, "url")
        /\ Def["SpeedURL"] = Field("text", "", <<>>, "url")
        /\ Def["NotifyLink"] = Field("text", "", <<>>, "url")
    BY DEF Def, Text
  <2>2. Def[k] = Field("text", "", <<>>, "url")
    BY <1>1, <2>1 DEF Completes
  <2>4. Def[k].kind = "text" /\ Def[k].check = "url"
    <3> DEFINE d == Def[k]
    <3>1. d = [kind |-> "text", default |-> "", options |-> <<>>, check |-> "url"]
      BY <2>2 DEF Field
    <3> HIDE DEF d
    <3>2. d.kind = "text" /\ d.check = "url"
      BY <3>1
    <3> QED BY <3>2 DEF d
  <2>3. v \in {"", "http://h"}
    BY <2>4 DEF Valid, Passes
  <2> QED BY <2>3 DEF Normalize, Completed
<1> QED BY <1>1 DEF Normalize

LEMMA NotBlank == ASSUME NEW k, NEW v, v # "" PROVE Normalize(k, v) # ""
<1>1. DOMAIN Completed = {"h"} /\ Completed["h"] = "http://h"
  BY DEF Completed
<1>2. \A x \in DOMAIN Completed : Completed[x] # ""
  BY <1>1
<1> QED BY <1>2 DEF Normalize

(* The settings on table, those the environment imposes, those in force.  *)
OnRecord(s) == s = [k \in Keys |-> s[k]] /\ \A k \in Keys : Valid(k, s[k])
ByEnvironment(f) ==
    DOMAIN f \subseteq Keys /\ \A k \in DOMAIN f : Valid(k, f[k]) /\ f[k] # ""
Effective(v) ==
    /\ v = [k \in Keys |-> v[k]]
    /\ \A k \in Keys : Valid(k, v[k]) /\ (v[k] = "" => Def[k].default = "")

LEMMA SettingsBounds == MaxEdits \in Nat /\ MaxSaves \in Nat
BY SettingsAssumption

LEMMA ImposedFacts ==
    ASSUME NEW e \in Environments, Starts(e)
    PROVE  ByEnvironment(Imposed(e))
BY NotBlank, SettingsAssumption DEF Starts, Imposed, ByEnvironment

LEMMA LoadFacts ==
    ASSUME NEW s, NEW f, OnRecord(s), ByEnvironment(f)
    PROVE  Effective(Load(s, f))
<1> DEFINE v == Load(s, f)
<1>1. v = [k \in Keys |-> v[k]]
  BY DEF Load
<1>2. ASSUME NEW k \in Keys
      PROVE  Valid(k, v[k]) /\ (v[k] = "" => Def[k].default = "")
  <2>1. v[k] = IF k \in DOMAIN f THEN f[k] ELSE IF s[k] = "" THEN Def[k].default ELSE s[k]
    BY DEF Load
  <2>2. Valid(k, s[k]) /\ (k \in DOMAIN f => Valid(k, f[k]) /\ f[k] # "")
    BY DEF OnRecord, ByEnvironment
  <2>3. Valid(k, Def[k].default)
    BY DefFacts
  <2> HIDE DEF v
  <2> QED BY <2>1, <2>2, <2>3
<1> HIDE DEF v
<1>3. Effective(v)
  BY <1>1, <1>2 DEF Effective
<1> QED BY <1>3 DEF v

LEMMA WrittenFacts ==
    ASSUME OnRecord(table), NEW form, ~Refused(form)
    PROVE  OnRecord(Written(form))
<1> DEFINE w == Written(form)
<1>1. w = [k \in Keys |-> w[k]]
  BY DEF Written
<1>2. ASSUME NEW k \in Keys PROVE Valid(k, w[k])
  <2>1. CASE k \in Accepted(form)
    BY <2>1 DEF Written, Refused
  <2>2. CASE k \notin Accepted(form)
    BY <2>2 DEF Written, OnRecord
  <2> QED BY <2>1, <2>2
<1> QED BY <1>1, <1>2 DEF OnRecord

-----------------------------------------------------------------------------
(* The invariant of Settings. *)

Filling ==
    /\ tab = [section |-> tab.section, page |-> tab.page, edits |-> tab.edits]
    /\ tab.edits \in 0 .. MaxEdits
FetchedType == fetched \in [Fetching -> {None, "ok", "failed", "stale", "newer"}]
SInv ==
    /\ OnRecord(table) /\ ByEnvironment(forced) /\ Effective(conf)
    /\ Filling /\ FetchedType /\ saves \in 0 .. MaxSaves

LEMMA ReloadFacts ==
    ASSUME Reload, OnRecord(table'), ByEnvironment(forced')
    PROVE  Effective(conf') /\ FetchedType'
<1>1. Effective(Load(table', forced'))
  BY LoadFacts
<1>2. conf' = Load(table', forced') /\ fetched' = Unfetched
  BY DEF Reload
<1> QED BY <1>1, <1>2 DEF FetchedType, Unfetched

(* A form that is closed, and one that is open, hold what they should. *)
LEMMA ClosedFills == tab = Closed => Filling
BY SettingsBounds DEF Closed, Filling

LEMMA InitSInv == SettingsInit => SInv
<1> SUFFICES ASSUME SettingsInit PROVE SInv
  OBVIOUS
<1>1. OnRecord(table)
  BY DefFacts DEF SettingsInit, OnRecord
<1>2. ByEnvironment(forced)
  BY ImposedFacts DEF SettingsInit
<1>3. Effective(conf)
  BY <1>1, <1>2, LoadFacts DEF SettingsInit
<1>4. Filling
  BY ClosedFills DEF SettingsInit
<1>5. FetchedType
  BY DEF SettingsInit, Unfetched, FetchedType
<1>6. saves \in 0 .. MaxSaves
  <2>1. saves = 0
    BY DEF SettingsInit
  <2> QED BY <2>1, SettingsBounds
<1> QED BY <1>1, <1>2, <1>3, <1>4, <1>5, <1>6 DEF SInv

(* The form being filled in, and the tasks that fetch: the settings stay.  *)
LEMMA PageStep ==
    ASSUME SInv,
           \/ \E g \in Sections : OpenPage(g)
           \/ \E k \in Keys : \E v \in Choices(k) : Edit(k, v)
           \/ Leave
           \/ \E g \in Fetching, how \in {"ok", "failed", "stale", "newer"} : Fetched(g, how)
    PROVE  SInv'
<1>1. UNCHANGED <<table, forced, conf, saves>>
  BY DEF OpenPage, Edit, Leave, Fetched
<1>2. MaxEdits \in Nat
  BY SettingsBounds
<1>3. Filling'
  <2>1. CASE \E g \in Sections : OpenPage(g)
    <3>1. PICK g \in Sections : OpenPage(g)
      BY <2>1
    <3>2. tab' = [section |-> g, page |-> Page(g, conf), edits |-> 0]
      BY <3>1 DEF OpenPage
    <3> QED BY <1>2, <3>2 DEF Filling
  <2>2. CASE \E k \in Keys : \E v \in Choices(k) : Edit(k, v)
    <3>1. PICK k, v : Edit(k, v)
      BY <2>2
    <3>2. /\ tab' = [tab EXCEPT !.page[k] = v, !.edits = @ + 1] /\ tab.edits < MaxEdits
          /\ tab = [section |-> tab.section, page |-> tab.page, edits |-> tab.edits]
          /\ tab.edits \in 0 .. MaxEdits
      BY <3>1 DEF Edit, SInv, Filling
    <3>3. tab' = [section |-> tab.section, page |-> [tab.page EXCEPT ![k] = v], edits |-> tab.edits + 1]
      BY <3>2
    <3>4. tab.edits + 1 \in 0 .. MaxEdits
      BY <1>2, <3>2
    <3> QED BY <3>3, <3>4 DEF Filling
  <2>3. CASE Leave
    <3>1. tab' = [section |-> None, page |-> <<>>, edits |-> 0]
      BY <2>3 DEF Leave, Closed
    <3> QED BY <1>2, <3>1 DEF Filling
  <2>4. CASE \E g \in Fetching, how \in {"ok", "failed", "stale", "newer"} : Fetched(g, how)
    BY <2>4 DEF Fetched, Filling, SInv
  <2> QED BY <2>1, <2>2, <2>3, <2>4
<1>4. FetchedType'
  BY DEF OpenPage, Edit, Leave, Fetched, FetchedType, SInv
<1> QED BY <1>1, <1>3, <1>4 DEF SInv, OnRecord, ByEnvironment, Effective

LEMMA SubmitStep == ASSUME SInv, Submit PROVE SInv'
<1> DEFINE form == Form(tab.page)
<1>1. ByEnvironment(forced')
  BY DEF Submit, SInv, ByEnvironment
<1>4. saves' \in 0 .. MaxSaves
  <2>1. saves' = saves + 1 /\ saves < MaxSaves
    BY DEF Submit
  <2> QED BY <2>1, SettingsBounds DEF SInv
<1>2. CASE Refused(form)
  <2>1. UNCHANGED <<table, conf, fetched>>
    BY <1>2 DEF Submit
  <2>2. Filling'
    <3>1. tab' = [tab EXCEPT !.page = [k \in DOMAIN @ |-> IF Of(k, "password") THEN "" ELSE @[k]]]
      BY <1>2 DEF Submit
    <3>2. /\ tab = [section |-> tab.section, page |-> tab.page, edits |-> tab.edits]
          /\ tab.edits \in 0 .. MaxEdits
      BY DEF SInv, Filling
    <3> QED BY <3>1, <3>2 DEF Filling
  <2> QED BY <1>1, <1>4, <2>1, <2>2 DEF SInv, OnRecord, Effective, FetchedType
<1>3. CASE ~Refused(form)
  <2>1. table' = Written(form) /\ tab' = Closed /\ Reload
    BY <1>3 DEF Submit
  <2>2. OnRecord(table')
    BY <1>3, <2>1, WrittenFacts DEF SInv
  <2>3. Effective(conf') /\ FetchedType'
    BY <1>1, <2>1, <2>2, ReloadFacts
  <2>4. Filling'
    <3>1. tab' = [section |-> None, page |-> <<>>, edits |-> 0] /\ MaxEdits \in Nat
      BY <2>1, SettingsBounds DEF Closed
    <3> QED BY <3>1 DEF Filling
  <2> QED BY <1>1, <1>4, <2>2, <2>3, <2>4 DEF SInv
<1> QED BY <1>2, <1>3

LEMMA SetupStep ==
    ASSUME SInv, SetupOperator \/ SetupModem PROVE SInv'
<1>1. PICK form : SetupForm(form)
  BY DEF SetupOperator, SetupModem
<1>2. OnRecord(table')
  BY <1>1, WrittenFacts DEF SetupForm, SInv
<1>3. ByEnvironment(forced') /\ Filling'
  BY <1>1 DEF SetupForm, SInv, ByEnvironment, Filling
<1>5. saves' \in 0 .. MaxSaves
  <2>1. saves' = saves + 1 /\ saves < MaxSaves
    BY <1>1 DEF SetupForm
  <2> QED BY <2>1, SettingsBounds DEF SInv
<1>4. Effective(conf') /\ FetchedType'
  BY <1>1, <1>2, <1>3, ReloadFacts DEF SetupForm
<1> QED BY <1>2, <1>3, <1>4, <1>5 DEF SInv

(* The address of the installation is written without a reload. *)
LEMMA SetupPasswordStep == ASSUME SInv, SetupPassword PROVE SInv'
<1> DEFINE form == [k \in {"NotifyLink"} |-> "http://h"]
<1>1. ~Refused(form)
  <2>1. Def["NotifyLink"] = Field("text", "", <<>>, "url")
    BY DEF Def, Text
  <2>4. Def["NotifyLink"].kind = "text" /\ Def["NotifyLink"].check = "url"
    <3> DEFINE d == Def["NotifyLink"]
    <3>1. d = [kind |-> "text", default |-> "", options |-> <<>>, check |-> "url"]
      BY <2>1 DEF Field
    <3> HIDE DEF d
    <3>2. d.kind = "text" /\ d.check = "url"
      BY <3>1
    <3> QED BY <3>2 DEF d
  <2>2. Valid("NotifyLink", "http://h")
    BY <2>4 DEF Valid, OfKind, Passes
  <2>3. Normalize("NotifyLink", "http://h") = "http://h"
    BY DEF Normalize, Completed
  <2> QED BY <2>2, <2>3 DEF Refused, Accepted
<1>2. table' = Written(form)
  BY DEF SetupPassword
<1>3. OnRecord(table')
  BY <1>1, <1>2, WrittenFacts DEF SInv
<1> QED BY <1>3 DEF SetupPassword, SInv, ByEnvironment, Effective, Filling, FetchedType

LEMMA RestartStep == ASSUME SInv, Restart PROVE SInv'
<1>1. ByEnvironment(forced')
  BY ImposedFacts DEF Restart
<1>2. OnRecord(table') /\ Filling' /\ saves' \in 0 .. MaxSaves
  BY DEF Restart, SInv, OnRecord, Filling
<1>3. Effective(conf') /\ FetchedType'
  BY <1>1, <1>2, ReloadFacts DEF Restart
<1> QED BY <1>1, <1>2, <1>3 DEF SInv

LEMMA NextSInv == SInv /\ [SettingsNext]_settingsVars => SInv'
<1> SUFFICES ASSUME SInv, [SettingsNext]_settingsVars PROVE SInv'
  OBVIOUS
<1>1. CASE UNCHANGED settingsVars
  BY <1>1 DEF settingsVars, SInv, OnRecord, ByEnvironment, Effective, Filling, FetchedType
<1>2. CASE SettingsNext
  BY <1>2, PageStep, SubmitStep, SetupStep, SetupPasswordStep, RestartStep DEF SettingsNext
<1> QED BY <1>1, <1>2

-----------------------------------------------------------------------------
(* The limits of the tasks. *)

(* A setting with a default is never blank in force, and passes its check.   *)
LEMMA InForceAs ==
    ASSUME NEW v, Effective(v), NEW k \in Keys, NEW kind, NEW default, NEW check,
           Def[k] = Field(kind, default, <<>>, check), default # ""
    PROVE  /\ v[k] # "" /\ OfKind(Field(kind, default, <<>>, check), v[k])
           /\ Passes(check, v[k])
<1>1. Field(kind, default, <<>>, check).default = default
  BY DEF Field
<1>2. Field(kind, default, <<>>, check).check = check
  BY DEF Field
<1>3. Valid(k, v[k]) /\ v[k] # ""
  BY <1>1 DEF Effective
<1> QED BY <1>2, <1>3 DEF Valid

LEMMA LimitsFacts ==
    ASSUME NEW v, Effective(v)
    PROVE  /\ v["RetentionDays"] # "" /\ v["RetentionGB"] # ""
           /\ v["Interval"] \in {"10m", "1h"} /\ v["ProbeInterval"] \in {"5s", "10m"}
           /\ v["ProbeTargets"] = "h:443" /\ v["BackupKeep"] = "7"
<1>1. /\ Def["RetentionDays"] = Field("integer", "3650", <<>>, "positive")
      /\ Def["RetentionGB"] = Field("number", "5", <<>>, "positive")
      /\ Def["Interval"] = Field("duration", "10m", <<>>, "interval")
      /\ Def["ProbeInterval"] = Field("duration", "5s", <<>>, "probe")
      /\ Def["ProbeTargets"] = Field("text", "h:443", <<>>, "targets")
      /\ Def["BackupKeep"] = Field("integer", "7", <<>>, "copies")
  BY DEF Def, Number
<1>2. /\ "RetentionDays" \in Keys /\ "RetentionGB" \in Keys /\ "Interval" \in Keys
      /\ "ProbeInterval" \in Keys /\ "ProbeTargets" \in Keys /\ "BackupKeep" \in Keys
  BY KeysAre
<1>3. v["RetentionDays"] # "" /\ v["RetentionGB"] # ""
  BY <1>1, <1>2, InForceAs
<1>4. v["Interval"] \in {"10m", "1h"}
  <2>1. OfKind(Field("duration", "10m", <<>>, "interval"), v["Interval"]) /\ Passes("interval", v["Interval"])
    BY <1>1, <1>2, InForceAs
  <2> QED BY <2>1 DEF OfKind, Field, Passes, Durations
<1>5. v["ProbeInterval"] \in {"5s", "10m"}
  <2>1. OfKind(Field("duration", "5s", <<>>, "probe"), v["ProbeInterval"]) /\ Passes("probe", v["ProbeInterval"])
    BY <1>1, <1>2, InForceAs
  <2> QED BY <2>1 DEF OfKind, Field, Passes, Durations
<1>6. v["ProbeTargets"] = "h:443"
  <2>1. v["ProbeTargets"] # "" /\ Passes("targets", v["ProbeTargets"])
    BY <1>1, <1>2, InForceAs
  <2> QED BY <2>1 DEF Passes
<1>7. v["BackupKeep"] = "7"
  <2>1. Passes("copies", v["BackupKeep"])
    BY <1>1, <1>2, InForceAs
  <2> QED BY <2>1 DEF Passes
<1> QED BY <1>3, <1>4, <1>5, <1>6, <1>7

LEMMA LimitsFollow == SInv => LimitsStand
<1> SUFFICES ASSUME SInv PROVE LimitsStand
  OBVIOUS
<1>1. /\ conf["RetentionDays"] # "" /\ conf["RetentionGB"] # ""
      /\ conf["Interval"] \in {"10m", "1h"} /\ conf["ProbeInterval"] \in {"5s", "10m"}
      /\ conf["ProbeTargets"] = "h:443" /\ conf["BackupKeep"] = "7"
  BY LimitsFacts DEF SInv
<1> QED BY <1>1 DEF LimitsStand, Limits

-----------------------------------------------------------------------------
(* What the pages tell. *)

LEMMA StoppedTold == SInv => StoppedIsTold
<1> SUFFICES ASSUME SInv, NEW g \in Sections
    PROVE  /\ Wanted(g, conf) /\ ~Ready(g, conf) => Summary(g).attention
           /\ g \in Fetching /\ Task(g, conf) = "runs" /\ fetched[g] = "failed" => Summary(g).what = "echec"
           /\ Warning(g) # None => Summary(g).attention
           /\ Summary(g).what = "actif" => Task(g, conf) = "runs"
  BY DEF StoppedIsTold
<1>1. Task(g, conf) \in {"off", "lacks", "runs"}
  BY DEF Task
<1>2. Task(g, conf) = "lacks" => Summary(g) = Line("arrete", TRUE)
  BY DEF Summary
<1>3. Task(g, conf) = "off" => Summary(g) = Line("desactive", FALSE)
  BY DEF Summary
<1>4. g \in Fetching /\ Task(g, conf) = "runs" /\ fetched[g] = "failed"
      => Summary(g) = Line("echec", g # "versions")
  BY DEF Summary, LastTold, None
<1>5. \A what, attention : Line(what, attention).what = what /\ Line(what, attention).attention = attention
  BY DEF Line
<1>6. Wanted(g, conf) /\ ~Ready(g, conf) => Task(g, conf) = "lacks"
  BY DEF Task
<1>7. Warning(g) # None =>
        \/ Task(g, conf) = "lacks"
        \/ g \in {"meteo", "debit", "domotique"} /\ Task(g, conf) = "runs" /\ fetched[g] = "failed"
  BY DEF Warning
<1>8. Warning(g) # None => Summary(g).attention
  BY <1>2, <1>4, <1>5, <1>7 DEF Fetching
<1>9. Summary(g).what = "actif" => Task(g, conf) = "runs"
  <2>1. Task(g, conf) = "lacks" => Summary(g).what = "arrete"
    BY <1>2, <1>5
  <2>2. Task(g, conf) = "off" => Summary(g).what = "desactive"
    BY <1>3, <1>5
  <2> QED BY <1>1, <2>1, <2>2
<1> QED BY <1>2, <1>4, <1>5, <1>6, <1>8, <1>9

(* What a task cannot go without is not its switch. *)
LEMMA ReadySame ==
    ASSUME NEW v, NEW w, NEW g \in {"notifications", "debit", "meteo", "domotique"},
           \A k \in Keys : k \notin {"SpeedOn", "NotifyOn", "WeatherOn", "MQTTOn", "ModemModel"} => w[k] = v[k]
    PROVE  Ready(g, w) <=> Ready(g, v)
<1>1. CASE g = "notifications"
  <2>1. w["NotifyService"] = v["NotifyService"]
    BY KeysAre
  <2>2. \A k \in Needs(v["NotifyService"]) : w[k] = v[k]
    BY KeysAre DEF Needs
  <2>3. Sender(w) <=> Sender(v)
    BY <2>1, <2>2 DEF Sender
  <2> QED BY <1>1, <2>3 DEF Ready
<1>2. CASE g = "debit"
  <2>1. /\ w["SpeedURL"] = v["SpeedURL"] /\ w["SpeedSource"] = v["SpeedSource"] /\ w["SpeedToken"] = v["SpeedToken"]
        /\ w["SpeedUser"] = v["SpeedUser"] /\ w["SpeedPassword"] = v["SpeedPassword"]
    BY KeysAre
  <2> QED BY <1>2, <2>1 DEF Ready, SpeedReady
<1>3. CASE g = "meteo"
  <2>1. w["WeatherPosition"] = v["WeatherPosition"]
    BY KeysAre
  <2> QED BY <1>3, <2>1 DEF Ready
<1>4. CASE g = "domotique"
  <2>1. w["MQTTServer"] = v["MQTTServer"]
    BY KeysAre
  <2> QED BY <1>4, <2>1 DEF Ready
<1> QED BY <1>1, <1>2, <1>3, <1>4

LEMMA TrialTold == SInv => TrialForetells
<1> SUFFICES ASSUME SInv, NEW g \in Tried, g # "versions"
    PROVE  LET on == IF g \in DOMAIN Toggle THEN [conf EXCEPT ![Toggle[g]] = "true"] ELSE conf
           IN Trial(g, conf) = "impossible" <=> Task(g, on) = "lacks"
  BY DEF TrialForetells
<1>1. Trial(g, conf) = "impossible" <=> ~Ready(g, conf)
  BY DEF Trial, Ready, Tried
<1>2. /\ DOMAIN Toggle = {"debit", "notifications", "meteo", "domotique", "sonde", "sauvegarde", "versions"}
      /\ Toggle["debit"] = "SpeedOn" /\ Toggle["notifications"] = "NotifyOn"
      /\ Toggle["meteo"] = "WeatherOn" /\ Toggle["domotique"] = "MQTTOn"
  BY DEF Toggle
<1>3. CASE g = "modem"
  <2>1. g \notin DOMAIN Toggle
    BY <1>2, <1>3
  <2>2. Task(g, conf) = "lacks" <=> ~Ready(g, conf)
    BY <2>1 DEF Task, Wanted
  <2> QED BY <1>1, <2>1, <2>2
<1>4. CASE g \in {"notifications", "debit", "meteo", "domotique"}
  <2> DEFINE on == [conf EXCEPT ![Toggle[g]] = "true"]
  <2>1. /\ g \in DOMAIN Toggle /\ Toggle[g] \in {"SpeedOn", "NotifyOn", "WeatherOn", "MQTTOn"}
        /\ Toggle[g] \in Keys
    BY <1>2, <1>4, KeysAre
  <2>2. conf = [k \in Keys |-> conf[k]]
    BY DEF SInv, Effective
  <2>3. on[Toggle[g]] = "true" /\ \A k \in Keys : k # Toggle[g] => on[k] = conf[k]
    BY <2>1, <2>2
  <2> HIDE DEF on
  <2>4. Ready(g, on) <=> Ready(g, conf)
    BY <1>4, <2>1, <2>3, ReadySame
  <2>5. Wanted(g, on)
    BY <2>3 DEF Wanted, On
  <2>6. Task(g, on) = "lacks" <=> ~Ready(g, conf)
    BY <2>4, <2>5 DEF Task
  <2> QED BY <1>1, <2>1, <2>6 DEF on
<1> QED BY <1>3, <1>4 DEF Tried

-----------------------------------------------------------------------------
(* A form sent back as it was shown. *)

LEMMA GroupKeys == \A g \in DOMAIN Group : Group[g] \subseteq Keys
<1> SUFFICES ASSUME NEW g \in DOMAIN Group PROVE Group[g] \subseteq Keys
  OBVIOUS
<1>1. g \in {"modem", "collecte", "analyse", "abonnement", "sonde", "debit", "notifications",
             "meteo", "domotique", "sauvegarde", "versions"}
  BY DEF Group
<1>2. /\ Group["modem"] \subseteq Keys /\ Group["collecte"] \subseteq Keys
      /\ Group["analyse"] \subseteq Keys /\ Group["abonnement"] \subseteq Keys
      /\ Group["sonde"] \subseteq Keys /\ Group["debit"] \subseteq Keys
  BY KeysAre DEF Group
<1>3. /\ Group["meteo"] \subseteq Keys /\ Group["domotique"] \subseteq Keys
      /\ Group["sauvegarde"] \subseteq Keys /\ Group["versions"] \subseteq Keys
  BY KeysAre DEF Group
<1>4. Group["notifications"] \subseteq Keys
  BY KeysAre DEF Group
<1> QED BY <1>1, <1>2, <1>3, <1>4

(* The list of the models shows the one in force, and offers it. *)
LEMMA ModelShown ==
    ASSUME NEW v, Effective(v)
    PROVE  /\ Shown(v, "ModemModel") # "" /\ Valid("ModemModel", Shown(v, "ModemModel"))
           /\ Sent("ModemModel", Shown(v, "ModemModel")) = Shown(v, "ModemModel")
<1> DEFINE m == Shown(v, "ModemModel")
<1>1. /\ Def["ModemModel"].kind = "select" /\ Def["ModemModel"].check = "none"
      /\ Def["ModemModel"].options = Models
  BY DEF Def, Select, Field, None
<1>2. m = IF v["ModemModel"] = "" THEN EffectiveModel(v) ELSE v["ModemModel"]
  BY <1>1 DEF Shown, Of
<1>3. EffectiveModel(v) \in {"cga4233", "docsis-snmp", "autre"}
  BY DEF EffectiveModel, ModelKnown
<1>4. ASSUME NEW x \in {"cga4233", "docsis-snmp", "autre"} PROVE Valid("ModemModel", x)
  <2>1. \E i \in DOMAIN Models : Models[i] = x
    <3>1. /\ 1 \in DOMAIN Models /\ Models[1] = "cga4233"
          /\ 2 \in DOMAIN Models /\ Models[2] = "docsis-snmp"
          /\ 3 \in DOMAIN Models /\ Models[3] = "autre"
      BY DEF Models
    <3> QED BY <3>1
  <2>2. OfKind(Def["ModemModel"], x)
    BY <1>1, <2>1 DEF OfKind
  <2>3. Passes(Def["ModemModel"].check, x)
    BY <1>1 DEF Passes
  <2> QED BY <2>2, <2>3 DEF Valid
<1>5. "ModemModel" \in Keys
  BY KeysAre
<1>6. m # "" /\ Valid("ModemModel", m)
  <2> HIDE DEF m
  <2>1. Valid("ModemModel", v["ModemModel"])
    BY <1>5 DEF Effective
  <2>2. Valid("ModemModel", EffectiveModel(v)) /\ EffectiveModel(v) # ""
    BY <1>3, <1>4
  <2> QED BY <1>2, <2>1, <2>2
<1>7. Sent("ModemModel", m) = m
  <2> HIDE DEF m
  <2> QED BY <1>6 DEF Sent
<1> QED BY <1>6, <1>7

(* Every other field but the secrets shows its value, and sends it back. *)
LEMMA OtherShown ==
    ASSUME NEW v, Effective(v), NEW k \in Keys, k # "ModemModel", ~Of(k, "password")
    PROVE  Sent(k, Shown(v, k)) = v[k] /\ Valid(k, v[k])
<1>1. Shown(v, k) = v[k]
  BY DEF Shown
<1>2. Valid(k, v[k]) /\ (v[k] = "" => Def[k].default = "")
  BY DEF Effective
<1>3. Of(k, "select") => v[k] # ""
  BY <1>2, DefFacts
<1> QED BY <1>1, <1>2, <1>3 DEF Sent

(* What is in force after an untouched form: the same, but for a model that  *)
(* nobody had chosen.                                                        *)
LEMMA FormKeeps ==
    ASSUME SInv, conf = Load(table, forced), NEW g \in Sections,
           NEW form, form = Form(Page(g, conf))
    PROVE  /\ ~Refused(form)
           /\ \A k \in Keys : k # "ModemModel" => Load(Written(form), forced)[k] = conf[k]
           /\ Load(Written(form), forced)["ModemModel"] \in
                {conf["ModemModel"], Shown(conf, "ModemModel")}
<1> DEFINE w == Load(Written(form), forced)
<1>1. /\ Effective(conf) /\ OnRecord(table) /\ ByEnvironment(forced)
      /\ Group[g] \subseteq Keys
  BY GroupKeys, SettingsAssumption DEF SInv
<1>2. /\ DOMAIN form = Group[g] \ DOMAIN forced
      /\ \A k \in DOMAIN form : form[k] = Sent(k, Shown(conf, k))
  BY DEF Form, Page
<1>3. ASSUME NEW k \in Accepted(form)
      PROVE  /\ k \in Keys /\ k \notin DOMAIN forced /\ Valid(k, form[k]) /\ Normalize(k, form[k]) = form[k]
             /\ k # "ModemModel" => form[k] = conf[k]
             /\ k = "ModemModel" => form[k] = Shown(conf, "ModemModel") /\ form[k] # ""
  <2>1. k \in DOMAIN form /\ k \in Keys /\ k \notin DOMAIN forced /\ form[k] = Sent(k, Shown(conf, k))
    BY <1>1, <1>2 DEF Accepted
  <2>2. ~Of(k, "password")
    <3>1. Of(k, "password") => form[k] = ""
      BY <2>1 DEF Sent, Shown, Of
    <3> QED BY <3>1 DEF Accepted
  <2>3. CASE k = "ModemModel"
    <3>1. form[k] = Shown(conf, "ModemModel") /\ form[k] # "" /\ Valid(k, form[k])
      BY <1>1, <2>1, <2>3, ModelShown
    <3> QED BY <2>1, <2>3, <3>1, Normal
  <2>4. CASE k # "ModemModel"
    <3>1. form[k] = conf[k] /\ Valid(k, form[k])
      BY <1>1, <2>1, <2>2, <2>4, OtherShown
    <3> QED BY <2>1, <2>4, <3>1, Normal
  <2> QED BY <2>3, <2>4
<1>4. ~Refused(form)
  BY <1>3 DEF Refused
<1>5. ASSUME NEW k \in Keys
      PROVE  w[k] = IF k \in Accepted(form)
                      THEN IF form[k] = "" THEN Def[k].default ELSE form[k]
                      ELSE conf[k]
  <2>1. w[k] = IF k \in DOMAIN forced THEN forced[k]
               ELSE IF Written(form)[k] = "" THEN Def[k].default ELSE Written(form)[k]
    BY DEF Load
  <2>2. Written(form)[k] = IF k \in Accepted(form) THEN Normalize(k, form[k]) ELSE table[k]
    BY DEF Written
  <2>3. conf[k] = IF k \in DOMAIN forced THEN forced[k] ELSE IF table[k] = "" THEN Def[k].default ELSE table[k]
    BY DEF Load
  <2> HIDE DEF w
  <2>4. CASE k \in Accepted(form)
    <3>1. k \notin DOMAIN forced /\ Normalize(k, form[k]) = form[k]
      BY <1>3, <2>4
    <3>2. Written(form)[k] = form[k]
      BY <2>2, <2>4, <3>1
    <3> QED BY <2>1, <2>4, <3>1, <3>2
  <2>5. CASE k \notin Accepted(form)
    BY <2>1, <2>2, <2>3, <2>5
  <2> QED BY <2>4, <2>5
<1>6. ASSUME NEW k \in Keys, k # "ModemModel" PROVE w[k] = conf[k]
  <2>1. conf[k] = "" => Def[k].default = ""
    BY <1>1 DEF Effective
  <2> HIDE DEF w
  <2> QED BY <1>3, <1>5, <1>6, <2>1
<1>7. w["ModemModel"] \in {conf["ModemModel"], Shown(conf, "ModemModel")}
  <2>1. "ModemModel" \in Keys
    BY KeysAre
  <2> HIDE DEF w
  <2> QED BY <1>3, <1>5, <2>1
<1> QED BY <1>4, <1>6, <1>7

LEMMA SameTasks ==
    ASSUME NEW v, NEW w, \A k \in Keys : k # "ModemModel" => w[k] = v[k],
           w["ModemModel"] \in {v["ModemModel"], Shown(v, "ModemModel")}
    PROVE  /\ EffectiveModel(w) = EffectiveModel(v)
           /\ \A g \in DOMAIN Group : Task(g, w) = Task(g, v)
<1>1. w["Profile"] = v["Profile"] /\ w["ModemPassword"] = v["ModemPassword"]
  BY KeysAre
<1>2. Of("ModemModel", "password") = FALSE
  <2>1. Def["ModemModel"].kind = "select"
    BY DEF Def, Select, Field
  <2> QED BY <2>1 DEF Of
<1>3. w["ModemModel"] = v["ModemModel"] \/ (v["ModemModel"] = "" /\ w["ModemModel"] = EffectiveModel(v))
  BY <1>2 DEF Shown
<1>4. /\ ModelKnown(w) <=> ModelKnown(v)
      /\ ModelKnown(v) => ModelId(w) = ModelId(v)
  BY <1>1, <1>3 DEF EffectiveModel, ModelKnown, ModelId
<1>5. EffectiveModel(w) = EffectiveModel(v)
  BY <1>4 DEF EffectiveModel
<1>6. Driver(w) <=> Driver(v)
  BY <1>1, <1>4 DEF Driver
<1>7. ASSUME NEW g \in DOMAIN Group PROVE Task(g, w) = Task(g, v)
  <2>1. Ready(g, w) <=> Ready(g, v)
    <3>1. CASE g = "modem"
      BY <1>6, <3>1 DEF Ready
    <3>2. CASE g \in {"notifications", "debit", "meteo", "domotique"}
      BY <3>2, ReadySame
    <3>3. CASE g \notin {"modem", "notifications", "debit", "meteo", "domotique"}
      BY <3>3 DEF Ready
    <3> QED BY <3>1, <3>2, <3>3
  <2>2. g \in DOMAIN Toggle => w[Toggle[g]] = v[Toggle[g]]
    <3>1. \A x \in DOMAIN Toggle :
            Toggle[x] \in {"SpeedOn", "NotifyOn", "WeatherOn", "MQTTOn", "ProbeOn", "BackupOn", "UpdateCheck"}
      BY DEF Toggle
    <3> QED BY <3>1, KeysAre
  <2>3. Wanted(g, w) <=> Wanted(g, v)
    BY <2>2 DEF Wanted, On
  <2> QED BY <2>1, <2>3 DEF Task
<1> QED BY <1>5, <1>7

LEMMA SameInForce ==
    ASSUME NEW v, NEW w, \A k \in Keys : k # "ModemModel" => w[k] = v[k],
           w["ModemModel"] \in {v["ModemModel"], Shown(v, "ModemModel")}
    PROVE  InForce(w) = InForce(v)
<1>1. /\ w["Profile"] = v["Profile"] /\ w["ModemPassword"] = v["ModemPassword"]
      /\ w["ModemURL"] = v["ModemURL"] /\ w["RetentionDays"] = v["RetentionDays"]
      /\ w["RetentionGB"] = v["RetentionGB"] /\ w["Interval"] = v["Interval"]
      /\ w["ProbeInterval"] = v["ProbeInterval"] /\ w["ProbeTargets"] = v["ProbeTargets"]
      /\ w["BackupKeep"] = v["BackupKeep"]
  BY KeysAre
<1>2. Address(w) = Address(v)
  BY <1>1 DEF Address
<1>3. Limits(w) = Limits(v)
  BY <1>1 DEF Limits
<1>4. EffectiveModel(w) = EffectiveModel(v) /\ \A g \in DOMAIN Group : Task(g, w) = Task(g, v)
  BY SameTasks
<1>5. [g \in DOMAIN Group |-> Task(g, w)] = [g \in DOMAIN Group |-> Task(g, v)]
  BY <1>4
<1>6. [k \in Keys \ {"ModemModel"} |-> w[k]] = [k \in Keys \ {"ModemModel"} |-> v[k]]
  OBVIOUS
<1> QED BY <1>1, <1>2, <1>3, <1>4, <1>5, <1>6 DEF InForce

LEMMA UntouchedFollows == SInv => UntouchedFormKeeps
<1> SUFFICES ASSUME SInv, conf = Load(table, forced), NEW g \in Visible(conf)
    PROVE  LET form == Form(Page(g, conf))
           IN ~Refused(form) /\ InForce(Load(Written(form), forced)) = InForce(conf)
  BY DEF UntouchedFormKeeps
<1> DEFINE form == Form(Page(g, conf))
           w == Load(Written(form), forced)
<1>1. g \in Sections
  BY DEF Visible
<1>2. /\ ~Refused(form)
      /\ \A k \in Keys : k # "ModemModel" => w[k] = conf[k]
      /\ w["ModemModel"] \in {conf["ModemModel"], Shown(conf, "ModemModel")}
  BY <1>1, FormKeeps
<1>3. InForce(w) = InForce(conf)
  <2> HIDE DEF w
  <2> QED BY <1>2, SameInForce
<1> QED BY <1>2, <1>3

LEMMA TypeFollows == SInv => SettingsTypeOK
<1> SUFFICES ASSUME SInv PROVE SettingsTypeOK
  OBVIOUS
<1>1. DOMAIN table = Keys /\ DOMAIN conf = Keys /\ DOMAIN forced \subseteq Keys
  BY DEF SInv, OnRecord, Effective, ByEnvironment
<1>2. \A k \in Keys : Valid(k, table[k]) \/ table[k] = ""
  BY DEF SInv, OnRecord
<1>3. \A g \in Fetching : fetched[g] \in {None, "ok", "failed", "stale", "newer"}
  BY DEF SInv, FetchedType
<1>4. saves \in 0 .. MaxSaves /\ tab.edits \in 0 .. MaxEdits
  BY DEF SInv, Filling
<1> QED BY <1>1, <1>2, <1>3, <1>4 DEF SettingsTypeOK

-----------------------------------------------------------------------------
(* The theorems.  SInv holds: what is on table, imposed and in force passes *)
(* the checks of its setting, and nothing with a default is blank in force   *)
(* (settings.go:79, :156, :263).                                             *)
THEOREM SettingsInvariance == SettingsSpec => []SInv
<1>1. SettingsInit => SInv
  BY InitSInv
<1>2. SInv /\ [SettingsNext]_settingsVars => SInv'
  BY NextSInv
<1> QED BY <1>1, <1>2, PTL DEF SettingsSpec

(* The values on table and in force keep their type.                        *)
THEOREM SettingsTypeCorrect == SettingsSpec => []SettingsTypeOK
<1>1. SettingsSpec => []SInv
  BY SettingsInvariance
<1>2. SInv => SettingsTypeOK
  BY TypeFollows
<1> QED BY <1>1, <1>2, PTL

(* The limits given to the tasks stand whatever was saved, left blank or     *)
(* imposed (settings.go:156).                                                *)
THEOREM LimitsKept == SettingsSpec => []LimitsStand
<1>1. SettingsSpec => []SInv
  BY SettingsInvariance
<1> QED BY <1>1, LimitsFollow, PTL

(* A form sent back as its page showed it is accepted and changes nothing of *)
(* what is in force (reglages.go:182, :488; settings.go:263).                *)
THEOREM UntouchedKept == SettingsSpec => []UntouchedFormKeeps
<1>1. SettingsSpec => []SInv
  BY SettingsInvariance
<1>2. SInv => UntouchedFormKeeps
  BY UntouchedFollows
<1> QED BY <1>1, <1>2, PTL

(* The list, the warnings and the trials of the sections tell what the tasks *)
(* do (reglages.go:318, :496, :632).                                         *)
THEOREM PagesTold == SettingsSpec => []PagesTellTheTasks
<1>1. SettingsSpec => []SInv
  BY SettingsInvariance
<1>2. SInv => PagesTellTheTasks
  BY StoppedTold, TrialTold DEF PagesTellTheTasks
<1> QED BY <1>1, <1>2, PTL
==========================================================================
