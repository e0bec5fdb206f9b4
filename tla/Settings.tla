------------------------------ MODULE Settings ------------------------------
\* The settings as a person meets them: the definition of each
\* (settings/groups.go), its value in force (settings.go), what is started with
\* it (service.Resolve and Reload), the page of a section, the form it sends
\* back, its trial and the summary of the section (webview/reglages.go), and
\* the guided installation (webview/setup.go).  Module Manager has the calls
\* that interleave; here a save is one step, and what is at stake is that the
\* form, the tasks and the page understand the same values.
\*
\* A value is the string the table keeps, one or two of each sort a check or a
\* reader of it tells apart.
EXTENDS Sequences, FiniteSets, Naturals

CONSTANTS
  Sections,      \* the groups people edit here
  Typed,         \* what they type in each text field they edit
  Environments,  \* what the environment may impose at a start
  MaxEdits,      \* bound: fields changed in a form
  MaxSaves       \* bound: forms sent

None == "none"

-----------------------------------------------------------------------------
\* The definitions.

Field(kind, default, options, check) ==
  [kind |-> kind, default |-> default, options |-> options, check |-> check]
Switch(default) == Field("bool", default, <<>>, None)
Text(check) == Field("text", "", <<>>, check)
Secret(check) == Field("password", "", <<>>, check)
Select(default, options) == Field("select", default, options, None)
Number(kind, default, check) == Field(kind, default, <<>>, check)

\* The options of a list in the order it shows them; calibrated profiles first.
Models == <<"cga4233", "docsis-snmp", "autre">>
Profiles == <<"telenet", "voo", "generique">>
Services == <<"ntfy", "gotify", "discord", "telegram", "slack", "mail", "webhook">>

Def == [
  ModemModel |-> Select("", Models), ModemURL |-> Text("url"), ModemPassword |-> Secret(None),
  Interval |-> Number("duration", "10m", "interval"),
  RetentionDays |-> Number("integer", "3650", "positive"), RetentionGB |-> Number("number", "5", "positive"),
  Profile |-> Select("voo", Profiles), MonthlyFee |-> Number("number", "", "positive"),
  ProbeOn |-> Switch("true"), ProbeTargets |-> Field("text", "h:443", <<>>, "targets"),
  ProbeInterval |-> Number("duration", "5s", "probe"),
  SpeedOn |-> Switch("false"), SpeedSource |-> Select("speedtest-tracker", <<"speedtest-tracker", "unifi">>),
  SpeedURL |-> Text("url"), SpeedToken |-> Secret(None), SpeedUser |-> Text(None), SpeedPassword |-> Secret(None),
  NotifyOn |-> Switch("false"), NotifyService |-> Select("ntfy", Services), NotifyLink |-> Text("url"),
  NtfyTopic |-> Text(None), GotifyURL |-> Text("url"), GotifyToken |-> Secret(None),
  DiscordURL |-> Secret("url"), TelegramToken |-> Secret(None), TelegramChat |-> Text(None),
  SlackURL |-> Secret("url"), MailServer |-> Text("hostport"), MailFrom |-> Text("mail"),
  MailTo |-> Text("mail"), WebhookURL |-> Text("url"),
  WeatherOn |-> Switch("false"), WeatherPosition |-> Text(None),
  MQTTOn |-> Switch("false"), MQTTServer |-> Text("mqtt"),
  BackupOn |-> Switch("true"), BackupKeep |-> Number("integer", "7", "copies"),
  UpdateCheck |-> Switch("false")]
Keys == DOMAIN Def

Group == [
  modem |-> {"ModemModel", "ModemURL", "ModemPassword"},
  collecte |-> {"Interval", "RetentionDays", "RetentionGB"},
  analyse |-> {"Profile"}, abonnement |-> {"MonthlyFee"},
  sonde |-> {"ProbeOn", "ProbeTargets", "ProbeInterval"},
  debit |-> {"SpeedOn", "SpeedSource", "SpeedURL", "SpeedToken", "SpeedUser", "SpeedPassword"},
  notifications |-> {"NotifyOn", "NotifyService", "NotifyLink", "NtfyTopic", "GotifyURL", "GotifyToken",
                     "DiscordURL", "TelegramToken", "TelegramChat", "SlackURL", "MailServer", "MailFrom",
                     "MailTo", "WebhookURL"},
  meteo |-> {"WeatherOn", "WeatherPosition"}, domotique |-> {"MQTTOn", "MQTTServer"},
  sauvegarde |-> {"BackupOn", "BackupKeep"}, versions |-> {"UpdateCheck"}]
Toggle == [debit |-> "SpeedOn", notifications |-> "NotifyOn", meteo |-> "WeatherOn",
           domotique |-> "MQTTOn", sonde |-> "ProbeOn", sauvegarde |-> "BackupOn", versions |-> "UpdateCheck"]

ASSUME SettingsAssumption ==
  /\ Sections \subseteq DOMAIN Group /\ MaxEdits \in Nat /\ MaxSaves \in Nat
  /\ DOMAIN Typed \subseteq Keys
  \* a variable left blank imposes nothing
  /\ \A e \in Environments : DOMAIN e \subseteq Keys /\ \A k \in DOMAIN e : e[k] # ""

Of(k, kind) == Def[k].kind = kind

\* An address typed without its scheme is given one.
Completed == [h |-> "http://h"]
Completes == {"ModemURL", "SpeedURL", "NotifyLink"}
Normalize(k, v) == IF k \in Completes /\ v \in DOMAIN Completed THEN Completed[v] ELSE v

\* The values of each sort, among those of the model; "nan" reads as a number.
Integers == {"0", "7", "400", "3650", "-1"}
Numbers == Integers \cup {"5", "nan"}
Durations == {"0s", "5s", "10m", "1h"}

\* The check of a setting, on a value its kind allows.
Passes(check, v) ==
  CASE check = "url" -> v \in {"", "http://h"}
    [] check = "positive" -> v # "-1"
    [] check = "copies" -> v = "7"
    [] check = "interval" -> v \notin {"0s", "5s"}
    [] check = "probe" -> v \notin {"0s", "1h"}
    [] check = "targets" -> v \in {"", "h:443"}
    [] check = "mqtt" -> v \in {"", "mqtt://h"}
    [] check = "hostport" -> v \in {"", "h:443"}
    [] check = "mail" -> v \in {"", ",", "a@h"}
    [] OTHER -> TRUE

OfKind(d, v) ==
  CASE d.kind = "bool" -> v \in {"true", "false"}
    [] d.kind = "integer" -> v \in Integers
    [] d.kind = "number" -> v \in Numbers
    [] d.kind = "duration" -> v \in Durations
    [] d.kind = "select" -> v = "" \/ \E i \in DOMAIN d.options : d.options[i] = v
    [] OTHER -> TRUE
\* A number left blank is not checked any further.
Valid(k, v) ==
  \/ v = "" /\ Def[k].kind \in {"bool", "integer", "number", "duration"}
  \/ OfKind(Def[k], v) /\ Passes(Def[k].check, v)

-----------------------------------------------------------------------------
\* The values in force.

SlipLoad(saved, imposed) == [k \in Keys |-> IF k \in DOMAIN imposed THEN imposed[k] ELSE saved[k]]
\* Imposed, else saved, else the default: left blank is not zero.
Load(saved, imposed) ==
  [k \in Keys |-> IF k \in DOMAIN imposed THEN imposed[k]
                  ELSE IF saved[k] = "" THEN Def[k].default ELSE saved[k]]
On(v, k) == v[k] = "true"

\* The environment at a start, read with its addresses completed; one value
\* not valid and the program does not start.
Imposed(e) == [k \in DOMAIN e |-> Normalize(k, e[k])]
Starts(e) == \A k \in DOMAIN e : Valid(k, Imposed(e)[k])

\* service.Resolve: the model comes from the profile when none was chosen.
Country(v) == IF v.Profile = "generique" THEN "" ELSE "BE"
ModelId(v) == IF v.ModemModel # "" THEN v.ModemModel ELSE IF v.Profile = "voo" THEN "cga4233" ELSE ""
ModelKnown(v) == ModelId(v) \in {"cga4233", "docsis-snmp"}
Address(v) ==
  IF v.ModemURL # "" THEN v.ModemURL ELSE IF v.Profile = "generique" THEN "192.168.0.1" ELSE "192.168.100.1"
\* A model read by SNMP goes without a password.
Driver(v) == ModelKnown(v) /\ (v.ModemPassword # "" \/ ModelId(v) = "docsis-snmp")

\* What the service of the notifications cannot go without (notify.New).
Needs(service) ==
  CASE service = "ntfy" -> {"NtfyTopic"}
    [] service = "gotify" -> {"GotifyURL", "GotifyToken"}
    [] service = "discord" -> {"DiscordURL"}
    [] service = "telegram" -> {"TelegramToken", "TelegramChat"}
    [] service = "slack" -> {"SlackURL"}
    [] service = "mail" -> {"MailServer", "MailFrom", "MailTo"}
    [] OTHER -> {"WebhookURL"}
Sender(v) == \A k \in Needs(v.NotifyService) : v[k] # ""

\* service.SpeedReady: a gateway takes a key or an account.
SpeedReady(v) ==
  /\ v.SpeedURL # ""
  /\ IF v.SpeedSource = "unifi" THEN v.SpeedToken # "" \/ (v.SpeedUser # "" /\ v.SpeedPassword # "")
     ELSE v.SpeedToken # ""

\* What Reload does of each task: it runs, it is off, or something is missing.
Ready(g, v) ==
  CASE g = "modem" -> Driver(v)
    [] g = "notifications" -> Sender(v)
    [] g = "debit" -> SpeedReady(v)
    [] g = "meteo" -> v.WeatherPosition # ""
    [] g = "domotique" -> v.MQTTServer # ""
    [] OTHER -> TRUE
Wanted(g, v) == g \notin DOMAIN Toggle \/ On(v, Toggle[g])
Task(g, v) == IF ~Wanted(g, v) THEN "off" ELSE IF Ready(g, v) THEN "runs" ELSE "lacks"

\* The limits the tasks are given.  A size that is not a number limits nothing.
Limits(v) == [
  unlimitedAge |-> v.RetentionDays \in {"", "0"},
  unlimitedSize |-> v.RetentionGB \in {"", "0", "nan"},
  interval |-> IF v.Interval \in {"", "0s", "5s"} THEN "10m" ELSE v.Interval,
  probe |-> v.ProbeInterval,
  targets |-> IF v.ProbeTargets = "" THEN Def.ProbeTargets.default ELSE v.ProbeTargets,
  keep |-> v.BackupKeep]

-----------------------------------------------------------------------------
\* The pages.

VARIABLES
  table,    \* the settings on record
  forced,   \* what the environment imposes
  conf,     \* Manager.state: the values in force
  fetched,  \* how the last attempt of each task went, since it started
  tab,      \* the form being filled in: its section, what it holds, its edits
  saves
settingsVars == <<table, forced, conf, fetched, tab, saves>>

Fetching == {"meteo", "debit", "domotique", "versions"}

\* The sections for the country of the operator.
Visible(v) == {g \in Sections : g = "abonnement" => Country(v) = "BE"}

\* The model in force, to choose in the list when none was.
EffectiveModel(v) == IF ModelKnown(v) THEN ModelId(v) ELSE "autre"
SlipShown(v, k) == IF Of(k, "password") THEN "" ELSE v[k]
Shown(v, k) ==
  IF Of(k, "password") THEN ""
  ELSE IF k = "ModemModel" /\ v[k] = "" THEN EffectiveModel(v) ELSE v[k]
Page(g, v) == [k \in Group[g] |-> Shown(v, k)]

\* A group switched off by the environment has no button.
Inert(g, v) == g \in DOMAIN Toggle /\ Toggle[g] \in DOMAIN forced /\ ~On(v, Toggle[g])

\* What the browser sends of a page: the locked fields are not sent, and a
\* list that shows none of its options sends the first.
Sent(k, v) ==
  IF Of(k, "select") /\ ~Valid(k, v) THEN Def[k].options[1]
  ELSE IF Of(k, "select") /\ v = "" THEN Def[k].options[1] ELSE v
Form(page) == [k \in DOMAIN page \ DOMAIN forced |-> Sent(k, page[k])]

\* settings.Set: everything is checked before anything is written; a secret
\* left blank stays.
SlipAccepted(form) == {k \in DOMAIN form : k \notin DOMAIN forced}
Accepted(form) == {k \in DOMAIN form : k \notin DOMAIN forced /\ ~(Of(k, "password") /\ form[k] = "")}
Refused(form) == \E k \in Accepted(form) : ~Valid(k, Normalize(k, form[k]))
Written(form) == [k \in Keys |-> IF k \in Accepted(form) THEN Normalize(k, form[k]) ELSE table[k]]

\* The trial of a section, from the values in force: it starts whether the
\* section is on or not.
Trial(g, v) ==
  CASE g = "modem" -> IF Driver(v) THEN "tries" ELSE "impossible"
    [] g = "notifications" -> IF Sender(v) THEN "tries" ELSE "impossible"
    [] g = "debit" -> IF SpeedReady(v) THEN "tries" ELSE "impossible"
    [] g = "meteo" -> IF v.WeatherPosition = "" THEN "impossible" ELSE "tries"
    [] g = "domotique" -> IF v.MQTTServer = "" THEN "impossible" ELSE "tries"
    [] g = "versions" -> IF On(v, "UpdateCheck") THEN "tries" ELSE "impossible"
Tried == {"modem", "notifications", "debit", "meteo", "domotique", "versions"}

\* The line of a section in the list of the settings, and whether it calls for
\* attention.
Line(what, attention) == [what |-> what, attention |-> attention]
SlipSummary(g) ==
  IF Task(g, conf) = "lacks" THEN Line("arrete", TRUE)
  ELSE IF Task(g, conf) = "off" THEN Line("desactive", FALSE) ELSE Line("actif", FALSE)
LastTold(g) ==
  CASE fetched[g] = None -> Line("en cours", FALSE)
    [] fetched[g] = "failed" -> Line("echec", g # "versions")
    [] fetched[g] = "stale" -> Line("ancien", TRUE)
    [] fetched[g] = "newer" -> Line("nouvelle", TRUE)
    [] OTHER -> Line("actif", FALSE)
Summary(g) ==
  LET task == Task(g, conf)
  IN CASE task = "lacks" -> Line("arrete", TRUE)
       [] task = "off" -> Line("desactive", FALSE)
       [] task = "runs" -> IF g \in Fetching THEN LastTold(g) ELSE Line("actif", FALSE)

\* The warning at the top of the section.
Warning(g) ==
  LET task == Task(g, conf)
  IN IF g \in {"notifications", "meteo", "debit", "domotique"} /\ task = "lacks" THEN "lacks"
     ELSE IF g \in {"meteo", "debit", "domotique"} /\ task = "runs" /\ fetched[g] = "failed" THEN "failed"
     ELSE None

-----------------------------------------------------------------------------
\* What happens.

Closed == [section |-> None, page |-> <<>>, edits |-> 0]
Unfetched == [g \in Fetching |-> None]

SettingsInit ==
  /\ table = [k \in Keys |-> ""]
  /\ \E e \in Environments : Starts(e) /\ forced = Imposed(e)
  /\ conf = Load(table, forced) /\ fetched = Unfetched
  /\ tab = Closed /\ saves = 0

Reload == conf' = Load(table', forced') /\ fetched' = Unfetched

OpenPage(g) ==
  /\ tab = Closed /\ saves < MaxSaves
  /\ g \in Visible(conf) /\ ~Inert(g, conf)
  /\ tab' = [section |-> g, page |-> Page(g, conf), edits |-> 0]
  /\ UNCHANGED <<table, forced, conf, fetched, saves>>

\* What a person may put in a field.
Choices(k) ==
  CASE Of(k, "bool") -> {"true", "false"}
    [] Of(k, "select") -> {Def[k].options[i] : i \in DOMAIN Def[k].options} \cap (IF k \in DOMAIN Typed THEN Typed[k] ELSE {})
    [] OTHER -> IF k \in DOMAIN Typed THEN Typed[k] \cup {""} ELSE {}
Edit(k, v) ==
  /\ tab # Closed /\ tab.edits < MaxEdits
  /\ k \in Group[tab.section] \ DOMAIN forced /\ v \in Choices(k) /\ v # tab.page[k]
  /\ tab' = [tab EXCEPT !.page[k] = v, !.edits = @ + 1]
  /\ UNCHANGED <<table, forced, conf, fetched, saves>>

\* Sent, with or without a trial.  Refused, the page keeps what was typed but
\* the secrets.
Submit ==
  /\ tab # Closed /\ saves < MaxSaves /\ saves' = saves + 1 /\ UNCHANGED forced
  /\ LET form == Form(tab.page)
     IN IF Refused(form)
          THEN /\ tab' = [tab EXCEPT !.page = [k \in DOMAIN @ |-> IF Of(k, "password") THEN "" ELSE @[k]]]
               /\ UNCHANGED <<table, conf, fetched>>
          ELSE table' = Written(form) /\ tab' = Closed /\ Reload

\* The guided installation: the password of the interface, before any page is
\* served, comes with the address of Mire, on record before it is in force; then
\* the operator and the interval; then the modem.
SetupPassword ==
  /\ saves = 0 /\ tab = Closed /\ table.NotifyLink = "" /\ conf.NotifyLink = ""
  /\ table' = Written([k \in {"NotifyLink"} |-> "http://h"])
  /\ UNCHANGED <<forced, conf, fetched, tab, saves>>

SetupForm(form) ==
  /\ saves < MaxSaves /\ saves' = saves + 1 /\ ~Refused(form)
  /\ table' = Written(form) /\ UNCHANGED <<forced, tab>> /\ Reload
SetupOperator == \E p \in Choices("Profile") : SetupForm([Profile |-> p, Interval |-> conf.Interval])
\* The page proposes the model it found on the network.
SetupModem ==
  \E m \in Choices("ModemModel"), p \in Choices("ModemPassword") :
    SetupForm([ModemModel |-> m, ModemURL |-> conf.ModemURL, ModemPassword |-> p])

\* A task tried to reach its service.
Fetched(g, how) ==
  /\ g \in Sections \cap Fetching /\ Task(g, conf) = "runs" /\ fetched[g] # how
  /\ how = "stale" => g = "debit"
  /\ how = "newer" => g = "versions"
  /\ fetched[g] # "newer"  \* once known, a version stays known
  /\ fetched' = [fetched EXCEPT ![g] = how]
  /\ UNCHANGED <<table, forced, conf, tab, saves>>

\* The program is started again, maybe with another environment; a page left
\* open in a browser stays.
Restart ==
  /\ \E e \in Environments : Starts(e) /\ forced' = Imposed(e)
  /\ UNCHANGED <<table, tab, saves>> /\ Reload

Leave == tab # Closed /\ tab' = Closed /\ UNCHANGED <<table, forced, conf, fetched, saves>>

SettingsNext ==
  \/ \E g \in Sections : OpenPage(g)
  \/ \E k \in Keys : \E v \in Choices(k) : Edit(k, v)
  \/ Submit
  \/ Leave
  \/ SetupPassword
  \/ SetupOperator
  \/ SetupModem
  \/ \E g \in Fetching, how \in {"ok", "failed", "stale", "newer"} : Fetched(g, how)
  \/ Restart

SettingsSpec == SettingsInit /\ [][SettingsNext]_settingsVars

-----------------------------------------------------------------------------
\* Properties.  But for the last they do not speak of the form being filled in,
\* which may always be left: they are evaluated where there is none.

SettingsTypeOK ==
  /\ DOMAIN table = Keys /\ DOMAIN conf = Keys /\ DOMAIN forced \subseteq Keys
  /\ \A k \in Keys : Valid(k, table[k]) \/ table[k] = ""
  /\ \A g \in Fetching : fetched[g] \in {None, "ok", "failed", "stale", "newer"}
  /\ saves \in 0..MaxSaves /\ tab.edits \in 0..MaxEdits

\* What the tasks are given, apart from the raw values.
InForce(v) ==
  [model |-> EffectiveModel(v), address |-> Address(v), secret |-> v.ModemPassword, limits |-> Limits(v),
   tasks |-> [g \in DOMAIN Group |-> Task(g, v)], values |-> [k \in Keys \ {"ModemModel"} |-> v[k]]]

\* A form sent back as the page showed it is accepted and changes nothing of
\* what is in force: the secrets it does not show, the model nobody chose and
\* the fields of another country stay (reglages.go:182, :488; settings.go:263).
UntouchedFormKeeps ==
  tab = Closed /\ conf = Load(table, forced) =>
    \A g \in {x \in Visible(conf) : ~Inert(x, conf)} :
      LET form == Form(Page(g, conf))
      IN ~Refused(form) /\ InForce(Load(Written(form), forced)) = InForce(conf)

\* A section that is on and does not do its work says so in the list, and what
\* its page warns of calls for attention in the list too (reglages.go:318, :496).
StoppedIsTold ==
  tab = Closed => \A g \in Sections :
    /\ Wanted(g, conf) /\ ~Ready(g, conf) => Summary(g).attention
    /\ g \in Fetching /\ Task(g, conf) = "runs" /\ fetched[g] = "failed" => Summary(g).what = "echec"
    /\ Warning(g) # None => Summary(g).attention
    /\ Summary(g).what = "actif" => Task(g, conf) = "runs"

\* The trial of a section foretells what it will do once on: it is refused for
\* want of a value exactly when the task would be (reglages.go:632).
TrialForetells ==
  tab = Closed => \A g \in Tried \cap Sections :
    LET on == IF g \in DOMAIN Toggle THEN [conf EXCEPT ![Toggle[g]] = "true"] ELSE conf
    IN g # "versions" => (Trial(g, conf) = "impossible" <=> Task(g, on) = "lacks")

\* So the pages tell what the tasks do, and would do.
PagesTellTheTasks == StoppedIsTold /\ TrialForetells

\* The limits the tasks work with stand whatever was saved, left blank or
\* imposed (settings.go:156): the age and the size of what is kept have no
\* limit only when somebody asked so, the copies kept and the pace of the probe
\* are within their bounds.
LimitsStand ==
  LET l == Limits(conf)
  IN tab = Closed =>
     /\ l.unlimitedAge => conf.RetentionDays = "0"
     /\ l.unlimitedSize => conf.RetentionGB \in {"0", "nan"}
     /\ l.interval \in {"10m", "1h"} /\ l.probe \in {"5s", "10m"} /\ l.keep = "7"
     /\ l.targets = "h:443"

\* An address told to the person of the installation is not lost by a form
\* opened before it was in force (setup.go:153).
LinkStays == [][table.NotifyLink # "" /\ tab.edits = 0 => table'.NotifyLink # ""]_settingsVars
=============================================================================
