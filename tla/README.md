# Mire in TLA+

Mire watches a cable modem line: it reads the modem every ten minutes, probes
the Internet every five seconds, keeps a dated journal of what changes, and
notifies its owner. This directory holds a TLA+ description of the parts of it
where order, failure and time matter, the TLC configurations that check them on
small instances, and TLAPS proofs for every value of the parameters.

    tlc -config MCProber.cfg MCProber        # a model
    tlapm LineWatch_proofs.tla               # the proofs

`PROJECT.json` lists the runs, the source lines behind every definition, the
hazards of the code with the properties that watch them, the disagreements
found between code and documentation, and the theorems.

## 1. Inventory

Mire is one Go process over one SQLite file. Web handlers run concurrently;
each background task is a goroutine started and stopped by `service.Manager`.

| Component | State | Operations | Talks to |
|---|---|---|---|
| Collection loop (`collect/loop.go`) | timer, `Manager.wake` (channel of one) | poll, store, wait, purge | modem driver, store, recorder |
| Recorder (`events/recorder.go`, `detect.go`, `power.go`) | failures, first failure; the journal | `Recorded`, `Failed`, `settleRestart` | store, modem (uptime) |
| Probe (`probe/probe.go`) | streak of misses, outage under way, aggregate; tables `link_events`, `micro_cuts`, `probe_samples` | `Round`, `resume`, `close`, `flush` | targets, store, journal |
| Notifier (`notify/`) | cursor in the settings | `poll` | journal, one outside service |
| Manager (`service/service.go`) | state in force, cancel, wait group | `Reload`, `Stop`, `Nudge`, `Pace` | starts every task above and below |
| Restart of the modem (`service/restart.go`, `modem/cga4233*.go`) | `restartMu`, driver session (token, cookie) | `RestartModem`, `Restart`, `Snapshot` | modem, journal |
| Settings (`settings/`) | table `settings` | `Load`, `Set` (key by key) | pages, Manager |
| Access (`auth/`, `webview/auth_http.go`, `setup.go`) | password hash, sessions, failures per address | first password, login, logout, change | pages |
| Demonstration (`webview/demo.go`, `work.go`) | handler, close function, work in progress | start, join, quit | pages, access |
| Home Assistant (`homeassistant/`, `mqtt/`) | connection, inbox of 8, back-off | session, publish, command | broker, restart |
| Backup and restore (`backup/`, `store/backup.go`, `migrate.go`, `cmd/mire/donnees.go`) | files of the data directory, schema version | copy, rename, remove, migrate | store |
| Retention (`store/retention.go`) | none | purge by age, by size | every table |
| Analysis (`analyze/`, `operator/`, `docsis/`, `status/`, `compensation/`) | none | pure functions | recorder, pages |
| Program log (`journal/`) | ring of 500 lines | add, read | everything |
| Weather, speed, versions, heartbeat | last answer | periodic fetch | outside services |

What is hard about it, and what each part owes:

* **The journal is the memory.** The recorder keeps two numbers in memory and
  reads everything else back from the journal, by date. Events may be dated in
  the past, writes may fail, the process may die between a reading and its
  events. *Owed*: the journal tells the present state of the line and of the
  modem; each episode has one beginning and one end, in that order.
* **A request and its conclusion are minutes apart.** The restart of the modem
  is asked from a page, noted, and concluded from later readings. *Owed*: one
  conclusion at most, and a true one; readings come closer in the meantime even
  if the wake-up meets a full channel or a poll under way.
* **Tables and memory of the probe diverge.** The outage under way is in memory
  and in a row; a stop, a crash or a refused write separates them. *Owed*:
  outages never overlap and never change once over; events follow rows;
  micro-cuts are counted once.
* **A cursor over a table that shrinks.** The notifier follows identifiers;
  notes are removed, old events purged, identifiers reused. *Owed*: nothing
  wanted and recent is skipped, nothing sent twice without a cause, the cursor
  always gets on.
* **Everything restarts when a setting is saved.** *Owed*: no task outlives its
  settings, no reload deadlocks, a save that meets no other is in force when it
  ends.
* **Requests of people interleave.** Two assistants choose the first password at
  once, a login meets a change of password, a demonstration gets ready after it
  was quit. *Owed*: one first password; a change closes the sessions of before;
  no demonstration runs with nobody to stop it.
* **A broker remembers.** Retained messages, wills and the queue of a session
  outlive the connection they came by. *Owed*: an old press never restarts the
  modem, a fresh one is not lost, the state on show is the one read last.
* **Files are moved one by one.** Copies, prunings, migrations and restores may
  die between two renames. *Owed*: a good copy always stands; the base replaced
  is kept; an update is preceded by its copy.
* **The same dates are cut in many ways.** Reports, charts, exports, metrics and
  Home Assistant each have their bounds, their holes and their now. *Owed*: they
  agree, neighbouring periods add up, and counters that reset, channels that
  come and go and readings that are missing neither add nor hide errors.
* **A form does not show everything it sends back.** *Owed*: sent untouched it
  changes nothing of what runs; a page never says that a task works which does
  not.

`PROJECT.json` ("hazards") lists these at their lines, with the properties that
watch them; two have none and say why.

## 2. Modules

| Module | What it is | Code |
|---|---|---|
| `LineWatch` | the collection loop, the recorder, the journal as they read it, with the web page, the probe, `Reload`, crashes and the clock around them | `collect/loop.go`, `events/recorder.go`, `events/detect.go`, `store/events.go`, `service/service.go` (`Pace`, `Nudge`, `Reload`), `service/restart.go` |
| `LineWatch_proofs` | the theorems about it | |
| `OutageLog` | the abstract specification of the table of outages | what `status`, `compensation` and the pages read |
| `Prober` | the probe; implements `OutageLog` | `probe/probe.go`, `store/probe.go`, `store/micro.go` |
| `Prober_proofs` | the theorems about it, the refinement among them | |
| `Notifier` | the notifier and the other writers of the journal | `notify/notify.go`, `store/events.go`, `store/retention.go` |
| `Notifier_proofs` | the theorems about it, and those about `Readings` | |
| `ModemRestart` | the restart of the modem: concurrent requests, the guard, the driver's session, the entry in the journal | `service/restart.go`, `modem/cga4233.go`, `modem/cga4233_manage.go` |
| `Manager` | the settings and the tasks they drive: saves of pages at once, the program that starts and stops | `service/service.go`, `settings/settings.go`, `settings/groups.go`, `store/settings.go`, `webview/reglages.go`, `cmd/mire/main.go` |
| `Manager_proofs` | the theorems about it | |
| `Interface` | who may use the pages: first password, sessions, changes of password, the demonstration | `auth/`, `webview/setup.go`, `auth_http.go`, `demo.go`, `work.go` |
| `Interface_proofs` | the theorems about it, and those about `Settings` | |
| `HomeAssistant` | the publisher, its connections and the broker | `homeassistant/homeassistant.go`, `mqtt/mqtt.go` |
| `HomeAssistant_proofs` | the theorems about it, and those about `ModemRestart` | |
| `Backup` | the files of the data directory | `backup/backup.go`, `store/backup.go`, `open.go`, `migrate.go`, `cmd/mire/donnees.go` |
| `Store_proofs` | the theorems about it, and those about `Periods` | |
| `Readings` | what the program makes of the readings of the modem | `modem/cga4233_parse.go`, `docsis/types.go`, `analyze/analyze.go`, `events/detect.go`, `store/errors.go`, `readings.go`, `runs.go`, `webview/explain.go` |
| `Periods` | what pages, reports, exports, metrics and Home Assistant say of a period | `webview/rapport.go`, `internet.go`, `chronologie.go`, `bars.go`, `server.go`, `status/status.go`, `compensation/`, `metrics/`, `store/report.go`, `timeline.go`, `export.go` |
| `Settings` | the settings as a person meets them: definitions, values in force, tasks, pages, forms, trials, installation | `settings/`, `service/service.go`, `webview/reglages.go`, `setup.go`, `notify/senders.go`, `cmd/mire/config.go` |
| `Sums` | lemmas about sums over finite sets, for the theorems about `Periods` and `Readings` | |
| `MC...` | small instances for TLC, one per module | |

`Manager` starts the tasks the other modules are about and hands them their
settings; `Settings` says which. `LineWatch`, `Prober` and `Notifier` share the
table of events, each as it reads it. `Readings` is what happens inside one
`Observe` of `LineWatch`; `Periods` reads what `LineWatch` and `Prober` write.
`ModemRestart` is what happens inside one `AskRestart`, and `HomeAssistant`
what brings it about.

A definition whose name begins with `Slip` is a plausible mistake in the
definition that follows it. No action uses it: put in its place, it makes one of
the properties fail, which shows that the property looks at that code.

### LineWatch

A poll is `StartPoll`, then `StoreReading` or `LoseReading` or `MissReading`,
then `Observe` or `ObserveFails`, with `Rest` setting the timer: one action per
transaction of the code, so that a crash, a reload, a request or an event of the
probe falls between any two. The journal is held as the code reads it: the
latest event, by date, of each group of kinds it asks about, and `lastAlert` for
`LastAlertTime`. One tick is the second the store keeps its dates to, so events
of one tick have equal dates and the identifier decides, as in `ORDER BY ts
DESC, id DESC`. Channel, modulation and power comparisons are abstracted to the
fact the loop depends on: an event of level Warning may be written. The verdict
of a reading, the spike, and the uptime the modem tells are chosen from small
sets, the uptime within the slack it is read with.

A request for a restart is one action here, `AskRestart`, or `AskRestartUntold`
when its entry cannot be written; `ModemRestart` is what happens inside.

History variables (`alertLost`, `judged`, `verdicts`) record what no table does
and no action reads them.

### Prober and OutageLog

One action per statement: an attempt decides in memory and writes its row
(`BeginOutage`, `EndOutage`, `EndMicroCut`), then the event (`WriteEvent`,
`TellBurst`). `Resume` is the first thing a new prober does. `Stop` is the
cancelled context (the aggregate is flushed), `Crash` is not. `FailingWrites`
names the writes the database may refuse, and `MaxFaults` how many.
`RefinesLog` is `OutageLog!Spec` with `log <- outages`: each step of the prober
begins an outage after the end of all others, ends the one that goes on, or
leaves the table alone. It is stated for runs in which no closing of a row is
refused; `ProberOngoing` shows why.

### Notifier

`idle -> reading* -> sending -> saving`, each arrow one call; writers, removed
notes and the purge come between. An entry carries its number, which the code
does not keep, so that properties can tell an event from the identifier it
bears: `id` is the greatest of the table plus one, as
SQLite gives it without AUTOINCREMENT, and may serve twice.

### ModemRestart

`asked -> guard -> call -> login -> send -> [taken] -> journal`, with
`relogin -> resend` when the modem says that the session is over. Everything
between two requests to the modem is one action, and `taken` is the moment that
matters: the modem restarts, its answer is still on the way, and the context of
the call may end there (`ContextEnds`), as it may while the call waits for one of
the two locks, `restartMu` of the service and `mu` of the driver. The collection
loop is one more process of the same driver. A save of the settings makes a
second driver, with a lock of its own; the session it opens at the modem ends
the other one's, and so it is one of the `SessionExpires`. The other calls of the
driver (pages, connected devices) take the lock and the session as a reading
does, and are readings of the collector. Of the content of the journal only
the date of the latest request is kept.

The modem may answer a request it does not take with anything, and one it takes
with anything but a session that is over, on which the driver relies when it
sends again. The code reads the answers as *demande*, *sans-reponse* or *refuse*, one
outcome in the model (`Noted`), for all three go to the journal and only the words
of the page tell them apart. `tries`, `takes`,
`lastTake` and `untold` are history variables.

### Manager

`write* -> read* -> level -> lock -> wait -> done` is a save: each setting is a
statement of its own, for `Set` as for `Load`, the level of the program log is
set before the lock is taken, and the lock is held through `wait` only. The
program goes from `read` when it starts and through `closing -> draining ->
stopped` when it stops. A task is a record of its kind and of the generation of
settings it was started for; `live` is the generation whose context is not
cancelled. What a task does is left to its own module: here it runs, and returns
once its context has ended. The conditions on which `Reload` starts a task (a
driver can be built, an address is given, a switch is on) are abstracted to one
setting per task, `Switch`. `Crash` leaves the table, half written or not, and
the program reads it again.

The pages are not waited for when the program stops, nor is a save forbidden
after `Stop`: a save under way at that moment starts tasks again. In the program
the process ends just after; in a demonstration that is closed it does not, which
is left out. The address noted with the first password is saved by `Set` without
`Reload` (module `Settings` has it). Left out too are the readers of the settings in force: they take the lock to read, they change
nothing, and no task is one of them.

`MCManager` has the level of the log, a secret that starts the collection (the
password of the modem) and a switch that the environment imposes. `alone` is a
history variable.

### Interface

A request is a few statements of the table (`Choose`, `Check`, the opening of a
session, the removal of the others) and sections under the mutex of the
demonstration, one action each, with a failure or the death of the process
between any two. A password is told by the rank of its hash, a session by the
rank of its token, so that "of before" can be said: `late` marks a session whose
password was checked before the sessions were closed and whose row was written
after, which the code does not prevent. The demonstration is prepared by a work
in the background, which puts it in service whatever happened meanwhile;
`straddled` says that a stop came during one. `Answers` is where each page sends a
browser, by its cookies and what they are still worth.

### HomeAssistant

Each step of the publisher is what it does between two waits. A connection is
told by its rank; its packets are delivered in order until it is cut, and the
broker ends the earlier connection of the same client identifier and publishes
the will of one that ends without DISCONNECT. The trial of the settings page
connects under the same identifier, which makes the two take each other's place.
`InboxSize` is eight in the code. It must be two or more: the
broker may have kept one message, which comes with the subscription, and an
inbox of one would be full of it when the first press arrives and drop it. `heard` and `owed` are history variables.

### Backup

An action is a system call or a transaction. A base is its lineage and the
version of its schema; the log beside it is the lineage it belongs to, and
opening a base beside the log of another makes it `Mixed`, for good. `VACUUM INTO`
may leave part of a file. Programs that know different versions of the schema
are started one after the other, a restore runs while none does.

### Readings

The line is a set of receivers and emitters that lock, measure and count;
channels come and go, counters reset alone or with the modem, and a tick may be
without a reading. A reading is translated as the CGA4233 driver does it, the
counters of OFDM channels by position, then stored, judged and compared as the
recorder does, and the windows of errors, the frieze and the page of a channel
are computed as the queries do. `fact` counts what really happened: the
properties compare the tables with it. The three views of errors are ordered
and not equal, for each leaves out what it cannot see.

### Periods

A small history of readings, journal, outages, micro-cuts, samples and speed
tests is built by the line, the loop and the probe; everything the pages compute
is an operator over these tables and a period, and the properties quantify over
all periods. Nothing is stored by the pages, so the module has no action of
theirs. Home Assistant, the metrics and the overview are three readings of the
same `Status`.

### Settings

A value stands for its sort: one or two of each that a check or a reader tells
apart. `Def` has the settings that decide what runs, with their kind, default,
options and check; `Load`, `Set` and the environment are as in the code, a save
being one step (`Manager` has them interleave). `Task` says of each section what
`Reload` does: the task runs, is off, or lacks something. The page of a section,
the form a browser sends back from it, the trial, the line in the list and the
warning each look at the values in force on their own, as the code does. A
browser keeps a form open across saves and restarts.

## 3. Runs

Bounds are in the `.cfg` files. `MaxTime`, `MaxFaults`, `MaxRequests`,
`MaxEvents`, `MaxChanges`, `MaxSaves` and the like bound counters; the delays keep
the order they have in the code.

| Run | Asks | Bounds | Result |
|---|---|---|---|
| `LineWatch` | is the journal true to the line, and a request watched and concluded once, and truly? | 3 dates, interval of 2, one request, reboots, one failing call, calibrated profile, verdicts Tolerated and Critical, the probe on | `SilenceIsTold`, `BackdatingIsSafe`, `JournalTellsTheLine`, `OneVerdict`, `RequestIsWatched`, `VerdictIsTrue` hold |
| `Prober` | are the tables of the probe consistent? | 8 dates, an attempt per tick, three misses an outage, two micro-cuts a burst, one refused write | `SilenceIsRecorded`, `EventsAreBacked`, `CutsAreApart` and the refinement `RefinesLog` hold |
| `ModemRestart` | is a request sent once, guarded, and ended? | two callers, 2 requests, 2 dates, a guard of 1, one failing call of the journal or crash, fair | `NeverReplayed`, `TakesAreApart`, `EveryRequestEnds` hold |
| `Notifier` | does the cursor do its work? | 3 events of three kinds, 3 dates, pages of 2, one failure, fair | `NothingSkipped`, `OnlyTheNewIsSent`, `EventuallySettled` hold |
| `Manager` | do the tasks follow the settings? | two pages, two saves, three settings, one failing statement or crash, fair | `OneGeneration`, `TasksMatchState`, `AloneIsApplied`, `LockIsReleased` hold |
| `Interface` | who is in, and what runs for them? | two browsers (symmetric) and the command line, 5 requests, one failure | `PasswordStands` (`ChosenOnce` and `ChangeClosesSessions`), `DemoIsKept`, `RedirectsEnd` hold |
| `HomeAssistant` | is what is shown true, and a press heard once? | one start, one trial, one press, two states, an inbox of 2, one cut or failure, fair | `OnlyFreshPresses`, `NoPressIsLost`, `ShownIsTrue`, `ComesBack` hold |
| `Backup` | is there always a good base to go back to? | 4 days, 2 copies kept, 2 restores, 2 failures or deaths, programs of versions 1 and 3 | `DailyCopiesStand`, `OldBaseIsKept`, `CopyBeforeUpdate` hold |
| `BackupRestore` | does the log follow its base? | one day, 2 restores, 2 failures | `LogFollowsBase` is violated |
| `Readings` | are errors, events and dates those of the line? | 4 readings, 2 changes of the line, three receivers and two emitters, powers in and out of range, a signal over noise that stays good | `ErrorsAreReal`, `ViewsAgree`, `JournalIsReal`, `EpisodesAreTrue` (`SpikesAreWhole` and `SinceIsTrue`) hold |
| `Periods` | do the pages agree about a period? | 5 dates, 3 changes, two levels, buckets and days of 2, a month of 3 | `LevelsAreTrue`, `ReportsAdd`, `PagesAgree` hold |
| `Settings` | do form, task and page understand the same values? | every section, 2 edits a form, 2 saves, several environments | `UntouchedFormKeeps`, `PagesTellTheTasks`, `LimitsStand` hold |

Why the bounds are enough to be interesting: two misses make an alert and the
streak can be broken in any place of three polls; three misses need three
attempts, and eight dates leave room for an outage, a restart in it, and another
outage or a burst; three events let one identifier serve twice and a page end
before the journal does; two callers contend for both locks while the loop holds
one; two saves meet in any order, of the same group or of two; with two browsers
and five requests a login, a change and a demonstration overlap pairwise; one
start, one trial and one cut already give three connections under one
identifier, the third of which may meet the will of the first; two faults allow
a death in a restore and another in the one that repairs it; four readings hold
a reset or a hole between two pairs, a channel that comes back, a spike that goes
on unrecorded and its end; a measure leaves its range and comes back, downstream
and upstream, and one metric is dated as another is; five dates hold a period,
the one before and a now inside or outside of either, and are longer than the
month, so that an event gets out of its window. Each
property also fails on the `Slip` definition listed with it, under the same
bounds. What is proved (section 4) needs no bound at all: the theorems hold for
every value of the bounds.

Every module but `Readings`, whose type is part of the invariant of its proof,
has a type invariant to add to a configuration of one's own: `TypeOK`,
`RestartTypeOK`, `SettingsTypeOK` or `PeriodsTypeOK`. All are proved.

**Further configurations.** `MCLineWatchJournal` and `MCLineWatchRestart` go
further than the run `LineWatch` in one direction each: a longer clock without
requests, two requests and a slack on the uptime with nothing judged. The others
each show one more disagreement, below.

**Fairness.** Four runs assume any. `Notifier`: weak fairness of the steps of a
poll. Its calls are an HTTP request under a client timeout and statements under
SQLite's busy timeout, and `Run` polls again every fifteen seconds whatever
happened. A service that refuses for ever is a fault, and faults are bounded:
the code itself gives up after an hour, which `EventuallySettled` allows.
`ModemRestart`: weak fairness of the steps of each call, whose requests to
the modem and to the database end by a timeout, and strong fairness of taking
each lock, which others take and release meanwhile: a `sync.Mutex` goes to the
longest waiting after a millisecond. `Manager`: weak fairness of the end of a
task whose context is cancelled, since each looks at its context between two
waits that a timeout bounds, and of the holder of the lock going on when its
tasks have ended. `HomeAssistant`: weak fairness of the steps of the publisher,
whose calls end by a timeout, and of the broker; strong fairness of a dead
connection being noticed, by the retransmissions of TCP and because the channel
it closes stays closed until the session selects it. Nothing is assumed of new
requests, of the modem, of contexts, of people or of the clock.

**Disagreements.** The run `BackupRestore` shows the gravest: a restore that
stops between the rename of the base and the rename of its log, run again, puts
the new base beside the log of the old one. Each of these configurations shows
another, TLC finding the property named violated:

| Configuration | Property | What the code does | What is said |
|---|---|---|---|
| `MCProberOngoing` | `OngoingIsReal` | `close` forgets the outage before `CloseOutage` succeeds (`probe/probe.go:275`): the row says *ongoing* until the next start | "Ongoing dit si la coupure dure encore" (`store/probe.go:150`) |
| `MCProberResume` | `ResumedIsMinimal` | `resume` ends an outage at the end of a sample that may not have been over (`probe/probe.go:140`) | "sa duree est donc minimale" (`probe/probe.go:127`) |
| `MCNotifierReuse` | `NothingLost` | the identifier of a note removed while it is the newest event serves again, below the cursor (`store/events.go:152`) | sent "SansPerteNiDoublon" (`notify/notify_test.go:105`) |
| `MCModemRestartGuard` | `OneTakePerGuard` | a context that ends while the answer is awaited makes the restart an error; nothing is written, a second one is not refused (`modem/cga4233_manage.go:390`) | "Une seule demande par tranche de 10 minutes" (`docs/fonctionnement.md:53`) |
| `MCManagerStale` | `SavedIsInForce` | `Reload` reads the settings before it takes the lock: of two saves at once the older settings may stay in force (`service/service.go:254`) | "Un changement s'applique aussitôt" (`docs/configuration.md:5`) |
| `MCInterfaceDemo` | `DemoEndsAtInstallation` | a demonstration still in preparation is put in service after the password was chosen (`webview/demo.go:116`) | "Choisir le mot de passe de l'instance l'arrete" (`webview/demo.go:18`) |
| `MCHomeAssistantStopped` | `OfflineOnceStopped` | a session that ended by an error is closed with DISCONNECT, which takes the will back (`homeassistant/homeassistant.go:132`) | "Un message de derniere volonte rend les capteurs indisponibles si Mire s'arrete" (`homeassistant.go:10-11`) |
| `MCBackupUpdate` | `CopyIsWhole` | a copy cut short by a death is taken for a whole one at the next start (`store/open.go:56`) | "avant de la modifier, Mire en garde une copie" (`docs/configuration.md:112`) |
| `MCReadingsCounters` | `ErrorsAreReal` | a payload without the counters of an OFDM channel reads as counters of zero, then as so many new errors (`modem/cga4233_parse.go:108`) | "une valeur absente reste nil, jamais zero" (`docsis/types.go:70-71`) |
| `MCPeriodsVerdict` | `VerdictsAreFair` | the times without Internet of two periods are compared as they are (`webview/rapport.go:529-532`) | "les deux periodes n'ont pas forcement la meme duree" (`rapport.go:537-538`) |
| `MCPeriodsAvailability` | `AvailabilityIsAShare` | the availability divides the time of the outages by the time probed, which may be shorter (`webview/internet.go:199-207`) | "La disponibilite se compte sur le temps sonde" (`internet.go:197-198`) |
| `MCPeriodsLimit` | `StripIsTrue` | the chronology reads a bounded number of events and paints the rest from the level before the period (`webview/chronologie.go:218`) | "le dernier etat inscrit avant la periode, puis chaque changement" (`chronologie.go:209-210`) |
| `MCSettingsLink` | `LinkStays` | the address noted with the first password is saved without `Reload`; the form of the notifications, shown meanwhile, erases it (`webview/setup.go:153`) | "une question de moins, modifiable ensuite" (`setup.go:151-153`) |

## 4. Proofs

`LineWatch_proofs` proves, for all values of the constants allowed by
`LineWatchAssumption`, every property the run LineWatch checks. The
assumptions on the constants are types, that the delays between polls are not
null, and that what follows an obtained reading is bounded by less than the
slack on the uptime (`SaveTimeout <= UptimeSlack`: ten seconds and one minute in
the code).

The properties are not inductive by themselves. `IInv` adds to them what relates
the clock, the tables and the streak:

* `Dates`: the latest reading is not older than the one before it and neither is
  in the future; no state event is later than the latest reading, no event of an
  outage of the modem later than the clock, and a streak did not begin in the
  future. With it the backdated event is the latest of its group, since the
  reading that would write a later one ends the streak;
* `Boots`: a start of the modem that a reading saw is not later than its present
  one, and a modem that is no longer the one of a reading started after it: this
  is what a fall of the counters proves;
* `VerdictIsDated`: once a conclusion is counted, the latest event of the group
  *restart* is later than the request, so the next reading finds it.

`Init => IInv`, `IInv /\ [Next]_vars => IInv'` (one lemma per action, one step
per conjunct) and `IInv => P` give `Invariance` and the rest; `VerdictTrue` is an
action property proved from `IInv` and the guards of `Observe`. Facts about
`Latest`, `Save`, `Batch` and the pace are lemmas of their own.

The second half of `HomeAssistant_proofs` proves the safety properties of the run
`ModemRestart`, with `RestartTypeOK` and `SentWithASession`, for any set of
callers, any guard and any number of requests, faults and crashes. Its invariant,
`RestartInv`, adds:

* `Locks`: whoever is past the guard holds `restartMu`, whoever is in the driver
  holds `mu`;
* `Fresh`: a request still to be sent was not taken, which is why a second login
  never repeats one;
* `Guarded`: what the guard saw of the journal is still true when the request is
  sent, since only the holder of `restartMu` writes there, and a call whose
  context ended before the guard was read can send nothing;
* `Told`: the latest restart taken is in the journal, or its caller is on the way
  to write it, or `untold` says why not.

`TakesApart` is an action property: `Take` under `Guarded` and `Told`.

`Manager_proofs` proves the invariants of the run `Manager` for any set of pages,
settings, groups and tasks. Its invariant adds:

* `Holder`: the lock is held by the one call that waits for tasks, and the
  context of every task is cancelled meanwhile;
* `Generation`: the tasks that run are those of the latest generation, which
  `Install` may raise because none is left;
* `ReadValues`: what a call has read so far was a value of its setting, the
  default in the place of a blank;
* `MainFirst`: no page is served before the tasks are first started.

`AloneIsApplied` rests on `AloneInv`, which follows a save that no other meets
from its first statement: what it has written is in the table, what it has read
is what the table says, and nobody else can take the lock.

`Interface_proofs` proves every property the run `Interface` checks, for any set
of browsers and any number of requests and faults. The assumption is that the
command is not a browser and that the bounds are numbers. Its invariant adds:

* `First`: nothing was chosen while there is no password;
* `Late`: a request on the way to write a session for a password whose change has
  closed the sessions read that password before they were closed: what the row it
  writes is then told by (`late`);
* `Closing`: a demonstration that a request closes is no longer shown, and no
  other request closes it;
* `Alone`: unless a stop came during a preparation, a preparation under way is
  the latest one and nothing is shown yet, so that `Install` replaces nothing.

`RedirectsStop` needs no invariant: with `Near` the page that shows itself in the
present state (the demonstration, the assistant, the page or the login), each
answer of the three routes leads to it or shows itself.

The same module proves every property of the run `Settings` (`LimitsKept`,
`UntouchedKept`, `PagesTold`, with `SettingsTypeCorrect`), for any number of saves
and whatever the environment imposes. The invariant, `SInv`, says:

* `OnRecord`: what is in the table was accepted by the check of its setting;
* `ByEnvironment`: so was what the environment imposes;
* `Effective`: hence every value in force passes its check, and nothing that has
  a default is blank in force, neither for a blank row nor for a blank variable
  (`settings.go:79-97`, which ignores the latter);
* `Filling`: the form a browser holds is a page with a bounded number of edits.

From there `UntouchedKept` goes kind by kind: what the page of a value shows, sent
back, is accepted and reads as the same value. `PagesTold` goes section by
section. A blank where a number is expected passes every check, since
`Set` returns before it: the limits stand because `Load` puts the default in its
place, which is why `Effective` and not `OnRecord` carries the proof.

`Prober_proofs` proves every property of the run `Prober`, for any threshold of
three or more, any lengths and any set of writes the database refuses. Its
invariant (`IInv`) adds to the properties:

* `Streak`: a streak began in the past and its last miss comes before the next
  attempt, so that a micro-cut never reaches the clock;
* `Row`: the outage in memory is that of the streak, and its row says so;
* `Told`: the event that is written next, and those already written, say what
  their row says, which a crash between the two cannot undo;
* `Cuts`: micro-cuts are finite in number and over, so that the burst the
  journal tells stays counted when others are added (`BurstIsBacked`).

`CutsKeptApart` and `Implements` have one hypothesis, `ClosingsHold`: the
database refuses neither the closing of a row by `close` nor by `resume`. It
cannot be dropped. A refused closing leaves a row that goes on for ever, the next
outage begins beside it, and `MCProberOngoing` shows the behaviour. Crashes,
cancellations and the refusal of any other write are allowed. Under it, `Apart`
is inductive: rows come in order, only the one in memory may be open
(`RowsInOrder`), and the streak under way began after all of them and after
every micro-cut (`StreakIsLast`). `Implements` then takes each action in turn: it
begins an outage after the end of all others, ends the one that goes on, or
leaves the table alone.

`Notifier_proofs` proves the safety properties of the run `Notifier`, for any
journal, page size, lag and number of faults. `PageIsPrefix` is the lemma about
the page: between what was read before it and its end, it holds every event, so
that moving to its end leaves none behind. The invariant adds:

* `Numbered`: the entries are finite in number and told apart by theirs;
* `Poll`: a poll goes on from the cursor, and what it sends is sent before the
  cursor moves;
* `ReadIsAccounted`: an event behind what the poll has read is old, of before the
  notifications, sent, about to be, or came too late: this becomes
  `NothingSkipped` when the cursor is saved there;
* `PastIsBehind`, `SentIsBehind`: what was there before and what was sent is
  behind the cursor, so that no later page holds it, unless a save of the cursor
  failed.

`CursorAdvances` is an action property of its own: no step moves the cursor back.

The same module proves `JournalIsReal` of `Readings` (`JournalReal`), for any
receivers and emitters, thresholds and number of readings: a restart told is one
that happened, and the channels lost and found, read in order, lead from those of
the first reading to those of the last. It assumes, as the code does, that more
than one channel must decline for a restart (`MinOverlap`, three in
`events/detect.go:39`), and, as its hypothesis `~ErrorsMayLack`, that payloads
have the counters of every channel: `MCReadingsCounters` shows the program when
they do not. The line itself is assumed to reset at most one channel on its own
between two readings, the guard of `ResetAlone`. The invariant, `RInv`, adds:

* `LineFollows`: since the last reading a counter only went up, unless the modem
  restarted or its channel was reset;
* `LatestIsSteady`: so, between the last two readings, without a restart at most
  one channel declines, and `Restarted` needs more;
* `JournalFollows`: the property said of the last reading the journal was
  compared to, which is the one before a reading that is stored and not yet
  compared (`pending`), for as long as no batch of events was lost (`untold`).

The step is `FollowsOn`: a batch tells of each channel at most once, lost when it
left and back when it came (`ChangedFacts`, part of a batch by part), and the
others do not name it. Saying where the journal started from was needed for that:
the first event of a channel is a loss exactly if the first reading had it, which
the property now states too.

`ErrorsReal` and `ViewsOrdered` prove what the pages make of the counters, under
the same hypothesis. Their invariant, `EInv`, adds to `RInv` that every reading
accounts for every later state (`Accounts`): between it and a later reading
(`Compares`) or the modem as it is (`Tracks`), a counter grew by the errors of the
channel if it was not reset, and by no more than them if it was; and that the
readings follow one another in time (`InTime`).

* `ErrorsReal`: the report adds `CounterDelta` over the pairs of readings of a
  channel that follow one another (`Pairs`), and each is at most the errors
  between the two. The errors between the ends are the sum of those
  (`Telescope`), and when nothing was reset each difference is exact.
* `ViewsOrdered`: the frieze takes a channel from one reading of the line to the
  very next; the report, between its own readings, from the one before the window
  on; the page of the channel goes back to its last reading before the window,
  however old. So each has the pairs of the one before, or counts over a longer
  step, and no step is negative. The frieze adds by reading and then by channel,
  the report by channel and then by reading: `SumSwaps` makes them comparable, and
  `DeltasCompare` does it reading by reading. With the same channels everywhere
  the three have the same pairs.

`EpisodesTrue` proves the last property of the run, under the same hypothesis and
with a threshold of errors that is a number. Its two halves have different
arguments:

* `SinceIsTrue` is a fact about tables that satisfy `EInv`. The page walks back
  over the latest rows of a channel (`Back`), a fold over a set that has no
  induction theorem here: as for sums, two walks that differed would do so on a
  smallest set of rows (`WalksAgree`), and `WalkUnfolds` says what one more row
  adds. `OnsetTells` is what the walk knows after each: the rows from its start on
  are out of range and without a hole, and once it is over either the date is a
  bound or the row before was in range (`LookTells`). `StillWarning` is why the
  row of the present state, judged without its errors and its neighbours, is still
  out of range when the verdict with them was.
* `SpikesAreWhole` needs an invariant, `SInv`: the errors of the line only grow
  (`Grows`), and of each spike in the journal the reading it is of, the excess of
  a beginning over the threshold at that reading (`Begins`), and the beginning of
  an end. A comparison tells of one spike at most (`DetectSpikes`), by what
  `LastEvent` finds (`OpenSpikeIs`). `SinceTotal` bounds the total: the window
  from the reading of the beginning has the reading before it, hence at least
  what made it a spike, and no channel counts more there than it really had. The
  total is right even when the events in between were never written, since it is
  counted again from the readings.

`Store_proofs` proves every property of the run `Backup`, for any programs of any
versions and any number of restores, days, failures and deaths. The invariant
adds:

* `Restoring`: a restore only works while no program runs, and installs a base
  only where none bears the name;
* `OldLog`: the base of the start only ever has its own log beside it, so that
  opening it never mixes it; `LogFollowsBase`, which would say this of every base,
  is what the run `BackupRestore` refutes;
* `Copies`: what the keeper is about to name is whole, and no copy is dated after
  the latest;
* `Update`: what was opened is the version of the base until the schema changes,
  and a copy that was begun and is not whole was cut short by a death.

`HomeAssistant_proofs` proves the safety properties of the run `HomeAssistant`,
for any number of starts, cuts, trials and presses and an inbox of two or more.
The invariant adds:

* `Connections`: the broker serves the last connection only, and a session has one
  that is not closed;
* `Inbox`: it holds presses heard in this session and one kept message at most,
  which only the subscription brings; a full inbox thus has a fresh press in it;
* `Said`: nothing under way on the connection of the session says that it is
  gone, and what was announced and sent last is on show or under way (`Final`).
  Packets of earlier connections, and wills, only reach a broker that the
  session's own packets correct afterwards.

The second half of `Store_proofs` proves every property of the run `Periods`
(`SharesTrue`, `LevelsTrue`, `ReportsAddUp`, `PagesCorrect`, with
`PeriodsTypeCorrect`), for any levels, lengths, windows, number of bars, fees and
histories. The invariant, `PInv`, is about the tables; the pages are then facts
about tables that satisfy it:

* `Tables`: dates are those of the past, levels and counters in bounds;
* `InOrder`: events are in the order of their dates, and no two changes of level
  have the same one, which is what a loop that stores one reading a date gives;
* `OneAtATime`: only the last outage may go on, and none ends before it began;
* `Written`: a probe that stopped has written its last bucket, so that a start
  has a bucket to end an outage with;
* `TellsTheReadings`: from the first reading on, the level told last is the level
  found last. `Beat` keeps it because it tells a change exactly when the level is
  not the one told last, at the date of the reading.

`SharesTrue` counts the dates of a period one after the other (`ShareCounts`): a
date either goes on the stretch before it or begins the next one. `LevelsTrue`
adds the strip of the chronology, as long as the journal holds no more events
than one query returns (`Len(journal) <= EventLimit`); that cannot be dropped,
since `MCPeriodsLimit` shows the strip of a longer journal. The length of a
segment is not needed for it: `SegmentsCover` says that a moment is painted
exactly when a point or an end of the period is close on each side.
`ReportsAddUp` cuts each figure at the boundary: an outage is the sum of its two
parts (`PartsAdd`), a count is that of two disjoint sets, and the errors of a
period are the sum of what its readings found (`ErrorsAre`). `PagesCorrect`
sums the same figures in another order: by bar (`SumByPart`), without the two
ends, or by kind of outage.

These are sums over sets, which the community modules define by recursion on the
set (`MapThenSumSet`); the lemmas about them are in `Sums`. No induction theorem is used: the sum is unique because of
two that differed, the smallest set they differ on would differ by an element
already agreed on (`SolutionsAgree`), and `Smallest` says that such a set exists.
The counting over dates (`Counting`) is found in the same way.

In each module a step of the proof is an action, and facts about the sequences,
sets and records it works on are lemmas.

Model-checked only: liveness, which the prover does not reach
(`EventuallySettled`, `EveryRequestEnds`, `LockIsReleased`, `ComesBack`). Every
other property of a run that passes is a theorem.

`OutageLog` is an abstract specification and has no property of its own.

## 5. Plan

The safety properties of the run of every module with processes are proved, and
those of `Settings`, of `Periods` and of `Readings`. What would come
next, in this order:

1. abstract specifications beside `OutageLog`, with their refinements: the
   deliveries a notifier owes (`Notifier`), the base a data directory stands for
   (`Backup`), and action properties of the same kind as `CursorAdvances`;
2. the disagreements of section 3, once the code has changed: the properties are
   stated and the configurations ready.

## 6. Not modelled

* The drawing of charts and the templates, wire formats and parsing (SNMP, MQTT
  packets, SMTP, the HTTP services of weather, speed and versions), the
  detection of modems and the diagnostic report, TLS: they compute one answer
  from one input and hold no state another part depends on.
* The program log, a ring behind one mutex; the limiter of logins, which only
  refuses requests; the hash of passwords, which is a library's.
* The purge by size and by age of the readings: its queries decide what is
  removed row by row. The purge of the journal is in `Notifier` only.
* The content of the demonstration, which is generated data.
* The comparison of versions and the plausibility of a reading, pure functions
  of strings and of measures the other parts do not tell apart.

Clocks are assumed not to go back.
