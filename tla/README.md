# Sniparr in TLA+

Sniparr is a Flask application with a dozen background threads over one SQLite
database. For every configured instance of an *arr application it repeats
*cycles*: it asks the instance for missing and upgradable items, has it search
for some of them, remembers which, and counts the searches against an hourly
cap. A second loop, Swaparr, removes downloads that make no progress. Almost
every interesting state is a row read in one transaction and written in another
by a different thread; the first half of the modules is about that. The other
half is about the browser: one page that never reloads, whose sections, lists,
forms and timers share a screen and send requests that nothing orders.

Paths below are relative to `src/primary/` of the repository, those of `.js`
files to `frontend/static/js/`, unless they start with another directory.

## Inventory

| Part | State it keeps | Operations | Hard behaviour | Correct when |
|---|---|---|---|---|
| **Hunting loop** `background.py` (`app_specific_loop`, `_process_one_instance`, `_responsive_sleep`) | per application: the instances of the round, `next_cycle_time` and `cycle_lock` rows, `stop_event` | plan a round, a worker per due instance, sleep that looks for resets | workers in parallel; resets that arrive anywhere; crash, dead thread, failed write | no reset is lost; every lock is released; a stop ends everything |
| **Cycle tracker** `cycle_tracker.py` | `sleep_data_per_instance` | `start_cycle`, `end_cycle`, `update_next_cycle`, `get_cycle_status` (which writes) | read–modify–write without the module's lock | a running instance is shown as running |
| **Manual reset** `web_server.py`, `utils/database.py` | `reset_requests[_per_instance]` | file, look, mark processed | marked in one transaction, applied in another | served once, eventually |
| **Hunts** `apps/*/missing.py`, `upgrade.py`, `apps/_common` | selected items of a worker | select, mark, search, count, stop | seven applications, in seven different orders of these steps | nothing searched twice, nothing marked and not searched |
| **Stateful memory** `stateful_manager.py`, `stateful_routes.py` | processed ids, a lock per instance, a global lock | add, test, expire, reset | two transactions per reset, three threads that reset | forgets when and only when it should |
| **Hourly cap** `stats_manager.py`, `background.py` | `hourly_caps_per_instance` | test, increment, zero | tested and counted in different steps, zeroed by two threads in minute 0 only | cap kept, and released |
| **Swaparr** `apps/swaparr/handler.py`, `swaparr_routes.py` | strikes and removed items per application | run, manual run, reset | whole-state load at the start and save at the end | strikes belong to their download |
| **Swaparr loop** `background.py` | its cycle row | sleep, reset | counted sleep, resets that file no request | a reset starts a run |
| **Scheduler engine** `scheduler_engine.py` | `last_executed_actions` (memory), history | check every 60 s, execute an action on settings | window, guard, cooldown, restart | once per scheduled time |
| **Settings** `settings_manager.py` | rows, a 30 s cache of mutable dictionaries | load (may save), save, clear | loads race saves | a load after a save returns it |
| **Mount monitor** `utils/mount_monitor.py` | `pending_imports` queue | queue, retry, clear | queue read, slow work, queue written | nothing lost or resurrected |
| **Database** `utils/database.py` | connections, the file | connect, retry, recover from corruption | several threads recover at once | recovered once |
| **Backup** `src/routes/backup_routes.py` | backup folders, `last_backup_time` | schedule, create, restore, retain | live file copied; two-step schedule | a listed backup can be restored |
| **Authentication** `auth.py`, `security/` | sessions, failure counts | log in, verify, sweep | session table shared by threads | a valid session verifies |
| **Stuck imports** `apps/sonarr/stuck_import_resolver.py`, `episode_group_bridge.py` | none | match and import | stale queue | one import per item |
| **List pages** `modules/features/settings/{custom-formats,indexers,root-folders,remote-mappings,import-lists}.js`, `modules/features/{indexer-hunt,history,hunt_manager,indexer-hunt-history}.js` | selection, page, rows, the entry under edit, disabled buttons | select, turn, add, edit, remove one or all, import | answers of an earlier selection; positions that shift; the instance the server thinks is current | shows what is selected; hits the entry that was confirmed |
| **Settings forms** `modules/features/settings/{core,general,logs,swaparr,instance-editor,prowlarr,movie-management,tv-management,profile-editor,notifications,indexer-editor}.js` | fields, unsaved flags, `originalSettings`, timeouts of the redraw | open, edit, save, leave | edits while a save is unanswered; late loads; whole objects sent back | no edit lost unasked; each object gets its own fields |
| **Navigation** `app.js`, `modules/core/{navigation,confirm-modal}.js` | address, section, open question, flags | click, Back, address bar, reload, answer a question | events behind a dialog; one question replacing another | asked before edits are lost; address and section agree |
| **Log view, countdown, statistics** `modules/features/logs/logs-main.js`, `modules/ui/{cycle-countdown,stats}.js` | intervals, timeouts, requests in flight | switch app, poll, clear, reset a cycle | timers of a section that is left; handles overwritten | one poll per section shown; comes to agree with the server |
| the rest | | | | notifications, history, logging, media probe and rename, TMDB caches, Prowlarr statistics, indexer snipe, installers, other pages: see "Not modelled" |

How they interact. The hunting loop starts a worker per instance; the worker
calls the cycle tracker, the stateful memory, the hunts, and through them the
cap. The web server's threads write reset requests, clear the memory, run and
reset Swaparr, poll `get_cycle_status` (which writes rows) and save settings.
The scheduler's thread clears the memory when the global lock expires and
changes settings. The hourly thread zeroes the counters. The browser's pages
call the web server and each other through globals (`window.sniparrUI`,
`window.SettingsForms`, `window._hasUnsavedChanges`); no request carries a
number and no handler asks whether its answer is still wanted. There is no shared
lock: the only synchronisation is one SQLite transaction, plus a few
`threading.Lock`s that cover one module's reads or writes.

## Modules

| Module | Models | Used by |
|---|---|---|
| `CycleAgenda` | abstract: what the hunting loop promises about resets | `HuntCycle`, by a refinement mapping |
| `HuntCycle` | hunting loop, cycle tracker, manual reset, poller, supervisor, crash | `MCHuntCycle`, `HuntCycle_proofs` |
| `Hunt` | what a worker does between start and end of a cycle: hunts of all seven applications, stateful memory, hourly cap | `MCHunt`, `Hunt_proofs` |
| `Swaparr` | runs of `run_swaparr` by the loop and by hand, resets, the queues | `MCSwaparr`, `Swaparr_proofs` |
| `ListServer` | requests of the list pages and the server's lists | `Lists` |
| `Lists` | ten list pages: every click and every end of a request | `MCLists`, `Lists_proofs`, `Lists_user_proofs`, `Lists_shown_proofs` |
| `FormServer` | requests of the forms and the server's objects | `Forms` |
| `Forms` | ten settings forms: clicks, ends of requests, timeouts, the shared save of `core.js` | `MCForms`, `Forms_proofs` |
| `HomeTimers` | the countdown of the home page, as operators on its state | `Sections` |
| `Sections` | navigation and dialogs, with the log view, the countdown and the statistics running beside them | `MCSections`, `Sections_proofs` |

One step of a module is one database transaction, one call to an *arr
application, or one decision between two of these; a state that lives in a local
variable of a thread is a variable of the model, so that everything another
thread may do in between does happen. Time is what the code tests: a deadline
is `"none"`, `"due"` or `"future"`, a lock `"valid"` or `"expired"`, a
counter's `last_reset_hour` is this hour or not.

### HuntCycle

`configured` are the instances the settings enable; `next`, `cycleLock`,
`pending` the rows of the database; `loop`, `all`, `round`, `toScan`,
`applying` the position and locals of `app_specific_loop` and
`_responsive_sleep`; `worker`, `snapshot` those of the workers; `poll`,
`pollDefault` those of `get_cycle_status`. Each action is one step of one of
these: `LoopTop`, `PlanRound` and `RoundDone` for the loop; `ScanReset`,
`ApplyReset`, `SleepElapsed` ... for the sleep, which marks a request
(`ScanReset`) and writes the time (`ApplyReset`) in two transactions;
`StartRead`/`StartWrite` for the unlocked read–modify–write of `start_cycle`;
`CheckReset`, `Preflight`, `MissingDone`, `UpgradesDone` for the places where a
worker may stop early; `EndCycle` for `end_cycle`; `PollRead`, `PollPending`,
`PollPersist` for the poller; `RequestReset` for the web server; and
`Crash`, `ThreadDies`, `WorkerRaises`, `EndCycleFails`, `StartWriteFails`,
`ApplyResetFails` for what may go wrong. What a worker hunts is left to `Hunt`.

Abstractions: `set_sleep_data_per_instance`'s SELECT and UPDATE are one step; a
computed `sleep_seconds` only says whether some instance is due. A loop that waits a
minute because `enable_third_party_apps` is off (`background.py:308`) or the settings
could not be loaded (`:322`) stutters at `LoopTop`.

`KeepsAgenda` says that all this implements `CycleAgenda`, a specification
without threads, rows and sleeps: a request is *asked*, *taken* and *granted*.
The mapping reads `asked` off the pending rows, `taken` off the instance between
`ScanReset` and `ApplyReset`, `due` off `next`, and `running` off the workers
in a hunt. A request is taken only between cycles, no cycle begins before it is
granted, no one takes a due time away but the cycle that begins or ends, and a
request is dropped only by a fault at that moment.

### Hunt

One module for Sonarr, Radarr, Lidarr, Readarr, Whisparr, Eros and Sportarr.
They differ in a record (`Hunts`): marked before the search or after, one item
at a time or all at once, counted per search or per item and with how much,
whether the command is awaited, where `stop_check` and the cap are looked at,
and under which name items are marked. `RadarrMissing`, `RadarrUpgrade` ...
`SportarrUpgrade` give the record of each of the fourteen files. `app` says
which application an instance is of: any of `Applications`, chosen in `Init`, so
that one run covers several. A worker goes through `Initialize`,
`CheckExpiry`, `Forget`, `Relock`, `Gate` (the preamble), `Select`, `Take`,
`MarkFirst`/`MarkThen`, `Search`, `Waited`, `CheckHour`, `ZeroFirst`, `Add`,
`HuntEnds`. Around it run `CheckGlobal`, `ClearAll`, `LockAll` (the scheduler's
global expiry and POST `/api/stateful/reset`), `UserForgets`, `UserRelocks`
(one instance), `HourlyReset`, the clock and `Crash`.

Abstractions: the selection of items is any subset of what is unprocessed, up
to the hunt size; a stop of any origin is one input; that the whole memory is
looked up per item or per list is not told apart. Eros and Sportarr count inside
their HTTP helper and API function as well: all counts of a search are taken
where the hunt counts it. The items of a batch are marked one after the other;
here in one step, of which any part may fail. A season counted episode by
episode is counted in one
step. A counter without a row is a counter of zero. The global expiry and the
global reset by a user are kept apart by `clearing`, so two of them do not
overlap. A last hour is not this hour: that 24 hours later it reads as the same
hour is not modelled. Left out: Sonarr's tag-based upgrade mode (which does not
look at the cap) and its shows mode, Lidarr's artist mode and low match queue,
`state_management_mode` "disabled" (which is looked up by name where the id is
given, `stateful_manager.py:215,268`), the second look at the cap in the API
functions, and failing reads of the cap (`_common/processing.py:33`) or of the
memory (`stateful_manager.py:291`), which the code takes as "not reached" and
"not processed".

### Swaparr

A runner's locals (`insts`, `todo`, `item`, `reason`, `dry`, and its copies
`myStrikes`, `myRemoved`) are variables, one set per thread that may be in
`run_swaparr`; `strikes` and `removed` are the rows of `swaparr_state`. A run
picks an instance, fetches its queue, loads strikes and removed items in two
reads, processes the items one after the other (`Item`: the whole cascade of
conditions of `process_stalled_downloads`, ending in a strike, a deletion or
nothing), deletes (`Delete`) and records (`Record`), and saves strikes and
removed items in two writes. The queues belong to the *arr: downloads arrive
under an id never used before in that instance, change condition and leave at
any time. Statistics and the wording of reasons are left out.
What Swaparr removed is followed by history variables: `late`, what a run need not
have saved yet (a malicious or failed download has to be as soon as it is recorded,
any other at the end of the instance); `unseen`, what a run that loaded the list
earlier cannot know; and `unsure`, what faults and overlapping runs may therefore make
Swaparr forget (they do, see Other observations): `RemovedRemembered` is about
all the rest.

### Lists

A behaviour is one visit to one of ten pages (`page`), each a section of the
module under the name of its file. `ui` is the page: the selection, the page
number, the rows shown, the entry under edit, what its form shows, the buttons
disabled, the open question, the rows still to be appended. `srv` has the lists
and the instance the server takes for current; `reqs` the requests, which the
server handles at one moment (`Serve`) and which end at a later one, by an
answer that may refuse, or by a failure before or after the server acted. The
server itself may fail (`Fail`): its handlers catch what goes wrong in the database,
refuse the change or the addition, and answer a fetch with an empty list; clearing that is
refused ends for the page like a request that is lost.
`OtherTab` changes the same lists from another tab. The pages differ in how they
address an entry (position or id), whether the instance is in the request, and
whether the address is taken at the click or when the question is answered:
the model keeps that apart, since it is what the properties are about.

`hist` records harm (an entry other than the confirmed one was removed,
overwritten or closed) and what may excuse it (a request failed, a fetch was
answered with nothing, answers overtook, another tab wrote, the user did not wait).
Each property says which excuses it allows: it claims what the page copes with and no more.

Abstractions: movie and TV halves of a page are two keys; a page of a paged table
holds one entry; `SniparrConfirm` asks one question and a new one takes its
place. Root folders are shown with the default folder first
(`root-folders.js:169`), but each card is given the entry's index in the server's
list (`_origIndex`), and that index is what the buttons send: the order of the cards is left
out, the address is the server's. The custom formats chosen from the list offered are added
one request after the other, on to the next whether or not one is refused
(`CustomFormatsAddNext`, at most `MaxChosen`). The Enter key in the field of a root folder
adds it past the disabled button.
Left out: the imports from Trakt and Plex, uploads, connection tests.
What the server does (`Serve`, `Fail`) is translated from the routes the repository has: the
Index Master's (`routes/indexer_snipe/{indexers,history}.py`) and the histories'
(`routes/history_routes.py`). Those behind custom formats, root folders, remote mappings, import
lists, indexers and profiles (`media_snipe`) are *not in this repository*; they are taken to
do the same, and what the pages use of them is all that is modelled.

### Forms

A behaviour is one visit to one of ten forms. There are three families. The
first (general, logs, Swaparr, instance, Prowlarr) drops the unsaved flag when
Save is clicked, waits in `saveAppSettings` with `_appsSuppressChangeDetection`
set, redraws 50 ms after the answer and listens again half a second later (`mute`,
`timers`, `Redraw`, `Listen`). The second (movie, TV, profile) drops it with the
answer. The third (connection and indexer editors) never asks.
An object has one field the user edits (`val`), fields the form shows and the
user leaves alone (`rest`: whose they are), and fields the form does not show
(`other`), which another page writes. A save of the general form sends defaults for
fields of other pages (`GeneralBody`); these fields are taken to be at their
defaults when the form is opened, so that a save undoes what another page
writes during the visit. Three fields are on that form and never read from it
(`GeneralUncollected`). `cache` is `originalSettings`, or the rows
of the editor's list.

Abstractions: an edit is a number; a form is drawn from an object in one step.
Left out: connection tests, the buttons that reset a library, the RSS status.

### Sections and HomeTimers

The address and its unhandled `hashchange` events, the section, the questions
(a question may be replaced before it is answered, and Escape reaches the oldest),
the flags and the editor under way; then the log view (its app, page, rows,
interval and the intervals no handle holds), the statistics of the home page (its two
intervals, each a handle and the number that run), and the countdown, whose four polls (every second, every 15 s, while a cycle
starts, after a reset) exclude each other by flags: `HomeTimers` has them as
operators on the record `cd`. A poll after a reset is known by its handle, which a
late answer may delete though it is another poll's by then. Each `initialize` adds one more
click listener to the document; they all do the same, so one stands for them. `srv` is the server's cycle of one instance as
`HuntCycle` has it: starting, ending, a pending reset.

The timers and the forms share nothing but the section shown, so a behaviour
watches one of them (`scene`) and leaves the others out; their product would
only multiply states.

## What the runs check

Two or three model values per set, one or two faults; all bounds are CONSTANTS
(`MaxResets`, `MaxFaults`, `MaxStrikes`, `Cap`, `HuntSize`, `PackSize`) and no
state constraint is used. Nothing in the server deadlocks by design, so deadlock
is checked in all runs of its modules.

| Run | Question | Result |
|---|---|---|
| `HuntCycle_resets` | two instances, one of which comes and goes, two resets, poller, stop, one fault (crash, dead thread, lost `end_cycle`, lost reset write): types, locks accounted for, no reset forgotten, a running instance shown as running; the refinement of `CycleAgenda` | holds |
| `HuntCycle_heals` | one instance, any two of six kinds of faults: resets served, locks released, a stop ends all threads | holds |
| `Hunt_users` | Radarr, Readarr, Whisparr; two items, cap two; users stop and reset at any moment, one fault (search refused, write failed, reset missed): cap kept, counter tells the searches | holds |
| `Hunt_expires` | Sonarr, Lidarr; two items, cap one, packs and batches that count two; every fault, time passes: nothing searched twice, nothing marked and not searched, memory expires, caps are released, the cap is passed by less than one search | holds |
| `Hunt_eros` | Eros: nothing searched twice | violated |
| `Swaparr_runs` | two downloads, the loop and a manual run over one queue, a crash: strikes earned, no early removal, removals remembered but for those overwritten or cut off | holds |
| `Swaparr_removes` | one download, stalled, too old, malicious or failed, a fault of seven kinds, settings toggled, strikes reset: what was recorded at once survives a crash, what is forgotten a fault cut off; no download stays stalled for ever | holds |
| `Swaparr_ids` | two instances: no early removal | violated |
| `Lists_pages` | any of ten pages, two or three operations of the user, another tab or a failing server, answers lost, late, refused, out of order: shows what the server has, rows of the selection, no harm to another entry, ids safe whatever happens, buttons released | holds |
| `Forms_pages` | any of ten forms, three to five operations, refusals, losses, overtaking: the last edit is on the server when the form says so, leaving asks, no field of another object, no undoing of another page, an editor writes its own entry once | holds |
| `Sections_visits` | forms, log view, statistics, countdown: every edit is asked about, address and section agree, the log view shows and polls what is selected, no poll outlives its section, the countdown comes to agree with the server | holds |
| `Sections_leave` | "Go Back" in the instance editor: Save works | violated |

Why the bounds are enough. *HuntCycle*: two instances are what a round, a scan
and the poller distinguish (first and later); a second reset while the first is
being applied is the longest chain the code has; a third fault finds the same
rows as the second. *Hunt*: in `Hunt_users` two items and a cap of two let a search be
under and at the cap, and a hunt be stopped between two searches; in `Hunt_expires` a
cap of one is passed by a Sonarr pack of two, and by a Lidarr batch of two albums. One instance per
run is enough: instances meet only where all counters are zeroed or everything is
cleared, and the hourly thread and the scheduler's thread do that at any moment
to a single one too. `Hunt_users` has the three orders of marking and searching
(Radarr after, Readarr before, Readarr's upgrades all at once, Whisparr with a
last look at `stop_check`), `Hunt_expires` the ways to count (packs, awaited packs,
per item, once for a batch). *Swaparr*: `max_strikes` 2 has a strike below the limit and one
at it; a third queue id would only repeat the second. *Lists*: two operations make
two answers that overtake each other, a third is given to the pages where an edit or a
removal takes two; two entries under one key let a position shift, one entry under
another lets a request hit the wrong list; two formats chosen (`MaxChosen`) make a chain
with a first and a last. *Forms*: five operations are edit, save,
edit, leave and another tab's write between them. Where a page sends a request for each click, three or four.
*Sections*: five operations for the forms and the log view (edit, leave, stay, Back,
leave; with seven in the forms the answers are the same), two for the home page, whose timers and server move by themselves; one
poll for a starting cycle stands for the last of the code's 15 (`MaxStarting`), two
polls after a reset for the last of its 90 and one before (`MaxResetPolls`). Lists, Forms and Sections stop at their
bounds, so deadlock is not checked there. Symmetry is used on
downloads, ids and items (each run's cfg) and in no run with a liveness property.

Fairness. *HuntCycle*: the threads of the program (loop, workers, poller) are
scheduled by the operating system and every call they make has a timeout, so
their steps are weakly fair; time passes. Two steps are strongly fair, being
enabled again and again rather than for good: a sleep elapses (`SleepElapsed`;
its length is fixed before it begins, and the looks for resets in between do not
lengthen it), and `end_cycle` gets `_lock` in the end although a poller may hold it
whenever it asks (`EndCycle`). `ResetServed` and `LockHeals` therefore speak of a
program whose third-party applications are enabled and whose settings can be loaded
in the end; `StopEndsWork` needs neither, the wait ending at a stop. Users, polls, stops and faults need never come.
*Hunt*: the same, and hours pass and an instance's lock expires; the global lock
need not expire, its duration being an independent setting. *Swaparr*: the loop
starts its runs, a run goes on, time passes; nothing is asked of the *arr
applications, so `StalledRemoved` says: while Swaparr is on and not in a dry
run, no download stays stalled in the queue for ever.
*Sections*: intervals and timeouts fire, the page handles its events, time passes,
and requests end: `fetch` sets no timeout of its own in `cycle-countdown.js`, but
the browser and the server end a connection. Nothing makes the user act, the
server change or a request fail.

## Findings

Each is a run whose one property quotes a doc, comment or message of the
repository and which the code violates.

| Run | What happens |
|---|---|
| `Hunt_eros` | upgrades marked by display name and looked up by id, so searched again each cycle (`apps/eros/upgrade.py:156`) |
| `Swaparr_ids` | two instances share the strikes of equal queue ids (`apps/swaparr/handler.py:668`) |
| `Sections_leave` | "Leave" in the instance editor brings up the question again, because the section is switched before the flag is cleared; "Go Back" there keeps an editor whose Save does nothing (`modules/features/settings/instance-editor.js:1240`) |

### Other observations

What the code does in corners that the properties above leave room for; none
has a run of its own. An excuse in `hist`, or an assumption
of a property, is there because of one of these.

On the server:

- A reset of a whole application is stored at application level, where no *arr
  loop looks (`web_server.py:1261`).
- A completed download is skipped before its rejection is looked at
  (`apps/swaparr/handler.py:728`).
- Two instances reset during a round: the sleep restarts only the first
  (`background.py:97`). The second is served at the next round.
- A due instance waits for the slowest worker of the round (`background.py:794`).
- A poll that read before the first cycle of an instance clears the lock the cycle
  has set since (`cycle_tracker.py:180`).
- Whisparr, Readarr, Eros, Sportarr and Lidarr mark before they search: an item
  whose search is refused stays marked (`apps/whisparr/missing.py:175`, against the
  comment at 213). Hence `MarkedWasSearched` speaks of Radarr and Sonarr only.
- The expiry of the global lock clears instances whose own lock is valid
  (`stateful_manager.py:156`).
- The counters are zeroed at every look in minute 0, so that an hour may see twice
  the cap (`background.py:1123`). Hence `CapKept` counts from one zeroing to the next.
- If no zeroing ran, an instance is held back by an earlier hour's searches until it
  runs (`stats_manager.py:222` does not look at `last_reset_hour`).
- One Eros search counts three times (`apps/eros/api.py:383`, its HTTP helper and
  `apps/eros/missing.py`), a Sportarr search twice.
- A stop while Sonarr awaits a command leaves that search uncounted
  (`apps/sonarr/upgrade.py:374`). Hence `CapIsKept` leaves Sonarr out.
- A Swaparr run in progress saves its strikes over a reset
  (`apps/swaparr/handler.py:1118`), and of two overlapping runs the last to end
  forgets what the other removed (`handler.py:1121`).

On the list pages:

- After a quick change of the selection the rows may be those of the earlier one
  (all pages but the directory browser and, unless a request was dropped, the hunt
  manager); the history table can mix rows of two answers, drawn in batches
  (`modules/features/history.js:262`).
- The hunt manager drops the request of a new selection made while one is loading
  (`hunt_manager.js:170`), and keeps showing the old one.
- Positions are taken at the click, so that another tab's removal makes "Delete"
  remove the next entry; for movie indexers, the address also lacks the instance
  (`modules/features/settings/indexers.js:240`).
- A saved import list closes whichever editor is open by then.
- A failure of the server while it lists something is answered as an empty list, and shown as one.

In the forms:

- A refused save counts as saved in the forms of the first family and on the movie
  and TV pages. A failed load shows defaults, which can then be saved (`RightForm`).
- What is typed between the click on Save and half a second after the redraw is
  lost without a question, or saved later without being flagged.
- A failed save of an instance leaves the shared cache changed.
- Switching the instance on the movie and TV pages, and on the movie page the
  event `sniparr:instances-changed`, drop edits unasked.
- A save of the general form sends defaults for fields that are not on it (instances, what the
  pages show, feature switches, notifications: `modules/features/settings/core.js:839-886`), and
  so undoes what their own pages stored; the comment at `web_server.py:739` counts on
  absent keys to be kept. Hence `OthersKept` excuses it, when another page wrote.
- The TMDB key, the days of the image cache and the server's threads are on the general
  form (`general.js:101,163,170`) but not collected: Save never stores them.
- A movie profile is saved by position: after another tab's removal, over another
  profile. After a refused addition the indexer editor has no address at all.
- Removing a tag of a Swaparr list is not noticed as a change
  (`modules/features/settings/swaparr.js:639`).

In navigation and timers:

- `checkUnsavedChanges`, which `app.js:450` asks for, is defined nowhere; edits of
  the TV page are not asked about when the section is switched.
- Escape, the X and a click beside the dialog mean "Leave"; once a question has
  been replaced, Escape answers the older one.
- "Go Back" in an editor leaves the address of the section that was not entered;
  Back to `#sonarr-settings`, or a second click on the media link, draws the form again
  and loses its edits; a reload asks only for the forms without editor.
- `cleanup` of the countdown (`app.js:547`) is undone at once: the observer looks for a
  class `hidden` that is never set and initializes again
  (`modules/ui/cycle-countdown.js:683`), so the countdown is fetched in every section.
- Opened at `#logs`, the page sets up two intervals and loses one; the settings that
  arrive late set up log polling in another section; a cleared log reconnects half a
  second later, wherever the user is by then.
- A late answer to a poll that a further click on Reset has replaced deletes the handle of its
  successor; one more click then leaves that poll running beside the new one
  (`modules/ui/cycle-countdown.js:192`).
- A failed request for the NZB statistics hides the card and leaves its poll running
  (`modules/ui/stats.js:944`).
- A late answer of the home statistics restarts their interval away from home
  (`modules/ui/stats.js:931`); an unknown address shows home without statistics.

## Proofs

All theorems are checked by TLAPS for every value of the constants that
satisfies the modules' ASSUMEs.

`HuntCycle_proofs` (any set of instances, any bounds)
- `TypeCorrect`: `TypeOK`.
- `LocksAccounted`: a set `cycleLock` belongs to a worker between `start_cycle`
  and `end_cycle`, or a fault cut that cycle. Needs `LoopInv`: workers exist
  only in a round and only for its instances.
- `ResetsAccounted`, `RunningShown` (no lost `start_cycle` write and no raising
  worker; with either, a cycle can go on after a reset that it never sees).
  `RunningShownLocked` and `ResetAccounted` are not inductive: a poller may write
  what it decided long ago. `CountdownInv` bounds that: it only defaults a
  countdown that does not exist, and while the loop sleeps every instance
  it sleeps on has one or is locked. `RequestInv` adds that a worker that goes
  on although a reset was asked for has the request still before it.
- `AgendaKept`: `HuntCycle` implements `CycleAgenda` (no lost `start_cycle` write and no
  raising worker). One lemma for each part of the next-state relation (`LoopSteps`,
  `WorkerSteps`, `PollerSteps`, `EnvironmentSteps`) says which step of the agenda it
  is. That a request is taken only between cycles needs `LoopInv`: the sleep begins when
  every worker is idle. That no poll overwrites a due time needs `CountdownInv`: a
  poller that decided to write found no countdown, and there still is none.

`Swaparr_proofs` (one instance, no resets by users, any runners, faults, `MaxStrikes`)
- `TypeCorrect`, without the last two assumptions.
- `EveryStrikeEarned`, `NoneRemovedEarly`: from `StrikesInvariant`. An id belongs to one
  download (`OneOwner`) because ids are not given out twice (`IdsUsed`), so
  whatever is counted under an id, in the database or in any runner's
  copy (`CopiesEarned`), was counted for it; an id not yet given out has no
  strikes anywhere (`NewUnstruck`). Overlapping runs then only lose strikes. The
  two assumptions are necessary: `Swaparr_ids` is the counterexample to the first;
  to the second, a reset that a run in progress overwrites (Other observations).
- `RemovedKept` (any instances, runners, faults and resets): `RemovedRemembered`. A run
  that has loaded the list holds every removal except those it cannot have
  seen (`CopyInv`), so the copy it writes loses only these; what need not be
  stored yet is held by the run that made it (`LateInv`), and all the rest is stored
  (`ListInv`). Nothing is assumed: what overlapping runs and faults do forget is
  in the history variable `unsure`.

`Hunt_proofs` (any instances, any finite set of items)
- `TypeCorrect`.
- `CapPassedByOneSearch`: `UsageBounded` with every fault. `UsageBounded` alone is not
  inductive; `Room` adds that a worker with items in hand, or about to search
  without looking, found the counter below `Cap`, and `Few` that it has at most
  `HuntSize` items, so that what it still has to count is at most `MaxCost`.
- `NoneSearchedAgain` (no instance of Eros): the items in hand, to do and known are
  apart (`Apart`). `Hunt_eros` is the counterexample to the assumption.
- `MarkMeansSearch`: for the Radarr and Sonarr instances, whatever others run beside
  them, whoever is to mark has searched (`SearchedFirst`).
- `CapIsKept` (no instance of Sonarr; no crash, lost answer or failed count): searches
  made since the counter was zeroed are at most the hits plus the one in hand
  (`Counted`).
- `BarTellsSearches` (applications of `Single`; no crash, lost answer or failed count):
  `BarMatches`, from `Exact`: the searches made since the counter was zeroed are the
  hits plus the one in flight, if one is.

`Lists_proofs` (any keys and lists, any bounds)
- `TypeCorrect`: `TypeOK`. `ButtonsReleased`: `Released`: behind each disabled button and
  each flag is a request whose every end releases it (`Backed`).

`Lists_user_proofs` (the same)
- `OnlyWhatWasShown`: `NoHarm`, from `CInv`: while no excuse was made there is one
  request at most, and what it names, the form and the dialog are of the page's
  rows, which are the server's (`Calm`, `InFlight`, `AtRest`). A delete-all names
  positions below the one it has removed (`Distinct`, `Marked`).
- `OnlyTheEntryMeant`: `ByIdSafe`, which needs an invariant of its own only on the
  import lists: `PInv` keeps the id under edit, the form and the request together.
- `RowsOfSelection`: `OfSelection`, from `OInv`: an answer of the directory browser is
  of the directory asked for, and the flag of the hunt manager is set
  while its only fetch, of the selection, is under way.

`Lists_shown_proofs` (the same)
- `RestShowsServer`: `ShowsServer`, from `FInv`: requests are numbered and
  none is answered before an earlier one (`InOrder`); the last fetch is of the
  selection and brings its list, or a later request makes the page fetch again
  (`Fetches`); the server's current instance is the selection, or will be (`Puts`).

`Sections_proofs` (any bounds; `NoneAssumption`: the value of "nothing" is no section)
- `TypeCorrect`: `TypeOK`.
- `EditsAreAsked`: the action property `EditsAsked`: what is typed has raised the flag
  that the section's way out asks for (`Flagged`).
- `AddressFollows`: `HashNamesSection`: one change of the address is on its way or one
  question is open, never both, and either one's outcome is the
  section of the address (`Steady`). Escape answers one question after another:
  `EscapedKeeps` says what any number of answers keeps, by `Induction` over sets of
  naturals (derived from `WFMin`; the library's theorems with an operator
  parameter cannot be cited). An answer that asks again counts as `twice`.
- `SelectedIsShown`: `ShowsSelected`, and the log view's part of `PollsFollow`: at most one request
  decides about the interval (`Polls`), rows on their way are of what is
  selected (`Rows`), and no such request is under way while the address moves to
  the logs (`Address`).
- `PollsFollow`: `PollsBelong`, with the pollers of the home page (`Homely`).

`Forms_proofs` (any objects, any bounds; `FormsAssumption`: the list stored at first is
not empty and has no object twice, and the values of "nothing" and "kept" are no others)
- `TypeCorrect`: `TypeOK`, from `TInv`: a value is the number of an operation, so the types
  grow with `acts`.
- `OthersAreKept`: `OthersKept`, from `OInv`: while no other page wrote, the fields not on
  the form are as at first wherever there is a copy of them, the cache and
  the timeouts included; a form that saves a part sends none of them, and the general form's
defaults are what they still have.
- `LastEditSaved`, `LeavingAsks`, `FieldsOfItsOwn`, `OneOwnEntry`: `Saved`, `LeaveAsks`,
  `RightForm`, `RightEntry`. None is inductive: each needs what the form
  shows tied to the requests under way and to what is stored, and every family drops
  its unsaved flag at another moment. So the invariant has a part for each family.
  `CInv` (saved at the click): whatever the form draws is of its own object; for
  a user who waits, one request or timeout is under way and the last edit is on the
  form, on its way, or stored. `PInv` (profile): the same, but the flag stays
  until the answer, so a refusal or a lost answer is harmless; what goes by position is
  of its object only while no other page removes. `SInv` (selector): the form is of
  what is selected unless a load failed, was hurried or the selector was refilled.
  `EInv` (editors): the address under edit is of an entry the form owns (`OwnAt`); a
  position in the page's list is the same entry's on the server (`Prefix`).

Only model-checked: everything under fairness (`ResetServed`, `LockHeals`,
`StopEndsWork`, `MemoryExpires`, `CapReleases`, `StalledRemoved`,
`CountdownAgrees`), which TLAPS does not reach.

## Plan

In order of weight; the modules above are done. A dozen runs and about forty
properties is the size to keep, so that everything can be checked again in one go
after a change: what comes next takes the place of a run above, or is a proof.

1. `SchedulerEngine`: minutes of the day as a bounded clock, `should_execute`
   window, daily guard, cooldown, restart, actions that fail; abstractly: an
   entry is executed at most once per day and, with checks on time, once.
2. `SettingsCache`: load, migrate, save, clear and mutate as steps of several
   threads over one cached dictionary; an abstract register to refine when
   no load overlaps a save.
3. `SwaparrLoop`: the loop around `Swaparr`, counted sleep and the reset that
   files no request.
4. `MountMonitor`: the queue with retries and clears.
5. A composition of `HuntCycle` and `Hunt`: a stop comes from a pending reset.
6. `DatabaseRecovery`, `Backup`, the session table; instance identifier migration
   against running hunts.
7. Pure algorithms as functions: window arithmetic, Swaparr's size and time parsing,
   the matching of stuck imports, each against a definition.

Theorems planned: every safety property that a passing run checks is a theorem. Next, those of
the parts above as they are modelled, and of `HuntCycle` and `Hunt` composed: that
`KeepsAgenda` survives the composition.

## Not modelled

Planned parts are in the list above. Not planned: `state.py`, whose
`check_state_reset` and the routes that call `reset_state_file` write rows that no
hunt reads any more (the hunts read `stateful_processed_ids`); the HTTP and JSON
side of the *arr clients; notifications, history and logging, on which nothing
decides; media probe, media rename and TMDB caches; Prowlarr statistics and
indexer snipe, which keep no state between requests but display caches and rows;
`hourly_cap_scheduler.py`, a copy of the loop in `background.py`;
of the interface: templates, styles, pages that load once and draw, and the parts
named under the modules; installers, scripts, tests, documentation, data and vendored code.
