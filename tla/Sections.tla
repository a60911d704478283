------------------------------ MODULE Sections ------------------------------
(***************************************************************************)
(* The sections of the page (app.js, navigation.js): the address, its      *)
(* hashchange events, the section shown, the questions asked before edits  *)
(* are lost (confirm-modal.js), and what runs on timers whichever section  *)
(* is shown: the log view (logs-main.js), the countdown (HomeTimers), the  *)
(* statistics (stats.js).                                                  *)
(*                                                                         *)
(* These timers and the forms share nothing but the section.  A behaviour  *)
(* is a visit that watches one of them, the scene; the others are left     *)
(* out of it.                                                              *)
(***************************************************************************)
EXTENDS HomeTimers, FiniteSets, SequencesExt

CONSTANTS Apps,      \* what the log view may select
          Scenes,    \* the scenes to visit
          MaxActs,   \* bound of each scene: operations of the user
          MaxServer, \* bound: changes of the server's cycle
          MaxFaults  \* bound: requests that fail

ASSUME SectionsAssumption ==
    /\ Scenes \subseteq {"forms", "logs", "stats", "home"}
    /\ MaxActs \in [{"forms", "logs", "stats", "home"} -> Nat] /\ MaxServer \in Nat /\ MaxFaults \in Nat
    /\ None \notin Apps

VARIABLES
    scene, \* what this visit watches
    nav,   \* the address, the section, its form, the dialog
    log,   \* the log view
    cd,    \* the countdown (HomeTimers)
    stats, \* the polls of the home page
    srv,   \* the server: its cycle, the time
    hist,  \* what may explain a disagreement
    count  \* operations, changes of the server and faults so far

vars == <<scene, nav, log, cd, stats, srv, hist, count>>

---------------------------------------------------------------------------
(* Sections.  "elsewhere" is a hash no section has.                        *)

ThirdParty == {"sonarr", "swaparr"}
NoRefresh  == {"home", "sonarr", "swaparr", "instance-editor", "profile-editor", "logs"}
Links      == [forms |-> {"home", "sonarr", "swaparr", "settings-profiles", "settings-media-management"},
               logs  |-> {"home", "logs"},
               stats |-> {"home", "swaparr", "elsewhere"},
               home  |-> {"home", "swaparr"}]
Sections   == (UNION {Links[s] : s \in DOMAIN Links}) \cup {"instance-editor", "profile-editor", "media-snipe-instances"}
Hashes     == (Sections \ {"instance-editor", "profile-editor"}) \cup {"sonarr-settings"}
ASSUME NoneAssumption == None \notin Hashes

\* The pages with a form, and the flag an edit of it raises.
Forms     == {"swaparr", "instance-editor", "profile-editor", "settings-media-management"}
Editors   == Forms \ {"swaparr"}
FlagOf(s) == IF s = "swaparr" THEN "_hasUnsavedChanges" ELSE s

\* Third-party sections may be switched off.
Redirect(s) == IF s \in ThirdParty /\ ~nav.thirdParty THEN "home" ELSE s
Shown(s)    == IF s = "elsewhere" THEN "home" ELSE s

Did(kind) == count' = [count EXCEPT ![kind] = @ + 1]
\* Nothing is claimed of the log view of a hasty user, so the visit ends there.
Acts      == /\ count.acts < MaxActs[scene] /\ Did("acts")
             /\ scene = "logs" => hist \cap {"hasty", "opened", "failed"} = {}
Quiet     == UNCHANGED count
Excused(why) == hist' = hist \cup why

---------------------------------------------------------------------------
(* The log view.  An interval belongs to an app; one that no handle holds  *)
(* is never cleared.  rows: the pages of the apps whose rows are shown.    *)
(* Two equal requests in flight do what one does, but for the settings:    *)
(* each sets up an interval.                                               *)

LogRequest(Q, op, app, page) == Q \cup {[op |-> op, app |-> app, page |-> page, n |-> 1]}

DisconnectAllEventSources(l) == [l EXCEPT !.poll = None]
LoadLogsFromAPI(l) == [l EXCEPT !.reqs = LogRequest(@, "load", l.app, l.page)]
SetupLogPolling(l) ==
    LET r == [op |-> "settings", app |-> l.app, page |-> 1, n |-> 1] IN
    [l EXCEPT !.reqs = @ \cup {IF r \in @ THEN [r EXCEPT !.n = 2] ELSE r}]
ConnectEventSource(l) == SetupLogPolling(LoadLogsFromAPI([l EXCEPT !.poll = None]))

\* Mutant of ConnectToLogs: the running interval keeps running.
ConnectToLogsTwice(l) == SetupLogPolling(LoadLogsFromAPI(l))
ConnectToLogs(l) == ConnectEventSource(DisconnectAllEventSources(l))

\* switchSection's part in it.
LogSwitched(l, s) == IF s = "logs" THEN ConnectToLogs(l) ELSE DisconnectAllEventSources(l)

LogUser(l) ==
    /\ scene = "logs" /\ nav.sec = "logs" /\ Acts
    /\ log' = l
    /\ Excused(IF log.reqs = {} THEN {} ELSE {"hasty"})
    /\ UNCHANGED <<scene, nav, cd, stats, srv>>

LogSelect(a) == /\ a # log.app
                /\ LogUser(ConnectToLogs([log EXCEPT !.app = a, !.page = 1, !.rows = {}]))
LogTurn(p)   == /\ p \in 1..2 \ {log.page}
                /\ LogUser(LoadLogsFromAPI([log EXCEPT !.page = p]))
LogFilter    == LogUser(LoadLogsFromAPI([log EXCEPT !.page = 1]))
LogClear     == LogUser([log EXCEPT !.reqs = LogRequest(@, "clear", log.app, 1)])

\* The end of request r of the view.
LogEnds(r, l, why) ==
    /\ r \in log.reqs
    /\ log' = [l EXCEPT !.reqs = @ \ {r}]
    /\ Excused(why)
    /\ UNCHANGED <<scene, nav, cd, stats, srv>>

LogLoaded(r) ==
    /\ r.op = "load" /\ Quiet
    /\ LogEnds(r, [log EXCEPT !.rows = {<<r.app, r.page>>}], {})

\* A poll adds what it finds on top.
LogPolled(r) ==
    /\ r.op = "poll" /\ Quiet
    /\ LogEnds(r, [log EXCEPT !.rows = @ \cup {<<r.app, r.page>>}], {})

\* The interval starts with the answer, or with its failure, and takes the
\* handle of the one before.
LogPollSetUp(r) ==
    /\ r.op = "settings" /\ Quiet
    /\ LogEnds(r, [log EXCEPT !.poll = r.app, !.orphans = @ \cup ({log.poll} \ {None})],
               IF nav.sec = "logs" THEN {} ELSE {"late"})

LogCleared(r) ==
    /\ r.op = "clear" /\ Quiet
    /\ LogEnds(r, [log EXCEPT !.rows = {}, !.reqs = LogRequest(@, "reconnect", log.app, 1)], {})

\* The timeout of 500 ms after it, whichever section is shown by then.
LogReconnect(r) ==
    /\ r.op = "reconnect" /\ Quiet
    /\ LogEnds(r, ConnectToLogs(log), {})

LogFails(r) ==
    /\ r.op \in {"load", "poll", "clear"} /\ count.faults < MaxFaults /\ Did("faults")
    /\ LogEnds(r, log, {"failed"})

\* An interval fires; one poll of an app is in flight at a time.
LogPoll(a) ==
    /\ scene = "logs" /\ a \in (log.orphans \cup {log.poll}) \ {None} /\ log.page = 1
    /\ \A r \in log.reqs : ~(r.op = "poll" /\ r.app = a)
    /\ log' = [log EXCEPT !.reqs = LogRequest(@, "poll", a, 1)]
    /\ Quiet
    /\ UNCHANGED <<scene, nav, cd, stats, srv, hist>>

---------------------------------------------------------------------------
(* The home page: the polls of stats.js and the countdown.                 *)

\* A variable for an interval, and how many started from it run: one whose
\* handle is overwritten would run on.
Off              == [held |-> FALSE, runs |-> 0]
SetInterval(i)   == [held |-> TRUE, runs |-> i.runs + 1]
ClearInterval(i) == IF i.held THEN [held |-> FALSE, runs |-> i.runs - 1] ELSE i

StopNzbHomePoll(s) == [s EXCEPT !.nzb = ClearInterval(@)]
StopPolling(s)     == StopNzbHomePoll([s EXCEPT !.poll = ClearInterval(@)])

\* Mutant of StartNzbHomePoll: it starts while one is running.
StartNzbHomePollAgain(s) == [s EXCEPT !.nzb = SetInterval(@)]
StartNzbHomePoll(s) == IF s.nzb.held THEN s ELSE [s EXCEPT !.nzb = SetInterval(@)]

\* One request at a time; what is asked with it is not guarded, but a second
\* one in flight adds nothing.
LoadMediaStats(s) == IF s.loading THEN s ELSE [s EXCEPT !.loading = TRUE, !.home = TRUE]
StartPolling(s)   == [StopPolling(s) EXCEPT !.poll = SetInterval(@)]
StatsSwitched(s, t) ==
    IF t = "home" THEN StartPolling(LoadMediaStats(StopPolling(s))) ELSE StopPolling(s)

\* The observer of the section's class, told of every switch, initializes
\* once more.
CountdownSwitched(c, from, t) ==
    LET d == IF from = "home" THEN Cleanup(c) ELSE c IN
    Initialize(IF t = "home" THEN Initialize(d) ELSE d)

StatsEnd(s, visible) ==
    /\ scene = "stats" /\ stats' = s
    /\ Excused(IF visible /\ nav.sec # "home" THEN {"late"} ELSE {})
    /\ UNCHANGED <<scene, nav, log, cd, srv>>

StatsPoll == /\ stats.poll.runs > 0 /\ ~stats.loading /\ Quiet
             /\ StatsEnd(LoadMediaStats(stats), FALSE)
StatsAnswered == /\ stats.loading /\ Quiet
                 /\ StatsEnd([stats EXCEPT !.loading = FALSE, !.cached = TRUE], FALSE)
StatsFailed == /\ stats.loading /\ count.faults < MaxFaults /\ Did("faults")
               /\ StatsEnd([stats EXCEPT !.loading = FALSE], FALSE)

\* The card of the home page is shown, with its poll, or hidden; the answer
\* does not ask which section is shown.
FetchNzbHuntHomeStats(visible) ==
    /\ stats.home /\ Quiet
    /\ LET s == [stats EXCEPT !.home = FALSE] IN
       StatsEnd(IF visible THEN StartNzbHomePoll(s) ELSE StopNzbHomePoll(s), visible)

\* A failure hides the card; its poll runs on.
NzbHuntHomeStatsFailed ==
    /\ stats.home /\ count.faults < MaxFaults /\ Did("faults")
    /\ StatsEnd([stats EXCEPT !.home = FALSE], FALSE)

\* The countdown's intervals, timeouts and requests.
HomeStep(c) == scene = "home" /\ cd' = c /\ UNCHANGED <<scene, nav, log, stats, hist>>
Timer(on, c) == on /\ HomeStep(c) /\ Quiet /\ UNCHANGED srv

\* The statistics are drawn, in any section: the page refreshes the countdown.
StatsDrawn == Timer(nav.events = <<>>, RefreshAllData(cd))
Tick         == Timer(cd.ticking, Drawn(cd, srv.now))
RefreshFires == Timer(cd.refresh /\ cd.fetch = None, Fetching(cd, {}))
SoonFires    == Timer(cd.soon, Fetching([cd EXCEPT !.soon = FALSE], {}))
ResetFires   == \E p \in DOMAIN cd.reset.runs : Timer(TRUE, ResetPoll(cd, p, srv.now))
StartingFires ==
    \/ Timer(cd.start.id = "set", StartingPoll([cd EXCEPT !.start.id = "fired"]))
    \/ Timer(cd.start.orphans > 0, StartingPoll([cd EXCEPT !.start.orphans = @ - 1]))

Cycle == [next |-> srv.next, running |-> srv.running, pending |-> srv.pending]
FetchServed ==
    /\ cd.fetch # None
    /\ Timer(cd.fetch.answer = None, [cd EXCEPT !.fetch.answer = Cycle])
FetchAnswered ==
    /\ cd.fetch # None
    /\ Timer(cd.fetch.answer # None, Answered(cd, cd.fetch.answer, srv.now))
FetchFailed ==
    /\ cd.fetch # None /\ count.faults < MaxFaults /\ Did("faults")
    /\ HomeStep(Failed(cd, srv.now)) /\ UNCHANGED srv

\* Reset: the handler of the countdown, and resetAppCycle, whose button is
\* disabled until the answer.
ResetClick ==
    /\ scene = "home" /\ nav.sec = "home" /\ srv.post = "none" /\ Acts
    /\ HomeStep(ResetClicked(cd, srv.now))
    /\ srv' = [srv EXCEPT !.post = "sent"]
ResetServed ==
    /\ srv.post = "sent" /\ HomeStep(cd) /\ Quiet
    /\ srv' = [srv EXCEPT !.post = "served", !.pending = TRUE]
ResetAnswered ==
    /\ srv.post = "served" /\ HomeStep(cd) /\ Quiet
    /\ srv' = [srv EXCEPT !.post = "none"]
ResetFailed ==
    /\ srv.post = "sent" /\ HomeStep(cd)
    /\ count.faults < MaxFaults /\ Did("faults")
    /\ srv' = [srv EXCEPT !.post = "none"]

\* The server (HuntCycle): a due cycle starts, it ends and names the next, a
\* reset is served while no cycle runs.
CycleStarts == /\ ~srv.running /\ srv.next <= srv.now
               /\ srv' = [srv EXCEPT !.running = TRUE]
CycleEnds   == srv.running /\ srv' = [srv EXCEPT !.running = FALSE, !.next = srv.now + 1]
ResetTaken  == ~srv.running /\ srv.pending /\ srv' = [srv EXCEPT !.pending = FALSE, !.next = srv.now]
ServerChanges ==
    /\ count.server < MaxServer /\ Did("server") /\ HomeStep(cd)
    /\ CycleStarts \/ CycleEnds \/ ResetTaken
TimePasses ==
    /\ srv.now < MaxServer /\ HomeStep(cd) /\ Quiet
    /\ srv' = [srv EXCEPT !.now = @ + 1]

---------------------------------------------------------------------------
(* The dialog.  A question may be replaced by another before it is         *)
(* answered: asks has those not answered, in the order in which the key    *)
(* Escape reaches them; the buttons belong to the last.                    *)

Show(n, kind, to) == [n EXCEPT !.open = TRUE, !.asks = Append(@, [kind |-> kind, to |-> to])]

\* switchSection: it asks, or reloads the page, or shows the section.
Mine(n, s) == n.sec # s /\ n.sec \in Editors \cap n.flags

\* Mutant of Asks: the profile editor is left without a question.
AsksButProfile(n, s) == n.sec # "profile-editor" /\ Mine(n, s)
Asks(n, s)    == Mine(n, s)
Reloads(n, s) == n.sec # s /\ {n.sec, s} \cap NoRefresh = {}
Loaded(n, s)  == [n EXCEPT !.sec = Shown(s), !.hash = s, !.events = <<>>, !.open = FALSE,
                           !.asks = <<>>, !.typed = {}, !.flags = {}, !.editing = FALSE]

\* What is typed in the section left is gone; a section shown again draws its
\* form again.
SwitchSection(n, s) ==
    LET t == Redirect(s) IN
    CASE Asks(n, t) -> Show(n, n.sec, t)
      [] ~Asks(n, t) /\ Reloads(n, t) -> Loaded(n, t)
      [] OTHER -> [n EXCEPT !.sec = Shown(t), !.typed = {}, !.flags = @ \ {t}]

NavigateToInstanceEditor(n) ==
    [SwitchSection([n EXCEPT !.editing = TRUE, !.typed = @ \ {"instance-editor"},
                             !.flags = @ \ {"instance-editor"}], "instance-editor")
       EXCEPT !.hash = "sonarr-settings"]

\* The address changes; its event is handled later.
SetHash(n, h) ==
    IF h = n.hash THEN n
    ELSE [n EXCEPT !.hash = h, !.events = Append(@, [old |-> n.hash, new |-> h])]

\* Mutant of UpdateHashForSection: the address is left as it was.
UpdateHashForSectionNot(n, s) == n
UpdateHashForSection(n, s) == [n EXCEPT !.hash = s]

\* The section is switched while the editor is still dirty.
CancelTo(n, to) ==
    UpdateHashForSection([SwitchSection(n, to) EXCEPT !.editing = FALSE, !.flags = @ \ {"instance-editor"}], to)
CancelInstanceEditor(n) ==
    IF n.editing THEN CancelTo([n EXCEPT !.flags = @ \ {"instance-editor"}], "sonarr")
    ELSE CancelTo(n, "sonarr")

\* "Leave", to question d.
Left(n, d) ==
    CASE d.kind = "hash" ->
           SetHash([n EXCEPT !.flags = @ \ {"_hasUnsavedChanges"}, !.typed = @ \ {"swaparr"}], d.to)
      [] d.kind = "back" -> CancelInstanceEditor(n)
      [] d.kind = "instance-editor" -> CancelTo(n, d.to)
      [] OTHER -> SwitchSection([n EXCEPT !.flags = @ \ {d.kind}], d.to)

HandleHash(n) ==
    IF n.hash = "sonarr-settings" THEN NavigateToInstanceEditor(n) ELSE SwitchSection(n, n.hash)

---------------------------------------------------------------------------
(* Navigation.                                                             *)

\* A click on the page: no dialog covers it, and the event of an address that
\* changed comes first.
Click == ~nav.open /\ nav.events = <<>> /\ Acts

\* The page becomes n, by a call of switchSection for s or by none.
Becomes(n, s, why) ==
    /\ nav' = n
    /\ hist' = (IF s = None THEN hist ELSE hist \ {"late"}) \cup why
    /\ log'   = IF scene = "logs" /\ s # None THEN LogSwitched(log, s) ELSE log
    /\ stats' = IF scene = "stats" /\ s # None THEN StatsSwitched(stats, s) ELSE stats
    /\ cd'    = IF scene = "home" /\ s # None THEN CountdownSwitched(cd, nav.sec, s) ELSE cd
    /\ UNCHANGED <<scene, srv>>

\* A link, the address bar, the buttons of the browser, which a dialog does
\* not cover.
Navigate(h) ==
    /\ h \in Links[scene] \cup (IF scene = "forms" THEN {"sonarr-settings"} ELSE {}) /\ h # nav.hash
    /\ Acts
    /\ Becomes(SetHash(nav, h), None,
               IF nav.events = <<>> /\ ~nav.open /\ log.reqs = {} THEN {} ELSE {"hasty"})

\* hashchange, guarded by the flag of the forms that have no editor.
HashGuarded ==
    /\ nav.events # <<>> /\ "_hasUnsavedChanges" \in nav.flags /\ Quiet
    /\ LET e == Head(nav.events) IN
       Becomes(Show([nav EXCEPT !.events = Tail(@), !.hash = e.old], "hash", e.new), None, {})
HashHandled ==
    /\ nav.events # <<>> /\ "_hasUnsavedChanges" \notin nav.flags /\ Quiet
    /\ LET n == HandleHash([nav EXCEPT !.events = Tail(@)]) IN
       Becomes(n, IF scene = "forms" THEN None ELSE Redirect(nav.hash),
               IF n.sec = nav.sec /\ n.typed # nav.typed THEN {"reopened"} ELSE {})

OpenInstance == /\ nav.sec = "sonarr" /\ Click
                /\ Becomes(NavigateToInstanceEditor(nav), None, {})
OpenProfile  == /\ nav.sec = "settings-profiles" /\ Click
                /\ Becomes(SwitchSection([nav EXCEPT !.flags = @ \ {"profile-editor"}], "profile-editor"), None, {})

Edit == /\ scene = "forms" /\ nav.sec \in Forms \ nav.typed /\ Click
        /\ Becomes([nav EXCEPT !.typed = @ \cup {nav.sec}, !.flags = @ \cup {FlagOf(nav.sec)}], None, {})

\* The instance editor saves what it edits; the movie page goes on to its
\* list.  (Module Forms has the requests.)
Save == /\ nav.sec \in nav.typed /\ Click
        /\ nav.sec = "instance-editor" => nav.editing
        /\ LET n == [nav EXCEPT !.typed = @ \ {nav.sec}, !.flags = @ \ {FlagOf(nav.sec)}] IN
           Becomes(IF nav.sec = "settings-media-management" THEN SwitchSection(n, "media-snipe-instances") ELSE n,
                   None, {})

\* The Back buttons of the editors.
BackButton ==
    /\ nav.sec \in {"instance-editor", "profile-editor"} /\ Click
    /\ LET kind == IF nav.sec = "instance-editor" THEN "back" ELSE nav.sec
           to   == IF nav.sec = "instance-editor" THEN "sonarr" ELSE "settings-profiles"
       IN Becomes(IF nav.sec \in nav.flags THEN Show(nav, kind, to)
                  ELSE Left(nav, [kind |-> kind, to |-> to]), None, {})

Answering(n, d) == Left([n EXCEPT !.open = FALSE, !.asks = RemoveFirst(@, d)], d)
AskedAgain(n)   == IF n.open THEN {"twice"} ELSE {}

Leave ==
    /\ nav.open /\ Quiet
    /\ LET d == Last(nav.asks)
           n == Left([nav EXCEPT !.open = FALSE, !.asks = Front(@)], d)
       IN Becomes(n, None, AskedAgain(n))

GoBack ==
    /\ nav.open /\ Quiet
    /\ Becomes([nav EXCEPT !.open = FALSE, !.asks = Front(@)], None,
               IF Last(nav.asks).kind \in Editors THEN {"stayed"} ELSE {})

\* Escape reaches the questions in the order they were asked, while the
\* dialog is open: it answers the first, for "Leave", and if that asks again,
\* the next.  Escaped has the page after each of them.
Escaped(n) ==
    LET m[i \in 0..Len(n.asks)] ==
          IF i = 0 THEN n
          ELSE IF m[i - 1].open THEN Answering(m[i - 1], n.asks[i]) ELSE m[i - 1]
    IN m
Escape ==
    /\ nav.open /\ Quiet
    /\ LET m == Escaped(nav)
           k == Len(nav.asks)
       IN Becomes(m[k], None, UNION {AskedAgain(m[i]) : i \in 1..k})

\* The page is loaded again, and the browser's own question answered.  The
\* hash of an instance editor becomes its application's: nothing is loaded yet.
Reload ==
    /\ scene = "forms" /\ Acts
    /\ Becomes(Loaded(nav, IF nav.hash = "sonarr-settings" THEN "sonarr" ELSE nav.hash), None, {})

---------------------------------------------------------------------------
\* The page is opened at home, or at the logs.  The card has no time yet, as
\* Swaparr's before its first cycle.
Init ==
    /\ scene \in Scenes
    /\ \E s \in {"home"} \cup (IF scene = "logs" THEN {"logs"} ELSE {}), b \in BOOLEAN, a \in Apps :
          /\ scene # "forms" => b
          /\ nav = [sec |-> s, hash |-> s, events |-> <<>>, open |-> FALSE, asks |-> <<>>,
                    typed |-> {}, flags |-> {}, editing |-> FALSE, thirdParty |-> b]
          /\ LET l == [app |-> a, page |-> 1, rows |-> {}, poll |-> None, orphans |-> {}, reqs |-> {}]
             IN /\ a = CHOOSE x \in Apps : TRUE
                /\ log = IF scene # "logs" THEN l ELSE LogSwitched(SetupLogPolling(LoadLogsFromAPI(l)), s)
          /\ hist = IF s = "logs" THEN {"opened"} ELSE {}
    /\ stats = LET s == [poll |-> Off, loading |-> FALSE, nzb |-> Off, home |-> FALSE, cached |-> FALSE]
               IN IF scene = "stats" THEN StatsSwitched(s, "home") ELSE s
    /\ cd = IF scene = "home" THEN Initialize(Idle) ELSE Idle
    /\ srv = [next |-> 0, running |-> FALSE, pending |-> FALSE, now |-> 0, post |-> "none"]
    /\ count = [acts |-> 0, server |-> 0, faults |-> 0]

LogNext ==
    \/ \E a \in Apps : LogSelect(a) \/ LogPoll(a)
    \/ \E p \in 1..2 : LogTurn(p)
    \/ LogFilter \/ LogClear
    \/ \E r \in log.reqs : LogLoaded(r) \/ LogPolled(r) \/ LogPollSetUp(r) \/ LogCleared(r)
                           \/ LogReconnect(r) \/ LogFails(r)

HomeNext ==
    \/ StatsPoll \/ StatsAnswered \/ StatsFailed
    \/ NzbHuntHomeStatsFailed
    \/ \E v \in BOOLEAN : FetchNzbHuntHomeStats(v)
    \/ StatsDrawn \/ Tick \/ RefreshFires \/ SoonFires \/ ResetFires \/ StartingFires
    \/ FetchServed \/ FetchAnswered \/ FetchFailed
    \/ ResetClick \/ ResetServed \/ ResetAnswered \/ ResetFailed
    \/ ServerChanges \/ TimePasses

NavNext ==
    \/ \E h \in Hashes : Navigate(h)
    \/ HashGuarded \/ HashHandled
    \/ OpenInstance \/ OpenProfile \/ Edit \/ Save \/ BackButton
    \/ Leave \/ GoBack \/ Escape \/ Reload

Next == LogNext \/ HomeNext \/ NavNext
Spec == Init /\ [][Next]_vars

\* Intervals and timeouts fire, requests end, events are handled, time passes.
\* Nothing makes the user act, the server change or a request fail.
FairSpec ==
    /\ Spec
    /\ WF_vars(Tick) /\ WF_vars(RefreshFires) /\ WF_vars(SoonFires) /\ WF_vars(ResetFires)
    /\ WF_vars(StartingFires) /\ WF_vars(FetchServed) /\ WF_vars(FetchAnswered)
    /\ WF_vars(ResetServed) /\ WF_vars(ResetAnswered)
    /\ WF_vars(HashHandled) /\ WF_vars(TimePasses)

---------------------------------------------------------------------------
Excuses == {"hasty", "opened", "failed", "late", "reopened", "stayed", "twice"}
TypeOK ==
    /\ scene \in Scenes /\ hist \subseteq Excuses
    /\ nav.sec \in Sections /\ nav.hash \in Hashes /\ nav.open \in BOOLEAN
    /\ \A d \in ToSet(nav.asks) : d.kind \in Forms \cup {"hash", "back"} /\ d.to \in Hashes \cup Editors
    /\ nav.typed \subseteq {nav.sec} \cap Forms
    /\ nav.flags \subseteq Editors \cup {"_hasUnsavedChanges"}
    /\ log.poll \in Apps \cup {None} /\ log.orphans \subseteq Apps /\ log.rows \subseteq Apps \X (1..2)
    /\ cd.shown \in Texts /\ cd.start.tries \in 0..MaxStarting
    /\ \A p \in DOMAIN cd.reset.runs : cd.reset.runs[p] \in 0..MaxResetPolls

\* An edit leaves the screen only when it is saved or the user said "Leave".
\* Not so once the instance editor has asked twice, or a form has been drawn
\* again under the user; and a reload asks only for the forms without editor.
EditsAsked ==
    [][\/ nav.typed \subseteq nav'.typed
       \/ Save \/ Leave \/ Escape \/ Reload
       \/ hist' \cap {"twice", "reopened"} # {}]_vars

\* At rest the address names the section shown, so that every link works and
\* a reload comes back to it, unless "Go Back" was chosen in an editor, which
\* is asked about after the address changed, or the address changed twice at
\* once or behind a dialog.
HashNamesSection ==
    ~nav.open /\ nav.events = <<>> /\ hist \cap {"stayed", "twice", "hasty"} = {} =>
        \/ nav.sec \in {nav.hash, Shown(Redirect(nav.hash))}
        \/ nav.sec = "instance-editor" /\ nav.hash = "sonarr-settings"
        \/ nav.sec = "profile-editor" /\ nav.hash = "settings-profiles"

\* What instance-editor.js says of "Go Back": the user can save manually.
CanSave ==
    nav.sec = "instance-editor" /\ "instance-editor" \in nav.typed /\ ~nav.open => nav.editing

\* With nothing in flight the log view shows the page of the app selected, and
\* nothing else.
ShowsSelected ==
    nav.sec = "logs" /\ log.reqs = {} /\ hist \cap {"hasty", "opened", "failed"} = {} =>
        log.rows \subseteq {<<log.app, log.page>>}

\* With nothing in flight, what polls is what the section shown wants, once:
\* the logs their app, the home page its statistics and its countdown, and no
\* other section the logs or the home page's card.
PollsBelong ==
    /\ scene = "logs" /\ log.reqs = {} /\ hist \cap {"hasty", "opened", "late"} = {} =>
           /\ log.orphans = {}
           /\ log.poll = IF nav.sec = "logs" THEN log.app ELSE None
    /\ scene = "home" => cd.refresh
    /\ scene = "stats" =>
           /\ stats.poll.runs <= 1 /\ stats.nzb.runs <= 1
           /\ nav.hash = "home" /\ nav.events = <<>> => stats.poll.runs = 1
           /\ nav.sec # "home" => stats.poll.runs = 0
           /\ nav.sec # "home" /\ stats.nzb.runs > 0 => "late" \in hist

\* On the home page the countdown comes to show the server's cycle, whatever
\* clicks, failed requests and switches went before.
CountdownAgrees ==
    <>[](scene = "home" /\ nav.sec = "home" =>
             cd.shown = Text(srv.next, srv.running, srv.pending, srv.now))
=============================================================================
