-------------------------------- MODULE Forms --------------------------------
(***************************************************************************)
(* The settings forms of the web interface: a form is drawn, the user      *)
(* edits, saves, leaves.  Three families: forms that forget that they have *)
(* changes when Save is clicked, forms that wait for the answer, and       *)
(* editors that never ask.  An action is a handler: of a click, of the end *)
(* of a request, or of a timeout.                                          *)
(***************************************************************************)
EXTENDS FormServer

\* sel: the key of the page; at: the address under edit; form: counts the
\* forms opened; rest: where the fields the user left alone come from; mute:
\* window._appsSuppressChangeDetection.
Blank(k, at) ==
    [sel |-> k, at |-> at, open |-> FALSE, form |-> 0,
     val |-> 0, rest |-> None, other |-> 0,
     dirty |-> FALSE, button |-> FALSE, mute |-> FALSE, dialog |-> None]

Uncovered == ui.dialog = None
Busy      == reqs # {} \/ timers # <<>>

\* An operation of the user.
Acts(u, Q, c, h) ==
    /\ acts < MaxActs[page]
    /\ acts' = acts + 1
    /\ ui' = u
    /\ reqs' = Q
    /\ cache' = c
    /\ hist' = [h EXCEPT !.excuse = @ \cup (IF Busy THEN {"hasty"} ELSE {})]
    /\ UNCHANGED <<page, timers, srv>>
Clicks(u, Q) == Acts(u, Q, cache, hist)

\* The end of request r: its answer (refused: an answer that says no), or a
\* failure of the network, before or after the server handled it.
Success(r, op) == r.op = op /\ r.st = "done" /\ r.ok
Refused(r, op) == r.op = op /\ r.st = "done" /\ ~r.ok
Handle(r, u, Q, c, T, why) ==
    /\ ui' = u
    /\ reqs' = Q
    /\ cache' = c
    /\ timers' = T
    /\ hist' = [hist EXCEPT !.excuse = @ \cup why \cup
                                (IF Earlier(r) # {} THEN {"reordered"} ELSE {})]
    /\ UNCHANGED <<page, srv, acts>>
Answer(r, u, Q)      == Handle(r, u, Q, cache, timers, {})
Failure(r, op, u, Q) == r.op = op /\ Handle(r, u, Q, cache, timers, {"failed"})
Dropped(r, op)       == Failure(r, op, ui, Ended(r))
Ignored(r, op)       == Refused(r, op) /\ Answer(r, ui, Ended(r))

Drawn(u, obj) == [u EXCEPT !.open = TRUE, !.rest = obj.of, !.val = obj.val, !.other = obj.other]
Settled(u)    == [u EXCEPT !.dirty = FALSE, !.button = FALSE]
Gone(u)       == [Settled(u) EXCEPT !.open = FALSE, !.dialog = None]

\* The forms as they are drawn from an object.
GeneralForm(u, obj)  == Settled(Drawn(u, obj))
LogForm(u, obj)      == Settled(Drawn(u, obj))
SwaparrForm(u, obj)  == Settled(Drawn(u, obj))
InstanceForm(u, obj) == Settled(Drawn([u EXCEPT !.form = @ + 1], obj))
ProwlarrForm(u, obj) == Settled(Drawn([u EXCEPT !.form = @ + 1], obj))
MovieForm(u, obj)    == Drawn(u, obj)
TVForm(u, obj)       == Drawn(u, obj)
ProfileForm(u, obj)  == Settled(Drawn(u, obj))

\* Those that a saved or fetched object redraws; the others stay as they are.
Regenerated(u, obj) ==
    CASE page = "general"      -> GeneralForm(u, obj)
      [] page = "log_settings" -> LogForm(u, obj)
      [] page = "swaparr"      -> SwaparrForm(u, obj)
      [] OTHER                 -> u

\* What a form shows of an instance whose settings cannot be fetched.
MovieDefaults == [of |-> None, val |-> 0, other |-> 0]
TVDefaults    == [of |-> None, val |-> 0, other |-> 0]

\* An edit, noticed or not; its number is that of the operation.
Edits(noticed) ==
    /\ ui.open /\ Uncovered
    /\ Acts([ui EXCEPT !.val = acts + 1, !.dirty = @ \/ noticed, !.button = @ \/ noticed],
            reqs, cache, [hist EXCEPT !.typed = acts + 1])

\* The object that the form is of.
Edited == IF page = "profile" THEN ui.rest ELSE ui.sel

\* The edit is neither stored nor on its way.
Loses ==
    /\ hist.typed # 0
    /\ \A q \in reqs : q.op = "save" => q.body.val # hist.typed
    /\ srv.obj[Edited].val # hist.typed

\* Leaving a form: asked for if it has changes; "Leave" gives them up.
Leaves(u, Q) ==
    /\ ui.open /\ Uncovered
    /\ IF ui.dirty THEN Clicks([ui EXCEPT !.dialog = "leave"], reqs)
       ELSE Acts(u, Q, cache, [hist EXCEPT !.harm = @ \cup (IF Loses THEN {"lost"} ELSE {}),
                                           !.typed = 0])
Confirms(u, Q) == ui.dialog = "leave" /\ Acts(u, Q, cache, [hist EXCEPT !.typed = 0])
Stay == /\ ui.dialog # None
        /\ ui' = [ui EXCEPT !.dialog = None]
        /\ UNCHANGED <<page, cache, timers, srv, reqs, hist, acts>>

---------------------------------------------------------------------------
(* core.js, saveAppSettings: what all AtClick forms save with.             *)

SaveAppSettings(u, c, body) ==
    Acts([u EXCEPT !.mute = TRUE], Ask(reqs, "save", Of(ui.sel), body), c, hist)

\* Any answer is taken for a success.  The cache becomes the object the
\* answer brings, or, when it brings none, what was sent; the form is drawn
\* again from it 50 ms later.
SaveAppSettingsAnswer(r) ==
    /\ Success(r, "save") \/ Refused(r, "save")
    /\ LET obj == IF r.ok THEN r.obj
                  ELSE [of |-> ui.sel, val |-> r.body.val, other |-> r.body.other] IN
       Handle(r, IF page \in Opened THEN ui ELSE [ui EXCEPT !.open = FALSE],
              Ended(r), obj, Append(timers, [t |-> "redraw", obj |-> obj]), {})
SaveAppSettingsFailed(r) == Failure(r, "save", [ui EXCEPT !.mute = FALSE], Ended(r))

\* Timeouts of one length run in the order they were set.
First(t) == {i \in DOMAIN timers : timers[i].t = t /\ \A j \in 1..(i - 1) : timers[j].t # t}
RunOut(u, T) == ui' = u /\ timers' = T /\ UNCHANGED <<page, cache, srv, reqs, hist, acts>>

Redraw ==
    \E i \in First("redraw") :
        RunOut(Regenerated(ui, timers[i].obj),
               Append(RemoveAt(timers, i), [t |-> "listen", obj |-> None]))
\* After another half second the form listens again.
Listen == \E i \in First("listen") : RunOut([ui EXCEPT !.mute = FALSE], RemoveAt(timers, i))

\* The settings of an application arrive and the page is drawn.
LoadAnswer(r) ==
    \/ /\ Success(r, "load")
       /\ Handle(r, Regenerated(ui, r.obj), Ended(r), r.obj, timers, {})
    \/ Ignored(r, "load") \/ Dropped(r, "load")

AtClickAnswer(r) == SaveAppSettingsAnswer(r) \/ SaveAppSettingsFailed(r) \/ LoadAnswer(r)

---------------------------------------------------------------------------
(* general.js; its save is merged into what the server has, but with it go *)
(* fields of other pages (instances, feature switches, notifications), at  *)
(* defaults: 0 in "other", where Init has these fields when the page opens.*)

GeneralType == Edits(TRUE)

\* The TMDB key, the days of the image cache and the server's threads are on
\* the form, but nothing reads them from it.
GeneralUncollected ==
    /\ ui.open /\ Uncovered
    /\ Acts([ui EXCEPT !.dirty = TRUE, !.button = TRUE], reqs, cache,
            [hist EXCEPT !.typed = acts + 1, !.excuse = @ \cup {"uncollected"}])
GeneralBody == Body(ui.val, ui.rest, 0, 0)
GeneralSave ==
    /\ ui.open /\ ui.button /\ Uncovered
    /\ SaveAppSettings(Settled(ui), cache, GeneralBody)
GeneralClick ==
    \/ GeneralType \/ GeneralUncollected \/ GeneralSave
    \/ Leaves(Gone(ui), reqs) \/ Confirms(Gone(ui), reqs)

(* logs.js with setupAppManualSave of core.js: deaf while muted.           *)
LogType == Edits(~ui.mute)

\* Mutant of LogSave: sends the whole of the cached object.
LogSaveWhole ==
    /\ ui.open /\ ui.button /\ Uncovered
    /\ SaveAppSettings(Settled(ui), cache, Body(ui.val, ui.rest, cache.other, 0))
LogSave ==
    /\ ui.open /\ ui.button /\ Uncovered
    /\ SaveAppSettings(Settled(ui), cache, Body(ui.val, ui.rest, Kept, 0))
LogClick == LogType \/ LogSave \/ Leaves(Gone(ui), reqs) \/ Confirms(Gone(ui), reqs)

(* swaparr.js: sends back the object the form was drawn from.              *)
SwaparrType == Edits(TRUE)

\* The button that removes a tag fires none of the events the form listens to.
SwaparrTag ==
    /\ ui.open /\ Uncovered
    /\ Acts([ui EXCEPT !.val = acts + 1], reqs, cache,
            [hist EXCEPT !.typed = acts + 1, !.excuse = @ \cup {"unnoticed"}])
SwaparrSave ==
    /\ ui.open /\ ui.button /\ Uncovered
    /\ SaveAppSettings(Settled(ui), cache, Body(ui.val, ui.rest, ui.other, 0))
SwaparrClick ==
    \/ SwaparrType \/ SwaparrTag \/ SwaparrSave
    \/ Leaves(Gone(ui), reqs) \/ Confirms(Gone(ui), reqs)

(* instance-editor.js: opened from the cached settings of the application, *)
(* which a save changes before it sends the whole of them.                 *)
InstanceOpen == ~ui.open /\ Uncovered /\ cache # None /\ Clicks(InstanceForm(ui, cache), reqs)

\* An edit of a field, or an exempt tag added or removed.
InstanceType == Edits(TRUE)
InstanceTag  == Edits(TRUE)
InstanceSave ==
    /\ ui.open /\ ui.button /\ Uncovered
    /\ SaveAppSettings(Settled(ui), [cache EXCEPT !.val = ui.val],
                       Body(ui.val, ui.rest, cache.other, 0))
\* Back in the list the settings are fetched again.
Reload == Ask(reqs, "load", Of(ui.sel), NoBody)
InstanceBack    == Leaves(Gone(ui), Reload)
InstanceDiscard == Confirms(Gone(ui), Reload)

\* In the list: an instance is deleted, once confirmed, from the settings as
\* they were at the click, which become the cached ones and are saved.
InstanceDelete ==
    /\ ~ui.open /\ Uncovered /\ cache # None
    /\ Clicks([Drawn(ui, cache) EXCEPT !.open = FALSE, !.dialog = "delete"], reqs)
InstanceDoDelete ==
    /\ ui.dialog = "delete"
    /\ Acts([ui EXCEPT !.dialog = None, !.mute = TRUE],
            Ask(reqs, "save", Of(ui.sel), Body(acts + 1, ui.rest, ui.other, 0)),
            [of |-> ui.rest, val |-> acts + 1, other |-> ui.other],
            [hist EXCEPT !.typed = acts + 1])

InstanceClick ==
    \/ InstanceOpen \/ InstanceType \/ InstanceTag \/ InstanceSave \/ InstanceBack
    \/ InstanceDiscard \/ InstanceDelete \/ InstanceDoDelete

(* prowlarr.js, the same over one object.                                  *)
ProwlarrOpen == ~ui.open /\ Uncovered /\ cache # None /\ Clicks(ProwlarrForm(ui, cache), reqs)
ProwlarrType == Edits(TRUE)
ProwlarrSave ==
    /\ ui.open /\ ui.button /\ Uncovered
    /\ SaveAppSettings(Settled(ui), [cache EXCEPT !.val = ui.val],
                       Body(ui.val, ui.rest, cache.other, 0))
ProwlarrBack    == Leaves(Gone(ui), Reload)
ProwlarrDiscard == Confirms(Gone(ui), Reload)
ProwlarrClick == ProwlarrOpen \/ ProwlarrType \/ ProwlarrSave \/ ProwlarrBack \/ ProwlarrDiscard

---------------------------------------------------------------------------
(* movie-management.js: a selector of the instance over the form.          *)

\* The form is taken away, its changes forgotten, and the settings of the
\* instance are fetched.
Unloaded(k) == [Gone(ui) EXCEPT !.sel = k]
MovieLoad(Q, k) == Ask(Q, "load", Of(k), NoBody)

\* The selector is filled; what cannot be fetched reads as no instances.
MovieInstances(r) ==
    \/ /\ Success(r, "list")
       /\ \E k \in Range(srv.order) : Answer(r, Unloaded(k), MovieLoad(Ended(r), k))
    \/ Dropped(r, "list")

\* Another instance: what was edited is dropped without a question.
MovieChange(k) ==
    /\ ui.sel # None /\ Uncovered
    /\ Acts(Unloaded(k), MovieLoad(reqs, k), cache, [hist EXCEPT !.typed = 0])

\* Mutant of MovieShow: the fields keep what they showed.
MovieShowStale(r) ==
    \/ Success(r, "load") /\ Answer(r, IF ui.rest = None THEN MovieForm(ui, r.obj)
                                       ELSE [ui EXCEPT !.open = TRUE], Ended(r))
    \/ Failure(r, "load", MovieForm(ui, MovieDefaults), Ended(r))

\* Whatever is selected by now; a failed fetch shows the defaults.
MovieShow(r) ==
    \/ Success(r, "load") /\ Answer(r, MovieForm(ui, r.obj), Ended(r))
    \/ Failure(r, "load", MovieForm(ui, MovieDefaults), Ended(r))

\* An edit, or a token that the builder inserts.
MovieType  == Edits(TRUE)
MovieToken == Edits(TRUE)

\* What is not on the page is sent as its default.
MovieBody == IF ui.open THEN Body(ui.val, ui.rest, Kept, 0) ELSE NoBody

MovieSave ==
    /\ ui.button /\ Uncovered
    /\ Clicks([ui EXCEPT !.button = FALSE], Ask(reqs, "save", Of(ui.sel), MovieBody))

\* Mutant of MovieSaved: a failure, too, forgets the changes.
MovieSavedAlways(r) ==
    \/ (Success(r, "save") \/ Refused(r, "save")) /\ Answer(r, Gone(ui), Ended(r))
    \/ Failure(r, "save", Settled(ui), Ended(r))

\* Any answer leaves the page; a failure gives the button back.
MovieSaved(r) ==
    \/ (Success(r, "save") \/ Refused(r, "save")) /\ Answer(r, Gone(ui), Ended(r))
    \/ Failure(r, "save", [ui EXCEPT !.button = TRUE], Ended(r))

\* Instances changed elsewhere: the selector is filled again, and with it
\* the form.
MovieInstancesChanged ==
    /\ acts < MaxActs[page]
    /\ acts' = acts + 1
    /\ reqs' = Ask(reqs, "list", New, NoBody)
    /\ hist' = [hist EXCEPT !.excuse = @ \cup {"refilled"}]
    /\ UNCHANGED <<page, ui, cache, timers, srv>>

MovieLeave   == Leaves(Gone(ui), reqs)
MovieDiscard == Confirms(Gone(ui), reqs)
MovieClick ==
    \/ \E k \in Range(srv.order) \ {ui.sel} : MovieChange(k)
    \/ MovieType \/ MovieToken \/ MovieSave \/ MovieLeave \/ MovieDiscard
    \/ MovieInstancesChanged
MovieAnswer(r) == MovieInstances(r) \/ MovieShow(r) \/ MovieSaved(r)

---------------------------------------------------------------------------
(* tv-management.js: the same, but a saved form stays.                     *)

TVLoad(Q, k) == Ask(Q, "load", Of(k), NoBody)
TVInstances(r) ==
    \/ /\ Success(r, "list")
       /\ \E k \in Range(srv.order) : Answer(r, Unloaded(k), TVLoad(Ended(r), k))
    \/ Dropped(r, "list")
TVChange(k) ==
    /\ ui.sel # None /\ Uncovered
    /\ Acts(Unloaded(k), TVLoad(reqs, k), cache, [hist EXCEPT !.typed = 0])
TVShow(r) ==
    \/ Success(r, "load") /\ Answer(r, TVForm(ui, r.obj), Ended(r))
    \/ Failure(r, "load", TVForm(ui, TVDefaults), Ended(r))
TVType  == Edits(TRUE)
TVToken == Edits(TRUE)
TVBody  == IF ui.open THEN Body(ui.val, ui.rest, Kept, 0) ELSE NoBody
TVSave ==
    /\ ui.button /\ Uncovered
    /\ Clicks([ui EXCEPT !.button = FALSE], Ask(reqs, "save", Of(ui.sel), TVBody))
TVSaved(r) ==
    \/ (Success(r, "save") \/ Refused(r, "save")) /\ Answer(r, Settled(ui), Ended(r))
    \/ Failure(r, "save", [ui EXCEPT !.button = TRUE], Ended(r))
TVLeave   == Leaves(Gone(ui), reqs)
TVDiscard == Confirms(Gone(ui), reqs)
TVClick ==
    \/ \E k \in Range(srv.order) \ {ui.sel} : TVChange(k)
    \/ TVType \/ TVToken \/ TVSave \/ TVLeave \/ TVDiscard
TVAnswer(r) == TVInstances(r) \/ TVShow(r) \/ TVSaved(r)

---------------------------------------------------------------------------
(* profile-editor.js: a movie profile goes by its position, a TV profile   *)
(* by its id.                                                              *)

ProfileOpen(r) ==
    \/ Success(r, "load") /\ Answer(r, [ProfileForm(ui, r.obj) EXCEPT !.at = r.at], Ended(r))
    \/ Ignored(r, "load") \/ Dropped(r, "load")

\* An edit of a field, or a quality dragged to another place.
ProfileType == Edits(TRUE)
ProfileDrag == Edits(TRUE)

ProfileBody == Body(ui.val, ui.rest, Kept, 0)
ProfileSave ==
    /\ ui.open /\ ui.button /\ Uncovered
    /\ Clicks([ui EXCEPT !.button = FALSE], Ask(reqs, "save", ui.at, ProfileBody))

\* The scores go with the next request.
ProfileSaveScores(Q) == Ask(Q, "scores", New, NoBody)

\* Mutant of ProfileSaved: takes any answer for a success.
ProfileSavedAny(r) ==
    \/ (Success(r, "save") \/ Refused(r, "save"))
       /\ Answer(r, [ui EXCEPT !.dirty = FALSE], ProfileSaveScores(Ended(r)))
    \/ Failure(r, "save", [ui EXCEPT !.button = TRUE], Ended(r))

ProfileSaved(r) ==
    \/ Success(r, "save")
       /\ Answer(r, [ui EXCEPT !.dirty = FALSE], ProfileSaveScores(Ended(r)))
    \/ Refused(r, "save") /\ Answer(r, [ui EXCEPT !.button = TRUE], Ended(r))
    \/ Failure(r, "save", [ui EXCEPT !.button = TRUE], Ended(r))
ProfileScoresSaved(r) ==
    (Success(r, "scores") /\ Answer(r, ui, Ended(r))) \/ Ignored(r, "scores") \/ Dropped(r, "scores")

ProfileLeave   == Leaves(Gone(ui), reqs)
ProfileDiscard == Confirms(Gone(ui), reqs)
ProfileClick == ProfileType \/ ProfileDrag \/ ProfileSave \/ ProfileLeave \/ ProfileDiscard
ProfileAnswer(r) == ProfileOpen(r) \/ ProfileSaved(r) \/ ProfileScoresSaved(r)

---------------------------------------------------------------------------
(* notifications.js: connections, by id, in a modal over their list.       *)

\* The form of an entry, or of a new one.
ConnectionForm(at, k) == [ui EXCEPT !.open = TRUE, !.form = @ + 1, !.at = at, !.rest = k, !.val = 0]
IndexerForm(at, k)    == [ui EXCEPT !.open = TRUE, !.form = @ + 1, !.at = at, !.rest = k, !.val = 0]
Opens(u, k) ==
    /\ ~ui.open /\ Uncovered
    /\ Acts(u, reqs, cache,
            [hist EXCEPT !.owns = @ \cup (IF k = None THEN {} ELSE {<<ui.form + 1, k>>}),
                         !.typed = 0])

ConnectionsShow(r) ==
    \/ Success(r, "load") /\ Handle(r, ui, Ended(r), r.obj, timers, {})
    \/ Dropped(r, "load")

ConnectionOpen(k) == k \in Range(cache) /\ Opens(ConnectionForm(Of(k), k), k)
ConnectionAdd     == Opens(ConnectionForm(New, None), None)
ConnectionType    == Edits(FALSE)
ConnectionClose   == /\ ui.open /\ Uncovered
                     /\ ui' = [ui EXCEPT !.open = FALSE, !.at = New]
                     /\ UNCHANGED <<page, cache, timers, srv, reqs, hist, acts>>

\* A new entry, or the one under edit; the button is off until it is done.
Posted(Q) == Ask(Q, IF ui.at = New THEN "add" ELSE "save", ui.at, Body(ui.val, ui.rest, Kept, ui.form))
ConnectionSave ==
    /\ ui.open /\ ui.button /\ Uncovered
    /\ Clicks([ui EXCEPT !.button = FALSE], Posted(reqs))

ConnectionsReload(Q) == Ask(Q, "reload", New, NoBody)

\* Mutant of ConnectionSaved: the new entry's id is not kept.
ConnectionSavedForgets(r) ==
    \/ (Success(r, "add") \/ Success(r, "save")) /\ Answer(r, ui, ConnectionsReload(Ended(r)))
    \/ \E op \in {"add", "save"} :
          LET u == [ui EXCEPT !.button = TRUE] IN
          (Refused(r, op) /\ Answer(r, u, Ended(r))) \/ Failure(r, op, u, Ended(r))

\* A form without an entry takes the one just added for its own.
ConnectionSaved(r) ==
    \/ /\ Success(r, "add")
       /\ Answer(r, IF ui.at = New THEN [ui EXCEPT !.at = Of(r.obj[1])] ELSE ui,
                 ConnectionsReload(Ended(r)))
    \/ Success(r, "save") /\ Answer(r, ui, ConnectionsReload(Ended(r)))
    \/ \E op \in {"add", "save"} :
          LET u == [ui EXCEPT !.button = TRUE] IN
          (Refused(r, op) /\ Answer(r, u, Ended(r))) \/ Failure(r, op, u, Ended(r))
ConnectionsReloaded(r) ==
    LET u == [ui EXCEPT !.button = TRUE] IN
    \/ Success(r, "reload") /\ Handle(r, u, Ended(r), r.obj, timers, {})
    \/ Failure(r, "reload", u, Ended(r))

ConnectionDelete(k) ==
    ~ui.open /\ Uncovered /\ k \in Range(cache) /\ Clicks([ui EXCEPT !.dialog = Of(k)], reqs)
ConnectionDoDelete ==
    /\ ui.dialog # None
    /\ Clicks([ui EXCEPT !.dialog = None], Ask(reqs, "remove", ui.dialog, NoBody))
ConnectionDeleted(r) ==
    \/ Success(r, "remove") /\ Answer(r, ui, Ask(Ended(r), "load", New, NoBody))
    \/ Ignored(r, "remove") \/ Dropped(r, "remove")

ConnectionClick ==
    \/ \E k \in Keys : ConnectionOpen(k) \/ ConnectionDelete(k)
    \/ ConnectionAdd \/ ConnectionType \/ ConnectionClose \/ ConnectionSave \/ ConnectionDoDelete
ConnectionAnswer(r) ==
    \/ ConnectionsShow(r) \/ ConnectionSaved(r) \/ ConnectionsReloaded(r) \/ ConnectionDeleted(r)

---------------------------------------------------------------------------
(* indexer-editor.js: indexers, by id or by position.                      *)

IndexersShow(r) ==
    \/ Success(r, "load") /\ Handle(r, ui, Ended(r), r.obj, timers, {})
    \/ Dropped(r, "load")

IndexerOpen(i) ==
    /\ i \in DOMAIN cache
    /\ \E at \in {Of(cache[i]), Index(i)} : Opens(IndexerForm(at, cache[i]), cache[i])
IndexerAdd     == Opens(IndexerForm(New, None), None)
\* An edit of a field, or an indexer of the Index Master that fills them.
IndexerType    == Edits(FALSE)
IndexerImport  == Edits(FALSE)
IndexerSave    == ui.open /\ Uncovered /\ Clicks(ui, Posted(reqs))
IndexerBack    == /\ ui.open /\ Uncovered
                  /\ ui' = [ui EXCEPT !.open = FALSE, !.at = New]
                  /\ UNCHANGED <<page, cache, timers, srv, reqs, hist, acts>>

\* Mutant of IndexerSaved: the position is not looked for in the answer.
IndexerSavedUnread(r) ==
    \/ /\ \E op \in {"add", "save"} : Success(r, op) \/ Refused(r, op)
       /\ Answer(r, [ui EXCEPT !.at = IF ui.open /\ @ = New THEN Index(None) ELSE @],
                 Ask(Ended(r), "load", New, NoBody))
    \/ Dropped(r, "add") \/ Dropped(r, "save")

\* The open editor is taken for an edit from then on, of the position in
\* the answer, or of no entry when there is none.
IndexerSaved(r) ==
    \/ /\ \E op \in {"add", "save"} : Success(r, op) \/ Refused(r, op)
       /\ Answer(r, [ui EXCEPT !.at = IF ~ui.open \/ @ # New THEN @
                                      ELSE Index(IF Success(r, "add") THEN r.obj[2] ELSE 0)],
                 Ask(Ended(r), "load", New, NoBody))
    \/ Dropped(r, "add") \/ Dropped(r, "save")

IndexerClick ==
    \/ \E i \in DOMAIN cache : IndexerOpen(i)
    \/ IndexerAdd \/ IndexerType \/ IndexerImport \/ IndexerSave \/ IndexerBack
IndexerAnswer(r) == IndexersShow(r) \/ IndexerSaved(r)

---------------------------------------------------------------------------
\* The page is entered: its object, list or selector is asked for.
Entry(p) ==
    \/ /\ p \in AtClick
       /\ ui = Blank(Stored[1], Of(Stored[1]))
       /\ reqs = Ask({}, "load", Of(Stored[1]), NoBody)
    \/ /\ p \in Dropdown
       /\ ui = Blank(None, New)
       /\ reqs = Ask({}, "list", New, NoBody)
    \/ /\ p = "profile"
       /\ \E at \in {Of(Stored[1]), Index(1)} :
             ui = Blank(Stored[1], at) /\ reqs = Ask({}, "load", at, NoBody)
    \/ /\ p \in Editors
       /\ ui = [Blank(None, New) EXCEPT !.button = TRUE]
       /\ reqs = Ask({}, "load", New, NoBody)

Init ==
    /\ page \in Pages
    /\ Entry(page)
    /\ cache = IF page \in Editors THEN <<>> ELSE None
    /\ timers = <<>>
    /\ srv = [obj |-> [k \in Keys |-> [val |-> 0, other |-> 0]], order |-> Stored]
    /\ hist = [harm |-> {}, excuse |-> {}, typed |-> 0, owns |-> {}]
    /\ acts = 0

Click ==
    \/ page = "general"      /\ GeneralClick
    \/ page = "log_settings" /\ LogClick
    \/ page = "swaparr"      /\ SwaparrClick
    \/ page = "instance"     /\ InstanceClick
    \/ page = "prowlarr"     /\ ProwlarrClick
    \/ page = "movie"        /\ MovieClick
    \/ page = "tv"           /\ TVClick
    \/ page = "profile"      /\ ProfileClick
    \/ page = "connection"   /\ ConnectionClick
    \/ page = "indexer"      /\ IndexerClick
    \/ Stay

Ends(r) ==
    \/ page \in AtClick      /\ AtClickAnswer(r)
    \/ page = "movie"        /\ MovieAnswer(r)
    \/ page = "tv"           /\ TVAnswer(r)
    \/ page = "profile"      /\ ProfileAnswer(r)
    \/ page = "connection"   /\ ConnectionAnswer(r)
    \/ page = "indexer"      /\ IndexerAnswer(r)

Network == \E r \in reqs : Serve(r) \/ Ends(r)
Next == Click \/ Network \/ Redraw \/ Listen \/ OtherTab

Spec == Init /\ [][Next]_vars

---------------------------------------------------------------------------
(* Properties.                                                             *)

TypeOK ==
    /\ page \in Pages
    /\ ui.sel \in Keys \cup {None} /\ ui.rest \in Keys \cup {None}
    /\ ui.at.by \in {"key", "index", "none"} /\ ui.at.i \in Nat \cup Keys
    /\ ui.val \in 0..acts /\ ui.form \in 0..acts
    /\ page \in Editors => cache \in Seq(Keys)
    /\ srv.obj \in [Keys -> [val : 0..acts, other : 0..acts]] /\ srv.order \in Seq(Keys)
    /\ hist.harm \subseteq {"lost", "rest", "other", "wrong", "twice"}
    /\ acts \in 0..MaxActs[page]

\* What each family of forms copes with.
Copes ==
    CASE page \in AtClick  -> {"other"}
      [] page \in Dropdown -> {"other", "failed", "reordered"}
      [] page = "profile"  -> {"failed", "reordered", "refused"} \cup
                              (IF ui.at.by = "key" THEN {"other"} ELSE {})
      [] page \in Editors  -> {}

\* When all is answered and the form shows no unsaved change, the server has
\* the last edit.
Saved ==
    /\ page \notin Editors /\ ~Busy /\ Uncovered
    /\ ui.open /\ ~ui.dirty /\ ~ui.button
    /\ hist.excuse \subseteq Copes
    => hist.typed \in {0, srv.obj[Edited].val}

\* No edit is lost by leaving a form without a question.
LeaveAsks == "lost" \in hist.harm => ~(hist.excuse \subseteq Copes)

\* An object gets the fields of its own form: those the user left alone come
\* from it, never from another instance or the defaults.
RightForm ==
    "rest" \in hist.harm =>
        \/ page \in Dropdown /\ hist.excuse \cap {"failed", "hasty", "refilled"} # {}
        \/ page = "profile"  /\ "other" \in hist.excuse

\* A save never undoes what another page wrote to fields that are not on the
\* form, but where the form sends such fields and another page did write them
\* (all of the object, as fetched; or the defaults of the general form).
OthersKept ==
    "other" \in hist.harm => page \in Whole /\ "other" \in hist.excuse

\* An editor writes its own entry, once: an entry it was not opened for and
\* did not add is never overwritten, and one form never adds two.
RightEntry ==
    /\ hist.harm \cap {"wrong", "twice"} # {} => hist.excuse \cap {"failed", "hasty", "other"} # {}
    /\ page = "connection" /\ "wrong" \in hist.harm => "hasty" \in hist.excuse

=============================================================================
