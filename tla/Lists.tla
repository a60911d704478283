-------------------------------- MODULE Lists --------------------------------
(***************************************************************************)
(* The list pages of the web interface, each under the name of its file.   *)
(* An action is a handler: of a click, or of the end of a request.         *)
(* Nothing numbers the requests and no handler asks whether the answer it  *)
(* got is still the one wanted.                                            *)
(***************************************************************************)
EXTENDS ListServer

\* A page with selection k.  target: the entry under edit (currentEditId,
\* editingIndex); form: what its fields show; busy: the buttons disabled, and
\* "load" for isLoading; drawing: rows still to be appended to the table.
Blank(k) == [sel |-> k, pos |-> 1, pages |-> 1, rows |-> <<>>, drawing |-> {},
             dialog |-> None, target |-> Nothing, form |-> None,
             busy |-> {}]

\* An operation of the user leaves the page as u and the requests as Q; the
\* requests are bounded, not the looking around.  "hasty": something was
\* still unanswered.
Do(u, Q, why) ==
    /\ Q = reqs \/ acts < MaxActs[page]
    /\ acts' = IF Q = reqs THEN acts ELSE acts + 1
    /\ ui' = u
    /\ reqs' = Q
    /\ hist' = Excused(why \cup (IF reqs # {} THEN {"hasty"} ELSE {}))
    /\ UNCHANGED <<page, srv>>

\* The end of request r: its answer (refused when success is false in it), or
\* a failure of the network, before or after the server handled it.
Success(r, op) == r.op = op /\ r.st = "done" /\ r.ok
Refused(r, op) == r.op = op /\ r.st = "done" /\ ~r.ok
Handle(r, u, Q, harm, why) ==
    /\ ui' = u
    /\ reqs' = Q
    /\ hist' = [harm   |-> hist.harm \cup harm,
                excuse |-> hist.excuse \cup why \cup
                           (IF Earlier(r) # {} THEN {"reordered"} ELSE {})]
    /\ UNCHANGED <<page, srv, acts>>

Answer(r, u, Q)   == Handle(r, u, Q, {}, {})
Failure(r, op, u, Q) == r.op = op /\ Handle(r, u, Q, {}, {"failed"})
Ignored(r, op)    == Refused(r, op) /\ Answer(r, ui, reqs \ {r})
Dropped(r, op)    == Failure(r, op, ui, reqs \ {r})

\* A dialog or a form covers the page.
Uncovered == ui.dialog = None /\ ui.form = None

\* The rows of an answer.
Shown(r) == [ui EXCEPT !.rows = r.rows]

\* SniparrConfirm.show asks about one operation; a second dialog takes the
\* place of the first.  A key or address left open is read when it is confirmed.
Asking(op, key, at, want) == [op |-> op, key |-> key, at |-> at, want |-> want, rest |-> <<>>]
AskUser(op, key, at, want) ==
    /\ ui.dialog = None
    /\ Do([ui EXCEPT !.dialog = Asking(op, key, at, want)], reqs, {})

Confirm ==
    LET d == ui.dialog IN
    /\ d # None /\ d.op # "purge"
    /\ Do([ui EXCEPT !.dialog = None],
          Ask(reqs, d.op, IF d.key = None THEN ui.sel ELSE d.key,
              IF d.at = Nothing THEN ui.target ELSE d.at, d.want), {})

Cancel ==
    /\ ui.dialog # None
    /\ ui' = [ui EXCEPT !.dialog = None]
    /\ UNCHANGED <<page, srv, reqs, hist, acts>>

\* A form for row i, or for a new entry, and its closing.
Opened(at, x) == [ui EXCEPT !.target = at, !.form = x]
Edits(at, i)  == Uncovered /\ i \in DOMAIN ui.rows /\ Do(Opened(at, ui.rows[i]), reqs, {})
Closed(u)     == [u EXCEPT !.form = None, !.target = Nothing]
CloseForm     == /\ ui.form # None /\ ui.dialog = None
                 /\ ui' = Closed(ui)
                 /\ UNCHANGED <<page, srv, reqs, hist, acts>>
\* The form is sent: to the entry under edit, or as a new one.
Sends(Q, key) ==
    IF ui.target = Nothing THEN Ask(Q, "add", key, Nothing, ui.form)
    ELSE Ask(Q, "save", key, ui.target, ui.form)
Saves(key) == /\ ui.form # None /\ ui.dialog = None
              /\ Do(ui, Sends(reqs, key), {})
\* A saved form is closed, and with it whatever form is open by then.
ClosesForm(r) == IF ui.form \in {None, r.want} THEN {} ELSE {"form"}

---------------------------------------------------------------------------
(* custom-formats.js: the server's current instance, positions.            *)

CustomFormatsRefresh(Q) == Ask(Q, "load", Current, Nothing, None)

CustomFormatsPopulate(r) ==
    \/ /\ Success(r, "list")
       /\ \E k \in Keys : Answer(r, [ui EXCEPT !.sel = k],
                                 Ask(reqs \ {r}, "put", k, Nothing, k))
    \/ Dropped(r, "list")

CustomFormatsChange(k) ==
    Uncovered /\ Do([ui EXCEPT !.sel = k], Ask(reqs, "put", k, Nothing, k), {})

\* The list is fetched again whether or not the server took the instance.
CustomFormatsSetCurrent(r) ==
    LET Q == CustomFormatsRefresh(reqs \ {r}) IN
    (Success(r, "put") /\ Answer(r, ui, Q)) \/ Failure(r, "put", ui, Q)

CustomFormatsShow(r) ==
    \/ Success(r, "load") /\ Answer(r, Shown(r), reqs \ {r})
    \/ Failure(r, "load", [ui EXCEPT !.rows = <<>>], reqs \ {r})

CustomFormatsEdit(i) == Edits(Index(i), i)
CustomFormatsAdd     == Uncovered /\ Do(Opened(Nothing, Added), reqs, {})
CustomFormatsSave    == Saves(Current)

CustomFormatsSaved(r) ==
    \/ (Success(r, "save") \/ Success(r, "add"))
       /\ Handle(r, Closed(ui), CustomFormatsRefresh(reqs \ {r}), ClosesForm(r), {})
    \/ \E op \in {"save", "add"} : Ignored(r, op) \/ Dropped(r, op)

\* The formats chosen from the list offered are added one after another,
\* however each request ends; the form stays open until the last.
CustomFormatsAddNext(Q, x, left) ==
    IF left = <<>> THEN CustomFormatsRefresh(Q)
    ELSE Q \cup {[Request(Q, "chosen", Current, Nothing, x) EXCEPT !.rest = Tail(left)]}
CustomFormatsSaveChosen ==
    /\ ui.form # None /\ ui.target = Nothing /\ ui.dialog = None
    /\ \E m \in 1..MaxChosen :
          Do(ui, CustomFormatsAddNext(reqs, ui.form, [n \in 1..m |-> [i |-> n, want |-> ui.form]]), {})
CustomFormatsAdded(r) ==
    LET Q    == CustomFormatsAddNext(reqs \ {r}, r.want, r.rest)
        u    == IF r.rest = <<>> THEN Closed(ui) ELSE ui
        harm == IF r.rest = <<>> THEN ClosesForm(r) ELSE {}
    IN \/ (Success(r, "chosen") \/ Refused(r, "chosen")) /\ Handle(r, u, Q, harm, {})
       \/ r.op = "chosen" /\ Handle(r, u, Q, harm, {"failed"})

CustomFormatsDelete(i) ==
    Uncovered /\ i \in DOMAIN ui.rows /\ AskUser("remove", Current, Index(i), ui.rows[i])

CustomFormatsDeleted(r) ==
    \/ Success(r, "remove") /\ Answer(r, ui, CustomFormatsRefresh(reqs \ {r}))
    \/ Ignored(r, "remove") \/ Dropped(r, "remove")

\* Delete all of a type: their positions S in order, from the last to the
\* first; a failure does not stop them.
CustomFormatsDeleteAll(S) ==
    /\ Uncovered /\ S # {}
    /\ \E js \in [1..Cardinality(S) -> S] :
         /\ \A m, n \in DOMAIN js : m < n => js[m] < js[n]
         /\ Do([ui EXCEPT !.dialog =
                   [Asking("purge", Current, Nothing, None) EXCEPT
                       !.rest = [n \in DOMAIN js |-> [i |-> js[n], want |-> ui.rows[js[n]]]]]],
               reqs, {})

\* Mutant of CustomFormatsPurge: from the first to the last.
CustomFormatsPurgeForward(Q, left) ==
    IF left = <<>> THEN CustomFormatsRefresh(Q)
    ELSE LET x == Head(left) IN
         Q \cup {[Request(Q, "purge", Current, Index(x.i), x.want) EXCEPT !.rest = Tail(left)]}

\* The last of what is left, or the list again.
CustomFormatsPurge(Q, left) ==
    IF left = <<>> THEN CustomFormatsRefresh(Q)
    ELSE LET x == Last(left) IN
         Q \cup {[Request(Q, "purge", Current, Index(x.i), x.want) EXCEPT !.rest = Front(left)]}

CustomFormatsDeleteNext(r) ==
    LET Q == CustomFormatsPurge(reqs \ {r}, r.rest) IN
    \/ (Success(r, "purge") \/ Refused(r, "purge")) /\ Answer(r, ui, Q)
    \/ Failure(r, "purge", ui, Q)
CustomFormatsRunDeleteAll ==
    /\ ui.dialog # None /\ ui.dialog.op = "purge"
    /\ Do([ui EXCEPT !.dialog = None], CustomFormatsPurge(reqs, ui.dialog.rest), {})

CustomFormatsClick ==
    \/ \E k \in Keys \ {ui.sel} : CustomFormatsChange(k)
    \/ \E i \in DOMAIN ui.rows : CustomFormatsEdit(i) \/ CustomFormatsDelete(i)
    \/ CustomFormatsAdd \/ CustomFormatsSave \/ CustomFormatsSaveChosen
    \/ CustomFormatsRunDeleteAll
    \/ \E S \in SUBSET DOMAIN ui.rows : CustomFormatsDeleteAll(S)
CustomFormatsAnswer(r) ==
    \/ CustomFormatsPopulate(r) \/ CustomFormatsSetCurrent(r) \/ CustomFormatsShow(r)
    \/ CustomFormatsSaved(r) \/ CustomFormatsAdded(r)
    \/ CustomFormatsDeleted(r) \/ CustomFormatsDeleteNext(r)

---------------------------------------------------------------------------
(* indexers.js: the server's current instance, positions.                  *)

IndexersRefresh(Q) == Ask(Q, "load", Current, Nothing, None)

IndexersPopulate(r) ==
    \/ /\ Success(r, "list")
       /\ \E k \in Keys : Answer(r, [ui EXCEPT !.sel = k],
                                 Ask(reqs \ {r}, "put", k, Nothing, k))
    \/ Dropped(r, "list")

IndexersChange(k) ==
    Uncovered /\ Do([ui EXCEPT !.sel = k], Ask(reqs, "put", k, Nothing, k), {})

IndexersSetCurrent(r) ==
    LET Q == IndexersRefresh(reqs \ {r}) IN
    (Success(r, "put") /\ Answer(r, ui, Q)) \/ Failure(r, "put", ui, Q)

IndexersShow(r) ==
    \/ Success(r, "load") /\ Answer(r, Shown(r), reqs \ {r})
    \/ Failure(r, "load", [ui EXCEPT !.rows = <<>>], reqs \ {r})

\* The entry is taken from the list at the click, its address (a position,
\* for a movie instance) too; the instance is the server's when it arrives.
IndexersDelete(i) ==
    Uncovered /\ i \in DOMAIN ui.rows /\ AskUser("remove", Current, Index(i), ui.rows[i])

IndexersDeleted(r) ==
    \/ Success(r, "remove") /\ Answer(r, ui, IndexersRefresh(reqs \ {r}))
    \/ Ignored(r, "remove") \/ Dropped(r, "remove")

\* Import from Index Master into the selected instance; the button is
\* disabled until the request ends, however it ends.
IndexersImport ==
    /\ Uncovered /\ ui.sel # None /\ "import" \notin ui.busy
    /\ Do([ui EXCEPT !.busy = @ \cup {"import"}], Ask(reqs, "add", ui.sel, Nothing, Added), {})

IndexersImported(r) ==
    LET u == [ui EXCEPT !.busy = @ \ {"import"}] IN
    \/ Success(r, "add") /\ Answer(r, u, IndexersRefresh(reqs \ {r}))
    \/ Refused(r, "add") /\ Answer(r, u, reqs \ {r})
    \/ Failure(r, "add", u, reqs \ {r})

IndexersClick ==
    \/ \E k \in Keys \ {ui.sel} : IndexersChange(k)
    \/ \E i \in DOMAIN ui.rows : IndexersDelete(i)
    \/ IndexersImport
IndexersAnswer(r) ==
    \/ IndexersPopulate(r) \/ IndexersSetCurrent(r) \/ IndexersShow(r)
    \/ IndexersDeleted(r) \/ IndexersImported(r)

---------------------------------------------------------------------------
(* root-folders.js: the selector's instance, positions.  The cards are     *)
(* drawn with the default folder first, and each keeps the position of its *)
(* entry in the server's list (f.index): rows are in that order here.      *)

RootFoldersRefresh(Q, k) == Ask(Q, "load", k, Nothing, None)

RootFoldersPopulate(r) ==
    \/ /\ Success(r, "list")
       /\ \E k \in Keys : Answer(r, [ui EXCEPT !.sel = k], RootFoldersRefresh(reqs \ {r}, k))
    \/ Dropped(r, "list")

RootFoldersChange(k) ==
    Uncovered /\ Do([ui EXCEPT !.sel = k], RootFoldersRefresh(reqs, k), {})

RootFoldersShow(r) ==
    \/ Success(r, "load") /\ Answer(r, Shown(r), reqs \ {r})
    \/ Failure(r, "load", [ui EXCEPT !.rows = <<>>], reqs \ {r})

\* The row's position, in the instance selected now.
RootFoldersSetDefault(i) ==
    /\ Uncovered /\ ui.sel # None /\ i \in DOMAIN ui.rows
    /\ Do(ui, Ask(reqs, "save", ui.sel, Index(i), ui.rows[i]), {})

RootFoldersDefaultSet(r) ==
    \/ Success(r, "save") /\ Answer(r, ui, RootFoldersRefresh(reqs \ {r}, ui.sel))
    \/ Ignored(r, "save") \/ Dropped(r, "save")

RootFoldersTest ==
    /\ Uncovered /\ ui.sel # None /\ "test" \notin ui.busy
    /\ Do([ui EXCEPT !.busy = @ \cup {"test"}], Ask(reqs, "test", ui.sel, Nothing, None), {})

\* Mutant of RootFoldersTested: a failure keeps the button disabled.
RootFoldersTestedKept(r) ==
    \/ Success(r, "test") /\ Answer(r, [ui EXCEPT !.busy = @ \ {"test"}], reqs \ {r})
    \/ Dropped(r, "test")

RootFoldersTested(r) ==
    LET u == [ui EXCEPT !.busy = @ \ {"test"}] IN
    (Success(r, "test") /\ Answer(r, u, reqs \ {r})) \/ Failure(r, "test", u, reqs \ {r})

\* The button is disabled while it runs, the Enter key of the field is not.
RootFoldersAdd ==
    /\ Uncovered /\ ui.sel # None
    /\ Do([ui EXCEPT !.busy = @ \cup {"add"}], Ask(reqs, "add", ui.sel, Nothing, Added), {})

RootFoldersAdded(r) ==
    LET u == [ui EXCEPT !.busy = @ \ {"add"}] IN
    \/ Success(r, "add") /\ Answer(r, u, RootFoldersRefresh(reqs \ {r}, ui.sel))
    \/ Refused(r, "add") /\ Answer(r, u, reqs \ {r})
    \/ Failure(r, "add", u, reqs \ {r})

\* The address is made at the click, before the question.
RootFoldersDelete(i) ==
    /\ Uncovered /\ ui.sel # None /\ i \in DOMAIN ui.rows
    /\ AskUser("remove", ui.sel, Index(i), ui.rows[i])

RootFoldersDeleted(r) ==
    \/ Success(r, "remove") /\ Answer(r, ui, RootFoldersRefresh(reqs \ {r}, ui.sel))
    \/ Ignored(r, "remove") \/ Dropped(r, "remove")

RootFoldersClick ==
    \/ \E k \in Keys \ {ui.sel} : RootFoldersChange(k)
    \/ \E i \in DOMAIN ui.rows : RootFoldersSetDefault(i) \/ RootFoldersDelete(i)
    \/ RootFoldersTest \/ RootFoldersAdd
RootFoldersAnswer(r) ==
    \/ RootFoldersPopulate(r) \/ RootFoldersShow(r) \/ RootFoldersDefaultSet(r)
    \/ RootFoldersTested(r) \/ RootFoldersAdded(r) \/ RootFoldersDeleted(r)

---------------------------------------------------------------------------
(* root-folders.js, the directory browser: keys are directories.           *)

\* The field shows the directory asked for at once, and takes the one of the
\* answer when the rows come: the two belong together however answers come.
BrowseLoad(u, Q, k) == <<[u EXCEPT !.sel = k], Ask(Q, "load", k, Nothing, None)>>

BrowseGo(k) == LET l == BrowseLoad(ui, reqs, k) IN Uncovered /\ Do(l[1], l[2], {})

BrowseShow(r) ==
    \/ /\ Success(r, "load")
       /\ Answer(r, [ui EXCEPT !.sel = r.key, !.rows = r.rows], reqs \ {r})
    \/ Failure(r, "load", [ui EXCEPT !.rows = <<>>], reqs \ {r})

BrowseCreate ==
    Uncovered /\ Do(ui, Ask(reqs, "add", ui.sel, Nothing, Added), {})
BrowseRename(i) ==
    /\ Uncovered /\ i \in DOMAIN ui.rows
    /\ Do(ui, Ask(reqs, "save", ui.sel, Id(ui.rows[i]), ui.rows[i]), {})
BrowseDelete(i) ==
    Uncovered /\ i \in DOMAIN ui.rows /\ AskUser("remove", ui.sel, Id(ui.rows[i]), ui.rows[i])

\* The parent directory is listed again.
BrowseChanged(r) ==
    LET l == BrowseLoad(ui, reqs \ {r}, r.key) IN
    \/ \E op \in {"add", "save", "remove"} : Success(r, op) /\ Answer(r, l[1], l[2])
    \/ \E op \in {"add", "save", "remove"} : Ignored(r, op) \/ Dropped(r, op)

BrowseClick ==
    \/ \E k \in Keys : BrowseGo(k)
    \/ \E i \in DOMAIN ui.rows : BrowseRename(i) \/ BrowseDelete(i)
    \/ BrowseCreate
BrowseAnswer(r) == BrowseShow(r) \/ BrowseChanged(r)

---------------------------------------------------------------------------
(* remote-mappings.js: one list, positions.                                *)

RemoteMappingsRefresh(Q) == Ask(Q, "load", ui.sel, Nothing, None)

\* A failed fetch draws a row that says so.
RemoteMappingsShow(r) ==
    \/ Success(r, "load") /\ Answer(r, Shown(r), reqs \ {r})
    \/ Failure(r, "load", [ui EXCEPT !.rows = <<>>], reqs \ {r})

RemoteMappingsAdd     == Uncovered /\ Do(Opened(Nothing, Added), reqs, {})
RemoteMappingsEdit(i) == Edits(Index(i), i)
RemoteMappingsClose   == CloseForm
RemoteMappingsSave    == Saves(ui.sel)

RemoteMappingsSaved(r) ==
    \/ /\ Success(r, "save") \/ Success(r, "add")
       /\ Handle(r, Closed(ui), RemoteMappingsRefresh(reqs \ {r}), ClosesForm(r), {})
    \/ \E op \in {"save", "add"} : Ignored(r, op) \/ Dropped(r, op)

\* Asked from the form; the position is taken before the question.
RemoteMappingsDelete ==
    /\ ui.form # None /\ ui.target # Nothing
    /\ AskUser("remove", ui.sel, ui.target, ui.form)

\* Mutant of RemoteMappingsDeleted: the list is not fetched again.
RemoteMappingsDeletedStale(r) ==
    \/ Success(r, "remove") /\ Handle(r, Closed(ui), reqs \ {r}, ClosesForm(r), {})
    \/ Ignored(r, "remove") \/ Dropped(r, "remove")

RemoteMappingsDeleted(r) ==
    \/ /\ Success(r, "remove")
       /\ Handle(r, Closed(ui), RemoteMappingsRefresh(reqs \ {r}), ClosesForm(r), {})
    \/ Ignored(r, "remove") \/ Dropped(r, "remove")

RemoteMappingsClick ==
    \/ \E i \in DOMAIN ui.rows : RemoteMappingsEdit(i)
    \/ RemoteMappingsAdd \/ RemoteMappingsSave \/ RemoteMappingsDelete
RemoteMappingsAnswer(r) ==
    RemoteMappingsShow(r) \/ RemoteMappingsSaved(r) \/ RemoteMappingsDeleted(r)

---------------------------------------------------------------------------
(* import-lists.js: the selector's instance, ids.                          *)

ImportListsRefresh(Q, k) == Ask(Q, "load", k, Nothing, None)

ImportListsPopulate(r) ==
    \/ /\ Success(r, "list")
       /\ \E k \in Keys : Answer(r, [ui EXCEPT !.sel = k], ImportListsRefresh(reqs \ {r}, k))
    \/ Dropped(r, "list")

ImportListsChange(k) ==
    Uncovered /\ Do([ui EXCEPT !.sel = k], ImportListsRefresh(reqs, k), {})

ImportListsShow(r) ==
    \/ Success(r, "load") /\ Answer(r, Shown(r), reqs \ {r})
    \/ Failure(r, "load", [ui EXCEPT !.rows = <<>>], reqs \ {r})

\* Synchronise, or switch, entry i; the list is fetched when the answer comes.
ImportListsTouch(i) ==
    /\ Uncovered /\ i \in DOMAIN ui.rows
    /\ Do(ui, Ask(reqs, "test", ui.sel, Id(ui.rows[i]), ui.rows[i]), {})
ImportListsTouched(r) ==
    \/ Success(r, "test") /\ Answer(r, ui, ImportListsRefresh(reqs \ {r}, ui.sel))
    \/ Dropped(r, "test")

ImportListsAdd ==
    /\ Uncovered /\ ui.sel # None
    /\ Do(Opened(Nothing, Added), reqs, {})
ImportListsSaveNew == ui.target = Nothing /\ Saves(ui.sel)

\* The edited id is set at once; the form opens, filled with the entry of
\* that answer, when the answer comes.
ImportListsEdit(i) ==
    /\ Uncovered /\ i \in DOMAIN ui.rows
    /\ Do([ui EXCEPT !.target = Id(ui.rows[i])],
          Ask(reqs, "open", ui.sel, Id(ui.rows[i]), ui.rows[i]), {})
ImportListsOpened(r) ==
    \/ Success(r, "open") /\ Answer(r, [ui EXCEPT !.form = r.rows[1]], reqs \ {r})
    \/ Ignored(r, "open") \/ Dropped(r, "open")

ImportListsClose == CloseForm
ImportListsSave  == ui.target # Nothing /\ Saves(ui.sel)

ImportListsSaved(r) ==
    \/ /\ Success(r, "save") \/ Success(r, "add")
       /\ Handle(r, Closed(ui), ImportListsRefresh(reqs \ {r}, ui.sel), ClosesForm(r), {})
    \/ \E op \in {"save", "add"} : Ignored(r, op) \/ Dropped(r, op)

\* Asked from the form; the id is read when the user has confirmed.
ImportListsDelete ==
    /\ ui.form # None /\ ui.target # Nothing
    /\ AskUser("remove", None, Nothing, ui.form)
ImportListsDeleted(r) ==
    \/ /\ Success(r, "remove")
       /\ Handle(r, Closed(ui), ImportListsRefresh(reqs \ {r}, ui.sel), ClosesForm(r), {})
    \/ Ignored(r, "remove") \/ Dropped(r, "remove")

ImportListsClick ==
    \/ \E k \in Keys \ {ui.sel} : ImportListsChange(k)
    \/ \E i \in DOMAIN ui.rows : ImportListsTouch(i) \/ ImportListsEdit(i)
    \/ ImportListsAdd \/ ImportListsSaveNew \/ ImportListsSave \/ ImportListsDelete
ImportListsAnswer(r) ==
    \/ ImportListsPopulate(r) \/ ImportListsShow(r) \/ ImportListsTouched(r)
    \/ ImportListsOpened(r) \/ ImportListsSaved(r) \/ ImportListsDeleted(r)

---------------------------------------------------------------------------
(* indexer-hunt.js, Index Master: one list, ids.                           *)

IndexMasterLoad(Q) == Ask(Q, "load", ui.sel, Nothing, None)

\* A failed fetch leaves the cards, where a failure of the server itself
\* (Fail) is answered with an empty list and clears them.
IndexMasterShow(r) ==
    (Success(r, "load") /\ Answer(r, Shown(r), reqs \ {r})) \/ Dropped(r, "load")

IndexMasterEdit(i) == Edits(IF i \in DOMAIN ui.rows THEN Id(ui.rows[i]) ELSE Nothing, i)
IndexMasterAdd     == Uncovered /\ Do(Opened(Nothing, Added), reqs, {})
IndexMasterSave    == Saves(ui.sel)

\* A saved form goes back to the list, whichever entry the editor holds by then.
IndexMasterSaved(r) ==
    \/ /\ Success(r, "save") \/ Success(r, "add")
       /\ Handle(r, Closed(ui), IndexMasterLoad(reqs \ {r}), ClosesForm(r), {})
    \/ \E op \in {"save", "add"} : Ignored(r, op) \/ Dropped(r, op)

\* Mutant of IndexMasterDelete: by position.
IndexMasterDeleteAt(i) ==
    /\ Uncovered /\ i \in DOMAIN ui.rows
    /\ Do(ui, Ask(reqs, "linked", ui.sel, Index(i), ui.rows[i]), {})

\* The linked instances are asked for first, then the user.
IndexMasterDelete(i) ==
    /\ Uncovered /\ i \in DOMAIN ui.rows
    /\ Do(ui, Ask(reqs, "linked", ui.sel, Id(ui.rows[i]), ui.rows[i]), {})
IndexMasterAskDelete(r) ==
    \/ /\ Success(r, "linked")
       /\ Answer(r, [ui EXCEPT !.dialog = Asking("remove", ui.sel, r.at, r.want)], reqs \ {r})
    \/ Dropped(r, "linked")
IndexMasterDeleted(r) ==
    \/ Success(r, "remove") /\ Answer(r, ui, IndexMasterLoad(reqs \ {r}))
    \/ Ignored(r, "remove") \/ Dropped(r, "remove")

IndexMasterClick ==
    \/ \E i \in DOMAIN ui.rows : IndexMasterEdit(i) \/ IndexMasterDelete(i)
    \/ IndexMasterAdd \/ IndexMasterSave
IndexMasterAnswer(r) ==
    \/ IndexMasterShow(r) \/ IndexMasterSaved(r)
    \/ IndexMasterAskDelete(r) \/ IndexMasterDeleted(r)

---------------------------------------------------------------------------
(* history.js: a paged table of an application, drawn in batches.          *)

HistoryFetch(u, Q) == Ask(Q, "load", u.sel, Index(u.pos), None)

HistoryGo(u) == Uncovered /\ Do(u, HistoryFetch(u, reqs), {})
HistoryChange(k) == HistoryGo([ui EXCEPT !.sel = k, !.pos = 1])
HistoryPage == \/ ui.pos > 1 /\ HistoryGo([ui EXCEPT !.pos = @ - 1])
               \/ ui.pos < ui.pages /\ HistoryGo([ui EXCEPT !.pos = @ + 1])

\* The table is emptied; the rows of the answer follow when their links are
\* known, a batch at a time.
HistoryRender(r) ==
    [ui EXCEPT !.pages = r.count, !.rows = <<>>,
               !.drawing = IF r.rows = <<>> THEN @ ELSE @ \cup {r.rows}]
HistoryFetched(r) ==
    \/ /\ Success(r, "load")
       /\ Handle(r, HistoryRender(r), reqs \ {r}, {},
                 IF ui.drawing # {} THEN {"drawing"} ELSE {})
    \/ Dropped(r, "load")
HistoryRenderEntries ==
    \E rows \in ui.drawing :
        /\ ui' = [ui EXCEPT !.rows = @ \o rows, !.drawing = @ \ {rows}]
        /\ UNCHANGED <<page, srv, reqs, hist, acts>>

\* The application is read when the user has confirmed.
HistoryClear == Uncovered /\ AskUser("clear", None, Nothing, ui.sel)
HistoryCleared(r) ==
    \/ Success(r, "clear") /\ Answer(r, ui, HistoryFetch(ui, reqs \ {r}))
    \/ Dropped(r, "clear")

HistoryClick ==
    (\E k \in Keys \ {ui.sel} : HistoryChange(k)) \/ HistoryPage \/ HistoryClear
HistoryAnswer(r) == HistoryFetched(r) \/ HistoryCleared(r)

---------------------------------------------------------------------------
(* hunt_manager.js: a paged table; a request while one runs is dropped.    *)

\* Mutant of ManagerLoad: no flag.
ManagerLoadAgain(u, Q) ==
    <<[u EXCEPT !.busy = {"load"}], Ask(Q, "load", u.sel, Index(u.pos), None), {}>>

\* The page, the requests, and what became of this one.
ManagerLoad(u, Q) ==
    IF "load" \in u.busy THEN <<u, Q, {"dropped"}>>
    ELSE <<[u EXCEPT !.busy = {"load"}], Ask(Q, "load", u.sel, Index(u.pos), None), {}>>

ManagerGo(u) == LET l == ManagerLoad(u, reqs) IN Uncovered /\ Do(l[1], l[2], l[3])
ManagerChange(k) == ManagerGo([ui EXCEPT !.sel = k, !.pos = 1])
ManagerPage == \/ ui.pos > 1 /\ ManagerGo([ui EXCEPT !.pos = @ - 1])
               \/ ui.pos < ui.pages /\ ManagerGo([ui EXCEPT !.pos = @ + 1])

\* The answer brings the page number it is for.
ManagerDisplay(r) ==
    [ui EXCEPT !.pages = Max({1, r.count}), !.pos = r.at.i, !.rows = r.rows, !.busy = {}]
ManagerLoaded(r) ==
    \/ Success(r, "load") /\ Answer(r, ManagerDisplay(r), reqs \ {r})
    \/ Failure(r, "load", [ui EXCEPT !.busy = {}], reqs \ {r})

ManagerClear == Uncovered /\ AskUser("clear", None, Nothing, ui.sel)
ManagerCleared(r) ==
    \/ /\ Success(r, "clear")
       /\ LET l == ManagerLoad(ui, reqs \ {r}) IN Handle(r, l[1], l[2], {}, l[3])
    \/ Dropped(r, "clear")

ManagerClick ==
    (\E k \in Keys \ {ui.sel} : ManagerChange(k)) \/ ManagerPage \/ ManagerClear
ManagerAnswer(r) == ManagerLoaded(r) \/ ManagerCleared(r)

---------------------------------------------------------------------------
(* indexer-hunt-history.js: a paged table.                                 *)

SnipeLoad(u, Q) == Ask(Q, "load", u.sel, Index(u.pos), None)

SnipeGo(u) == Uncovered /\ Do(u, SnipeLoad(u, reqs), {})
SnipeFilter(k) == SnipeGo([ui EXCEPT !.sel = k, !.pos = 1])
\* Mutant of SnipePage: backwards without a bound.
SnipePageUnbounded == SnipeGo([ui EXCEPT !.pos = @ - 1])

SnipePage == \/ ui.pos > 1 /\ SnipeGo([ui EXCEPT !.pos = @ - 1])
             \/ ui.pos < ui.pages /\ SnipeGo([ui EXCEPT !.pos = @ + 1])

SnipeShow(r) ==
    \/ /\ Success(r, "load")
       /\ Answer(r, [ui EXCEPT !.pages = Max({1, r.count}), !.pos = r.at.i, !.rows = r.rows],
                 reqs \ {r})
    \/ Dropped(r, "load")

\* The history of every filter is cleared.
SnipeClear == Uncovered /\ AskUser("clear", ui.sel, Nothing, ui.sel)
SnipeCleared(r) ==
    LET u == [ui EXCEPT !.pos = 1] IN
    \/ Success(r, "clear") /\ Answer(r, u, SnipeLoad(u, reqs \ {r}))
    \/ Dropped(r, "clear")

SnipeClick == (\E k \in Keys \ {ui.sel} : SnipeFilter(k)) \/ SnipePage \/ SnipeClear
SnipeAnswer(r) == SnipeShow(r) \/ SnipeCleared(r)

---------------------------------------------------------------------------
\* The page's entry: the selector is fetched first, or the list at once.
Entry(p, k) ==
    IF p \in ByServer \cup {"root_folders", "import_lists"}
    THEN /\ ui = Blank(None)
         /\ reqs = {Request({}, "list", None, Nothing, None)}
    ELSE /\ ui = [Blank(k) EXCEPT !.busy = IF p = "manager" THEN {"load"} ELSE {}]
         /\ reqs = {Request({}, "load", k, IF p \in Paged THEN Index(1) ELSE Nothing, None)}

Init ==
    /\ page \in Pages
    /\ \E k \in Keys : Entry(page, k)
    /\ srv \in [lists : {Stored}, now : Keys]
    /\ hist = [harm |-> {}, excuse |-> {}]
    /\ acts = 0

Click ==
    \/ page = "custom_formats"  /\ CustomFormatsClick
    \/ page = "indexers"        /\ IndexersClick
    \/ page = "root_folders"    /\ RootFoldersClick
    \/ page = "browse"          /\ BrowseClick
    \/ page = "remote_mappings" /\ RemoteMappingsClick
    \/ page = "import_lists"    /\ ImportListsClick
    \/ page = "index_master"    /\ IndexMasterClick
    \/ page = "history"         /\ HistoryClick
    \/ page = "manager"         /\ ManagerClick
    \/ page = "snipe_history"   /\ SnipeClick
    \/ Confirm \/ Cancel \/ CloseForm

Ends(r) ==
    \/ page = "custom_formats"  /\ CustomFormatsAnswer(r)
    \/ page = "indexers"        /\ IndexersAnswer(r)
    \/ page = "root_folders"    /\ RootFoldersAnswer(r)
    \/ page = "browse"          /\ BrowseAnswer(r)
    \/ page = "remote_mappings" /\ RemoteMappingsAnswer(r)
    \/ page = "import_lists"    /\ ImportListsAnswer(r)
    \/ page = "index_master"    /\ IndexMasterAnswer(r)
    \/ page = "history"         /\ HistoryAnswer(r)
    \/ page = "manager"         /\ ManagerAnswer(r)
    \/ page = "snipe_history"   /\ SnipeAnswer(r)

Network == \E r \in reqs : Serve(r) \/ Fail(r) \/ Ends(r)
Next == Click \/ Network \/ HistoryRenderEntries \/ OtherTab

Spec == Init /\ [][Next]_vars

---------------------------------------------------------------------------
(* Properties.                                                             *)

Rows == Seq(Items)
TypeOK ==
    /\ page \in Pages
    /\ ui.sel \in Keys \cup {None} /\ ui.pos \in Nat \ {0} /\ ui.pages \in Nat
    /\ ui.rows \in Rows /\ ui.drawing \subseteq Rows
    /\ ui.form \in Items \cup {None} /\ ui.busy \subseteq {"load", "add", "test", "import"}
    /\ srv.lists \in [Keys -> Rows] /\ srv.now \in Keys
    /\ hist.harm \subseteq Removals \cup {"save", "form"}
    /\ acts \in 0..MaxActs[page]

Quiet == reqs = {} /\ ui.drawing = {} /\ ui.dialog = None

\* A page at rest shows what the server has for what is selected: every
\* operation that changes the list fetches it again.  It takes that nothing
\* failed, nothing overtook, no other tab wrote, and that no request was
\* dropped (hunt_manager.js) and no table begun before the last was drawn
\* (history.js).
ShowsServer ==
    Quiet /\ hist.excuse \subseteq {"hasty"} /\ ui.sel # None
        => ui.rows = RowsAt(ui.sel, ui.pos)

\* The rows are entries of the selection, also when answers overtake each
\* other, where the answer brings its own selection (the directory browser)
\* or two fetches never overlap (hunt_manager.js, when none failed and none
\* was dropped).
OfSelection ==
    /\ Quiet
    /\ \/ page = "browse"
       \/ page = "manager" /\ hist.excuse \cap {"dropped", "failed"} = {}
    => Range(ui.rows) \subseteq Range(Stored[ui.sel]) \cup {Added}

\* What the user confirms or saves happens to the entry the page showed, and
\* to no other; a form that is open is closed only by its own save.  It takes
\* a user who waits for the answers, a network in order, and no other tab.
NoHarm == hist.harm # {} => hist.excuse # {}

\* Where entries go by their id, no other entry is ever removed or
\* overwritten, whoever else writes and however requests travel.
ByIdSafe ==
    /\ page \in {"index_master", "browse"} => hist.harm \subseteq {"form"}
    /\ page = "import_lists" /\ "hasty" \notin hist.excuse => hist.harm = {}

\* A disabled button, and the flag that drops requests, are released however
\* the request ends: none is left when nothing is unanswered.
Released == reqs = {} => ui.busy = {}

=============================================================================
