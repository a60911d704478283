-------------------------- MODULE Lists_user_proofs --------------------------
(***************************************************************************)
(* Proofs about Lists: what a user may rely on.  That only the entry meant *)
(* is removed or overwritten: on the pages that address entries by id      *)
(* whatever happens, on all pages for a user who waits while nothing fails *)
(* and nobody else writes; and that the rows are of the selection where    *)
(* answers may overtake each other.                                        *)
(***************************************************************************)
EXTENDS Lists_proofs

-----------------------------------------------------------------------------
(* import-lists.js with a user who waits for the answers.                  *)

\* What the user does one thing at a time keeps together: the id under edit
\* and the form, the form and the question asked from it, and the request.
Patience(u, Q) ==
    /\ \A q, r \in Q : q = r
    /\ u.form # None /\ u.target # Nothing => u.target = Id(u.form)
    /\ u.dialog # None => /\ Q = {} /\ u.dialog.at = Nothing /\ u.dialog.want = u.form
                          /\ u.form # None /\ u.target # Nothing
    /\ \A r \in Q : /\ r.op \in {"save", "remove"} => r.at = Id(r.want)
                    /\ r.op \in {"save", "add", "remove"} => u.form \in {None, r.want}
                    /\ r.op = "open" => u.target = Id(r.want) /\ u.form = None
PInv ==
    page = "import_lists" /\ "hasty" \notin hist.excuse
        => hist.harm = {} /\ Patience(ui, reqs)

LEMMA RequestFields ==
    ASSUME NEW Q, NEW op, NEW key, NEW at, NEW want
    PROVE  LET r == Request(Q, op, key, at, want)
           IN  r.op = op /\ r.key = key /\ r.at = at /\ r.want = want /\ r.st = "sent"
BY DEF Request

\* A patient user starts with no request, and has at most one after.
LEMMA DoPatient ==
    ASSUME IInv, PInv, page = "import_lists", NEW u, NEW Q, Do(u, Q, {}),
           reqs = {} /\ Patience(ui, {}) => Patience(u, Q)
    PROVE  PInv'
<1>1. /\ page' = page /\ ui' = u /\ reqs' = Q /\ hist'.harm = hist.harm
      /\ "hasty" \notin hist'.excuse => reqs = {} /\ "hasty" \notin hist.excuse
  BY DEF Do, Excused, IInv
<1> QED BY <1>1 DEF PInv, Patience

LEMMA HandlePatient ==
    ASSUME IInv, PInv, page = "import_lists", NEW r \in reqs, NEW u, NEW Q, NEW why,
           NEW harm, Handle(r, u, Q, harm, why),
           reqs = {r} /\ Patience(ui, {r}) => Patience(u, Q) /\ harm = {}
    PROVE  PInv'
<1>1. /\ page' = page /\ ui' = u /\ reqs' = Q /\ hist'.harm = hist.harm \cup harm
      /\ "hasty" \notin hist'.excuse => "hasty" \notin hist.excuse
  BY DEF Handle
<1>2. Patience(ui, reqs) => reqs = {r}
  BY DEF Patience
<1> QED BY <1>1, <1>2 DEF PInv, Patience

\* A request in flight, alone, and one sent by a patient user.
LEMMA OneSent ==
    ASSUME NEW u, u.dialog = None, u.form # None /\ u.target # Nothing => u.target = Id(u.form),
           NEW op, NEW key, NEW at, NEW want,
           op \in {"save", "remove"} => at = Id(want),
           op \in {"save", "add", "remove"} => u.form \in {None, want},
           op = "open" => u.target = Id(want) /\ u.form = None
    PROVE  Patience(u, Ask({}, op, key, at, want))
<1> DEFINE r == Request({}, op, key, at, want)
<1>1. r.op = op /\ r.at = at /\ r.want = want
  BY RequestFields
<1>2. Ask({}, op, key, at, want) = {r}
  BY DEF Ask
<1> HIDE DEF r
<1> QED BY <1>1, <1>2 DEF Patience

LEMMA ImportListsPatient ==
    ASSUME IInv, PInv, page = "import_lists",
           \/ ImportListsClick \/ Confirm \/ Cancel \/ CloseForm
           \/ \E r \in reqs : ImportListsAnswer(r)
    PROVE  PInv'
<1>0. /\ None \notin Items /\ Added \in Items /\ ui \in UI
      /\ Closed(ui).form = None /\ Closed(ui).target = Nothing /\ Closed(ui).dialog = ui.dialog
      /\ \A r \in reqs : GoodRequest(r)
      /\ ui.dialog # None => ui.dialog.op # "save" /\ ui.dialog.op # "add" /\ ui.dialog.op # "open"
  BY ListsAssumption
     DEF ListsAssumption, IInv, Good, GoodUI, GoodDialog, Dialogs, UI, Closed
<1>1. ASSUME NEW k, ImportListsChange(k) PROVE PInv'
  <2> DEFINE v == [ui EXCEPT !.sel = k]
  <2>1. /\ Do(v, Ask(reqs, "load", k, Nothing, None), {})
        /\ v.dialog = None /\ v.form = None
    BY <1>0, <1>1 DEF ImportListsChange, ImportListsRefresh, Uncovered, UI
  <2> HIDE DEF v
  <2>2. Patience(v, Ask({}, "load", k, Nothing, None))
    BY <2>1, OneSent
  <2> QED BY <2>1, <2>2, DoPatient
<1>2. ASSUME NEW i, ImportListsTouch(i) PROVE PInv'
  <2>1. /\ Do(ui, Ask(reqs, "test", ui.sel, Id(ui.rows[i]), ui.rows[i]), {})
        /\ ui.dialog = None /\ ui.form = None
    BY <1>2 DEF ImportListsTouch, Uncovered
  <2>2. Patience(ui, Ask({}, "test", ui.sel, Id(ui.rows[i]), ui.rows[i]))
    BY <2>1, OneSent
  <2> QED BY <2>1, <2>2, DoPatient
<1>3. CASE ImportListsAdd
  <2> DEFINE v == Opened(Nothing, Added)
  <2>1. Do(v, reqs, {}) /\ v.dialog = None /\ v.target = Nothing
    BY <1>0, <1>3 DEF ImportListsAdd, Uncovered, Opened, UI
  <2> HIDE DEF v
  <2> QED BY <2>1, DoPatient DEF Patience
<1>4. CASE ImportListsSaveNew \/ ImportListsSave
  <2>1. Do(ui, Sends(reqs, ui.sel), {}) /\ ui.dialog = None /\ ui.form # None
    BY <1>4 DEF ImportListsSaveNew, ImportListsSave, Saves
  <2>2. ASSUME Patience(ui, {}) PROVE Patience(ui, Sends({}, ui.sel))
    BY <2>1, <2>2, OneSent DEF Sends, Patience
  <2> QED BY <2>1, <2>2, DoPatient
<1>5. ASSUME NEW i, ImportListsEdit(i) PROVE PInv'
  <2> DEFINE v == [ui EXCEPT !.target = Id(ui.rows[i])]
             Q == Ask({}, "open", ui.sel, Id(ui.rows[i]), ui.rows[i])
  <2>1. /\ Do(v, Ask(reqs, "open", ui.sel, Id(ui.rows[i]), ui.rows[i]), {})
        /\ v.dialog = None /\ v.form = None /\ v.target = Id(ui.rows[i])
    BY <1>0, <1>5 DEF ImportListsEdit, Uncovered, UI
  <2> HIDE DEF v
  <2>2. Patience(v, Q)
    BY <2>1, OneSent
  <2> QED BY <2>1, <2>2, DoPatient
<1>6. CASE ImportListsDelete
  <2> DEFINE d == Asking("remove", None, Nothing, ui.form)
             v == [ui EXCEPT !.dialog = d]
  <2>1. /\ Do(v, reqs, {}) /\ ui.form # None /\ ui.target # Nothing
        /\ v.dialog = d /\ v.form = ui.form /\ v.target = ui.target
        /\ d.at = Nothing /\ d.want = ui.form
    BY <1>0, <1>6 DEF ImportListsDelete, AskUser, Asking, UI
  <2> HIDE DEF v, d
  <2> QED BY <2>1, DoPatient DEF Patience
<1>7. CASE Confirm
  <2> DEFINE v == [ui EXCEPT !.dialog = None]
             d == ui.dialog
             key == IF d.key = None THEN ui.sel ELSE d.key
             at == IF d.at = Nothing THEN ui.target ELSE d.at
  <2>1. Do(v, Ask(reqs, d.op, key, at, d.want), {}) /\ d # None
    BY <1>7 DEF Confirm
  <2>2. v.dialog = None /\ v.form = ui.form /\ v.target = ui.target
    BY <1>0 DEF UI
  <2>3. ASSUME Patience(ui, {}) PROVE Patience(v, Ask({}, d.op, key, at, d.want))
    <3>1. at = ui.target /\ d.want = ui.form /\ ui.target = Id(ui.form)
      BY <2>1, <2>3 DEF Patience
    <3> HIDE DEF v, key, at
    <3> QED BY <1>0, <2>1, <2>2, <3>1, OneSent
  <2> HIDE DEF v, key, at, d
  <2> QED BY <2>1, <2>3, DoPatient
<1>8. CASE Cancel
  <2>1. /\ page' = page /\ hist' = hist /\ reqs' = reqs /\ ui'.dialog = None
        /\ ui'.form = ui.form /\ ui'.target = ui.target
    BY <1>0, <1>8 DEF Cancel, UI
  <2> QED BY <2>1 DEF PInv, Patience
<1>9. CASE CloseForm
  <2>1. /\ page' = page /\ hist' = hist /\ reqs' = reqs /\ ui' = Closed(ui) /\ ui.dialog = None
        /\ ui.form # None
    BY <1>9 DEF CloseForm
  <2> QED BY <1>0, <2>1 DEF PInv, Patience
\* A request has ended: nothing is asked, or the list is fetched.
<1>a. ASSUME NEW r \in reqs, NEW v, Patience(ui, {r}) => Patience(v, {}) /\ v.dialog = None,
             r.op = "list" => v.form = ui.form,
             NEW harm, Patience(ui, {r}) => harm = {}, NEW why,
             \/ Handle(r, v, reqs \ {r}, harm, why)
             \/ \E k : Handle(r, v, Ask(reqs \ {r}, "load", k, Nothing, None), harm, why)
      PROVE  PInv'
  <2>1. ASSUME NEW k, Patience(ui, {r}) PROVE Patience(v, Ask({}, "load", k, Nothing, None))
    BY <1>a, <2>1, OneSent DEF Patience
  <2>2. CASE Handle(r, v, reqs \ {r}, harm, why)
    <3>1. reqs = {r} => reqs \ {r} = {}
      OBVIOUS
    <3> QED BY <1>a, <2>2, <3>1, HandlePatient
  <2>3. ASSUME NEW k, Handle(r, v, Ask(reqs \ {r}, "load", k, Nothing, None), harm, why)
        PROVE  PInv'
    <3>1. reqs = {r} => reqs \ {r} = {}
      OBVIOUS
    <3> QED BY <1>a, <2>1, <2>3, <3>1, HandlePatient
  <2> QED BY <1>a, <2>2, <2>3
\* A page that stays as it is, but for its rows and selection, stays together.
<1>b. ASSUME NEW r \in reqs, NEW v, v.form = ui.form, v.target = ui.target, v.dialog = ui.dialog,
             Patience(ui, {r})
      PROVE  Patience(v, {}) /\ v.dialog = None
  BY <1>b DEF Patience
<1>10. ASSUME NEW r \in reqs, NEW op, Ignored(r, op) \/ Dropped(r, op) PROVE PInv'
  <2>1. \E why : Handle(r, ui, reqs \ {r}, {}, why)
    BY <1>10 DEF Ignored, Dropped, Failure, Answer
  <2> QED BY <1>a, <1>b, <2>1
<1>11. ASSUME NEW r \in reqs, ImportListsPopulate(r) PROVE PInv'
  <2>1. ASSUME NEW k, Handle(r, [ui EXCEPT !.sel = k], Ask(reqs \ {r}, "load", k, Nothing, None), {}, {})
        PROVE  PInv'
    <3> DEFINE v == [ui EXCEPT !.sel = k]
    <3>1. v.form = ui.form /\ v.target = ui.target /\ v.dialog = ui.dialog
      BY <1>0 DEF UI
    <3>2. Handle(r, v, Ask(reqs \ {r}, "load", k, Nothing, None), {}, {})
      BY <2>1
    <3> HIDE DEF v
    <3> QED BY <1>a, <1>b, <3>1, <3>2
  <2> QED BY <1>10, <1>11, <2>1 DEF ImportListsPopulate, ImportListsRefresh, Answer
<1>12. ASSUME NEW r \in reqs, ImportListsShow(r) PROVE PInv'
  <2>1. PICK rows, why : Handle(r, [ui EXCEPT !.rows = rows], reqs \ {r}, {}, why)
    BY <1>12 DEF ImportListsShow, Shown, Answer, Failure
  <2> DEFINE v == [ui EXCEPT !.rows = rows]
  <2>2. v.form = ui.form /\ v.target = ui.target /\ v.dialog = ui.dialog
    BY <1>0 DEF UI
  <2>3. Handle(r, v, reqs \ {r}, {}, why)
    BY <2>1
  <2> HIDE DEF v
  <2> QED BY <1>a, <1>b, <2>2, <2>3
<1>13. ASSUME NEW r \in reqs, ImportListsTouched(r) PROVE PInv'
  <2>1. CASE Handle(r, ui, Ask(reqs \ {r}, "load", ui.sel, Nothing, None), {}, {})
    BY <1>a, <1>b, <2>1
  <2> QED BY <1>10, <1>13, <2>1 DEF ImportListsTouched, ImportListsRefresh, Answer
<1>14. ASSUME NEW r \in reqs, ImportListsOpened(r) PROVE PInv'
  <2>1. CASE Success(r, "open") /\ Answer(r, [ui EXCEPT !.form = r.rows[1]], reqs \ {r})
    <3> DEFINE v == [ui EXCEPT !.form = r.rows[1]]
    <3>1. r.op = "open" /\ r.rows = <<r.want>>
      BY <1>0, <2>1 DEF Success, GoodRequest
    <3>2. v.form = r.want /\ v.target = ui.target /\ v.dialog = ui.dialog
      BY <1>0, <3>1 DEF UI
    <3>3. Handle(r, v, reqs \ {r}, {}, {})
      BY <2>1 DEF Answer
    <3> HIDE DEF v
    <3>4. Patience(ui, {r}) => Patience(v, {}) /\ v.dialog = None
      BY <3>1, <3>2 DEF Patience
    <3> QED BY <1>a, <3>1, <3>3, <3>4
  <2> QED BY <1>10, <1>14, <2>1 DEF ImportListsOpened
<1>15. ASSUME NEW r \in reqs, ImportListsSaved(r) \/ ImportListsDeleted(r) PROVE PInv'
  <2>1. CASE /\ r.op \in {"save", "add", "remove"}
             /\ Handle(r, Closed(ui), Ask(reqs \ {r}, "load", ui.sel, Nothing, None),
                       ClosesForm(r), {})
    <3>1. ASSUME Patience(ui, {r})
          PROVE  ClosesForm(r) = {} /\ Patience(Closed(ui), {}) /\ Closed(ui).dialog = None
      BY <1>0, <2>1, <3>1 DEF Patience, ClosesForm
    <3> HIDE DEF Closed, ClosesForm
    <3> QED BY <1>a, <2>1, <3>1
  <2> QED BY <1>10, <1>15, <2>1
          DEF ImportListsSaved, ImportListsDeleted, ImportListsRefresh, Success
<1> QED
  BY <1>1, <1>2, <1>3, <1>4, <1>5, <1>6, <1>7, <1>8, <1>9, <1>11, <1>12, <1>13, <1>14, <1>15
     DEF ImportListsClick, ImportListsAnswer

\* The answered request is the request with an answer; the only harm the
\* server does is to an entry that was not meant.
LEMMA Served ==
    ASSUME NEW r, GoodRequest(r), Serve(r)
    PROVE  LET x == Named(Key(r), r.at) IN
           /\ \E q : /\ reqs' = (reqs \ {r}) \cup {q}
                     /\ q.n = r.n /\ q.op = r.op /\ q.key = r.key /\ q.at = r.at /\ q.want = r.want
                     /\ q.rest = r.rest /\ q.st = "done"
                     /\ q.ok = (r.op \in Removals \cup {"save", "open"} => x # {})
                     /\ r.op = "load" => q.rows = RowsAt(Key(r), r.at.i)
           /\ page' = page /\ ui' = ui /\ acts' = acts /\ r.st = "sent"
           /\ hist'.excuse \in {hist.excuse, hist.excuse \cup {"reordered"}}
           /\ hist'.harm # hist.harm => r.op \in Removals \cup {"save"} /\ ~(x \subseteq {r.want})
<1> DEFINE k == Key(r)
           x == Named(k, r.at)
           ok == r.op \in Removals \cup {"save", "open"} => x # {}
           rows == CASE r.op = "load" -> RowsAt(k, r.at.i)
                     [] r.op = "open" -> SetToSeq(x)
                     [] OTHER -> <<>>
           count == IF r.op = "load" THEN Len(srv.lists[k]) ELSE 0
           q == [r EXCEPT !.st = "done", !.ok = ok, !.rows = rows, !.count = count]
<1>1. reqs' = (reqs \ {r}) \cup {q} /\ page' = page /\ ui' = ui /\ acts' = acts /\ r.st = "sent"
  BY DEF Serve
<1>2. r.op = "load" => rows = RowsAt(Key(r), r.at.i)
  OBVIOUS
<1>3. /\ hist'.excuse = hist.excuse \cup
                (IF \E p \in Earlier(r) : p.st = "sent" THEN {"reordered"} ELSE {})
      /\ hist'.harm = hist.harm \cup
                (IF r.op \in Removals \cup {"save"} /\ ~(x \subseteq {r.want}) THEN {r.op} ELSE {})
  BY DEF Serve
<1> HIDE DEF ok, rows, count
<1>4. /\ q.n = r.n /\ q.op = r.op /\ q.key = r.key /\ q.at = r.at /\ q.want = r.want
      /\ q.rest = r.rest /\ q.st = "done" /\ q.ok = ok /\ q.rows = rows
  BY DEF GoodRequest
<1> HIDE DEF x
<1> HIDE DEF q
<1>5. ok = (r.op \in Removals \cup {"save", "open"} => x # {})
  BY DEF ok
<1> QED BY <1>1, <1>2, <1>3, <1>4, <1>5 DEF x, k

\* A request the server fails: nothing changes but that it is answered, a
\* change with a refusal, and that a fetch is without rows is known.
LEMMA FailedBy ==
    ASSUME IInv, NEW r, GoodRequest(r), Fail(r)
    PROVE  /\ \E q : /\ reqs' = (reqs \ {r}) \cup {q}
                     /\ q.n = r.n /\ q.op = r.op /\ q.key = r.key /\ q.want = r.want
                     /\ q.rest = r.rest /\ q.st = "done" /\ q.rows = <<>>
                     /\ r.op # "load" => q.at = r.at /\ ~q.ok
           /\ page' = page /\ ui' = ui /\ srv' = srv /\ r.st = "sent"
           /\ r.op \in Removals \cup Adds \cup {"save", "load"}
           /\ hist'.harm = hist.harm /\ hist.excuse \subseteq hist'.excuse
           /\ "hasty" \in hist'.excuse => "hasty" \in hist.excuse
           /\ r.op = "load" => "failed" \in hist'.excuse
<1> DEFINE ok == r.op = "load"
           at == IF r.op = "load" /\ page \in Paged THEN Index(1) ELSE r.at
           q == [r EXCEPT !.st = "done", !.ok = ok, !.rows = <<>>, !.at = at]
           late == IF \E p \in Earlier(r) : p.st = "sent" THEN {"reordered"} ELSE {}
<1>1. /\ reqs' = (reqs \ {r}) \cup {q} /\ page' = page /\ ui' = ui /\ srv' = srv
      /\ r.st = "sent" /\ r.op \in Removals \cup Adds \cup {"save", "load"}
      /\ hist' = Excused((IF r.op = "load" THEN {"failed"} ELSE {}) \cup late)
  BY DEF Fail
<1>2. /\ hist'.harm = hist.harm
      /\ hist'.excuse = hist.excuse \cup ((IF r.op = "load" THEN {"failed"} ELSE {}) \cup late)
  BY <1>1 DEF Excused, IInv
<1>3. r.op # "load" => at = r.at /\ ~ok
  OBVIOUS
<1> HIDE DEF ok, at
<1>4. /\ q.n = r.n /\ q.op = r.op /\ q.key = r.key /\ q.want = r.want
      /\ q.rest = r.rest /\ q.st = "done" /\ q.rows = <<>> /\ q.at = at /\ q.ok = ok
  BY DEF GoodRequest
<1> HIDE DEF q
<1>5. "hasty" \notin late
  OBVIOUS
<1> HIDE DEF late
<1> QED BY <1>1, <1>2, <1>3, <1>4, <1>5

LEMMA FailPatient ==
    ASSUME IInv, PInv, NEW r \in reqs, Fail(r)
    PROVE  PInv'
<1>1. GoodRequest(r)
  BY DEF IInv, Good
<1>2. PICK q : /\ reqs' = (reqs \ {r}) \cup {q} /\ q.op = r.op /\ q.want = r.want
               /\ r.op # "load" => q.at = r.at
  BY <1>1, FailedBy
<1>3. /\ page' = page /\ ui' = ui /\ hist'.harm = hist.harm
      /\ "hasty" \in hist.excuse => "hasty" \in hist'.excuse
  BY <1>1, FailedBy
<1> SUFFICES ASSUME page = "import_lists", "hasty" \notin hist.excuse
             PROVE  hist'.harm = {} /\ Patience(ui', reqs')
  BY <1>3 DEF PInv, Patience
<1>4. hist.harm = {} /\ Patience(ui, reqs) /\ reqs = {r}
  BY DEF PInv, Patience
<1> QED BY <1>2, <1>3, <1>4 DEF Patience

\* The server finds the entry meant under the id, or none.
LEMMA ServePatient ==
    ASSUME IInv, PInv, NEW r \in reqs, Serve(r)
    PROVE  PInv'
<1>1. /\ GoodRequest(r) /\ r.at \in Addresses /\ r.want \in Targets /\ r.op \in Ops
      /\ srv \in [lists : [Keys -> Rows], now : Keys]
  BY DEF IInv, Good, GoodRequest, MayAsk
<1>2. PICK q : reqs' = (reqs \ {r}) \cup {q} /\ q.op = r.op /\ q.at = r.at /\ q.want = r.want
  BY <1>1, Served
<1>4. /\ page' = page /\ ui' = ui
      /\ hist'.excuse \in {hist.excuse, hist.excuse \cup {"reordered"}}
      /\ hist'.harm # hist.harm =>
             r.op \in Removals \cup {"save"} /\ ~(Named(Key(r), r.at) \subseteq {r.want})
  BY <1>1, Served
<1> SUFFICES ASSUME page = "import_lists", "hasty" \notin hist.excuse
             PROVE  hist'.harm = {} /\ Patience(ui', reqs')
  BY <1>4 DEF PInv, Patience
<1>5. hist.harm = {} /\ Patience(ui, reqs) /\ reqs = {r}
  BY DEF PInv, Patience
<1>6. Patience(ui', reqs')
  BY <1>2, <1>4, <1>5 DEF Patience
<1>7. hist'.harm = {}
  <2> SUFFICES ASSUME r.op \in Removals \cup {"save"}
               PROVE  Named(Key(r), r.at) \subseteq {r.want}
    BY <1>4, <1>5
  <2>1. r.op \in {"save", "remove"} /\ r.at = Id(r.want)
    BY <1>1, <1>5 DEF GoodRequest, MayAsk, Removals, Patience
  <2>2. Key(r) \in Keys
    BY <2>1, KeyOfRequest
  <2> QED BY <1>1, <2>1, <2>2, NamedEntry DEF Id
<1> QED BY <1>6, <1>7

LEMMA PatientStep == IInv /\ PInv /\ [Next]_vars => PInv'
<1> SUFFICES ASSUME IInv, PInv, [Next]_vars PROVE PInv'
  OBVIOUS
<1>1. CASE page # "import_lists"
  <2>1. page' = page
    BY StepKeeps
  <2> QED BY <1>1, <2>1 DEF PInv
<1>2. CASE page = "import_lists"
  <2>1. CASE Click
    BY <1>2, <2>1, ImportListsPatient DEF Click
  <2>2. ASSUME NEW r \in reqs, Ends(r) PROVE PInv'
    BY <1>2, <2>2, ImportListsPatient DEF Ends
  <2>3. CASE Network
    BY <2>2, <2>3, ServePatient, FailPatient DEF Network
  <2>4. CASE HistoryRenderEntries
    BY <1>2, <2>4 DEF HistoryRenderEntries, IInv, Good, GoodUI
  <2>5. CASE OtherTab
    <3>1. page' = page /\ ui' = ui /\ reqs' = reqs /\ hist' = [hist EXCEPT !.excuse = @ \cup {"other"}]
      BY <2>5 DEF OtherTab, Excused
    <3>2. hist'.harm = hist.harm /\ ("hasty" \notin hist'.excuse => "hasty" \notin hist.excuse)
      BY <3>1 DEF IInv
    <3> QED BY <3>1, <3>2 DEF PInv, Patience
  <2>6. CASE UNCHANGED vars
    BY <2>6 DEF vars, PInv, Patience
  <2> QED BY <2>1, <2>3, <2>4, <2>5, <2>6 DEF Next
<1> QED BY <1>1, <1>2

LEMMA PatientInit == Init => PInv
<1> SUFFICES ASSUME Init, page = "import_lists" PROVE PInv
  BY DEF PInv
<1>1. PICK k \in Keys : Entry(page, k)
  BY DEF Init
<1>2. ui = Blank(None) /\ reqs = {Request({}, "list", None, Nothing, None)}
  BY <1>1 DEF Entry
<1>3. ui.form = None /\ ui.dialog = None /\ \A r \in reqs : r.op = "list"
  BY <1>2, RequestFields DEF Blank
<1> QED BY <1>2, <1>3 DEF Init, PInv, Patience

\* Where entries go by their id, nothing is removed or overwritten but what
\* the page showed, whoever else writes and however requests travel: on Index
\* Master and in the directory browser always, on the import lists for a user
\* who waits (import-lists.js reads the id under edit when it is confirmed).
THEOREM OnlyTheEntryMeant == Spec => []ByIdSafe
<1>1. IInv /\ PInv => ByIdSafe
  BY DEF IInv, PInv, ByIdSafe, ById
<1>2. Init => IInv /\ PInv
  BY InitGood, PatientInit
<1>3. IInv /\ PInv /\ [Next]_vars => (IInv /\ PInv)'
  BY StepGood, PatientStep
<1> QED BY <1>1, <1>2, <1>3, PTL DEF Spec

-----------------------------------------------------------------------------
(* What the server does to a list, and what its lists keep.                *)

Types == [lists : [Keys -> Rows], now : Keys]
\* What a list may hold.
Of(k) == Range(Stored[k]) \cup {Added}

\* A list stays, loses the entry an address named, or the first one, is
\* emptied, or gets the added entry when it does not have it.
Became(s, t) ==
    \/ t = s \/ t = <<>> \/ \E x : t = Without(s, x)
    \/ s # <<>> /\ t = Tail(s)
    \/ ~Contains(s, Added) /\ t = Append(s, Added)

LEMMA ListSteps ==
    ASSUME IInv, (\E r \in reqs : Serve(r)) \/ OtherTab, NEW k \in Keys
    PROVE  Became(srv.lists[k], srv'.lists[k])
<1>0. srv \in Types
  BY DEF IInv, Types
<1>1. ASSUME NEW r \in reqs, Serve(r) PROVE Became(srv.lists[k], srv'.lists[k])
  <2> DEFINE l == Key(r)
             x == Named(l, r.at)
  <2>1. srv' = CASE r.op = "put"    -> [srv EXCEPT !.now = r.want]
                 [] r.op \in Removals -> [srv EXCEPT !.lists[l] = Without(@, x)]
                 [] r.op = "clear"  -> [srv EXCEPT !.lists = [m \in Keys |->
                                           IF m = l \/ page = "snipe_history" THEN <<>> ELSE @[m]]]
                 [] r.op \in Adds /\ ~Contains(srv.lists[l], Added)
                                    -> [srv EXCEPT !.lists[l] = Append(@, Added)]
                 [] OTHER           -> srv
    BY <1>1 DEF Serve
  <2> HIDE DEF l, x
  <2>2. CASE srv' = srv
    BY <2>2 DEF Became
  <2>3. CASE r.op = "put" /\ srv' = [srv EXCEPT !.now = r.want]
    BY <1>0, <2>3 DEF Became, Types
  <2>4. CASE srv' = [srv EXCEPT !.lists[l] = Without(@, x)]
    BY <1>0, <2>4 DEF Became, Types
  <2>5. CASE srv' = [srv EXCEPT !.lists = [m \in Keys |->
                        IF m = l \/ page = "snipe_history" THEN <<>> ELSE @[m]]]
    BY <1>0, <2>5 DEF Became, Types
  <2>6. CASE ~Contains(srv.lists[l], Added) /\ srv' = [srv EXCEPT !.lists[l] = Append(@, Added)]
    BY <1>0, <2>6 DEF Became, Types
  <2> QED BY <2>1, <2>2, <2>3, <2>4, <2>5, <2>6 DEF Removals
<1>2. ASSUME OtherTab PROVE Became(srv.lists[k], srv'.lists[k])
  <2>1. CASE \E m \in Keys : srv.lists[m] # <<>> /\ srv' = [srv EXCEPT !.lists[m] = Tail(@)]
    BY <1>0, <2>1 DEF Became, Types
  <2>2. CASE \E m \in Keys : srv' = [srv EXCEPT !.now = m]
    BY <1>0, <2>2 DEF Became, Types
  <2> QED BY <1>2, <2>1, <2>2 DEF OtherTab
<1> QED BY <1>1, <1>2

Injective(s) == \A i, j \in 1..Len(s) : s[i] = s[j] => i = j

LEMMA BecameKeeps ==
    ASSUME NEW s \in Rows, NEW t, Became(s, t)
    PROVE  /\ Injective(s) => Injective(t)
           /\ \A i \in 1..Len(t) : t[i] = Added \/ \E j \in 1..Len(s) : t[i] = s[j]
<1>0. Len(s) \in Nat
  BY LenProperties DEF Rows
<1>1. CASE t = s
  BY <1>1
<1>2. CASE t = <<>>
  <2>1. Len(t) = 0
    BY <1>2
  <2> QED BY <2>1 DEF Injective
<1>3. ASSUME NEW x, t = Without(s, x)
      PROVE  /\ Injective(s) => Injective(t)
             /\ \A i \in 1..Len(t) : t[i] = Added \/ \E j \in 1..Len(s) : t[i] = s[j]
  <2>1. CASE Without(s, x) = s
    BY <1>3, <2>1
  <2>2. CASE \E i \in 1..Len(s) :
                /\ s[i] \in x /\ Len(Without(s, x)) = Len(s) - 1
                /\ \A j \in 1..Len(s) - 1 : Without(s, x)[j] = IF j < i THEN s[j] ELSE s[j + 1]
    <3>1. PICK i \in 1..Len(s) :
                /\ Len(t) = Len(s) - 1
                /\ \A j \in 1..Len(s) - 1 : t[j] = IF j < i THEN s[j] ELSE s[j + 1]
      BY <1>3, <2>2
    <3>2. \A j \in 1..Len(s) - 1 : j \in 1..Len(s) /\ j + 1 \in 1..Len(s)
      BY <1>0
    <3>3. ASSUME Injective(s), NEW m \in 1..Len(s) - 1, NEW n \in 1..Len(s) - 1, t[m] = t[n]
          PROVE  m = n
      <4>1. /\ t[m] = IF m < i THEN s[m] ELSE s[m + 1]
            /\ t[n] = IF n < i THEN s[n] ELSE s[n + 1]
        BY <3>1
      <4>2. CASE m < i /\ n < i
        BY <3>2, <3>3, <4>1, <4>2 DEF Injective
      <4>3. CASE ~(m < i) /\ ~(n < i)
        <5>1. s[m + 1] = s[n + 1] /\ m + 1 \in 1..Len(s) /\ n + 1 \in 1..Len(s)
          BY <3>2, <3>3, <4>1, <4>3
        <5>2. m + 1 = n + 1
          BY <3>3, <5>1 DEF Injective
        <5> QED BY <1>0, <5>2
      <4>4. CASE m < i /\ ~(n < i)
        <5>1. s[m] = s[n + 1] /\ m \in 1..Len(s) /\ n + 1 \in 1..Len(s)
          BY <3>2, <3>3, <4>1, <4>4
        <5>2. m = n + 1
          BY <3>3, <5>1 DEF Injective
        <5> QED BY <1>0, <4>4, <5>2
      <4>5. CASE ~(m < i) /\ n < i
        <5>1. s[m + 1] = s[n] /\ n \in 1..Len(s) /\ m + 1 \in 1..Len(s)
          BY <3>2, <3>3, <4>1, <4>5
        <5>2. m + 1 = n
          BY <3>3, <5>1 DEF Injective
        <5> QED BY <1>0, <4>5, <5>2
      <4> QED BY <4>2, <4>3, <4>4, <4>5
    <3> QED BY <3>1, <3>2, <3>3 DEF Injective
  <2> QED BY <2>1, <2>2, WithoutEntry
<1>4. CASE s # <<>> /\ t = Tail(s)
  <2>1. Len(t) = Len(s) - 1 /\ \A i \in 1..Len(s) - 1 : t[i] = s[i + 1]
    BY <1>4, HeadTailProperties DEF Rows
  <2>2. \A i \in 1..Len(s) - 1 : i + 1 \in 1..Len(s)
    BY <1>0
  <2>3. ASSUME Injective(s), NEW m \in 1..Len(s) - 1, NEW n \in 1..Len(s) - 1, t[m] = t[n]
        PROVE  m = n
    <3>1. s[m + 1] = s[n + 1] /\ m + 1 \in 1..Len(s) /\ n + 1 \in 1..Len(s)
      BY <2>1, <2>2, <2>3
    <3>2. m + 1 = n + 1
      BY <2>3, <3>1 DEF Injective
    <3> QED BY <1>0, <3>2
  <2> QED BY <2>1, <2>2, <2>3 DEF Injective
<1>5. CASE ~Contains(s, Added) /\ t = Append(s, Added)
  <2>1. /\ Len(t) = Len(s) + 1 /\ t[Len(s) + 1] = Added
        /\ \A i \in 1..Len(s) : t[i] = s[i] /\ s[i] # Added
    BY <1>5, ListsAssumption, AppendProperties DEF Contains, Rows, ListsAssumption
  <2>2. \A i \in 1..Len(s) + 1 : i \in 1..Len(s) \/ i = Len(s) + 1
    BY <1>0
  <2> QED BY <2>1, <2>2 DEF Injective
<1> QED BY <1>1, <1>2, <1>3, <1>4, <1>5 DEF Became

\* No list holds an entry twice.
Distinct == \A k \in Keys : \A i, j \in DOMAIN srv.lists[k] :
                srv.lists[k][i] = srv.lists[k][j] => i = j

LEMMA DistinctStep == IInv /\ [Next]_vars /\ Distinct => Distinct'
<1> SUFFICES ASSUME IInv, [Next]_vars, Distinct, NEW k \in Keys
             PROVE  \A i, j \in DOMAIN srv'.lists[k] : srv'.lists[k][i] = srv'.lists[k][j] => i = j
  BY DEF Distinct
<1>1. CASE srv' = srv
  BY <1>1 DEF Distinct
<1>2. CASE (\E r \in reqs : Serve(r)) \/ OtherTab
  <2>1. Became(srv.lists[k], srv'.lists[k])
    BY <1>2, ListSteps
  <2>2. srv.lists[k] \in Rows /\ srv'.lists[k] \in Rows
    BY StepGood DEF IInv
  <2>3. DOMAIN srv.lists[k] = 1..Len(srv.lists[k]) /\ DOMAIN srv'.lists[k] = 1..Len(srv'.lists[k])
    BY <2>2, LenProperties DEF Rows
  <2>4. Injective(srv.lists[k])
    BY <2>3 DEF Injective, Distinct
  <2> QED BY <2>1, <2>2, <2>3, <2>4, BecameKeeps DEF Injective
<1> QED BY <1>1, <1>2, StepKeeps

LEMMA ListsOf ==
    ASSUME IInv, [Next]_vars, \A k \in Keys : Range(srv.lists[k]) \subseteq Of(k)
    PROVE  \A k \in Keys : Range(srv'.lists[k]) \subseteq Of(k)
<1> SUFFICES ASSUME NEW k \in Keys PROVE Range(srv'.lists[k]) \subseteq Of(k)
  OBVIOUS
<1>1. CASE srv' = srv
  BY <1>1
<1>2. CASE (\E r \in reqs : Serve(r)) \/ OtherTab
  <2>1. Became(srv.lists[k], srv'.lists[k])
    BY <1>2, ListSteps
  <2>2. srv.lists[k] \in Rows /\ srv'.lists[k] \in Rows
    BY StepGood DEF IInv
  <2>3. DOMAIN srv.lists[k] = 1..Len(srv.lists[k]) /\ DOMAIN srv'.lists[k] = 1..Len(srv'.lists[k])
    BY <2>2, LenProperties DEF Rows
  <2>4. \A i \in 1..Len(srv'.lists[k]) :
            srv'.lists[k][i] = Added \/ srv'.lists[k][i] \in Range(srv.lists[k])
    BY <2>1, <2>2, <2>3, BecameKeeps DEF Range
  <2> QED BY <2>3, <2>4 DEF Range, Of
<1> QED BY <1>1, <1>2, StepKeeps

-----------------------------------------------------------------------------
(* Rows of the selection.                                                  *)

Loading(Q) == \E r \in Q : r.op = "load"
Belong(u)  == Range(u.rows) \subseteq Of(u.sel)
Answers(Q) == \A r \in Q : r.op = "load" /\ r.st = "done" => Range(r.rows) \subseteq Of(r.key)
\* hunt_manager.js: one fetch at a time, of the selection, and the flag is set.
OneFetch(u, Q) ==
    /\ \A q, r \in Q : q.op = "load" /\ r.op = "load" => q = r
    /\ \A r \in Q : r.op = "load" => r.key = u.sel /\ "load" \in u.busy
OInv ==
    /\ \A k \in Keys : Range(srv.lists[k]) \subseteq Of(k)
    /\ page \in {"browse", "manager"} => Answers(reqs)
    /\ page = "browse" => Belong(ui) \/ Loading(reqs)
    /\ page = "manager" /\ hist.excuse \cap {"dropped", "failed"} = {} =>
          (Belong(ui) \/ Loading(reqs)) /\ OneFetch(ui, reqs)

LEMMA AskAnswers ==
    ASSUME NEW Q, Answers(Q), NEW op, NEW key, NEW at, NEW want
    PROVE  /\ Answers(Ask(Q, op, key, at, want))
           /\ Loading(Q) \/ op = "load" => Loading(Ask(Q, op, key, at, want))
BY RequestFields DEF Answers, Loading, Ask

LEMMA BrowseRows ==
    ASSUME IInv, OInv, page = "browse",
           \/ BrowseClick \/ Confirm \/ Cancel \/ CloseForm
           \/ \E r \in reqs : BrowseAnswer(r)
    PROVE  Answers(reqs') /\ (Belong(ui') \/ Loading(reqs'))
<1>0. ui \in UI /\ Answers(reqs) /\ (Belong(ui) \/ Loading(reqs))
  BY DEF OInv, IInv, Good, GoodUI
\* The selection and the rows are left alone, and fetches not ended.
<1>a. ASSUME ui'.sel = ui.sel, ui'.rows = ui.rows,
             \/ reqs' = reqs \/ \E r \in reqs : r.op # "load" /\ reqs' = reqs \ {r}
             \/ \E op, key, at, want : reqs' = Ask(reqs, op, key, at, want)
      PROVE  Answers(reqs') /\ (Belong(ui') \/ Loading(reqs'))
  <2>1. Belong(ui) => Belong(ui')
    BY <1>a DEF Belong
  <2>2. CASE reqs' = reqs \/ \E r \in reqs : r.op # "load" /\ reqs' = reqs \ {r}
    BY <1>0, <2>1, <2>2 DEF Answers, Loading
  <2>3. CASE \E op, key, at, want : reqs' = Ask(reqs, op, key, at, want)
    BY <1>0, <2>1, <2>3, AskAnswers
  <2> QED BY <1>a, <2>2, <2>3
<1>1. ASSUME NEW k, BrowseGo(k) PROVE Answers(reqs') /\ Loading(reqs')
  BY <1>0, <1>1, AskAnswers DEF BrowseGo, BrowseLoad, Do
<1>2. CASE BrowseCreate \/ \E i : BrowseRename(i)
  BY <1>a, <1>2 DEF BrowseCreate, BrowseRename, Do
<1>3. CASE Confirm \/ Cancel \/ CloseForm \/ \E i : BrowseDelete(i)
  <2>1. ui'.sel = ui.sel /\ ui'.rows = ui.rows
    BY <1>0, <1>3 DEF Confirm, Cancel, CloseForm, Closed, BrowseDelete, AskUser, Do, UI
  <2>2. reqs' = reqs \/ \E op, key, at, want : reqs' = Ask(reqs, op, key, at, want)
    BY <1>3 DEF Confirm, Cancel, CloseForm, BrowseDelete, AskUser, Do
  <2> QED BY <1>a, <2>1, <2>2
<1>4. ASSUME NEW r \in reqs, BrowseShow(r)
      PROVE  Answers(reqs') /\ (Belong(ui') \/ Loading(reqs'))
  <2>1. Answers(reqs')
    BY <1>0, <1>4 DEF BrowseShow, Answer, Failure, Handle, Answers
  <2>2. CASE Failure(r, "load", [ui EXCEPT !.rows = <<>>], reqs \ {r})
    <3>1. ui'.rows = <<>>
      BY <1>0, <2>2 DEF Failure, Handle, UI
    <3> QED BY <2>1, <3>1 DEF Belong, Range
  <2>3. CASE Success(r, "load") /\ Answer(r, [ui EXCEPT !.sel = r.key, !.rows = r.rows], reqs \ {r})
    <3>1. ui'.rows = r.rows /\ ui'.sel = r.key
      BY <1>0, <2>3 DEF Answer, Handle, UI
    <3> QED BY <1>0, <2>1, <2>3, <3>1 DEF Belong, Answers, Success
  <2> QED BY <1>4, <2>2, <2>3 DEF BrowseShow
<1>5. ASSUME NEW r \in reqs, BrowseChanged(r)
      PROVE  Answers(reqs') /\ (Belong(ui') \/ Loading(reqs'))
  <2>1. CASE \E op \in {"add", "save", "remove"} : Ignored(r, op) \/ Dropped(r, op)
    BY <1>a, <2>1 DEF Ignored, Refused, Dropped, Failure, Answer, Handle
  <2>2. CASE reqs' = Ask(reqs \ {r}, "load", r.key, Nothing, None)
    <3>1. Answers(reqs \ {r})
      BY <1>0 DEF Answers
    <3> QED BY <2>2, <3>1, AskAnswers
  <2> QED BY <1>5, <2>1, <2>2 DEF BrowseChanged, BrowseLoad, Answer, Handle
<1> QED BY <1>1, <1>2, <1>3, <1>4, <1>5 DEF BrowseClick, BrowseAnswer

LEMMA ManagerRows ==
    ASSUME IInv, OInv, page = "manager",
           \/ ManagerClick \/ Confirm \/ Cancel \/ CloseForm
           \/ \E r \in reqs : ManagerAnswer(r)
    PROVE  /\ Answers(reqs')
           /\ hist'.excuse \cap {"dropped", "failed"} = {} =>
                 (Belong(ui') \/ Loading(reqs')) /\ OneFetch(ui', reqs')
<1> DEFINE Goal == /\ Answers(reqs')
                   /\ hist'.excuse \cap {"dropped", "failed"} = {} =>
                         (Belong(ui') \/ Loading(reqs')) /\ OneFetch(ui', reqs')
<1>0. /\ ui \in UI /\ Answers(reqs)
      /\ hist.excuse \cap {"dropped", "failed"} = {} =>
             (Belong(ui) \/ Loading(reqs)) /\ OneFetch(ui, reqs)
  BY DEF OInv, IInv, Good, GoodUI
\* What a step adds to the excuses.
<1>a. /\ \A u, Q, why : Do(u, Q, why) => hist.excuse \cup why \subseteq hist'.excuse
      /\ \A r, u, Q, why : Handle(r, u, Q, {}, why) => hist.excuse \cup why \subseteq hist'.excuse
  BY DEF Do, Handle, Excused, IInv
\* The selection, the rows and the flag are left alone.
<1>b. ASSUME ui'.sel = ui.sel, ui'.rows = ui.rows, ui'.busy = ui.busy, hist.excuse \subseteq hist'.excuse,
             \/ reqs' = reqs \/ \E r \in reqs : r.op # "load" /\ reqs' = reqs \ {r}
             \/ \E op, key, at, want : op # "load" /\ reqs' = Ask(reqs, op, key, at, want)
      PROVE  Goal
  <2>1. Belong(ui) => Belong(ui')
    BY <1>b DEF Belong
  <2>2. /\ Answers(reqs') /\ (Loading(reqs) => Loading(reqs'))
        /\ \A r \in reqs' : r.op = "load" => r \in reqs
    <3>1. CASE reqs' = reqs \/ \E r \in reqs : r.op # "load" /\ reqs' = reqs \ {r}
      BY <1>0, <3>1 DEF Answers, Loading
    <3>2. CASE \E op, key, at, want : op # "load" /\ reqs' = Ask(reqs, op, key, at, want)
      <4>1. PICK op, key, at, want : op # "load" /\ reqs' = Ask(reqs, op, key, at, want)
        BY <3>2
      <4>2. Request(reqs, op, key, at, want).op = op
        BY RequestFields
      <4> QED BY <1>0, <4>1, <4>2, AskAnswers DEF Ask
    <3> QED BY <1>b, <3>1, <3>2
  <2>3. OneFetch(ui, reqs) => OneFetch(ui', reqs')
    BY <1>b, <2>2 DEF OneFetch
  <2> QED BY <1>0, <1>b, <2>1, <2>2, <2>3
\* A fetch of the selection starts when the flag is not set.
<1>c. ASSUME "load" \notin ui.busy, hist.excuse \subseteq hist'.excuse, ui'.busy = {"load"},
             NEW P \in SUBSET reqs, NEW at, reqs' = Ask(P, "load", ui'.sel, at, None)
      PROVE  Goal
  <2> DEFINE q == Request(P, "load", ui'.sel, at, None)
  <2>1. q.op = "load" /\ q.key = ui'.sel /\ reqs' = P \cup {q}
    BY <1>c, RequestFields DEF Ask
  <2> HIDE DEF q
  <2>2. Answers(reqs') /\ Loading(reqs')
    BY <1>0, <1>c, AskAnswers DEF Answers
  <2>3. OneFetch(ui, reqs) => \A r \in P : r.op # "load"
    BY <1>c DEF OneFetch
  <2>4. OneFetch(ui, reqs) => OneFetch(ui', reqs')
    BY <1>c, <2>1, <2>3 DEF OneFetch
  <2> QED BY <1>0, <1>c, <2>2, <2>4
<1>1. ASSUME NEW v, Turned(v), ManagerGo(v) PROVE Goal
  <2> DEFINE w == [v EXCEPT !.busy = {"load"}]
  <2>0. page \in Paged
    BY DEF Paged
  <2>1. v \in UI /\ v.busy = ui.busy
    BY <1>1, <2>0, TurnedGood DEF GoodUI
  <2>2. \/ Do(v, reqs, {"dropped"})
        \/ "load" \notin v.busy /\ Do(w, Ask(reqs, "load", v.sel, Index(v.pos), None), {})
    BY <1>1 DEF ManagerGo, ManagerLoad
  <2>3. w.busy = {"load"} /\ w.sel = v.sel
    BY <2>1 DEF UI
  <2> HIDE DEF w
  <2>4. CASE Do(v, reqs, {"dropped"})
    <3>1. "dropped" \in hist'.excuse
      BY <1>a, <2>4
    <3> QED BY <1>0, <2>4, <3>1 DEF Do
  <2>5. CASE "load" \notin v.busy /\ Do(w, Ask(reqs, "load", v.sel, Index(v.pos), None), {})
    <3>1. hist.excuse \subseteq hist'.excuse
      BY <1>a, <2>5
    <3>2. ui' = w /\ reqs' = Ask(reqs, "load", ui'.sel, Index(v.pos), None)
      BY <2>3, <2>5 DEF Do
    <3> HIDE DEF Goal
    <3> QED BY <1>c, <2>1, <2>3, <2>5, <3>1, <3>2
  <2> QED BY <2>2, <2>4, <2>5
<1>2. ASSUME (\E k \in Keys : ManagerChange(k)) \/ ManagerPage PROVE Goal
  BY <1>1, <1>2 DEF ManagerChange, ManagerPage, Turned
<1>3. ASSUME Confirm \/ Cancel \/ CloseForm \/ ManagerClear PROVE Goal
  <2>1. ui'.sel = ui.sel /\ ui'.rows = ui.rows /\ ui'.busy = ui.busy
    BY <1>0, <1>3 DEF Confirm, Cancel, CloseForm, Closed, ManagerClear, AskUser, Do, UI
  <2>2. reqs' = reqs \/ \E op, key, at, want : op # "load" /\ reqs' = Ask(reqs, op, key, at, want)
    <3>1. CASE Confirm
      <4>1. ui.dialog.op # "load"
        BY <3>1 DEF Confirm, IInv, Good, GoodUI, GoodDialog, Dialogs
      <4> QED BY <3>1, <4>1 DEF Confirm, Do
    <3> QED BY <1>3, <3>1 DEF Cancel, CloseForm, ManagerClear, AskUser, Do
  <2>3. hist.excuse \subseteq hist'.excuse
    BY <1>3, <1>a DEF Confirm, Cancel, CloseForm, ManagerClear, AskUser
  <2> HIDE DEF Goal
  <2> QED BY <1>b, <2>1, <2>2, <2>3
<1>4. ASSUME NEW r \in reqs, ManagerLoaded(r) PROVE Goal
  <2>1. Answers(reqs')
    BY <1>0, <1>4 DEF ManagerLoaded, Answer, Failure, Handle, Answers
  <2>2. CASE Failure(r, "load", [ui EXCEPT !.busy = {}], reqs \ {r})
    <3>1. "failed" \in hist'.excuse
      BY <1>a, <2>2 DEF Failure
    <3> QED BY <2>1, <3>1
  <2>3. CASE Success(r, "load") /\ Answer(r, ManagerDisplay(r), reqs \ {r})
    <3>1. /\ ui'.rows = r.rows /\ ui'.sel = ui.sel /\ reqs' = reqs \ {r}
          /\ hist.excuse \subseteq hist'.excuse
      BY <1>0, <1>a, <2>3 DEF Answer, Handle, ManagerDisplay, UI
    <3>2. Range(r.rows) \subseteq Of(r.key) /\ r.op = "load"
      BY <1>0, <2>3 DEF Success, Answers
    <3>3. OneFetch(ui, reqs) => Belong(ui') /\ OneFetch(ui', reqs')
      BY <3>1, <3>2 DEF OneFetch, Belong
    <3> QED BY <1>0, <2>1, <3>1, <3>3
  <2> QED BY <1>4, <2>2, <2>3 DEF ManagerLoaded
<1>5. ASSUME NEW r \in reqs, ManagerCleared(r) PROVE Goal
  <2>1. r.op = "clear"
    BY <1>5 DEF ManagerCleared, Success, Dropped, Failure
  <2>2. CASE Dropped(r, "clear")
    <3>1. ui' = ui /\ reqs' = reqs \ {r} /\ hist.excuse \subseteq hist'.excuse
      BY <1>a, <2>2 DEF Dropped, Failure, Handle
    <3> HIDE DEF Goal
    <3> QED BY <1>b, <2>1, <3>1
  <2>3. CASE Handle(r, ui, reqs \ {r}, {}, {"dropped"})
    <3>1. ui' = ui /\ reqs' = reqs \ {r} /\ hist.excuse \subseteq hist'.excuse
      BY <1>a, <2>3 DEF Handle
    <3> HIDE DEF Goal
    <3> QED BY <1>b, <2>1, <3>1
  <2>4. CASE /\ "load" \notin ui.busy
             /\ Handle(r, [ui EXCEPT !.busy = {"load"}],
                       Ask(reqs \ {r}, "load", ui.sel, Index(ui.pos), None), {}, {})
    <3>1. /\ ui'.busy = {"load"} /\ hist.excuse \subseteq hist'.excuse
          /\ reqs' = Ask(reqs \ {r}, "load", ui'.sel, Index(ui.pos), None)
      BY <1>0, <1>a, <2>4 DEF Handle, UI
    <3> HIDE DEF Goal
    <3> QED BY <1>c, <2>4, <3>1
  <2> QED BY <1>5, <2>2, <2>3, <2>4 DEF ManagerCleared, ManagerLoad
<1> QED BY <1>2, <1>3, <1>4, <1>5 DEF ManagerClick, ManagerAnswer

\* The server answers with rows of the list asked for.
LEMMA ServeRows ==
    ASSUME IInv, OInv, page \in {"browse", "manager"}, NEW r \in reqs, Serve(r)
    PROVE  /\ Answers(reqs') /\ ui' = ui /\ hist.excuse \subseteq hist'.excuse
           /\ Loading(reqs) => Loading(reqs')
           /\ OneFetch(ui, reqs) => OneFetch(ui, reqs')
<1>1. GoodRequest(r) /\ srv \in [lists : [Keys -> Rows], now : Keys] /\ page \notin ByServer
  BY DEF IInv, Good, ByServer
<1>2. PICK q : /\ reqs' = (reqs \ {r}) \cup {q} /\ q.op = r.op /\ q.key = r.key
               /\ r.op = "load" => q.rows = RowsAt(Key(r), r.at.i)
  BY <1>1, Served
<1>3. ui' = ui /\ hist.excuse \subseteq hist'.excuse
  BY <1>1, Served
<1>4. r.op = "load" => Range(q.rows) \subseteq Of(r.key)
  <2> SUFFICES ASSUME r.op = "load" PROVE Range(q.rows) \subseteq Of(r.key)
    OBVIOUS
  <2>1. r.key \in Keys /\ Key(r) = r.key
    BY <1>1, ListsAssumption DEF GoodRequest, MayAsk, Key, ListsAssumption
  <2>2. Range(RowsAt(r.key, r.at.i)) \subseteq Range(srv.lists[r.key])
    <3>1. CASE RowsAt(r.key, r.at.i) = srv.lists[r.key]
      BY <3>1
    <3>2. CASE RowsAt(r.key, r.at.i) = <<>>
      BY <3>2 DEF Range
    <3>3. CASE /\ r.at.i \in DOMAIN srv.lists[r.key]
               /\ RowsAt(r.key, r.at.i) = <<srv.lists[r.key][r.at.i]>>
      BY <3>3 DEF Range
    <3> QED BY <3>1, <3>2, <3>3 DEF RowsAt
  <2> QED BY <1>2, <2>1, <2>2 DEF OInv
<1>5. Answers(reqs)
  BY DEF OInv
<1> QED BY <1>2, <1>3, <1>4, <1>5 DEF Answers, Loading, OneFetch

LEMMA FailRows ==
    ASSUME IInv, OInv, page \in {"browse", "manager"}, NEW r \in reqs, Fail(r)
    PROVE  /\ Answers(reqs') /\ ui' = ui /\ hist.excuse \subseteq hist'.excuse
           /\ Loading(reqs) => Loading(reqs')
           /\ OneFetch(ui, reqs) => OneFetch(ui, reqs')
<1>1. GoodRequest(r)
  BY DEF IInv, Good
<1>2. PICK q : /\ reqs' = (reqs \ {r}) \cup {q} /\ q.op = r.op /\ q.key = r.key
               /\ q.rows = <<>>
  BY <1>1, FailedBy
<1>3. ui' = ui /\ hist.excuse \subseteq hist'.excuse
  BY <1>1, FailedBy
<1>4. Range(q.rows) = {}
  BY <1>2 DEF Range
<1>5. Answers(reqs)
  BY DEF OInv
<1> QED BY <1>2, <1>3, <1>4, <1>5 DEF Answers, Loading, OneFetch

LEMMA RowsStep == IInv /\ [Next]_vars /\ OInv => OInv'
<1> SUFFICES ASSUME IInv, [Next]_vars, OInv PROVE OInv'
  OBVIOUS
<1>1. page' = page /\ \A k \in Keys : Range(srv'.lists[k]) \subseteq Of(k)
  BY StepKeeps, ListsOf DEF OInv
<1> DEFINE Browse  == page = "browse" => Answers(reqs') /\ (Belong(ui') \/ Loading(reqs'))
           Manager == page = "manager" =>
               /\ Answers(reqs')
               /\ hist'.excuse \cap {"dropped", "failed"} = {} =>
                     (Belong(ui') \/ Loading(reqs')) /\ OneFetch(ui', reqs')
<1>2. ASSUME Click PROVE Browse /\ Manager
  BY <1>2, BrowseRows, ManagerRows DEF Click
<1>3. ASSUME NEW r \in reqs, Ends(r) PROVE Browse /\ Manager
  BY <1>3, BrowseRows, ManagerRows DEF Ends
<1>4. ASSUME NEW r \in reqs, Serve(r) \/ Fail(r) PROVE Browse /\ Manager
  BY <1>4, ServeRows, FailRows DEF OInv
<1>5. ASSUME HistoryRenderEntries PROVE Browse /\ Manager
  BY <1>5 DEF HistoryRenderEntries, IInv, Good, GoodUI
<1>6. ASSUME OtherTab PROVE Browse /\ Manager
  <2>1. ui' = ui /\ reqs' = reqs /\ hist.excuse \subseteq hist'.excuse
    BY <1>6 DEF OtherTab, Excused, IInv
  <2> QED BY <2>1 DEF OInv
<1>7. ASSUME UNCHANGED vars PROVE Browse /\ Manager
  BY <1>7 DEF vars, OInv
<1>8. Browse /\ Manager
  BY <1>2, <1>3, <1>4, <1>5, <1>6, <1>7 DEF Next, Network
<1> QED BY <1>1, <1>8 DEF OInv, Answers, Belong, Loading, OneFetch, Of

LEMMA RowsInit == Init => OInv
<1> SUFFICES ASSUME Init PROVE OInv
  OBVIOUS
<1>1. \A k \in Keys : Range(srv.lists[k]) \subseteq Of(k)
  BY DEF Init, Of
<1>2. CASE page \notin {"browse", "manager"}
  BY <1>1, <1>2 DEF OInv
<1>3. CASE page \in {"browse", "manager"}
  <2>1. PICK k \in Keys : Entry(page, k)
    BY DEF Init
  <2> DEFINE at == IF page \in Paged THEN Index(1) ELSE Nothing
             q == Request({}, "load", k, at, None)
  <2>2. /\ ui = [Blank(k) EXCEPT !.busy = IF page = "manager" THEN {"load"} ELSE {}]
        /\ reqs = {q}
    BY <1>3, <2>1 DEF Entry, ByServer
  <2>3. q.op = "load" /\ q.key = k /\ q.st = "sent"
    BY RequestFields
  <2>4. ui.sel = k /\ (page = "manager" => ui.busy = {"load"})
    BY <2>2 DEF Blank
  <2> HIDE DEF q
  <2> QED BY <1>1, <2>2, <2>3, <2>4 DEF OInv, Answers, Loading, OneFetch
<1> QED BY <1>2, <1>3

\* The rows shown are entries of the selection also when answers overtake each
\* other: in the directory browser, where an answer brings the directory it is
\* for, and in the hunt manager, whose flag keeps two fetches from overlapping.
THEOREM RowsOfSelection == Spec => []OfSelection
<1>1. IInv /\ OInv => OfSelection
  BY DEF OInv, OfSelection, Quiet, Belong, Loading, Of
<1>2. Init => IInv /\ OInv
  BY InitGood, RowsInit
<1>3. IInv /\ OInv /\ [Next]_vars => (IInv /\ OInv)'
  BY StepGood, RowsStep
<1> QED BY <1>1, <1>2, <1>3, PTL DEF Spec

-----------------------------------------------------------------------------
(* A user who waits for the answers, a network in order, no other tab.     *)

WithForm  == {"custom_formats", "remote_mappings", "import_lists", "index_master"}
\* The pages whose form asks whether to remove its entry.
FromForm  == {"remote_mappings", "import_lists"}

\* What the server has for what is selected, and the address of its entries.
Listed(u) == RowsAt(u.sel, u.pos)
Meant(u, at, want) == Named(u.sel, at) \subseteq {want}
Marked(u, marks) ==
    \A n \in DOMAIN marks : /\ Meant(u, Index(marks[n].i), marks[n].want)
                            /\ \A m \in DOMAIN marks : m < n => marks[m].i < marks[n].i

\* The page shows the list, and its form and question are about entries of it.
Mirror(u) == u.sel # None =>
    IF u.drawing = {} THEN u.rows = Listed(u) ELSE u.drawing = {Listed(u)} /\ u.rows = <<>>
AtRest(u) ==
    /\ Mirror(u)
    /\ u.form # None /\ u.target # Nothing => Meant(u, u.target, u.form)
    /\ u.dialog # None =>
          /\ u.dialog.op = "remove" =>
                 Meant(u, IF u.dialog.at = Nothing THEN u.target ELSE u.dialog.at, u.dialog.want)
          /\ u.dialog.op = "purge" => Marked(u, u.dialog.rest)

\* The list changed, or will be fetched, whatever the page shows now.
Moved(r) == \/ r.op \in {"list", "put", "load", "purge", "chosen"}
            \/ r.op \in {"add", "remove", "clear"} /\ r.st = "done" /\ r.ok

\* The one request in flight is about what the page shows.
InFlight(u, r) ==
    /\ r.op \notin {"list", "put"} => Key(r) = u.sel
    /\ r.op = "put" => r.want = u.sel /\ (r.st = "done" => srv.now = u.sel)
    /\ r.op = "load" => /\ page \in Paged => r.at.i = u.pos
                        /\ r.st = "done" => r.rows = Listed(u)
    /\ r.op \in {"save", "remove", "purge"} /\ r.st = "sent" => Meant(u, r.at, r.want)
    /\ r.op = "purge" =>
          /\ Marked(u, r.rest)
          /\ r.at.by = "index" /\ \A n \in DOMAIN r.rest : r.rest[n].i < r.at.i
    /\ r.op = "open" => u.target = Id(r.want)
    /\ u.form # None => /\ r.op \in {"save", "add", "chosen"} \/ (r.op = "remove" /\ page \in FromForm)
                        /\ u.form = r.want
Calm(u, Q) ==
    /\ \A q, r \in Q : q = r
    /\ \A r \in Q : InFlight(u, r)
    /\ (\A r \in Q : ~Moved(r)) => AtRest(u)
    /\ page \in ByServer /\ (\A r \in Q : r.op \notin {"list", "put"}) => srv.now = u.sel
    /\ page \notin WithForm => u.form = None
    /\ u.dialog # None =>
          /\ Q = {} /\ u.dialog.key \in {None, Current, u.sel}
          /\ u.form # None => u.dialog.op = "remove" /\ page \in FromForm /\ u.form = u.dialog.want

CInv == Distinct /\ (hist.excuse = {} => hist.harm = {} /\ Calm(ui, reqs))


-----------------------------------------------------------------------------
(* The calm user: steps in general.                                        *)

Resolved(key) == IF key = Current THEN srv.now ELSE key
CNext == hist'.excuse = {} => hist'.harm = {} /\ Calm(ui, reqs)'

LEMMA CalmNext ==
    ASSUME page' = page, srv' = srv, Calm(ui', reqs')
    PROVE  Calm(ui, reqs)'
<1>1. /\ \A k, p : RowsAt(k, p)' = RowsAt(k, p)
      /\ \A k, at : Named(k, at)' = Named(k, at)
      /\ \A r : Key(r)' = Key(r)
  BY DEF RowsAt, Named, Key
<1>2. /\ \A u : Listed(u)' = Listed(u)
      /\ \A u, at, want : Meant(u, at, want)' <=> Meant(u, at, want)
  BY <1>1 DEF Listed, Meant
<1>3. \A u, marks : Marked(u, marks)' <=> Marked(u, marks)
  BY <1>2 DEF Marked
<1>4. Mirror(ui') = Mirror(ui)'
  BY <1>2 DEF Mirror
<1>5. AtRest(ui') => AtRest(ui)'
  BY <1>2, <1>3, <1>4 DEF AtRest
<1>6. \A r : InFlight(ui', r) => InFlight(ui, r)'
  BY <1>1, <1>2, <1>3 DEF InFlight
<1> HIDE DEF InFlight, AtRest
<1> QED BY <1>5, <1>6 DEF Calm

\* A step of a calm user starts with nothing in flight, an answer is the only one.
LEMMA DoCalm ==
    ASSUME IInv, CInv, NEW u, NEW Q, NEW why, Do(u, Q, why),
           reqs = {} /\ why = {} /\ Calm(ui, {}) => Calm(u, Q)
    PROVE  CNext
<1>1. /\ page' = page /\ srv' = srv /\ ui' = u /\ reqs' = Q /\ hist'.harm = hist.harm
      /\ hist'.excuse = hist.excuse \cup (why \cup (IF reqs # {} THEN {"hasty"} ELSE {}))
  BY DEF Do, Excused, IInv
<1>2. hist'.excuse = {} => hist.excuse = {} /\ reqs = {} /\ why = {}
  BY <1>1
<1> QED BY <1>1, <1>2, CalmNext DEF CNext, CInv

LEMMA HandleCalm ==
    ASSUME IInv, CInv, NEW r \in reqs, NEW u, NEW Q, NEW harm, NEW why, Handle(r, u, Q, harm, why),
           why = {} /\ reqs = {r} /\ Calm(ui, {r}) => Calm(u, Q) /\ harm = {}
    PROVE  CNext
<1>1. /\ page' = page /\ srv' = srv /\ ui' = u /\ reqs' = Q /\ hist'.harm = hist.harm \cup harm
      /\ hist'.excuse = {} => hist.excuse = {} /\ why = {}
  BY DEF Handle
<1>2. Calm(ui, reqs) => reqs = {r}
  BY DEF Calm
<1> QED BY <1>1, <1>2, CalmNext DEF CNext, CInv

LEMMA FailedCalm ==
    ASSUME IInv, CInv, NEW r \in reqs, NEW op, NEW u, NEW Q, Failure(r, op, u, Q)
    PROVE  CNext
BY HandleCalm DEF Failure

\* What a calm user may send.
LEMMA OneCalm ==
    ASSUME NEW u, u.dialog = None, page \notin WithForm => u.form = None,
           NEW op, NEW key, NEW at, NEW want, op \notin {"purge", "chosen"},
           op \notin {"list", "put"} => Resolved(key) = u.sel /\ (page \in ByServer => srv.now = u.sel),
           op = "put" => want = u.sel,
           op = "load" /\ page \in Paged => at.i = u.pos,
           op \in {"save", "remove"} => Meant(u, at, want),
           op = "open" => u.target = Id(want),
           u.form # None => /\ op \in {"save", "add"} \/ (op = "remove" /\ page \in FromForm)
                            /\ u.form = want,
           op \notin {"list", "put", "load"} => AtRest(u)
    PROVE  Calm(u, Ask({}, op, key, at, want))
<1> DEFINE r == Request({}, op, key, at, want)
<1>1. r.op = op /\ r.key = key /\ r.at = at /\ r.want = want /\ r.st = "sent"
  BY RequestFields
<1>2. Ask({}, op, key, at, want) = {r}
  BY DEF Ask
<1> HIDE DEF r
<1>3. InFlight(u, r)
  BY <1>1 DEF InFlight, Key, Resolved
<1>4. op \notin {"list", "put", "load"} <=> ~Moved(r)
  BY <1>1 DEF Moved
<1> QED BY <1>1, <1>2, <1>3, <1>4 DEF Calm

LEMMA FetchCalm ==
    ASSUME NEW u, u.form = None, u.dialog = None, NEW k, Resolved(k) = u.sel,
           page \in ByServer => srv.now = u.sel, NEW at, page \in Paged => at.i = u.pos
    PROVE  Calm(u, Ask({}, "load", k, at, None))
BY OneCalm

\* Nothing in flight: the page shows the list.
LEMMA Steady ==
    ASSUME IInv, Calm(ui, {})
    PROVE  /\ AtRest(ui) /\ (page \notin WithForm => ui.form = None)
           /\ page \in ByServer => srv.now = ui.sel /\ ui.sel \in Keys
           /\ ui.sel # None => ui.sel \in Keys
           /\ ui.sel \in Keys => Resolved(ui.sel) = ui.sel
           /\ Resolved(Current) = srv.now
<1>1. srv.now \in Keys /\ ui.sel \in Keys \cup {None}
  BY DEF IInv, Good, GoodUI, UI
<1> QED BY <1>1, ListsAssumption DEF Calm, Resolved, ListsAssumption

\* The address of a row, by position or by id, names its entry.
LEMMA RowMeant ==
    ASSUME IInv, Calm(ui, {}), page \notin Paged, NEW i \in DOMAIN ui.rows
    PROVE  /\ ui.sel \in Keys
           /\ Named(ui.sel, Index(i)) = {ui.rows[i]}
<1>1. ui.sel # None
  <2>1. CASE page \in Late
    BY <2>1, NoSelection
  <2>2. CASE page \in ByServer
    BY <2>2, Steady, ListsAssumption DEF ListsAssumption
  <2>3. CASE page \notin Late /\ page \notin ByServer
    BY <2>3, Settles, ListsAssumption DEF ListsAssumption
  <2> QED BY <2>1, <2>2, <2>3
<1>2. ui.drawing = {}
  BY DEF IInv, Good, GoodUI, Paged
<1>3. ui.rows = srv.lists[ui.sel]
  BY <1>1, <1>2, Steady DEF AtRest, Mirror, Listed, RowsAt
<1>4. Index(i).by = "index" /\ Index(i).i = i
  BY Addressing
<1> QED BY <1>1, <1>3, <1>4, Steady DEF Named

LEMMA IdMeant ==
    ASSUME NEW u, NEW x
    PROVE  Meant(u, Id(x), x)
BY DEF Meant, Named, Id

\* An answer or a failure that is only shown.
LEMMA IgnoredCalm ==
    ASSUME IInv, CInv, NEW r \in reqs, NEW op,
           (Ignored(r, op) /\ op \in {"save", "add", "remove", "open"}) \/ Dropped(r, op)
    PROVE  CNext
<1>1. CASE Dropped(r, op)
  BY <1>1, FailedCalm DEF Dropped
<1>2. CASE Ignored(r, op) /\ op \in {"save", "add", "remove", "open"}
  <2>1. Handle(r, ui, reqs \ {r}, {}, {}) /\ r.op \in {"save", "add", "remove", "open"} /\ ~r.ok
    BY <1>2 DEF Ignored, Refused, Answer
  <2>2. ASSUME reqs = {r}, Calm(ui, {r}) PROVE Calm(ui, reqs \ {r})
    <3>1. AtRest(ui)
      BY <2>1, <2>2 DEF Calm, Moved
    <3> QED BY <2>1, <2>2, <3>1 DEF Calm
  <2> QED BY <2>1, <2>2, HandleCalm
<1> QED BY <1>1, <1>2

\* The list an answer is about: the selection's.
LEMMA KeyIs ==
    ASSUME IInv, NEW r \in reqs, InFlight(ui, r), r.op \notin {"list", "put"}, page \notin ByServer
    PROVE  r.key = ui.sel /\ ui.sel \in Keys /\ Resolved(ui.sel) = ui.sel
<1>1. r.key \in Keys
  BY DEF IInv, Good, GoodRequest, MayAsk
<1>2. Key(r) = r.key
  BY <1>1, ListsAssumption DEF Key, ListsAssumption
<1> QED BY <1>1, <1>2, ListsAssumption DEF InFlight, Resolved, ListsAssumption

\* The browser takes the directory of the answer, the other pages keep theirs.
Kept(r) == IF page = "browse" THEN r.key ELSE ui.sel

\* The list is fetched again, the form closed with what was sent from it.
LEMMA RefreshCalm ==
    ASSUME IInv, CInv, NEW r \in reqs, page \notin Paged,
           r.op \in {"save", "add", "remove", "test"}, NEW k, NEW v, NEW harm,
           Handle(r, v, Ask(reqs \ {r}, "load", k, Nothing, None), harm, {}),
           k = IF page \in ByServer THEN Current ELSE Kept(r),
           v.sel = Kept(r), v.dialog = ui.dialog, harm \in {{}, ClosesForm(r)},
           \/ v.form = None
           \/ v.form = ui.form /\ (r.op = "test" \/ page \notin WithForm \/
                                   (r.op = "remove" /\ page \notin FromForm))
    PROVE  CNext
<1>1. ASSUME reqs = {r}, Calm(ui, {r})
      PROVE  Calm(v, Ask(reqs \ {r}, "load", k, Nothing, None)) /\ harm = {}
  <2>1. InFlight(ui, r)
    BY <1>1 DEF Calm
  <2>2. ClosesForm(r) = {} /\ ui.dialog = None
    BY <1>1, <2>1 DEF InFlight, ClosesForm, Calm
  <2>3. v.form = None
    BY <1>1, <2>1 DEF InFlight, Calm
  <2>4. page \in ByServer => srv.now = ui.sel
    BY <1>1 DEF Calm
  <2>5. v.sel = ui.sel /\ Resolved(k) = ui.sel
    <3>1. CASE page \in ByServer
      BY <2>4, <3>1 DEF Resolved, Kept, ByServer
    <3>2. CASE page \notin ByServer
      BY <2>1, <3>2, KeyIs DEF Kept
    <3> QED BY <3>1, <3>2
  <2>6. reqs \ {r} = {}
    BY <1>1
  <2>7. Calm(v, Ask({}, "load", k, Nothing, None))
    BY <2>2, <2>3, <2>4, <2>5, FetchCalm
  <2> QED BY <2>2, <2>6, <2>7
<1> QED BY <1>1, HandleCalm

\* The rows of an answer are the list's.
LEMMA ShownCalm ==
    ASSUME IInv, CInv, NEW r \in reqs, page # "history", r.op = "load", r.st = "done", NEW v,
           Handle(r, v, reqs \ {r}, {}, {}), v.sel = Kept(r), v.rows = r.rows,
           v.drawing = ui.drawing, v.form = ui.form, v.dialog = ui.dialog,
           v.pos = IF page \in Paged THEN r.at.i ELSE ui.pos
    PROVE  CNext
<1>1. ASSUME reqs = {r}, Calm(ui, {r}) PROVE Calm(v, reqs \ {r})
  <2>1. InFlight(ui, r) /\ ui.dialog = None
    BY <1>1 DEF Calm
  <2>2. r.rows = Listed(ui) /\ v.pos = ui.pos /\ ui.form = None
    BY <2>1 DEF InFlight
  <2>3. ui.drawing = {} /\ v.sel = ui.sel
    BY <2>1, KeyIs DEF IInv, Good, GoodUI, Kept, ByServer
  <2>4. AtRest(v)
    BY <2>1, <2>2, <2>3 DEF AtRest, Mirror, Listed
  <2>5. page \in ByServer => srv.now = v.sel
    BY <1>1, <2>3 DEF Calm
  <2> QED BY <1>1, <2>1, <2>2, <2>4, <2>5 DEF Calm
<1> QED BY <1>1, HandleCalm

\* The page turns to another selection.
LEMMA ChangeCalm ==
    ASSUME IInv, CInv, Uncovered, NEW k \in Keys, page \notin Paged, NEW op \in {"put", "load"},
           NEW want, op = "put" => want = k, op = "load" => page \notin ByServer,
           Do([ui EXCEPT !.sel = k], Ask(reqs, op, k, Nothing, want), {})
    PROVE  CNext
<1> DEFINE v == [ui EXCEPT !.sel = k]
<1>1. v.form = None /\ v.dialog = None /\ v.sel = k
  BY DEF IInv, Good, GoodUI, UI, Uncovered
<1>2. Do(v, Ask(reqs, op, k, Nothing, want), {})
  OBVIOUS
<1> HIDE DEF v
<1>3. Resolved(k) = k
  BY ListsAssumption DEF Resolved, ListsAssumption
<1>4. Calm(v, Ask({}, op, k, Nothing, want))
  BY <1>1, <1>3, OneCalm
<1> QED BY <1>2, <1>4, DoCalm

LEMMA PopulateCalm ==
    ASSUME IInv, CInv, page \notin Paged, NEW r \in reqs, r.op = "list", NEW k \in Keys,
           NEW op \in {"put", "load"},
           NEW want, op = "put" => want = k, op = "load" => page \notin ByServer,
           Handle(r, [ui EXCEPT !.sel = k], Ask(reqs \ {r}, op, k, Nothing, want), {}, {})
    PROVE  CNext
<1> DEFINE v == [ui EXCEPT !.sel = k]
<1>1. v.form = ui.form /\ v.dialog = ui.dialog /\ v.sel = k
  BY DEF IInv, Good, GoodUI, UI
<1>2. Handle(r, v, Ask(reqs \ {r}, op, k, Nothing, want), {}, {})
  OBVIOUS
<1> HIDE DEF v
<1>3. Resolved(k) = k
  BY ListsAssumption DEF Resolved, ListsAssumption
<1>4. ASSUME reqs = {r}, Calm(ui, {r}) PROVE Calm(v, Ask(reqs \ {r}, op, k, Nothing, want))
  <2>1. v.form = None /\ v.dialog = None
    BY <1>1, <1>4 DEF Calm, InFlight
  <2>2. Calm(v, Ask({}, op, k, Nothing, want))
    BY <1>1, <1>3, <2>1, OneCalm
  <2>3. reqs \ {r} = {}
    BY <1>4
  <2> QED BY <2>2, <2>3
<1> QED BY <1>2, <1>4, HandleCalm

\* A form is opened for a row, or for a new entry.
LEMMA OpenedCalm ==
    ASSUME IInv, CInv, page \in WithForm, page \notin Paged, Uncovered, NEW at, NEW x,
           Do(Opened(at, x), reqs, {}),
           at \in {Nothing, Id(x)} \/ \E i \in DOMAIN ui.rows : at = Index(i) /\ x = ui.rows[i]
    PROVE  CNext
<1> DEFINE v == Opened(at, x)
<1>1. /\ v.sel = ui.sel /\ v.pos = ui.pos /\ v.rows = ui.rows /\ v.drawing = ui.drawing
      /\ v.form = x /\ v.target = at /\ v.dialog = None
  BY DEF IInv, Good, GoodUI, UI, Opened, Uncovered
<1>2. Do(v, reqs, {})
  OBVIOUS
<1> HIDE DEF v
<1>3. ASSUME reqs = {}, Calm(ui, {}) PROVE Calm(v, {})
  <2>1. AtRest(ui) /\ (page \in ByServer => srv.now = v.sel)
    BY <1>1, <1>3, Steady
  <2>2. at # Nothing => Meant(v, at, x)
    <3>1. CASE at = Id(x)
      BY <3>1, IdMeant
    <3>2. CASE \E i \in DOMAIN ui.rows : at = Index(i) /\ x = ui.rows[i]
      BY <1>1, <1>3, <3>2, RowMeant DEF Meant
    <3> QED BY <3>1, <3>2
  <2>3. AtRest(v)
    BY <1>1, <2>1, <2>2 DEF AtRest, Mirror, Listed
  <2> QED BY <1>1, <2>1, <2>3 DEF Calm
<1> QED BY <1>2, <1>3, DoCalm

\* A form is sent.
LEMMA SavesCalm ==
    ASSUME IInv, CInv, page \notin Paged, NEW key, Saves(key),
           key = IF page \in ByServer THEN Current ELSE ui.sel
    PROVE  CNext
<1>1. ui.form # None /\ ui.dialog = None /\ Do(ui, Sends(reqs, key), {})
  BY DEF Saves
<1>2. ASSUME reqs = {}, Calm(ui, {}) PROVE Calm(ui, Sends(reqs, key))
  <2>0. page \notin ByServer => ui.sel \in Keys
    BY <1>1, Settles, NoSelection
  <2>1. /\ AtRest(ui) /\ Resolved(key) = ui.sel /\ (page \in ByServer => srv.now = ui.sel)
        /\ (page \notin WithForm => ui.form = None)
    BY <1>2, <2>0, Steady
  <2>2. CASE ui.target = Nothing
    BY <1>1, <1>2, <2>1, <2>2, OneCalm DEF Sends
  <2>3. CASE ui.target # Nothing
    <3>1. Meant(ui, ui.target, ui.form)
      BY <1>1, <2>1, <2>3 DEF AtRest
    <3> QED BY <1>1, <1>2, <2>1, <2>3, <3>1, OneCalm DEF Sends
  <2> QED BY <2>2, <2>3
<1> QED BY <1>1, <1>2, DoCalm

\* A question about a row, or about the entry of the form.
LEMMA AskUserCalm ==
    ASSUME IInv, CInv, NEW op \in {"remove", "clear"}, NEW key \in {None, Current, ui.sel},
           NEW at, NEW want, AskUser(op, key, at, want),
           op = "remove" =>
              \/ at = Id(want)
              \/ page \notin Paged /\ \E i \in DOMAIN ui.rows : at = Index(i) /\ want = ui.rows[i]
              \/ at \in {Nothing, ui.target} /\ want = ui.form /\ ui.form # None /\ ui.target # Nothing,
           ui.form # None => op = "remove" /\ page \in FromForm /\ want = ui.form
    PROVE  CNext
<1> DEFINE d == Asking(op, key, at, want)
           v == [ui EXCEPT !.dialog = d]
<1>1. /\ v.sel = ui.sel /\ v.pos = ui.pos /\ v.rows = ui.rows /\ v.drawing = ui.drawing
      /\ v.form = ui.form /\ v.target = ui.target /\ v.dialog = d /\ Do(v, reqs, {})
  BY DEF IInv, Good, GoodUI, UI, AskUser
<1>2. d.op = op /\ d.key = key /\ d.at = at /\ d.want = want
  BY DEF Asking
<1> HIDE DEF v, d
<1>3. ASSUME reqs = {}, Calm(ui, {}) PROVE Calm(v, {})
  <2>1. AtRest(ui) /\ (page \in ByServer => srv.now = v.sel) /\ (page \notin WithForm => ui.form = None)
    BY <1>1, <1>3, Steady
  <2>2. op = "remove" => Meant(v, IF at = Nothing THEN ui.target ELSE at, want)
    <3>1. CASE at = Id(want)
      BY <3>1, IdMeant DEF Id, Nothing
    <3>2. CASE page \notin Paged /\ \E i \in DOMAIN ui.rows : at = Index(i) /\ want = ui.rows[i]
      <4>1. at # Nothing
        BY <3>2 DEF Index, Nothing
      <4> QED BY <1>1, <1>3, <3>2, <4>1, RowMeant DEF Meant
    <3>3. CASE at \in {Nothing, ui.target} /\ want = ui.form /\ ui.form # None /\ ui.target # Nothing
      BY <1>1, <2>1, <3>3 DEF AtRest, Meant
    <3> QED BY <3>1, <3>2, <3>3
  <2>3. AtRest(v)
    BY <1>1, <1>2, <2>1, <2>2 DEF AtRest, Mirror, Listed, Meant
  <2> QED BY <1>1, <1>2, <2>1, <2>3 DEF Calm
<1> QED BY <1>1, <1>3, DoCalm

LEMMA ConfirmCalm ==
    ASSUME IInv, CInv, Confirm
    PROVE  CNext
<1> DEFINE d == ui.dialog
           key == IF d.key = None THEN ui.sel ELSE d.key
           at == IF d.at = Nothing THEN ui.target ELSE d.at
           v == [ui EXCEPT !.dialog = None]
<1>1. /\ v.sel = ui.sel /\ v.pos = ui.pos /\ v.rows = ui.rows /\ v.drawing = ui.drawing
      /\ v.form = ui.form /\ v.target = ui.target /\ v.dialog = None
  BY DEF IInv, Good, GoodUI, UI
<1>2. d # None /\ Do(v, Ask(reqs, d.op, key, at, d.want), {}) /\ d.op \in {"remove", "clear"}
  BY DEF Confirm, IInv, Good, GoodUI, GoodDialog, Dialogs
<1> HIDE DEF v
<1>3. ASSUME reqs = {}, Calm(ui, {}) PROVE Calm(v, Ask({}, d.op, key, at, d.want))
  <2>1. /\ AtRest(ui) /\ (page \in ByServer => srv.now = ui.sel) /\ (page \notin WithForm => ui.form = None)
        /\ d.key \in {None, Current, ui.sel}
        /\ ui.form # None => d.op = "remove" /\ page \in FromForm /\ ui.form = d.want
    BY <1>2, <1>3, Steady DEF Calm
  <2>2. Resolved(key) = ui.sel
    <3>1. GoodDialog(d) /\ (page \in Late => ui.sel # None)
      BY <1>2 DEF IInv, Good, GoodUI
    <3>2. CASE page \in ByServer
      BY <2>1, <3>1, <3>2, ListsAssumption, Steady, <1>3 DEF GoodDialog, Resolved, ListsAssumption
    <3>3. CASE page \notin ByServer
      <4>1. ui.sel \in Keys
        BY <3>1, <3>3, Settles
      <4>2. key = ui.sel
        BY <2>1, <3>1, <3>3, <4>1, ListsAssumption DEF GoodDialog, ListsAssumption
      <4> QED BY <4>1, <4>2, ListsAssumption DEF Resolved, ListsAssumption
    <3> QED BY <3>2, <3>3
  <2>3. d.op = "remove" => Meant(v, at, d.want)
    BY <1>1, <1>2, <2>1 DEF AtRest, Meant
  <2>4. AtRest(v)
    BY <1>1, <2>1 DEF AtRest, Mirror, Listed, Meant
  <2> HIDE DEF key, at, d
  <2> QED BY <1>1, <1>2, <2>1, <2>2, <2>3, <2>4, OneCalm
<1> HIDE DEF key, at, d
<1> QED BY <1>2, <1>3, DoCalm

LEMMA CancelCalm ==
    ASSUME IInv, CInv, Cancel \/ CloseForm
    PROVE  CNext
<1>1. /\ page' = page /\ srv' = srv /\ reqs' = reqs /\ hist' = hist
      /\ ui'.sel = ui.sel /\ ui'.pos = ui.pos /\ ui'.rows = ui.rows /\ ui'.drawing = ui.drawing
      /\ ui'.dialog = None
      /\ ui'.form = None \/ (ui'.form = ui.form /\ ui'.target = ui.target)
  BY DEF IInv, Good, GoodUI, UI, Cancel, CloseForm, Closed
<1>2. ASSUME Calm(ui, reqs) PROVE Calm(ui', reqs')
  <2>1. AtRest(ui) => AtRest(ui')
    BY <1>1 DEF AtRest, Mirror, Listed, Meant
  <2>2. ASSUME NEW r \in reqs PROVE InFlight(ui', r)
    <3>1. InFlight(ui, r)
      BY <1>2 DEF Calm
    <3>2. r.op = "open" => ui.form = None
      BY <3>1 DEF InFlight
    <3>3. r.op = "open" => ui'.target = ui.target
      BY <1>1, <3>2 DEF Cancel, CloseForm, IInv, Good, GoodUI, UI
    <3> QED BY <1>1, <3>1, <3>3 DEF InFlight, Listed, Meant, Marked
  <2> QED BY <1>1, <1>2, <2>1, <2>2 DEF Calm
<1> QED BY <1>1, <1>2, CalmNext DEF CNext, CInv

-----------------------------------------------------------------------------
(* The calm user: the kinds of step several pages have.                    *)

\* A request sent from the page as it is.
LEMMA SendCalm ==
    ASSUME IInv, CInv, Uncovered, NEW v, NEW op \in {"save", "add", "test", "linked", "open"},
           NEW key, NEW at, NEW want, Do(v, Ask(reqs, op, key, at, want), {}),
           v.sel = ui.sel, v.pos = ui.pos, v.rows = ui.rows, v.drawing = ui.drawing,
           v.form = ui.form, v.dialog = ui.dialog, ui.sel \in Keys, key = ui.sel,
           op = "save" =>
              \/ at = Id(want)
              \/ page \notin Paged /\ \E i \in DOMAIN ui.rows : at = Index(i) /\ want = ui.rows[i],
           op = "open" => v.target = Id(want)
    PROVE  CNext
<1>1. ui.form = None /\ ui.dialog = None
  BY DEF Uncovered
<1>2. ASSUME reqs = {}, Calm(ui, {}) PROVE Calm(v, Ask({}, op, key, at, want))
  <2>1. AtRest(ui) /\ Resolved(key) = v.sel /\ (page \in ByServer => srv.now = v.sel)
    BY <1>2, Steady
  <2>2. op = "save" => Meant(v, at, want)
    <3>1. CASE at = Id(want)
      BY <3>1, IdMeant
    <3>2. CASE page \notin Paged /\ \E i \in DOMAIN ui.rows : at = Index(i) /\ want = ui.rows[i]
      BY <1>2, <3>2, RowMeant DEF Meant
    <3> QED BY <3>1, <3>2
  <2>3. AtRest(v)
    BY <1>1, <2>1 DEF AtRest, Mirror, Listed
  <2> QED BY <1>1, <2>1, <2>2, <2>3, OneCalm
<1> QED BY <1>2, DoCalm

\* The server has taken the instance: the list is fetched.
LEMMA SetCurrentCalm ==
    ASSUME IInv, CInv, page \in ByServer, NEW r \in reqs, r.op = "put", r.st = "done",
           Handle(r, ui, Ask(reqs \ {r}, "load", Current, Nothing, None), {}, {})
    PROVE  CNext
<1>1. ASSUME reqs = {r}, Calm(ui, {r}) PROVE Calm(ui, Ask(reqs \ {r}, "load", Current, Nothing, None))
  <2>1. srv.now = ui.sel /\ ui.form = None /\ ui.dialog = None /\ reqs \ {r} = {}
    BY <1>1 DEF Calm, InFlight
  <2>2. Resolved(Current) = ui.sel /\ page \notin Paged
    BY <2>1 DEF Resolved, ByServer, Paged
  <2> QED BY <2>1, <2>2, FetchCalm
<1> QED BY <1>1, HandleCalm

\* The end of what did not change the list.
LEMMA EndedCalm ==
    ASSUME IInv, CInv, NEW r \in reqs, NEW v,
           \/ r.op \in {"test", "linked", "open"}
           \/ r.op = "add" /\ ~r.ok /\ page \notin WithForm,
           Handle(r, v, reqs \ {r}, {}, {}),
           v.sel = ui.sel, v.pos = ui.pos, v.rows = ui.rows, v.drawing = ui.drawing,
           \/ v.form = ui.form /\ v.dialog = ui.dialog
           \/ r.op = "open" /\ v.form = r.want /\ v.target = ui.target /\ v.dialog = ui.dialog
              /\ page \in WithForm
           \/ r.op = "linked" /\ v.form = ui.form /\ r.at = Id(r.want)
              /\ v.dialog = Asking("remove", ui.sel, r.at, r.want)
    PROVE  CNext
<1>1. ASSUME reqs = {r}, Calm(ui, {r}) PROVE Calm(v, reqs \ {r})
  <2>1. InFlight(ui, r) /\ ui.dialog = None /\ AtRest(ui) /\ reqs \ {r} = {}
    BY <1>1 DEF Calm, Moved
  <2>2. ui.form = None /\ (r.op = "open" => ui.target = Id(r.want))
    BY <1>1, <2>1 DEF InFlight, Calm
  <2>3. Mirror(v) /\ (page \in ByServer => srv.now = v.sel)
    BY <1>1, <2>1 DEF AtRest, Mirror, Listed, Calm
  <2>4. CASE v.form = ui.form /\ v.dialog = ui.dialog
    BY <2>1, <2>2, <2>3, <2>4 DEF Calm, AtRest
  <2>5. CASE r.op = "open" /\ v.form = r.want /\ v.target = ui.target /\ v.dialog = ui.dialog
             /\ page \in WithForm
    <3>1. Meant(v, v.target, v.form)
      BY <2>2, <2>5, IdMeant
    <3> QED BY <2>1, <2>3, <2>5, <3>1 DEF Calm, AtRest
  <2>6. CASE r.op = "linked" /\ v.form = ui.form /\ r.at = Id(r.want)
             /\ v.dialog = Asking("remove", ui.sel, r.at, r.want)
    <3>1. v.dialog.op = "remove" /\ v.dialog.key = v.sel /\ v.dialog.at = r.at /\ v.dialog.want = r.want
      BY <2>6 DEF Asking
    <3>2. Meant(v, v.dialog.at, v.dialog.want) /\ v.dialog.at # Nothing
      BY <2>6, <3>1, IdMeant DEF Id, Nothing
    <3> QED BY <2>1, <2>2, <2>3, <2>6, <3>1, <3>2 DEF Calm, AtRest
  <2> QED BY <2>4, <2>5, <2>6
<1> QED BY <1>1, HandleCalm

\* The paged tables: another page or selection, and what follows a clearing.
LEMMA TurnedCalm ==
    ASSUME IInv, CInv, page \in Paged, Uncovered, NEW v, v.form = ui.form, v.dialog = ui.dialog,
           v.sel \in Keys, NEW why, Do(v, Ask(reqs, "load", v.sel, Index(v.pos), None), why)
    PROVE  CNext
<1>1. v.form = None /\ v.dialog = None /\ Resolved(v.sel) = v.sel /\ page \notin ByServer
  BY ListsAssumption DEF Uncovered, Resolved, ListsAssumption, Paged, ByServer
<1>2. Calm(v, Ask({}, "load", v.sel, Index(v.pos), None))
  BY <1>1, Addressing, FetchCalm
<1> QED BY <1>2, DoCalm

LEMMA ClearedCalm ==
    ASSUME IInv, CInv, page \in Paged, NEW r \in reqs, r.op = "clear", NEW v, v.form = ui.form,
           v.dialog = ui.dialog, v.sel \in Keys, NEW why,
           Handle(r, v, Ask(reqs \ {r}, "load", v.sel, Index(v.pos), None), {}, why)
    PROVE  CNext
<1>1. Resolved(v.sel) = v.sel /\ page \notin ByServer
  BY ListsAssumption DEF Resolved, ListsAssumption, Paged, ByServer
<1>2. ASSUME reqs = {r}, Calm(ui, {r})
      PROVE  Calm(v, Ask(reqs \ {r}, "load", v.sel, Index(v.pos), None))
  <2>1. v.form = None /\ v.dialog = None /\ reqs \ {r} = {}
    BY <1>2 DEF Calm, WithForm, Paged
  <2> QED BY <1>1, <2>1, Addressing, FetchCalm
<1> QED BY <1>2, HandleCalm

-----------------------------------------------------------------------------
(* The calm user: the pages that name the instance in their requests.      *)

LEMMA RootFoldersCalm ==
    ASSUME IInv, CInv, page = "root_folders",
           RootFoldersClick \/ \E r \in reqs : RootFoldersAnswer(r)
    PROVE  CNext
<1>0. /\ page \notin Paged /\ page \notin ByServer /\ page \notin WithForm /\ None \notin Keys
      /\ ui \in UI /\ \A r : Kept(r) = ui.sel
  BY ListsAssumption DEF ListsAssumption, Paged, ByServer, WithForm, Kept, IInv, Good, GoodUI
<1>1. ASSUME NEW k \in Keys, RootFoldersChange(k) PROVE CNext
  BY <1>0, <1>1, ChangeCalm DEF RootFoldersChange, RootFoldersRefresh
<1>2. ASSUME NEW i, RootFoldersSetDefault(i) PROVE CNext
  BY <1>0, <1>2, SendCalm DEF RootFoldersSetDefault, UI
<1>3. ASSUME NEW i, RootFoldersDelete(i) PROVE CNext
  BY <1>0, <1>3, AskUserCalm DEF RootFoldersDelete, Uncovered
<1>4. ASSUME NEW b, NEW op \in {"test", "add"}, NEW want, Uncovered, ui.sel # None,
             Do([ui EXCEPT !.busy = b], Ask(reqs, op, ui.sel, Nothing, want), {})
      PROVE  CNext
  <2> DEFINE v == [ui EXCEPT !.busy = b]
  <2>1. /\ v.sel = ui.sel /\ v.pos = ui.pos /\ v.rows = ui.rows /\ v.drawing = ui.drawing
        /\ v.form = ui.form /\ v.dialog = ui.dialog /\ ui.sel \in Keys
    BY <1>0, <1>4 DEF UI
  <2>2. Do(v, Ask(reqs, op, ui.sel, Nothing, want), {})
    BY <1>4
  <2> HIDE DEF v
  <2> QED BY <1>4, <2>1, <2>2, SendCalm
<1>5. ASSUME NEW r \in reqs, RootFoldersPopulate(r) PROVE CNext
  BY <1>0, <1>5, PopulateCalm, IgnoredCalm DEF RootFoldersPopulate, Success, Answer, RootFoldersRefresh
<1>6. ASSUME NEW r \in reqs, RootFoldersShow(r) PROVE CNext
  <2>1. CASE Success(r, "load") /\ Answer(r, Shown(r), reqs \ {r})
    BY <1>0, <2>1, ShownCalm DEF Success, Answer, Shown, UI
  <2> QED BY <1>6, <2>1, FailedCalm DEF RootFoldersShow
<1>7. ASSUME NEW r \in reqs, RootFoldersTested(r) PROVE CNext
  <2>1. CASE Success(r, "test") /\ Answer(r, [ui EXCEPT !.busy = @ \ {"test"}], reqs \ {r})
    BY <1>0, <2>1, EndedCalm DEF Success, Answer, UI
  <2> QED BY <1>7, <2>1, FailedCalm DEF RootFoldersTested
<1>8. ASSUME NEW r \in reqs, NEW b, NEW op \in {"save", "add", "remove"}, Success(r, op),
             Answer(r, [ui EXCEPT !.busy = b], RootFoldersRefresh(reqs \ {r}, ui.sel))
      PROVE  CNext
  <2> DEFINE v == [ui EXCEPT !.busy = b]
  <2>1. v.sel = ui.sel /\ v.form = ui.form /\ v.dialog = ui.dialog
    BY <1>0 DEF UI
  <2>2. Handle(r, v, Ask(reqs \ {r}, "load", ui.sel, Nothing, None), {}, {}) /\ r.op = op
    BY <1>8 DEF Answer, Success, RootFoldersRefresh
  <2> HIDE DEF v
  <2> QED BY <1>0, <2>1, <2>2, RefreshCalm
<1>9. ASSUME NEW r \in reqs,
             RootFoldersDefaultSet(r) \/ RootFoldersAdded(r) \/ RootFoldersDeleted(r)
      PROVE  CNext
  <2>1. ui = [ui EXCEPT !.busy = ui.busy]
    BY <1>0 DEF UI
  <2>2. CASE RootFoldersAdded(r)
    <3>1. CASE Refused(r, "add") /\ Answer(r, [ui EXCEPT !.busy = @ \ {"add"}], reqs \ {r})
      BY <1>0, <3>1, EndedCalm DEF Refused, Answer, UI
    <3> QED BY <1>8, <2>2, <3>1, FailedCalm DEF RootFoldersAdded
  <2>3. CASE RootFoldersDefaultSet(r)
    BY <1>8, <2>1, <2>3, IgnoredCalm DEF RootFoldersDefaultSet
  <2>4. CASE RootFoldersDeleted(r)
    BY <1>8, <2>1, <2>4, IgnoredCalm DEF RootFoldersDeleted
  <2> QED BY <1>9, <2>2, <2>3, <2>4
<1> QED BY <1>1, <1>2, <1>3, <1>4, <1>5, <1>6, <1>7, <1>9
        DEF RootFoldersClick, RootFoldersAnswer, RootFoldersTest, RootFoldersAdd

LEMMA BrowseCalm ==
    ASSUME IInv, CInv, page = "browse", BrowseClick \/ \E r \in reqs : BrowseAnswer(r)
    PROVE  CNext
<1>0. /\ page \notin Paged /\ page \notin ByServer /\ page \notin WithForm
      /\ ui \in UI /\ ui.sel \in Keys /\ \A r : Kept(r) = r.key
  BY Settles DEF Paged, ByServer, WithForm, Kept, IInv, Good, GoodUI, Late
<1>1. ASSUME NEW k \in Keys, BrowseGo(k) PROVE CNext
  BY <1>0, <1>1, ChangeCalm DEF BrowseGo, BrowseLoad
<1>2. ASSUME NEW i, BrowseRename(i) PROVE CNext
  BY <1>0, <1>2, SendCalm DEF BrowseRename
<1>3. ASSUME NEW i, BrowseDelete(i) PROVE CNext
  BY <1>0, <1>3, AskUserCalm DEF BrowseDelete, Uncovered
<1>4. CASE BrowseCreate
  BY <1>0, <1>4, SendCalm DEF BrowseCreate
<1>5. ASSUME NEW r \in reqs, BrowseShow(r) PROVE CNext
  <2>1. CASE Success(r, "load") /\ Answer(r, [ui EXCEPT !.sel = r.key, !.rows = r.rows], reqs \ {r})
    <3> DEFINE v == [ui EXCEPT !.sel = r.key, !.rows = r.rows]
    <3>1. /\ v.sel = Kept(r) /\ v.pos = ui.pos /\ v.rows = r.rows /\ v.drawing = ui.drawing
          /\ v.form = ui.form /\ v.dialog = ui.dialog
      BY <1>0 DEF UI
    <3>2. r.op = "load" /\ r.st = "done" /\ Handle(r, v, reqs \ {r}, {}, {})
      BY <2>1 DEF Success, Answer
    <3> HIDE DEF v
    <3> QED BY <1>0, <3>1, <3>2, ShownCalm
  <2> QED BY <1>5, <2>1, FailedCalm DEF BrowseShow
<1>6. ASSUME NEW r \in reqs, BrowseChanged(r) PROVE CNext
  <2>1. ASSUME NEW op \in {"add", "save", "remove"}, Success(r, op),
               Answer(r, [ui EXCEPT !.sel = r.key], Ask(reqs \ {r}, "load", r.key, Nothing, None))
        PROVE  CNext
    BY <1>0, <2>1, RefreshCalm DEF Success, Answer, UI
  <2> QED BY <1>6, <2>1, IgnoredCalm DEF BrowseChanged, BrowseLoad
<1> QED BY <1>1, <1>2, <1>3, <1>4, <1>5, <1>6 DEF BrowseClick, BrowseAnswer

\* The list is fetched again and the form closed.
LEMMA ClosedCalm ==
    ASSUME IInv, CInv, NEW r \in reqs, page \notin Paged, page # "browse",
           NEW op \in {"save", "add", "remove"}, Success(r, op),
           NEW k, k = IF page \in ByServer THEN Current ELSE ui.sel,
           Handle(r, Closed(ui), Ask(reqs \ {r}, "load", k, Nothing, None), ClosesForm(r), {})
    PROVE  CNext
<1>1. Closed(ui).sel = ui.sel /\ Closed(ui).dialog = ui.dialog /\ Closed(ui).form = None
  BY DEF IInv, Good, GoodUI, UI, Closed
<1> QED BY <1>1, RefreshCalm DEF Success, Kept

LEMMA RemoteMappingsCalm ==
    ASSUME IInv, CInv, page = "remote_mappings",
           RemoteMappingsClick \/ \E r \in reqs : RemoteMappingsAnswer(r)
    PROVE  CNext
<1>0. /\ page \notin Paged /\ page \notin ByServer /\ page \in WithForm /\ page \in FromForm
      /\ ui \in UI /\ \A r : Kept(r) = ui.sel
  BY DEF Paged, ByServer, WithForm, FromForm, Kept, IInv, Good, GoodUI
<1>1. ASSUME NEW i, RemoteMappingsEdit(i) PROVE CNext
  BY <1>0, <1>1, OpenedCalm DEF RemoteMappingsEdit, Edits
<1>2. CASE RemoteMappingsAdd
  BY <1>0, <1>2, OpenedCalm DEF RemoteMappingsAdd
<1>3. CASE RemoteMappingsSave
  BY <1>0, <1>3, SavesCalm DEF RemoteMappingsSave
<1>4. CASE RemoteMappingsDelete
  BY <1>0, <1>4, AskUserCalm DEF RemoteMappingsDelete
<1>5. ASSUME NEW r \in reqs, RemoteMappingsShow(r) PROVE CNext
  <2>1. CASE Success(r, "load") /\ Answer(r, Shown(r), reqs \ {r})
    BY <1>0, <2>1, ShownCalm DEF Success, Answer, Shown, UI
  <2> QED BY <1>5, <2>1, FailedCalm DEF RemoteMappingsShow
<1>6. ASSUME NEW r \in reqs, RemoteMappingsSaved(r) \/ RemoteMappingsDeleted(r) PROVE CNext
  BY <1>0, <1>6, ClosedCalm, IgnoredCalm
     DEF RemoteMappingsSaved, RemoteMappingsDeleted, RemoteMappingsRefresh
<1> QED BY <1>1, <1>2, <1>3, <1>4, <1>5, <1>6 DEF RemoteMappingsClick, RemoteMappingsAnswer

LEMMA ImportListsCalm ==
    ASSUME IInv, CInv, page = "import_lists",
           ImportListsClick \/ \E r \in reqs : ImportListsAnswer(r)
    PROVE  CNext
<1>0. /\ page \notin Paged /\ page \notin ByServer /\ page \in WithForm /\ page \in FromForm
      /\ ui \in UI /\ (\A r : Kept(r) = ui.sel) /\ None \notin Keys
      /\ DOMAIN ui.rows # {} => ui.sel \in Keys
  BY ListsAssumption, NoSelection
     DEF ListsAssumption, Paged, ByServer, WithForm, FromForm, Kept, Late, IInv, Good, GoodUI, UI
<1>1. ASSUME NEW k \in Keys, ImportListsChange(k) PROVE CNext
  BY <1>0, <1>1, ChangeCalm DEF ImportListsChange, ImportListsRefresh
<1>2. ASSUME NEW i, ImportListsTouch(i) PROVE CNext
  BY <1>0, <1>2, SendCalm DEF ImportListsTouch
<1>3. CASE ImportListsAdd
  BY <1>0, <1>3, OpenedCalm DEF ImportListsAdd
<1>4. CASE ImportListsSaveNew \/ ImportListsSave
  BY <1>0, <1>4, SavesCalm DEF ImportListsSaveNew, ImportListsSave
<1>5. ASSUME NEW i, ImportListsEdit(i) PROVE CNext
  <2> DEFINE v == [ui EXCEPT !.target = Id(ui.rows[i])]
  <2>1. /\ v.sel = ui.sel /\ v.pos = ui.pos /\ v.rows = ui.rows /\ v.drawing = ui.drawing
        /\ v.form = ui.form /\ v.dialog = ui.dialog /\ v.target = Id(ui.rows[i])
    BY <1>0 DEF UI
  <2>2. /\ Do(v, Ask(reqs, "open", ui.sel, Id(ui.rows[i]), ui.rows[i]), {})
        /\ i \in DOMAIN ui.rows /\ Uncovered
    BY <1>5 DEF ImportListsEdit
  <2> HIDE DEF v
  <2> QED BY <1>0, <2>1, <2>2, SendCalm
<1>6. CASE ImportListsDelete
  BY <1>0, <1>6, AskUserCalm DEF ImportListsDelete
<1>7. ASSUME NEW r \in reqs, ImportListsPopulate(r) PROVE CNext
  BY <1>0, <1>7, PopulateCalm, IgnoredCalm DEF ImportListsPopulate, Success, Answer, ImportListsRefresh
<1>8. ASSUME NEW r \in reqs, ImportListsShow(r) PROVE CNext
  <2>1. CASE Success(r, "load") /\ Answer(r, Shown(r), reqs \ {r})
    BY <1>0, <2>1, ShownCalm DEF Success, Answer, Shown, UI
  <2> QED BY <1>8, <2>1, FailedCalm DEF ImportListsShow
<1>9. ASSUME NEW r \in reqs, ImportListsTouched(r) PROVE CNext
  <2>1. CASE Success(r, "test") /\ Answer(r, ui, ImportListsRefresh(reqs \ {r}, ui.sel))
    BY <1>0, <2>1, RefreshCalm DEF Success, Answer, ImportListsRefresh
  <2> QED BY <1>9, <2>1, IgnoredCalm DEF ImportListsTouched
<1>10. ASSUME NEW r \in reqs, ImportListsOpened(r) PROVE CNext
  <2>1. CASE Success(r, "open") /\ Answer(r, [ui EXCEPT !.form = r.rows[1]], reqs \ {r})
    <3> DEFINE v == [ui EXCEPT !.form = r.rows[1]]
    <3>1. r.op = "open" /\ r.rows = <<r.want>>
      BY <2>1 DEF Success, IInv, Good, GoodRequest
    <3>2. /\ v.sel = ui.sel /\ v.pos = ui.pos /\ v.rows = ui.rows /\ v.drawing = ui.drawing
          /\ v.form = r.want /\ v.target = ui.target /\ v.dialog = ui.dialog
      BY <1>0, <3>1 DEF UI
    <3>3. Handle(r, v, reqs \ {r}, {}, {})
      BY <2>1 DEF Answer
    <3> HIDE DEF v
    <3> QED BY <1>0, <3>1, <3>2, <3>3, EndedCalm
  <2> QED BY <1>10, <2>1, IgnoredCalm DEF ImportListsOpened
<1>11. ASSUME NEW r \in reqs, ImportListsSaved(r) \/ ImportListsDeleted(r) PROVE CNext
  BY <1>0, <1>11, ClosedCalm, IgnoredCalm DEF ImportListsSaved, ImportListsDeleted, ImportListsRefresh
<1> QED BY <1>1, <1>2, <1>3, <1>4, <1>5, <1>6, <1>7, <1>8, <1>9, <1>10, <1>11
        DEF ImportListsClick, ImportListsAnswer

LEMMA IndexMasterCalm ==
    ASSUME IInv, CInv, page = "index_master",
           IndexMasterClick \/ \E r \in reqs : IndexMasterAnswer(r)
    PROVE  CNext
<1>0. /\ page \notin Paged /\ page \notin ByServer /\ page \in WithForm /\ page \notin FromForm
      /\ ui \in UI /\ (\A r : Kept(r) = ui.sel) /\ ui.sel \in Keys
  BY Settles DEF Paged, ByServer, WithForm, FromForm, Kept, Late, IInv, Good, GoodUI
<1>1. ASSUME NEW i, IndexMasterEdit(i) PROVE CNext
  BY <1>0, <1>1, OpenedCalm DEF IndexMasterEdit, Edits
<1>2. ASSUME NEW i, IndexMasterDelete(i) PROVE CNext
  BY <1>0, <1>2, SendCalm DEF IndexMasterDelete
<1>3. CASE IndexMasterAdd
  BY <1>0, <1>3, OpenedCalm DEF IndexMasterAdd
<1>4. CASE IndexMasterSave
  BY <1>0, <1>4, SavesCalm DEF IndexMasterSave
<1>5. ASSUME NEW r \in reqs, IndexMasterShow(r) PROVE CNext
  <2>1. CASE Success(r, "load") /\ Answer(r, Shown(r), reqs \ {r})
    BY <1>0, <2>1, ShownCalm DEF Success, Answer, Shown, UI
  <2> QED BY <1>5, <2>1, IgnoredCalm DEF IndexMasterShow
<1>6. ASSUME NEW r \in reqs, IndexMasterSaved(r) PROVE CNext
  BY <1>0, <1>6, ClosedCalm, IgnoredCalm DEF IndexMasterSaved, IndexMasterLoad
<1>7. ASSUME NEW r \in reqs, IndexMasterAskDelete(r) PROVE CNext
  <2>1. CASE /\ Success(r, "linked")
             /\ Answer(r, [ui EXCEPT !.dialog = Asking("remove", ui.sel, r.at, r.want)], reqs \ {r})
    <3> DEFINE d == Asking("remove", ui.sel, r.at, r.want)
               v == [ui EXCEPT !.dialog = d]
    <3>1. /\ v.sel = ui.sel /\ v.pos = ui.pos /\ v.rows = ui.rows /\ v.drawing = ui.drawing
          /\ v.form = ui.form /\ v.dialog = d
      BY <1>0 DEF UI
    <3>2. r.op = "linked" /\ r.at = Id(r.want) /\ Handle(r, v, reqs \ {r}, {}, {})
      BY <2>1 DEF Success, Answer, IInv, Good, GoodRequest, MayAsk, ById
    <3> HIDE DEF v
    <3> QED BY <3>1, <3>2, EndedCalm
  <2> QED BY <1>7, <2>1, IgnoredCalm DEF IndexMasterAskDelete
<1>8. ASSUME NEW r \in reqs, IndexMasterDeleted(r) PROVE CNext
  <2>1. CASE Success(r, "remove") /\ Answer(r, ui, IndexMasterLoad(reqs \ {r}))
    BY <1>0, <2>1, RefreshCalm DEF Success, Answer, IndexMasterLoad
  <2> QED BY <1>8, <2>1, IgnoredCalm DEF IndexMasterDeleted
<1> QED BY <1>1, <1>2, <1>3, <1>4, <1>5, <1>6, <1>7, <1>8 DEF IndexMasterClick, IndexMasterAnswer

-----------------------------------------------------------------------------
(* The calm user: the pages that leave the instance to the server.         *)

LEMMA IndexersCalm ==
    ASSUME IInv, CInv, page = "indexers", IndexersClick \/ \E r \in reqs : IndexersAnswer(r)
    PROVE  CNext
<1>0. /\ page \notin Paged /\ page \in ByServer /\ page \notin WithForm /\ None \notin Keys
      /\ ui \in UI /\ \A r : Kept(r) = ui.sel
  BY ListsAssumption DEF ListsAssumption, Paged, ByServer, WithForm, Kept, IInv, Good, GoodUI
<1>1. ASSUME NEW k \in Keys, IndexersChange(k) PROVE CNext
  BY <1>0, <1>1, ChangeCalm DEF IndexersChange
<1>2. ASSUME NEW i, IndexersDelete(i) PROVE CNext
  BY <1>0, <1>2, AskUserCalm DEF IndexersDelete, Uncovered
<1>3. CASE IndexersImport
  <2> DEFINE v == [ui EXCEPT !.busy = @ \cup {"import"}]
  <2>1. /\ v.sel = ui.sel /\ v.pos = ui.pos /\ v.rows = ui.rows /\ v.drawing = ui.drawing
        /\ v.form = ui.form /\ v.dialog = ui.dialog /\ ui.sel \in Keys
    BY <1>0, <1>3 DEF UI, IndexersImport
  <2>2. Do(v, Ask(reqs, "add", ui.sel, Nothing, Added), {}) /\ Uncovered
    BY <1>3 DEF IndexersImport
  <2> HIDE DEF v
  <2> QED BY <2>1, <2>2, SendCalm
<1>4. ASSUME NEW r \in reqs, IndexersPopulate(r) PROVE CNext
  BY <1>0, <1>4, PopulateCalm, IgnoredCalm DEF IndexersPopulate, Success, Answer
<1>5. ASSUME NEW r \in reqs, IndexersSetCurrent(r) PROVE CNext
  BY <1>0, <1>5, SetCurrentCalm, FailedCalm
     DEF IndexersSetCurrent, IndexersRefresh, Success, Answer
<1>6. ASSUME NEW r \in reqs, IndexersShow(r) PROVE CNext
  <2>1. CASE Success(r, "load") /\ Answer(r, Shown(r), reqs \ {r})
    BY <1>0, <2>1, ShownCalm DEF Success, Answer, Shown, UI
  <2> QED BY <1>6, <2>1, FailedCalm DEF IndexersShow
<1>7. ASSUME NEW r \in reqs, IndexersDeleted(r) PROVE CNext
  <2>1. CASE Success(r, "remove") /\ Answer(r, ui, IndexersRefresh(reqs \ {r}))
    BY <1>0, <2>1, RefreshCalm DEF Success, Answer, IndexersRefresh
  <2> QED BY <1>7, <2>1, IgnoredCalm DEF IndexersDeleted
<1>8. ASSUME NEW r \in reqs, IndexersImported(r) PROVE CNext
  <2> DEFINE v == [ui EXCEPT !.busy = @ \ {"import"}]
  <2>1. CASE Success(r, "add") /\ Answer(r, v, IndexersRefresh(reqs \ {r}))
    <3>1. v.sel = ui.sel /\ v.form = ui.form /\ v.dialog = ui.dialog
      BY <1>0 DEF UI
    <3>2. r.op = "add" /\ Handle(r, v, Ask(reqs \ {r}, "load", Current, Nothing, None), {}, {})
      BY <2>1 DEF Success, Answer, IndexersRefresh
    <3> HIDE DEF v
    <3> QED BY <1>0, <3>1, <3>2, RefreshCalm
  <2>2. CASE Refused(r, "add") /\ Answer(r, v, reqs \ {r})
    BY <1>0, <2>2, EndedCalm DEF Refused, Answer, UI
  <2> QED BY <1>8, <2>1, <2>2, FailedCalm DEF IndexersImported
<1> QED BY <1>1, <1>2, <1>3, <1>4, <1>5, <1>6, <1>7, <1>8 DEF IndexersClick, IndexersAnswer

\* A step of a delete-all: the last entry left, or the list again.
LEMMA PurgeCalm ==
    ASSUME page = "custom_formats", NEW u, u.form = None, u.dialog = None, srv.now = u.sel,
           NEW left \in Seq(Marks), Marked(u, left)
    PROVE  Calm(u, CustomFormatsPurge({}, left))
<1>0. page \in ByServer /\ page \notin Paged /\ Resolved(Current) = u.sel
  BY DEF ByServer, Paged, Resolved
<1>1. CASE left = <<>>
  BY <1>0, <1>1, FetchCalm DEF CustomFormatsPurge, CustomFormatsRefresh
<1>2. CASE left # <<>>
  <2> DEFINE x == Last(left)
             q == Request({}, "purge", Current, Index(x.i), x.want)
             r == [q EXCEPT !.rest = Front(left)]
  <2>1. CustomFormatsPurge({}, left) = {r}
    BY <1>2 DEF CustomFormatsPurge
  <2>2. /\ r.op = "purge" /\ r.key = Current /\ r.at = Index(x.i) /\ r.want = x.want
        /\ r.st = "sent" /\ r.rest = Front(left)
    BY DEF Request
  <2> HIDE DEF r, q
  <2>3. /\ Len(left) \in Nat \ {0} /\ DOMAIN left = 1..Len(left)
        /\ Front(left) = [n \in 1..Len(left) - 1 |-> left[n]] /\ x = left[Len(left)]
    <3>1. Len(left) \in Nat \ {0} /\ DOMAIN left = 1..Len(left)
      BY <1>2, LenProperties, EmptySeq
    <3>2. Front(left) = [n \in 1..Len(left) - 1 |-> left[n]]
      BY <3>1 DEF Front, SubSeq
    <3> QED BY <3>1, <3>2 DEF Last
  <2> HIDE DEF x
  <2>4. Meant(u, Index(x.i), x.want) /\ Marked(u, Front(left))
        /\ \A n \in DOMAIN Front(left) : Front(left)[n].i < x.i
    <3>1. \A n \in 1..Len(left) - 1 : n \in DOMAIN left /\ n < Len(left) /\ Front(left)[n] = left[n]
      BY <2>3
    <3>2. DOMAIN Front(left) = 1..Len(left) - 1 /\ Len(left) \in DOMAIN left
      BY <2>3
    <3> QED BY <2>3, <3>1, <3>2 DEF Marked
  <2>5. Index(x.i).by = "index" /\ Index(x.i).i = x.i
    BY Addressing
  <2>6. InFlight(u, r)
    BY <1>0, <2>2, <2>4, <2>5 DEF InFlight, Key, Resolved
  <2> QED BY <1>0, <2>1, <2>2, <2>6 DEF Calm, Moved
<1> QED BY <1>1, <1>2

\* A step of an addition of all that was chosen, or the list again.
LEMMA ChosenCalm ==
    ASSUME page = "custom_formats", NEW u, u.dialog = None, srv.now = u.sel, NEW x, NEW left,
           u.form # None => u.form = x /\ left # <<>>
    PROVE  Calm(u, CustomFormatsAddNext({}, x, left))
<1>0. page \in ByServer /\ page \in WithForm /\ page \notin Paged /\ Resolved(Current) = u.sel
  BY DEF ByServer, WithForm, Paged, Resolved
<1>1. CASE left = <<>>
  BY <1>0, <1>1, FetchCalm DEF CustomFormatsAddNext, CustomFormatsRefresh
<1>2. CASE left # <<>>
  <2> DEFINE q == Request({}, "chosen", Current, Nothing, x)
             r == [q EXCEPT !.rest = Tail(left)]
  <2>1. CustomFormatsAddNext({}, x, left) = {r}
    BY <1>2 DEF CustomFormatsAddNext
  <2>2. r.op = "chosen" /\ r.key = Current /\ r.want = x /\ r.st = "sent"
    BY DEF Request
  <2> HIDE DEF r, q
  <2>3. InFlight(u, r)
    BY <1>0, <2>2 DEF InFlight, Key, Resolved
  <2> QED BY <1>0, <2>1, <2>2, <2>3 DEF Calm, Moved
<1> QED BY <1>1, <1>2

LEMMA CustomFormatsCalm ==
    ASSUME IInv, CInv, page = "custom_formats",
           CustomFormatsClick \/ \E r \in reqs : CustomFormatsAnswer(r)
    PROVE  CNext
<1>0. /\ page \notin Paged /\ page \in ByServer /\ page \in WithForm /\ page \notin FromForm
      /\ ui \in UI /\ \A r : Kept(r) = ui.sel
  BY DEF Paged, ByServer, WithForm, FromForm, Kept, IInv, Good, GoodUI
<1>1. ASSUME NEW k \in Keys, CustomFormatsChange(k) PROVE CNext
  BY <1>0, <1>1, ChangeCalm DEF CustomFormatsChange
<1>2. ASSUME NEW i, CustomFormatsEdit(i) PROVE CNext
  BY <1>0, <1>2, OpenedCalm DEF CustomFormatsEdit, Edits
<1>3. ASSUME NEW i, CustomFormatsDelete(i) PROVE CNext
  BY <1>0, <1>3, AskUserCalm DEF CustomFormatsDelete, Uncovered
<1>4. CASE CustomFormatsAdd
  BY <1>0, <1>4, OpenedCalm DEF CustomFormatsAdd
<1>5. CASE CustomFormatsSave
  BY <1>0, <1>5, SavesCalm DEF CustomFormatsSave
<1>6. CASE CustomFormatsRunDeleteAll
  <2> DEFINE v == [ui EXCEPT !.dialog = None]
  <2>1. /\ v.sel = ui.sel /\ v.form = ui.form /\ v.dialog = None
        /\ ui.dialog.rest \in Seq(Marks) /\ ui.dialog # None /\ ui.dialog.op = "purge"
    BY <1>0, <1>6 DEF UI, CustomFormatsRunDeleteAll, Dialogs
  <2>2. Do(v, CustomFormatsPurge(reqs, ui.dialog.rest), {})
    BY <1>6 DEF CustomFormatsRunDeleteAll
  <2> HIDE DEF v
  <2>3. ASSUME reqs = {}, Calm(ui, {}) PROVE Calm(v, CustomFormatsPurge(reqs, ui.dialog.rest))
    <3>1. AtRest(ui) /\ srv.now = ui.sel /\ ui.form = None
      BY <1>0, <2>1, <2>3, Steady DEF Calm
    <3>2. Marked(v, ui.dialog.rest)
      BY <2>1, <3>1 DEF AtRest, Marked, Meant
    <3> QED BY <2>1, <2>3, <3>1, <3>2, PurgeCalm
  <2> QED BY <2>2, <2>3, DoCalm
<1>7. ASSUME NEW S \in SUBSET DOMAIN ui.rows, CustomFormatsDeleteAll(S) PROVE CNext
  <2>1. PICK js \in [1..Cardinality(S) -> S] :
            /\ \A m, n \in DOMAIN js : m < n => js[m] < js[n]
            /\ Do([ui EXCEPT !.dialog = [Asking("purge", Current, Nothing, None) EXCEPT
                      !.rest = [n \in DOMAIN js |-> [i |-> js[n], want |-> ui.rows[js[n]]]]]],
                  reqs, {})
    BY <1>7 DEF CustomFormatsDeleteAll
  <2> DEFINE rest == [n \in DOMAIN js |-> [i |-> js[n], want |-> ui.rows[js[n]]]]
             d == [Asking("purge", Current, Nothing, None) EXCEPT !.rest = rest]
             v == [ui EXCEPT !.dialog = d]
  <2>2. /\ v.sel = ui.sel /\ v.pos = ui.pos /\ v.rows = ui.rows /\ v.drawing = ui.drawing
        /\ v.form = None /\ v.target = ui.target /\ v.dialog = d /\ Do(v, reqs, {})
    BY <1>0, <1>7, <2>1 DEF UI, CustomFormatsDeleteAll, Uncovered
  <2>3. d.op = "purge" /\ d.key = Current /\ d.rest = rest
    BY DEF Asking
  <2> HIDE DEF v, d
  <2>4. ASSUME reqs = {}, Calm(ui, {}) PROVE Calm(v, {})
    <3>1. AtRest(ui) /\ srv.now = v.sel
      BY <1>0, <2>2, <2>4, Steady
    <3>2. Marked(v, rest)
      <4>1. \A n \in DOMAIN js : Meant(v, Index(js[n]), ui.rows[js[n]])
        BY <1>0, <2>2, <2>4, RowMeant DEF Meant
      <4>2. DOMAIN rest = DOMAIN js
            /\ \A n \in DOMAIN js : rest[n].i = js[n] /\ rest[n].want = ui.rows[js[n]]
        OBVIOUS
      <4> HIDE DEF rest
      <4> QED BY <2>1, <4>1, <4>2 DEF Marked
    <3> HIDE DEF rest
    <3>3. AtRest(v)
      BY <2>2, <2>3, <3>1, <3>2 DEF AtRest, Mirror, Listed
    <3> QED BY <1>0, <2>2, <2>3, <3>1, <3>3 DEF Calm
  <2> QED BY <2>2, <2>4, DoCalm
<1>8. ASSUME NEW r \in reqs, CustomFormatsPopulate(r) PROVE CNext
  BY <1>0, <1>8, PopulateCalm, IgnoredCalm DEF CustomFormatsPopulate, Success, Answer
<1>9. ASSUME NEW r \in reqs, CustomFormatsSetCurrent(r) PROVE CNext
  BY <1>0, <1>9, SetCurrentCalm, FailedCalm
     DEF CustomFormatsSetCurrent, CustomFormatsRefresh, Success, Answer
<1>10. ASSUME NEW r \in reqs, CustomFormatsShow(r) PROVE CNext
  <2>1. CASE Success(r, "load") /\ Answer(r, Shown(r), reqs \ {r})
    BY <1>0, <2>1, ShownCalm DEF Success, Answer, Shown, UI
  <2> QED BY <1>10, <2>1, FailedCalm DEF CustomFormatsShow
<1>11. ASSUME NEW r \in reqs, CustomFormatsSaved(r) PROVE CNext
  BY <1>0, <1>11, ClosedCalm, IgnoredCalm DEF CustomFormatsSaved, CustomFormatsRefresh
<1>12. ASSUME NEW r \in reqs, CustomFormatsDeleted(r) PROVE CNext
  <2>1. CASE Success(r, "remove") /\ Answer(r, ui, CustomFormatsRefresh(reqs \ {r}))
    BY <1>0, <2>1, RefreshCalm DEF Success, Answer, CustomFormatsRefresh
  <2> QED BY <1>12, <2>1, IgnoredCalm DEF CustomFormatsDeleted
<1>13. ASSUME NEW r \in reqs, CustomFormatsDeleteNext(r) PROVE CNext
  <2> DEFINE Q == CustomFormatsPurge(reqs \ {r}, r.rest)
  <2>1. CASE r.op = "purge" /\ Handle(r, ui, Q, {}, {})
    <3>1. r.rest \in Seq(Marks)
      BY DEF IInv, Good, GoodRequest
    <3>2. ASSUME reqs = {r}, Calm(ui, {r}) PROVE Calm(ui, Q)
      <4>1. InFlight(ui, r) /\ ui.dialog = None /\ srv.now = ui.sel /\ reqs \ {r} = {}
        BY <1>0, <2>1, <3>2 DEF Calm
      <4>2. Marked(ui, r.rest) /\ ui.form = None
        BY <2>1, <4>1 DEF InFlight
      <4> QED BY <3>1, <4>1, <4>2, PurgeCalm
    <3> HIDE DEF Q
    <3> QED BY <2>1, <3>2, HandleCalm
  <2> QED BY <1>13, <2>1, FailedCalm DEF CustomFormatsDeleteNext, Success, Refused, Answer
<1>14. CASE CustomFormatsSaveChosen
  <2>1. PICK m \in 1..MaxChosen :
            Do(ui, CustomFormatsAddNext(reqs, ui.form, [n \in 1..m |-> [i |-> n, want |-> ui.form]]), {})
    BY <1>14 DEF CustomFormatsSaveChosen
  <2> DEFINE left == [n \in 1..m |-> [i |-> n, want |-> ui.form]]
  <2>2. left # <<>>
    <3>1. m \in 1..m /\ DOMAIN left = 1..m
      BY ListsAssumption DEF ListsAssumption
    <3>2. DOMAIN <<>> = {}
      OBVIOUS
    <3> HIDE DEF left
    <3> QED BY <3>1, <3>2
  <2> HIDE DEF left
  <2>3. ASSUME reqs = {}, Calm(ui, {}) PROVE Calm(ui, CustomFormatsAddNext({}, ui.form, left))
    <3>1. srv.now = ui.sel /\ ui.dialog = None
      BY <1>0, <1>14, <2>3, Steady DEF CustomFormatsSaveChosen
    <3> QED BY <2>2, <3>1, ChosenCalm
  <2> QED BY <2>1, <2>3, DoCalm DEF left
<1>15. ASSUME NEW r \in reqs, CustomFormatsAdded(r) PROVE CNext
  <2> DEFINE v    == IF r.rest = <<>> THEN Closed(ui) ELSE ui
             harm == IF r.rest = <<>> THEN ClosesForm(r) ELSE {}
  <2>1. CASE r.op = "chosen" /\ Handle(r, v, CustomFormatsAddNext(reqs \ {r}, r.want, r.rest), harm, {})
    <3>1. /\ v.sel = ui.sel /\ v.dialog = ui.dialog
          /\ v.form # None => v.form = ui.form /\ r.rest # <<>>
      BY <1>0 DEF Closed, UI
    <3>2. ASSUME reqs = {r}, Calm(ui, {r})
          PROVE  Calm(v, CustomFormatsAddNext(reqs \ {r}, r.want, r.rest)) /\ harm = {}
      <4>1. InFlight(ui, r) /\ ui.dialog = None /\ srv.now = ui.sel /\ reqs \ {r} = {}
        BY <1>0, <2>1, <3>2 DEF Calm
      <4>2. ui.form # None => ui.form = r.want
        BY <4>1 DEF InFlight
      <4>3. harm = {}
        BY <4>2 DEF ClosesForm
      <4> HIDE DEF v, harm
      <4> QED BY <3>1, <4>1, <4>2, <4>3, ChosenCalm
    <3> HIDE DEF v, harm
    <3> QED BY <2>1, <3>2, HandleCalm
  <2>2. CASE Handle(r, v, CustomFormatsAddNext(reqs \ {r}, r.want, r.rest), harm, {"failed"})
    BY <2>2, HandleCalm
  <2> QED BY <1>15, <2>1, <2>2 DEF CustomFormatsAdded, Success, Refused
<1> QED BY <1>1, <1>2, <1>3, <1>4, <1>5, <1>6, <1>7, <1>8, <1>9, <1>10, <1>11, <1>12, <1>13,
           <1>14, <1>15
        DEF CustomFormatsClick, CustomFormatsAnswer

-----------------------------------------------------------------------------
(* The calm user: the paged tables.                                        *)

LEMMA HistoryCalm ==
    ASSUME IInv, CInv, page = "history", HistoryClick \/ \E r \in reqs : HistoryAnswer(r)
    PROVE  CNext
<1>0. page \in Paged /\ page \notin WithForm /\ ui \in UI /\ ui.sel \in Keys
  BY Settles DEF Paged, WithForm, ByServer, Late, IInv, Good, GoodUI
<1>1. ASSUME NEW v, HistoryGo(v), Turned(v) PROVE CNext
  <2>1. v.sel \in Keys /\ v.form = ui.form /\ v.dialog = ui.dialog
    BY <1>0, <1>1 DEF Turned, UI
  <2> QED BY <1>0, <1>1, <2>1, TurnedCalm DEF HistoryGo, HistoryFetch
<1>2. ASSUME NEW k \in Keys, HistoryChange(k) PROVE CNext
  BY <1>1, <1>2 DEF HistoryChange, Turned
<1>3. CASE HistoryPage
  BY <1>1, <1>3 DEF HistoryPage, Turned
<1>4. CASE HistoryClear
  BY <1>4, AskUserCalm DEF HistoryClear, Uncovered
<1>5. ASSUME NEW r \in reqs, HistoryFetched(r) PROVE CNext
  <2> DEFINE v == HistoryRender(r)
             why == IF ui.drawing # {} THEN {"drawing"} ELSE {}
  <2>1. CASE Success(r, "load") /\ Handle(r, v, reqs \ {r}, {}, why)
    <3>1. /\ v.sel = ui.sel /\ v.pos = ui.pos /\ v.rows = <<>> /\ v.form = ui.form
          /\ v.dialog = ui.dialog
          /\ v.drawing = IF r.rows = <<>> THEN ui.drawing ELSE ui.drawing \cup {r.rows}
      BY <1>0 DEF HistoryRender, UI
    <3>2. r.op = "load" /\ r.st = "done" /\ (why = {} => ui.drawing = {})
      BY <2>1 DEF Success
    <3> HIDE DEF v, why
    <3>3. ASSUME why = {}, reqs = {r}, Calm(ui, {r}) PROVE Calm(v, reqs \ {r})
      <4>1. r.rows = Listed(ui) /\ ui.form = None /\ ui.dialog = None
        BY <1>0, <3>2, <3>3 DEF Calm, InFlight
      <4>2. AtRest(v)
        BY <3>1, <3>2, <3>3, <4>1 DEF AtRest, Mirror, Listed
      <4> QED BY <1>0, <3>1, <3>3, <4>1, <4>2 DEF Calm, Paged, ByServer
    <3> QED BY <2>1, <3>3, HandleCalm
  <2> QED BY <1>5, <2>1, IgnoredCalm DEF HistoryFetched
<1>6. ASSUME NEW r \in reqs, HistoryCleared(r) PROVE CNext
  <2>1. CASE Success(r, "clear") /\ Answer(r, ui, HistoryFetch(ui, reqs \ {r}))
    BY <1>0, <2>1, ClearedCalm DEF Success, Answer, HistoryFetch
  <2> QED BY <1>6, <2>1, IgnoredCalm DEF HistoryCleared
<1> QED BY <1>2, <1>3, <1>4, <1>5, <1>6 DEF HistoryClick, HistoryAnswer

LEMMA DrawnCalm ==
    ASSUME IInv, CInv, HistoryRenderEntries
    PROVE  CNext
<1>1. PICK rows \in ui.drawing :
          /\ ui' = [ui EXCEPT !.rows = @ \o rows, !.drawing = @ \ {rows}]
          /\ UNCHANGED <<page, srv, reqs, hist, acts>>
  BY DEF HistoryRenderEntries
<1>2. ui \in UI /\ page = "history" /\ page \notin WithForm /\ ui.sel # None
  BY <1>1, ListsAssumption
     DEF ListsAssumption, IInv, Good, GoodUI, WithForm, ByServer, Late
<1>3. /\ ui'.sel = ui.sel /\ ui'.pos = ui.pos /\ ui'.form = ui.form /\ ui'.dialog = ui.dialog
      /\ ui'.target = ui.target /\ ui'.rows = ui.rows \o rows /\ ui'.drawing = ui.drawing \ {rows}
  BY <1>1, <1>2 DEF UI
<1>4. ASSUME Calm(ui, reqs) PROVE Calm(ui', reqs')
  <2>1. AtRest(ui) => AtRest(ui')
    <3> SUFFICES ASSUME AtRest(ui) PROVE AtRest(ui')
      OBVIOUS
    <3>1. ui.drawing = {Listed(ui)} /\ ui.rows = <<>> /\ rows = Listed(ui)
      BY <1>1, <1>2 DEF AtRest, Mirror
    <3>2. ui'.rows = Listed(ui') /\ ui'.drawing = {}
      <4>1. rows \in Seq(Items)
        BY <1>1, <1>2 DEF UI, Rows
      <4>2. <<>> \o rows = rows
        BY <4>1, ConcatEmptySeq
      <4> QED BY <1>3, <3>1, <4>2 DEF Listed
    <3> QED BY <1>3, <3>2 DEF AtRest, Mirror, Meant, Marked
  <2>2. ASSUME NEW r \in reqs, InFlight(ui, r) PROVE InFlight(ui', r)
    BY <1>3, <2>2 DEF InFlight, Listed, Meant, Marked
  <2> QED BY <1>1, <1>3, <1>4, <2>1, <2>2 DEF Calm
<1> QED BY <1>1, <1>4, CalmNext DEF CNext, CInv

LEMMA ManagerCalm ==
    ASSUME IInv, CInv, page = "manager", ManagerClick \/ \E r \in reqs : ManagerAnswer(r)
    PROVE  CNext
<1>0. /\ page \in Paged /\ ui \in UI /\ ui.sel \in Keys /\ \A r : Kept(r) = ui.sel
  BY Settles DEF Paged, Kept, ByServer, Late, IInv, Good, GoodUI
<1>1. ASSUME NEW v, ManagerGo(v), Turned(v) PROVE CNext
  <2>1. v.sel \in Keys /\ v.form = ui.form /\ v.dialog = ui.dialog
        /\ [v EXCEPT !.busy = {"load"}].sel = v.sel
        /\ [v EXCEPT !.busy = {"load"}].pos = v.pos
        /\ [v EXCEPT !.busy = {"load"}].form = v.form
        /\ [v EXCEPT !.busy = {"load"}].dialog = v.dialog
    BY <1>0, <1>1 DEF Turned, UI
  <2>2. CASE "load" \in v.busy
    <3>1. Do(v, reqs, {"dropped"})
      BY <1>1, <2>2 DEF ManagerGo, ManagerLoad
    <3> QED BY <3>1, DoCalm
  <2>3. CASE "load" \notin v.busy
    <3> DEFINE w == [v EXCEPT !.busy = {"load"}]
    <3>1. Do(w, Ask(reqs, "load", w.sel, Index(w.pos), None), {}) /\ Uncovered
      BY <1>1, <2>1, <2>3 DEF ManagerGo, ManagerLoad
    <3> HIDE DEF w
    <3> QED BY <1>0, <2>1, <3>1, TurnedCalm DEF w
  <2> QED BY <2>2, <2>3
<1>2. ASSUME NEW k \in Keys, ManagerChange(k) PROVE CNext
  BY <1>1, <1>2 DEF ManagerChange, Turned
<1>3. CASE ManagerPage
  BY <1>1, <1>3 DEF ManagerPage, Turned
<1>4. CASE ManagerClear
  BY <1>4, AskUserCalm DEF ManagerClear, Uncovered
<1>5. ASSUME NEW r \in reqs, ManagerLoaded(r) PROVE CNext
  <2>1. CASE Success(r, "load") /\ Answer(r, ManagerDisplay(r), reqs \ {r})
    <3> DEFINE v == ManagerDisplay(r)
    <3>1. /\ v.sel = ui.sel /\ v.pos = r.at.i /\ v.rows = r.rows /\ v.drawing = ui.drawing
          /\ v.form = ui.form /\ v.dialog = ui.dialog
      BY <1>0 DEF ManagerDisplay, UI
    <3>2. r.op = "load" /\ r.st = "done" /\ Handle(r, v, reqs \ {r}, {}, {})
      BY <2>1 DEF Success, Answer
    <3> HIDE DEF v
    <3> QED BY <1>0, <3>1, <3>2, ShownCalm
  <2> QED BY <1>5, <2>1, FailedCalm DEF ManagerLoaded
<1>6. ASSUME NEW r \in reqs, ManagerCleared(r) PROVE CNext
  <2>1. CASE "load" \in ui.busy /\ Handle(r, ui, reqs \ {r}, {}, {"dropped"})
    BY <2>1, HandleCalm
  <2>2. CASE /\ Success(r, "clear")
             /\ Handle(r, [ui EXCEPT !.busy = {"load"}],
                       Ask(reqs \ {r}, "load", ui.sel, Index(ui.pos), None), {}, {})
    <3> DEFINE v == [ui EXCEPT !.busy = {"load"}]
    <3>1. v.sel = ui.sel /\ v.pos = ui.pos /\ v.form = ui.form /\ v.dialog = ui.dialog
      BY <1>0 DEF UI
    <3>2. Handle(r, v, Ask(reqs \ {r}, "load", v.sel, Index(v.pos), None), {}, {})
      BY <2>2, <3>1
    <3> HIDE DEF v
    <3> QED BY <1>0, <2>2, <3>1, <3>2, ClearedCalm DEF Success
  <2> QED BY <1>6, <2>1, <2>2, IgnoredCalm DEF ManagerCleared, ManagerLoad
<1> QED BY <1>2, <1>3, <1>4, <1>5, <1>6 DEF ManagerClick, ManagerAnswer

LEMMA SnipeHistoryCalm ==
    ASSUME IInv, CInv, page = "snipe_history", SnipeClick \/ \E r \in reqs : SnipeAnswer(r)
    PROVE  CNext
<1>0. /\ page \in Paged /\ ui \in UI /\ ui.sel \in Keys /\ \A r : Kept(r) = ui.sel
  BY Settles DEF Paged, Kept, ByServer, Late, IInv, Good, GoodUI
<1>1. ASSUME NEW v, SnipeGo(v), Turned(v) PROVE CNext
  <2>1. v.sel \in Keys /\ v.form = ui.form /\ v.dialog = ui.dialog
    BY <1>0, <1>1 DEF Turned, UI
  <2> QED BY <1>0, <1>1, <2>1, TurnedCalm DEF SnipeGo, SnipeLoad
<1>2. ASSUME NEW k \in Keys, SnipeFilter(k) PROVE CNext
  BY <1>1, <1>2 DEF SnipeFilter, Turned
<1>3. CASE SnipePage
  BY <1>1, <1>3 DEF SnipePage, Turned
<1>4. CASE SnipeClear
  BY <1>4, AskUserCalm DEF SnipeClear, Uncovered
<1>5. ASSUME NEW r \in reqs, SnipeShow(r) PROVE CNext
  <2> DEFINE v == [ui EXCEPT !.pages = Max({1, r.count}), !.pos = r.at.i, !.rows = r.rows]
  <2>1. CASE Success(r, "load") /\ Answer(r, v, reqs \ {r})
    <3>1. /\ v.sel = ui.sel /\ v.pos = r.at.i /\ v.rows = r.rows /\ v.drawing = ui.drawing
          /\ v.form = ui.form /\ v.dialog = ui.dialog
      BY <1>0 DEF UI
    <3>2. r.op = "load" /\ r.st = "done" /\ Handle(r, v, reqs \ {r}, {}, {})
      BY <2>1 DEF Success, Answer
    <3> HIDE DEF v
    <3> QED BY <1>0, <3>1, <3>2, ShownCalm
  <2> QED BY <1>5, <2>1, IgnoredCalm DEF SnipeShow
<1>6. ASSUME NEW r \in reqs, SnipeCleared(r) PROVE CNext
  <2> DEFINE v == [ui EXCEPT !.pos = 1]
  <2>1. CASE Success(r, "clear") /\ Answer(r, v, SnipeLoad(v, reqs \ {r}))
    <3>1. v.sel = ui.sel /\ v.form = ui.form /\ v.dialog = ui.dialog
      BY <1>0 DEF UI
    <3>2. r.op = "clear" /\ Handle(r, v, Ask(reqs \ {r}, "load", v.sel, Index(v.pos), None), {}, {})
      BY <2>1 DEF Success, Answer, SnipeLoad
    <3> HIDE DEF v
    <3> QED BY <1>0, <3>1, <3>2, ClearedCalm
  <2> QED BY <1>6, <2>1, IgnoredCalm DEF SnipeCleared
<1> QED BY <1>2, <1>3, <1>4, <1>5, <1>6 DEF SnipeClick, SnipeAnswer

-----------------------------------------------------------------------------
(* The calm user: the server.                                              *)

\* What a request does to the server.
LEMMA ServerStep ==
    ASSUME srv \in Types, NEW r, Serve(r)
    PROVE  /\ r.op \notin {"put", "clear"} \cup Adds \cup Removals => srv' = srv
           /\ r.op = "put" => srv'.now = r.want
           /\ r.op # "put" => srv'.now = srv.now
           /\ r.op \in Removals /\ Key(r) \in Keys =>
                 srv'.lists[Key(r)] = Without(srv.lists[Key(r)], Named(Key(r), r.at))
           /\ r.op \in Removals /\ Key(r) \in Keys /\ Named(Key(r), r.at) = {} => srv' = srv
<1> DEFINE k == Key(r)
           x == Named(k, r.at)
<1>1. srv' = CASE r.op = "put"    -> [srv EXCEPT !.now = r.want]
               [] r.op \in Removals -> [srv EXCEPT !.lists[k] = Without(@, x)]
               [] r.op = "clear"  -> [srv EXCEPT !.lists = [l \in Keys |->
                                         IF l = k \/ page = "snipe_history" THEN <<>> ELSE @[l]]]
               [] r.op \in Adds /\ ~Contains(srv.lists[k], Added)
                                  -> [srv EXCEPT !.lists[k] = Append(@, Added)]
               [] OTHER           -> srv
  BY DEF Serve
<1> HIDE DEF k, x
<1>2. CASE r.op = "put"
  BY <1>1, <1>2 DEF Types, Removals, Adds
<1>3. CASE r.op \in Removals
  <2>1. srv' = [srv EXCEPT !.lists[k] = Without(@, x)]
    <3>1. r.op # "put" /\ r.op # "clear" /\ r.op \notin Adds
      BY <1>3 DEF Removals, Adds
    <3> QED BY <1>1, <1>3, <3>1
  <2>2. k \in Keys => srv'.lists[k] = Without(srv.lists[k], x)
    BY <2>1 DEF Types
  <2>3. x = {} => Without(srv.lists[k], x) = srv.lists[k]
    BY DEF Without
  <2>4. k \in Keys /\ x = {} => srv' = srv
    BY <2>1, <2>3 DEF Types
  <2> QED BY <1>3, <2>1, <2>2, <2>4 DEF Types, Removals, Adds, k, x
<1>4. CASE r.op \notin {"put"} \cup Removals
  BY <1>1, <1>4 DEF Types, Removals, Adds
<1> QED BY <1>2, <1>3, <1>4

\* The last of a delete-all is removed: the others are where they were.
LEMMA PurgedMarks ==
    ASSUME srv \in Types, Distinct, ui.sel \in Keys, page' = page, ui' = ui, NEW i, NEW marks,
           srv'.lists[ui.sel] = Without(srv.lists[ui.sel], Named(ui.sel, Index(i))),
           Marked(ui, marks), \A n \in DOMAIN marks : marks[n].i < i
    PROVE  Marked(ui, marks)'
<1> DEFINE s == srv.lists[ui.sel]
           t == srv'.lists[ui.sel]
           x == Named(ui.sel, Index(i))
<1>1. s \in Rows /\ x = {s[j] : j \in {i} \cap DOMAIN s} /\ t = Without(s, x)
  BY DEF Types, Named, Index
<1>2. Len(s) \in Nat /\ DOMAIN s = 1..Len(s) /\ t \in Rows /\ Len(t) \in Nat /\ DOMAIN t = 1..Len(t)
  BY <1>1, WithoutEntry, LenProperties DEF Rows
<1>3. \A j \in DOMAIN t : j < i => j \in DOMAIN s /\ t[j] = s[j]
  <2>1. CASE t = s
    BY <2>1
  <2>2. CASE \E j \in 1..Len(s) :
                /\ s[j] \in x /\ Len(t) = Len(s) - 1
                /\ \A m \in 1..Len(s) - 1 : t[m] = IF m < j THEN s[m] ELSE s[m + 1]
    <3>1. PICK j \in 1..Len(s) :
                /\ s[j] \in x /\ Len(t) = Len(s) - 1
                /\ \A m \in 1..Len(s) - 1 : t[m] = IF m < j THEN s[m] ELSE s[m + 1]
      BY <2>2
    <3>2. j = i
      BY <1>1, <1>2, <3>1 DEF Distinct
    <3>3. \A m \in DOMAIN t : m < i => m \in 1..Len(s) - 1
      BY <1>2, <3>1
    <3> HIDE DEF s, t, x
    <3> QED BY <1>2, <3>1, <3>2, <3>3
  <2> HIDE DEF s, t, x
  <2> QED BY <1>1, <2>1, <2>2, WithoutEntry
<1>4. ASSUME NEW n \in DOMAIN marks
      PROVE  Meant(ui, Index(marks[n].i), marks[n].want)'
  <2> DEFINE m == marks[n].i
  <2>1. Named(ui.sel, Index(m)) \subseteq {marks[n].want}
    BY DEF Marked, Meant
  <2>2. /\ Named(ui.sel, Index(m)) = {s[j] : j \in {m} \cap DOMAIN s}
        /\ Named(ui.sel, Index(m))' = {t[j] : j \in {m} \cap DOMAIN t}
    BY DEF Named, Index
  <2> HIDE DEF s, t
  <2>3. Named(ui.sel, Index(m))' \subseteq {marks[n].want}
    BY <1>3, <2>1, <2>2
  <2> QED BY <2>3 DEF Meant
<1> QED BY <1>4 DEF Marked

LEMMA ServeCalm ==
    ASSUME IInv, CInv, NEW r \in reqs, Serve(r)
    PROVE  CNext
<1>0. srv \in Types /\ GoodRequest(r) /\ ui \in UI
  BY DEF IInv, Types, Good, GoodUI
<1>1. PICK q : /\ reqs' = (reqs \ {r}) \cup {q}
               /\ q.op = r.op /\ q.key = r.key /\ q.at = r.at /\ q.want = r.want /\ q.rest = r.rest
               /\ q.st = "done"
               /\ q.ok = (r.op \in Removals \cup {"save", "open"} => Named(Key(r), r.at) # {})
               /\ r.op = "load" => q.rows = RowsAt(Key(r), r.at.i)
  BY <1>0, Served
<1>2. /\ page' = page /\ ui' = ui /\ r.st = "sent" /\ (hist'.excuse = {} => hist.excuse = {})
      /\ hist'.harm # hist.harm =>
            r.op \in Removals \cup {"save"} /\ ~(Named(Key(r), r.at) \subseteq {r.want})
  BY <1>0, Served
<1> SUFFICES ASSUME hist'.excuse = {} PROVE hist'.harm = {} /\ Calm(ui, reqs)'
  BY DEF CNext
<1>3. Calm(ui, reqs) /\ hist.harm = {}
  BY <1>2 DEF CInv
<1>4. reqs' = {q} /\ InFlight(ui, r) /\ ui.dialog = None
  BY <1>1, <1>3 DEF Calm
<1>5. r.op \notin {"list", "put"} => Key(r) = ui.sel /\ Key(r) \in Keys
  BY <1>4, KeyOfRequest DEF InFlight
<1>6. hist'.harm = {}
  BY <1>2, <1>3, <1>4, <1>5 DEF InFlight, Meant, Removals
<1>7. /\ page \notin WithForm => ui.form = None
      /\ page \in ByServer /\ r.op \notin {"list", "put"} => srv.now = ui.sel
      /\ ~Moved(r) => AtRest(ui)
  BY <1>3 DEF Calm
\* The list stays.
<1>8. CASE srv' = srv /\ r.op \notin {"put", "purge"}
  <2>1. r.op = "load" => q.rows = Listed(ui)
    BY <1>1, <1>4, <1>5 DEF InFlight, Listed, RowsAt
  <2>2. InFlight(ui, q)
    BY <1>1, <1>4, <1>8, <2>1 DEF InFlight, Key
  <2>3. ~Moved(q) => ~Moved(r)
    BY <1>1, <1>2 DEF Moved
  <2>4. Calm(ui, {q})
    BY <1>1, <1>4, <1>7, <2>2, <2>3 DEF Calm
  <2> QED BY <1>2, <1>4, <1>6, <1>8, <2>4, CalmNext
\* The list, or the server's instance, changes: it will be fetched.
<1>9. CASE (Moved(q) /\ srv' # srv) \/ r.op \in {"put", "purge"}
  <2>1. Moved(q)
    BY <1>1, <1>9 DEF Moved
  <2>2. r.op # "put" => srv'.now = srv.now
    BY <1>0, ServerStep
  <2>3. Key(q)' = Key(r) \/ r.op = "put"
    BY <1>1, <2>2 DEF Key
  <2>4. r.op = "put" => srv'.now = r.want
    BY <1>0, ServerStep
  <2>5. r.op # "load"
    BY <1>0, <1>9, ServerStep DEF Removals, Adds
  <2>6. r.op = "purge" => Marked(ui, r.rest)'
    <3> SUFFICES ASSUME r.op = "purge" PROVE Marked(ui, r.rest)'
      OBVIOUS
    <3>1. /\ r.at.by = "index" /\ (\A n \in DOMAIN r.rest : r.rest[n].i < r.at.i)
          /\ Marked(ui, r.rest)
      BY <1>4 DEF InFlight
    <3>2. srv'.lists[ui.sel] = Without(srv.lists[ui.sel], Named(ui.sel, r.at))
      BY <1>0, <1>5, ServerStep DEF Removals
    <3>3. Named(ui.sel, r.at) = Named(ui.sel, Index(r.at.i))
      BY <3>1, Addressing DEF Named
    <3> QED BY <1>0, <1>2, <1>5, <3>1, <3>2, <3>3, PurgedMarks DEF CInv
  <2>7. InFlight(ui, q)'
    BY <1>1, <1>2, <1>4, <2>3, <2>4, <2>5, <2>6 DEF InFlight
  <2>8. Moved(q)'
    BY <2>1 DEF Moved
  <2>9. page \in ByServer /\ r.op \notin {"list", "put"} => srv'.now = ui.sel
    BY <1>7, <2>2
  <2> QED BY <1>1, <1>2, <1>4, <1>6, <1>7, <2>7, <2>8, <2>9 DEF Calm
<1>10. srv' = srv \/ Moved(q)
  BY <1>0, <1>1, <1>2, <1>5, ServerStep DEF Moved, Removals, Adds
<1> QED BY <1>8, <1>9, <1>10

\* The server fails: the list stays, a failed fetch excuses what follows.
LEMMA FailCalm ==
    ASSUME IInv, CInv, NEW r \in reqs, Fail(r)
    PROVE  CNext
<1>1. GoodRequest(r)
  BY DEF IInv, Good
<1>2. PICK q : /\ reqs' = (reqs \ {r}) \cup {q}
               /\ q.op = r.op /\ q.key = r.key /\ q.want = r.want /\ q.rest = r.rest
               /\ q.st = "done" /\ (r.op # "load" => q.at = r.at /\ ~q.ok)
  BY <1>1, FailedBy
<1>3. /\ page' = page /\ ui' = ui /\ srv' = srv /\ r.st = "sent"
      /\ r.op \in Removals \cup Adds \cup {"save", "load"}
      /\ hist'.harm = hist.harm /\ (hist'.excuse = {} => hist.excuse = {} /\ r.op # "load")
  BY <1>1, FailedBy
<1> SUFFICES ASSUME hist'.excuse = {} PROVE hist'.harm = {} /\ Calm(ui, reqs)'
  BY DEF CNext
<1>4. Calm(ui, reqs) /\ hist.harm = {} /\ r.op # "load"
  BY <1>3 DEF CInv
<1>5. reqs' = {q} /\ InFlight(ui, r)
  BY <1>2, <1>4 DEF Calm
<1>6. InFlight(ui, q)
  BY <1>2, <1>3, <1>4, <1>5 DEF InFlight, Key, Removals, Adds
<1>7. ~Moved(q) => ~Moved(r)
  BY <1>2, <1>3 DEF Moved
<1>8. Calm(ui, {q})
  BY <1>2, <1>4, <1>5, <1>6, <1>7 DEF Calm
<1> QED BY <1>3, <1>4, <1>5, <1>8, CalmNext

LEMMA CalmStep == IInv /\ CInv /\ [Next]_vars => CInv'
<1> SUFFICES ASSUME IInv, CInv, [Next]_vars PROVE CNext
  BY DistinctStep DEF CInv, CNext
<1>1. CASE Click
  BY <1>1, CustomFormatsCalm, IndexersCalm, RootFoldersCalm, BrowseCalm, RemoteMappingsCalm,
     ImportListsCalm, IndexMasterCalm, HistoryCalm, ManagerCalm, SnipeHistoryCalm,
     ConfirmCalm, CancelCalm
     DEF Click
<1>2. ASSUME NEW r \in reqs, Ends(r) PROVE CNext
  BY <1>2, CustomFormatsCalm, IndexersCalm, RootFoldersCalm, BrowseCalm, RemoteMappingsCalm,
     ImportListsCalm, IndexMasterCalm, HistoryCalm, ManagerCalm, SnipeHistoryCalm
     DEF Ends
<1>3. CASE Network
  BY <1>2, <1>3, ServeCalm, FailCalm DEF Network
<1>4. CASE HistoryRenderEntries
  BY <1>4, DrawnCalm
<1>5. CASE OtherTab
  BY <1>5 DEF OtherTab, Excused, IInv, CNext
<1>6. CASE UNCHANGED vars
  BY <1>6, CalmNext DEF vars, CInv, CNext
<1> QED BY <1>1, <1>3, <1>4, <1>5, <1>6 DEF Next

LEMMA CalmInit == Init => CInv
<1> SUFFICES ASSUME Init PROVE Distinct /\ hist.harm = {} /\ Calm(ui, reqs)
  BY DEF CInv
<1>1. Distinct /\ hist.harm = {}
  BY ListsAssumption DEF ListsAssumption, Init, Distinct
<1>2. PICK k \in Keys : Entry(page, k)
  BY DEF Init
<1>3. CASE page \in ByServer \cup Late
  <2>1. /\ reqs = Ask({}, "list", None, Nothing, None)
        /\ ui.form = None /\ ui.dialog = None
    BY <1>2, <1>3 DEF Entry, Late, Blank, Ask
  <2> QED BY <1>1, <2>1, OneCalm
<1>4. CASE page \notin ByServer \cup Late
  <2> DEFINE at == IF page \in Paged THEN Index(1) ELSE Nothing
  <2>1. /\ reqs = Ask({}, "load", k, at, None)
        /\ ui.sel = k /\ ui.pos = 1 /\ ui.form = None /\ ui.dialog = None
    BY <1>2, <1>4 DEF Entry, Late, Blank, Ask
  <2>2. (page \in Paged => at.i = 1) /\ Resolved(k) = k
    BY Addressing, ListsAssumption DEF ListsAssumption, Resolved
  <2> HIDE DEF at
  <2> QED BY <1>1, <1>4, <2>1, <2>2, FetchCalm
<1> QED BY <1>3, <1>4

LEMMA CalmAlways == Spec => [](IInv /\ CInv)
BY InitGood, StepGood, CalmInit, CalmStep, PTL DEF Spec

\* What the user confirms or saves happens to the entry the page showed, on all
\* ten pages, for a user who waits for the answers while nothing fails, nothing
\* is overtaken and no other tab writes: also a delete-all of custom-formats.js,
\* whose positions stay right because it removes the last one first.
THEOREM OnlyWhatWasShown == Spec => []NoHarm
<1>1. IInv /\ CInv => NoHarm
  BY DEF CInv, NoHarm
<1> QED BY <1>1, CalmAlways, PTL

=============================================================================
