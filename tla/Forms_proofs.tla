---------------------------- MODULE Forms_proofs ----------------------------
(***************************************************************************)
(* Proofs about Forms: an edit is kept until it is stored or given up, a   *)
(* form sends the fields of its own object and leaves alone what it does   *)
(* not show, an editor writes its own entry and adds it once, and type     *)
(* correctness.                                                            *)
(*                                                                         *)
(* The invariant is in parts: the types (TInv), the fields that are not on *)
(* the form (OInv), and one part for each family of forms, which ties what *)
(* the form shows to the requests under way and to what is stored: forms   *)
(* that save at the click (CInv), the profile editor (PInv), forms with a  *)
(* selector (SInv), and the editors of a list's entries (EInv).            *)
(***************************************************************************)
EXTENDS Forms, WellFoundedInduction, TLAPS

-----------------------------------------------------------------------------
(* Type correctness.  A value is the number of an operation, so the types  *)
(* grow with acts.                                                         *)

Ops       == {"list", "load", "reload", "save", "add", "remove", "scores"}
Excuses   == {"hasty", "reordered", "failed", "unnoticed", "refilled", "other", "refused",
               "uncollected"}
Harms     == {"lost", "rest", "other", "wrong", "twice"}
Names     == Keys \cup {None}
Addresses == {Of(k) : k \in Keys} \cup {Index(i) : i \in Nat} \cup {New}
Dialogs   == {None, "leave", "delete"} \cup {Of(k) : k \in Keys}

Others(a)  == {Kept} \cup 0..a
Objects(a) == [of : Names, val : 0..a, other : Others(a)]
Bodies(a)  == [val : 0..a, rest : Names, other : Others(a), form : 0..a]
Uis(a)     == [sel : Names, at : Addresses, open : BOOLEAN, form : 0..a, val : 0..a,
               rest : Names, other : Others(a), dirty : BOOLEAN, button : BOOLEAN,
               mute : BOOLEAN, dialog : Dialogs]
Timers(a)  == [t : {"redraw"}, obj : Objects(a)] \cup [t : {"listen"}, obj : {None}]
Servers(a) == [obj : [Keys -> [val : 0..a, other : 0..a]], order : Seq(Keys)]
Hists(a)   == [harm : SUBSET Harms, excuse : SUBSET Excuses, typed : 0..a,
               owns : SUBSET ((0..a) \X Keys)]

\* What an answer brings.
Brings(r, a) ==
    r.st = "done" /\ r.ok =>
        IF page \in Editors
        THEN /\ r.op \in {"load", "reload"} => r.obj \in Seq(Keys)
             /\ r.op = "add" => r.obj \in Keys \X Nat
        ELSE r.op \in {"load", "save"} => r.obj \in Objects(a)
GoodRequest(r, a) ==
    /\ r \in [n : {r.n}, op : Ops, at : Addresses \cup {Of(None)}, body : Bodies(a),
              st : {"sent", "done"}, ok : BOOLEAN, obj : {r.obj}]
    /\ page \notin Dropdown => r.at \in Addresses
    /\ Brings(r, a)
GoodRequests(Q, a) == \A r \in Q : GoodRequest(r, a)
GoodTimers(T, a) == T \in Seq(Timers(a))
GoodCache(c, a) ==
    IF page \in Editors THEN c \in Seq(Keys) ELSE c \in Objects(a) \cup {None}
GoodUI(u, c, a) ==
    /\ u \in Uis(a)
    /\ page \in AtClick \cup {"profile"} => u.sel = Stored[1]
    /\ page = "connection" => u.dialog \in {None} \cup {Of(k) : k \in Keys}
    /\ page \in {"instance", "prowlarr"} /\ u.open => c \in Objects(a)

TInv ==
    /\ page \in Pages /\ acts \in 0..MaxActs[page]
    /\ GoodUI(ui, cache, acts) /\ GoodCache(cache, acts)
    /\ GoodRequests(reqs, acts) /\ GoodTimers(timers, acts)
    /\ srv \in Servers(acts) /\ hist \in Hists(acts)

\* Numbers of operations, and the order of the pages.
LEMMA Bounds ==
    /\ MaxActs \in [Pages -> Nat]
    /\ Stored \in Seq(Keys) /\ Stored # <<>> /\ Stored[1] \in Keys /\ Stored[1] \in Range(Stored)
    /\ None \notin Keys /\ None \notin Nat /\ Kept \notin Nat /\ None # "leave" /\ None # "delete"
    /\ \A a \in Nat : None \notin Objects(a)
<1>1. Stored \in Seq(Keys) /\ Stored # <<>>
  BY FormsAssumption DEF FormsAssumption
<1>2. 1 \in DOMAIN Stored
  BY <1>1
<1>3. ASSUME NEW a \in Nat PROVE None \notin Objects(a)
  <2>1. Objects(a) \subseteq [of : Keys \cup {None}, val : Nat, other : Nat \cup {Kept}]
    BY DEF Objects, Names, Others
  <2> QED BY <2>1, FormsAssumption DEF FormsAssumption
<1> QED BY <1>1, <1>2, <1>3, FormsAssumption DEF FormsAssumption, Range

LEMMA Grow ==
    ASSUME NEW a \in Nat
    PROVE  /\ Objects(a) \subseteq Objects(a + 1) /\ Bodies(a) \subseteq Bodies(a + 1)
           /\ Uis(a) \subseteq Uis(a + 1) /\ Servers(a) \subseteq Servers(a + 1)
           /\ Hists(a) \subseteq Hists(a + 1)
<1>1. 0..a \subseteq 0..(a + 1)
  OBVIOUS
<1> HIDE DEF Names
<1>2. Others(a) \subseteq Others(a + 1)
  BY <1>1 DEF Others
<1>3. Objects(a) \subseteq Objects(a + 1)
  BY <1>1, <1>2 DEF Objects
<1>4. Bodies(a) \subseteq Bodies(a + 1)
  BY <1>1, <1>2 DEF Bodies
<1>5. Uis(a) \subseteq Uis(a + 1)
  BY <1>1, <1>2 DEF Uis
<1>6. Servers(a) \subseteq Servers(a + 1)
  <2>1. [val : 0..a, other : 0..a] \subseteq [val : 0..(a + 1), other : 0..(a + 1)]
    BY <1>1
  <2>2. ASSUME NEW s \in Servers(a) PROVE s.obj \in [Keys -> [val : 0..(a + 1), other : 0..(a + 1)]]
    BY <2>1, <2>2 DEF Servers
  <2> QED BY <2>2 DEF Servers
<1>7. Hists(a) \subseteq Hists(a + 1)
  <2>1. (0..a) \X Keys \subseteq (0..(a + 1)) \X Keys
    BY <1>1
  <2>2. SUBSET ((0..a) \X Keys) \subseteq SUBSET ((0..(a + 1)) \X Keys)
    BY <2>1
  <2> QED BY <1>1, <2>2 DEF Hists
<1> QED BY <1>3, <1>4, <1>5, <1>6, <1>7

LEMMA GrowRequests ==
    ASSUME NEW a \in Nat, NEW Q, GoodRequests(Q, a)
    PROVE  GoodRequests(Q, a + 1)
<1> SUFFICES ASSUME NEW r \in Q PROVE GoodRequest(r, a + 1)
  BY DEF GoodRequests
<1>1. GoodRequest(r, a)
  BY DEF GoodRequests
<1>2. r \in [n : {r.n}, op : Ops, at : Addresses \cup {Of(None)}, body : Bodies(a + 1),
             st : {"sent", "done"}, ok : BOOLEAN, obj : {r.obj}]
  BY <1>1, Grow DEF GoodRequest
<1> QED BY <1>1, <1>2, Grow DEF GoodRequest, Brings

LEMMA GrowTimers ==
    ASSUME NEW a \in Nat, NEW T, GoodTimers(T, a)
    PROVE  GoodTimers(T, a + 1)
<1>1. Timers(a) \subseteq Timers(a + 1)
  BY Grow DEF Timers
<1> QED BY <1>1 DEF GoodTimers

LEMMA GrowUI ==
    ASSUME NEW a \in Nat, NEW u, NEW c
    PROVE  /\ GoodUI(u, c, a) => GoodUI(u, c, a + 1)
           /\ GoodCache(c, a) => GoodCache(c, a + 1)
BY Grow DEF GoodUI, GoodCache

-----------------------------------------------------------------------------
(* Steps keep the types.                                                   *)

LEMMA Becomes ==
    ASSUME page \in Pages, page' = page, acts' \in 0..MaxActs[page],
           GoodUI(ui', cache', acts'), GoodCache(cache', acts'),
           GoodRequests(reqs', acts'), GoodTimers(timers', acts'),
           srv' \in Servers(acts'), hist' \in Hists(acts')
    PROVE  TInv'
<1> HIDE DEF AtClick, Pages, Editors, Dropdown
<1>1. GoodUI(ui, cache, acts)' /\ GoodCache(cache, acts)'
  BY DEF GoodUI, GoodCache, Uis, Objects, Addresses, Dialogs, Others, Of, Index, New, Names
<1>2. GoodRequests(reqs, acts)'
  BY DEF GoodRequests, GoodRequest, Brings
<1>3. GoodTimers(timers, acts)'
  BY DEF GoodTimers
<1> QED BY <1>1, <1>2, <1>3 DEF TInv

\* An operation of the user, or of another page.
LEMMA ActsTyped ==
    ASSUME TInv, NEW u, NEW Q, NEW c, NEW h, Acts(u, Q, c, h),
           GoodUI(u, c, acts + 1), GoodCache(c, acts + 1),
           GoodRequests(Q, acts + 1), h \in Hists(acts + 1)
    PROVE  TInv'
<1>1. acts \in Nat /\ acts' = acts + 1 /\ acts' \in 0..MaxActs[page] /\ page \in Pages
  BY Bounds DEF TInv, Acts
<1>2. GoodTimers(timers', acts') /\ srv' \in Servers(acts')
  BY <1>1, GrowTimers, Grow DEF TInv, Acts
<1>3. hist' \in Hists(acts')
  <2>1. hist' = [h EXCEPT !.excuse = @ \cup (IF Busy THEN {"hasty"} ELSE {})] /\ h \in Hists(acts')
    BY <1>1 DEF Acts
  <2>2. {"hasty"} \subseteq Excuses /\ {} \subseteq Excuses
    BY DEF Excuses
  <2> QED BY <2>1, <2>2 DEF Hists
<1> QED BY <1>1, <1>2, <1>3, Becomes DEF Acts

\* The end of a request.
LEMMA HandleTyped ==
    ASSUME TInv, NEW r, NEW u, NEW Q, NEW c, NEW T, NEW why \in SUBSET Excuses,
           Handle(r, u, Q, c, T, why),
           GoodUI(u, c, acts), GoodCache(c, acts), GoodRequests(Q, acts), GoodTimers(T, acts)
    PROVE  TInv'
<1>1. acts' = acts /\ page' = page /\ srv' = srv /\ ui' = u /\ cache' = c /\ reqs' = Q /\ timers' = T
  BY DEF Handle
<1>2. hist' \in Hists(acts)
  <2>1. hist' = [hist EXCEPT !.excuse = @ \cup why \cup
                                (IF Earlier(r) # {} THEN {"reordered"} ELSE {})]
    BY DEF Handle
  <2>2. {"reordered"} \subseteq Excuses /\ hist \in Hists(acts)
    BY DEF Excuses, TInv
  <2> QED BY <2>1, <2>2 DEF Hists
<1> QED BY <1>1, <1>2, Becomes DEF TInv

LEMMA AskTyped ==
    ASSUME NEW a \in Nat, NEW Q, GoodRequests(Q, a), NEW op \in Ops,
           NEW at \in Addresses \cup {Of(None)}, page \notin Dropdown => at \in Addresses,
           NEW body \in Bodies(a)
    PROVE  GoodRequests(Ask(Q, op, at, body), a)
<1> DEFINE q(n) == [n |-> n, op |-> op, at |-> at, body |-> body,
                    st |-> "sent", ok |-> FALSE, obj |-> None]
<1>1. ASSUME NEW n PROVE GoodRequest(q(n), a)
  BY DEF GoodRequest, Brings
<1>2. Ask(Q, op, at, body) = Q \cup {q(Next1(Q))}
  BY DEF Ask
<1>3. GoodRequest(q(Next1(Q)), a)
  BY <1>1
<1> HIDE DEF q
<1> QED BY <1>2, <1>3 DEF GoodRequests

LEMMA Address ==
    /\ New.by = "none" /\ New.i = 0
    /\ \A k : Of(k).by = "key" /\ Of(k).i = k
    /\ \A i : Index(i).by = "index" /\ Index(i).i = i
BY DEF New, Index, Of

LEMMA SomeAddresses ==
    /\ New \in Addresses
    /\ \A i \in Nat : Index(i) \in Addresses
    /\ \A k \in Keys : Of(k) \in Addresses
    /\ \A k \in Names : Of(k) \in Addresses \cup {Of(None)}
BY DEF Addresses, Names

LEMMA Addressed ==
    ASSUME NEW a \in Addresses
    PROVE  /\ a.by \in {"key", "index", "none"} /\ a.i \in Nat \cup Keys
           /\ a.by = "key" => a.i \in Keys /\ a = Of(a.i)
           /\ a.by = "index" => a.i \in Nat /\ a = Index(a.i)
           /\ a.by = "none" => a = New
BY Address DEF Addresses

LEMMA NoBodyTyped == ASSUME NEW a \in Nat PROVE NoBody \in Bodies(a)
BY DEF NoBody, Body, Bodies, Others, Names

LEMMA BodyTyped ==
    ASSUME NEW a \in Nat, NEW v \in 0..a, NEW k \in Names, NEW o \in Others(a), NEW f \in 0..a
    PROVE  Body(v, k, o, f) \in Bodies(a) /\ Body(v, k, Kept, f) \in Bodies(a)
BY DEF Body, Bodies, Others

LEMMA UITyped ==
    ASSUME NEW a \in Nat, NEW u \in Uis(a)
    PROVE  /\ Settled(u) \in Uis(a) /\ Gone(u) \in Uis(a)
           /\ Settled(u).sel = u.sel /\ Gone(u).sel = u.sel
           /\ Settled(u).dialog = u.dialog /\ Gone(u).dialog = None
           /\ Settled(u).open = u.open /\ ~Gone(u).open
           /\ \A obj \in Objects(a) :
                /\ Drawn(u, obj) \in Uis(a)
                /\ Drawn(u, obj).sel = u.sel /\ Drawn(u, obj).dialog = u.dialog
<1> HIDE DEF Names, Addresses
<1>1. None \in Dialogs
  BY DEF Dialogs
<1> QED BY <1>1 DEF Settled, Gone, Drawn, Uis, Objects

LEMMA AskNone ==
    ASSUME NEW a \in Nat, NEW Q, GoodRequests(Q, a), NEW op \in Ops,
           NEW at \in Addresses
    PROVE  GoodRequests(Ask(Q, op, at, NoBody), a)
BY AskTyped, NoBodyTyped

LEMMA EndedTyped ==
    ASSUME TInv, NEW r PROVE GoodRequests(Ended(r), acts)
BY DEF TInv, GoodRequests, Ended

-----------------------------------------------------------------------------
(* The clicks keep the types.                                              *)

\* What the types say at a click.
LEMMA Typed ==
    ASSUME TInv
    PROVE  /\ acts \in Nat /\ acts \in 0..acts /\ acts + 1 \in 0..(acts + 1)
           /\ ui \in Uis(acts) /\ ui \in Uis(acts + 1)
           /\ hist \in Hists(acts) /\ hist \in Hists(acts + 1)
           /\ GoodUI(ui, cache, acts) /\ GoodUI(ui, cache, acts + 1)
           /\ GoodCache(cache, acts) /\ GoodCache(cache, acts + 1)
           /\ GoodRequests(reqs, acts) /\ GoodRequests(reqs, acts + 1)
           /\ srv \in Servers(acts) /\ GoodTimers(timers, acts) /\ page \in Pages
<1>1. acts \in Nat /\ acts \in 0..acts /\ acts + 1 \in 0..(acts + 1)
  BY Bounds DEF TInv
<1> QED BY <1>1, Grow, GrowUI, GrowRequests DEF TInv, GoodUI

LEMMA EditsTyped ==
    ASSUME TInv, NEW noticed \in BOOLEAN, Edits(noticed) PROVE TInv'
<1> DEFINE u == [ui EXCEPT !.val = acts + 1, !.dirty = @ \/ noticed, !.button = @ \/ noticed]
           h == [hist EXCEPT !.typed = acts + 1]
<1>1. Acts(u, reqs, cache, h)
  BY DEF Edits
<1>2. h \in Hists(acts + 1)
  BY Typed DEF Hists
<1>3. u \in Uis(acts + 1) /\ u.sel = ui.sel /\ u.dialog = ui.dialog /\ u.open = ui.open
  <2> HIDE DEF Names, Addresses, Dialogs
  <2> QED BY Typed DEF Uis
<1>4. GoodUI(u, cache, acts + 1)
  <2> HIDE DEF u
  <2> QED BY <1>3, Typed DEF GoodUI
<1> HIDE DEF u, h
<1> QED BY <1>1, <1>2, <1>4, ActsTyped, Typed

LEMMA LeavesTyped ==
    ASSUME TInv, page # "connection", NEW Q, GoodRequests(Q, acts + 1),
           Leaves(Gone(ui), Q) \/ Confirms(Gone(ui), Q)
    PROVE  TInv'
<1>1. Gone(ui) \in Uis(acts + 1) /\ GoodUI(Gone(ui), cache, acts + 1)
  BY Typed, UITyped DEF GoodUI
<1>2. CASE Leaves(Gone(ui), Q)
  <2> DEFINE u == [ui EXCEPT !.dialog = "leave"]
             h == [hist EXCEPT !.harm = @ \cup (IF Loses THEN {"lost"} ELSE {}), !.typed = 0]
  <2>1. Acts(u, reqs, cache, hist) \/ Acts(Gone(ui), Q, cache, h)
    BY <1>2 DEF Leaves, Clicks
  <2>2. u \in Uis(acts + 1) /\ GoodUI(u, cache, acts + 1)
    <3>1. u \in Uis(acts + 1) /\ u.sel = ui.sel /\ u.open = ui.open
      <4> HIDE DEF Names, Addresses
      <4>1. "leave" \in Dialogs
        BY DEF Dialogs
      <4> QED BY <4>1, Typed DEF Uis
    <3> HIDE DEF u
    <3> QED BY <3>1, Typed DEF GoodUI
  <2>3. h \in Hists(acts + 1)
    <3> DEFINE lost == IF Loses THEN {"lost"} ELSE {}
    <3>1. lost \in SUBSET Harms
      BY DEF Harms
    <3> HIDE DEF lost
    <3>2. hist \in Hists(acts + 1) /\ 0 \in 0..(acts + 1)
      BY Typed
    <3>3. hist.harm \cup lost \in SUBSET Harms
      BY <3>1, <3>2 DEF Hists
    <3>4. [hist EXCEPT !.harm = @ \cup lost, !.typed = 0] \in Hists(acts + 1)
      BY <3>2, <3>3 DEF Hists
    <3> QED BY <3>4 DEF lost
  <2> HIDE DEF u, h
  <2> QED BY <1>1, <2>1, <2>2, <2>3, Typed, ActsTyped
<1>3. CASE Confirms(Gone(ui), Q)
  <2> DEFINE h == [hist EXCEPT !.typed = 0]
  <2>1. Acts(Gone(ui), Q, cache, h)
    BY <1>3 DEF Confirms
  <2>2. h \in Hists(acts + 1)
    BY Typed DEF Hists
  <2> HIDE DEF h
  <2> QED BY <1>1, <2>1, <2>2, Typed, ActsTyped
<1> QED BY <1>2, <1>3

\* The save of core.js.
LEMMA SaveTyped ==
    ASSUME TInv, page \in AtClick, NEW c, NEW body \in Bodies(acts + 1),
           SaveAppSettings(Settled(ui), c, body),
           GoodCache(c, acts + 1), page \in {"instance", "prowlarr"} /\ ui.open => c \in Objects(acts + 1)
    PROVE  TInv'
<1> DEFINE u == [Settled(ui) EXCEPT !.mute = TRUE]
           Q == Ask(reqs, "save", Of(ui.sel), body)
<1>1. Acts(u, Q, c, hist)
  BY DEF SaveAppSettings
<1>2. u \in Uis(acts + 1) /\ u.sel = ui.sel /\ u.dialog = ui.dialog /\ u.open = ui.open
  <2>1. Settled(ui) \in Uis(acts + 1) /\ Settled(ui).sel = ui.sel
        /\ Settled(ui).dialog = ui.dialog /\ Settled(ui).open = ui.open
    BY Typed, UITyped
  <2> HIDE DEF Names, Addresses, Dialogs
  <2> QED BY <2>1 DEF Uis
<1>3. GoodUI(u, c, acts + 1)
  <2> HIDE DEF u
  <2> QED BY <1>2, Typed DEF GoodUI, AtClick
<1>4. GoodRequests(Q, acts + 1)
  <2>1. ui.sel = Stored[1] /\ Of(ui.sel) \in Addresses
    BY Typed, Bounds, SomeAddresses DEF GoodUI
  <2>2. "save" \in Ops
    BY DEF Ops
  <2> QED BY <2>1, <2>2, Typed, AskTyped
<1> HIDE DEF u, Q
<1> QED BY <1>1, <1>3, <1>4, Typed, ActsTyped

LEMMA ReloadTyped == ASSUME TInv, page \in AtClick PROVE GoodRequests(Reload, acts + 1)
<1>1. Of(ui.sel) \in Addresses /\ "load" \in Ops
  BY Typed, Bounds, SomeAddresses DEF GoodUI, Ops
<1> QED BY <1>1, Typed, AskNone DEF Reload

LEMMA GeneralTyped == ASSUME TInv, page = "general", GeneralClick PROVE TInv'
<1>1. page \in AtClick /\ page # "connection"
  BY DEF AtClick
<1>2. ASSUME GeneralSave PROVE TInv'
  <2>1. GeneralBody \in Bodies(acts + 1)
    <3>1. 0 \in Others(acts + 1) /\ 0 \in 0..(acts + 1) /\ acts + 1 \in Nat
      BY Typed DEF Others
    <3>2. ui.val \in 0..(acts + 1) /\ ui.rest \in Names
      BY Typed DEF Uis
    <3> QED BY <3>1, <3>2, BodyTyped DEF GeneralBody
  <2> QED BY <1>1, <1>2, <2>1, SaveTyped, Typed DEF GeneralSave
<1>3. ASSUME GeneralUncollected PROVE TInv'
  <2> DEFINE u == [ui EXCEPT !.dirty = TRUE, !.button = TRUE]
             h == [hist EXCEPT !.typed = acts + 1, !.excuse = @ \cup {"uncollected"}]
  <2>1. Acts(u, reqs, cache, h)
    BY <1>3 DEF GeneralUncollected
  <2>2. u \in Uis(acts + 1) /\ u.sel = ui.sel
    <3>1. ui \in Uis(acts + 1)
      BY Typed DEF Uis
    <3> HIDE DEF Names, Addresses, Dialogs
    <3> QED BY <3>1 DEF Uis
  <2>3. GoodUI(u, cache, acts + 1)
    <3> HIDE DEF u
    <3> QED BY <2>2, Typed DEF GoodUI
  <2>4. h \in Hists(acts + 1)
    BY Typed DEF Hists, Excuses
  <2> HIDE DEF u, h
  <2> QED BY <2>1, <2>3, <2>4, Typed, ActsTyped
<1> QED BY <1>1, <1>2, <1>3, EditsTyped, LeavesTyped, Typed DEF GeneralClick, GeneralType

LEMMA LogTyped == ASSUME TInv, page = "log_settings", LogClick PROVE TInv'
<1>1. page \in AtClick /\ page # "connection"
  BY DEF AtClick
<1>2. ASSUME LogSave PROVE TInv'
  <2>1. Body(ui.val, ui.rest, Kept, 0) \in Bodies(acts + 1)
    BY Typed, BodyTyped DEF Uis
  <2> QED BY <1>1, <1>2, <2>1, SaveTyped, Typed DEF LogSave
<1>3. (~ui.mute) \in BOOLEAN
  OBVIOUS
<1> QED BY <1>1, <1>2, <1>3, EditsTyped, LeavesTyped, Typed DEF LogClick, LogType

LEMMA SwaparrTyped == ASSUME TInv, page = "swaparr", SwaparrClick PROVE TInv'
<1>1. page \in AtClick /\ page # "connection"
  BY DEF AtClick
<1>2. ASSUME SwaparrSave PROVE TInv'
  <2>1. Body(ui.val, ui.rest, ui.other, 0) \in Bodies(acts + 1)
    BY Typed, BodyTyped DEF Uis
  <2> QED BY <1>1, <1>2, <2>1, SaveTyped, Typed DEF SwaparrSave
<1>3. ASSUME SwaparrTag PROVE TInv'
  <2> DEFINE u == [ui EXCEPT !.val = acts + 1]
             h == [hist EXCEPT !.typed = acts + 1, !.excuse = @ \cup {"unnoticed"}]
  <2>1. Acts(u, reqs, cache, h)
    BY <1>3 DEF SwaparrTag
  <2>2. u \in Uis(acts + 1) /\ u.sel = ui.sel
    <3> HIDE DEF Names, Addresses, Dialogs
    <3> QED BY Typed DEF Uis
  <2>3. GoodUI(u, cache, acts + 1)
    <3> HIDE DEF u
    <3> QED BY <2>2, Typed DEF GoodUI
  <2>4. h \in Hists(acts + 1)
    BY Typed DEF Hists, Excuses
  <2> HIDE DEF u, h
  <2> QED BY <2>1, <2>3, <2>4, Typed, ActsTyped
<1> QED BY <1>1, <1>2, <1>3, EditsTyped, LeavesTyped, Typed DEF SwaparrClick, SwaparrType

\* A form opened from the cached settings.
LEMMA OpenedTyped ==
    ASSUME TInv, page \in {"instance", "prowlarr"}, cache # None, ~ui.open,
           NEW u \in {InstanceForm(ui, cache), ProwlarrForm(ui, cache)}, Clicks(u, reqs)
    PROVE  TInv'
<1> DEFINE v == [ui EXCEPT !.form = @ + 1]
<1>1. cache \in Objects(acts + 1) /\ page \notin Editors
  BY Grow, Typed DEF GoodCache, Editors, TInv
<1>2. v \in Uis(acts + 1) /\ v.sel = ui.sel
  <2>1. ui \in Uis(acts) /\ acts \in Nat
    BY Typed
  <2>2. ui.form + 1 \in 0..(acts + 1)
    BY <2>1 DEF Uis
  <2>3. ui \in Uis(acts + 1)
    BY Typed
  <2> HIDE DEF Names, Addresses, Dialogs
  <2> QED BY <2>2, <2>3 DEF Uis
<1>3. u = Settled(Drawn(v, cache))
  BY DEF InstanceForm, ProwlarrForm
<1> HIDE DEF v
<1>4. u \in Uis(acts + 1) /\ u.sel = ui.sel
  <2>1. acts + 1 \in Nat
    BY Typed
  <2>2. Drawn(v, cache) \in Uis(acts + 1) /\ Drawn(v, cache).sel = v.sel
    BY <1>1, <1>2, <2>1, UITyped
  <2> QED BY <1>2, <1>3, <2>1, <2>2, UITyped
<1>5. GoodUI(u, cache, acts + 1)
  BY <1>1, <1>4, Typed DEF GoodUI
<1> QED BY <1>5, Typed, ActsTyped DEF Clicks

\* A save of an opened form: the cached settings are changed first.
LEMMA OpenedSaveTyped ==
    ASSUME TInv, page \in {"instance", "prowlarr"}, ui.open,
           SaveAppSettings(Settled(ui), [cache EXCEPT !.val = ui.val],
                           Body(ui.val, ui.rest, cache.other, 0))
    PROVE  TInv'
<1>1. page \in AtClick /\ page \notin Editors
  BY DEF AtClick, Editors
<1>2. cache \in Objects(acts + 1) /\ ui \in Uis(acts + 1)
  BY Typed DEF GoodUI
<1>3. [cache EXCEPT !.val = ui.val] \in Objects(acts + 1)
  BY <1>2 DEF Objects, Uis
<1>4. Body(ui.val, ui.rest, cache.other, 0) \in Bodies(acts + 1)
  BY <1>2, Typed, BodyTyped DEF Objects, Uis
<1>5. GoodCache([cache EXCEPT !.val = ui.val], acts + 1)
  BY <1>1, <1>3 DEF GoodCache
<1> QED BY <1>1, <1>3, <1>4, <1>5, SaveTyped

LEMMA InstanceTyped == ASSUME TInv, page = "instance", InstanceClick PROVE TInv'
<1>1. page \in AtClick /\ page # "connection" /\ page \in {"instance", "prowlarr"} /\ page \notin Editors
  BY DEF AtClick, Editors
<1>2. ASSUME InstanceDelete PROVE TInv'
  <2> DEFINE v == Drawn(ui, cache)
             u == [v EXCEPT !.open = FALSE, !.dialog = "delete"]
  <2>1. Acts(u, reqs, cache, hist)
    BY <1>2 DEF InstanceDelete, Clicks
  <2>2. cache \in Objects(acts + 1)
    BY <1>1, <1>2, Typed DEF InstanceDelete, GoodCache
  <2>3. v \in Uis(acts + 1) /\ v.sel = ui.sel
    BY <2>2, Typed, UITyped
  <2> HIDE DEF v
  <2>4. u \in Uis(acts + 1) /\ u.sel = ui.sel /\ ~u.open
    <3>1. "delete" \in Dialogs
      BY DEF Dialogs
    <3> HIDE DEF Names, Addresses
    <3> QED BY <2>3, <3>1 DEF Uis
  <2> HIDE DEF u
  <2>5. GoodUI(u, cache, acts + 1)
    BY <1>1, <2>4, Typed DEF GoodUI
  <2> QED BY <2>1, <2>5, Typed, ActsTyped
<1>3. ASSUME InstanceDoDelete PROVE TInv'
  <2> DEFINE u == [ui EXCEPT !.dialog = None, !.mute = TRUE]
             body == Body(acts + 1, ui.rest, ui.other, 0)
             Q == Ask(reqs, "save", Of(ui.sel), body)
             c == [of |-> ui.rest, val |-> acts + 1, other |-> ui.other]
             h == [hist EXCEPT !.typed = acts + 1]
  <2>1. Acts(u, Q, c, h)
    BY <1>3 DEF InstanceDoDelete
  <2>2. u \in Uis(acts + 1) /\ u.sel = ui.sel /\ u.open = ui.open
    <3>1. None \in Dialogs
      BY DEF Dialogs
    <3> HIDE DEF Names, Addresses
    <3> QED BY <3>1, Typed DEF Uis
  <2>3. c \in Objects(acts + 1) /\ body \in Bodies(acts + 1)
    <3>1. ui \in Uis(acts + 1) /\ acts + 1 \in 0..(acts + 1) /\ acts + 1 \in Nat /\ 0 \in 0..(acts + 1)
      BY Typed
    <3>2. ui.rest \in Names /\ ui.other \in Others(acts + 1)
      BY <3>1 DEF Uis
    <3>3. body \in Bodies(acts + 1)
      BY <3>1, <3>2, BodyTyped
    <3> QED BY <3>1, <3>2, <3>3 DEF Objects
  <2>4. h \in Hists(acts + 1)
    BY Typed DEF Hists
  <2>5. GoodRequests(Q, acts + 1)
    <3>1. Of(ui.sel) \in Addresses /\ "save" \in Ops
      BY <1>1, Typed, Bounds, SomeAddresses DEF GoodUI, Ops
    <3> HIDE DEF body
    <3> QED BY <2>3, <3>1, Typed, AskTyped
  <2> HIDE DEF u, c
  <2>6. GoodUI(u, c, acts + 1) /\ GoodCache(c, acts + 1)
    BY <1>1, <2>2, <2>3, Typed DEF GoodUI, GoodCache
  <2> HIDE DEF Q, h
  <2> QED BY <2>1, <2>4, <2>5, <2>6, Typed, ActsTyped
<1>4. ASSUME InstanceOpen PROVE TInv'
  BY <1>1, <1>4, OpenedTyped DEF InstanceOpen
<1>5. ASSUME InstanceSave PROVE TInv'
  BY <1>1, <1>5, OpenedSaveTyped DEF InstanceSave
<1> QED BY <1>1, <1>2, <1>3, <1>4, <1>5, EditsTyped, LeavesTyped, ReloadTyped
    DEF InstanceClick, InstanceType, InstanceTag, InstanceBack, InstanceDiscard

LEMMA ProwlarrTyped == ASSUME TInv, page = "prowlarr", ProwlarrClick PROVE TInv'
<1>1. page \in AtClick /\ page # "connection" /\ page \in {"instance", "prowlarr"}
  BY DEF AtClick
<1>2. ASSUME ProwlarrOpen PROVE TInv'
  BY <1>1, <1>2, OpenedTyped DEF ProwlarrOpen
<1>3. ASSUME ProwlarrSave PROVE TInv'
  BY <1>1, <1>3, OpenedSaveTyped DEF ProwlarrSave
<1> QED BY <1>1, <1>2, <1>3, EditsTyped, LeavesTyped, ReloadTyped
    DEF ProwlarrClick, ProwlarrType, ProwlarrBack, ProwlarrDiscard

\* A form with a selector.
LEMMA UnloadedTyped ==
    ASSUME TInv, page \in Dropdown, NEW k \in Keys
    PROVE  /\ GoodUI(Unloaded(k), cache, acts) /\ GoodUI(Unloaded(k), cache, acts + 1)
           /\ Unloaded(k).sel = k /\ ~Unloaded(k).open /\ Unloaded(k).dialog = None
<1>1. page \notin AtClick \cup {"profile", "connection", "instance", "prowlarr"}
  BY DEF Dropdown, AtClick
<1>2. ASSUME NEW a \in {acts, acts + 1} PROVE Unloaded(k) \in Uis(a)
  <2>1. Gone(ui) \in Uis(a) /\ k \in Names
    BY Typed, UITyped DEF Names
  <2> HIDE DEF Names, Addresses, Dialogs
  <2> QED BY <2>1 DEF Unloaded, Uis
<1>3. Unloaded(k).sel = k /\ ~Unloaded(k).open /\ Unloaded(k).dialog = None
  <2>1. Gone(ui) \in Uis(acts) /\ ~Gone(ui).open /\ Gone(ui).dialog = None
    BY Typed, UITyped
  <2> QED BY <2>1 DEF Unloaded, Uis
<1> QED BY <1>1, <1>2, <1>3 DEF GoodUI

\* A choice of another entry, and the selector filled again.
LEMMA ChangeTyped ==
    ASSUME TInv, page \in Dropdown, NEW k \in Keys,
           Acts(Unloaded(k), Ask(reqs, "load", Of(k), NoBody), cache, [hist EXCEPT !.typed = 0])
    PROVE  TInv'
<1>1. [hist EXCEPT !.typed = 0] \in Hists(acts + 1)
  BY Typed DEF Hists
<1>2. GoodRequests(Ask(reqs, "load", Of(k), NoBody), acts + 1)
  BY SomeAddresses, Typed, AskNone DEF Ops
<1> QED BY <1>1, <1>2, UnloadedTyped, Typed, ActsTyped

\* A save that turns the button off.
LEMMA SentTyped ==
    ASSUME TInv, NEW op \in Ops, NEW at \in Addresses \cup {Of(None)}, page \notin Dropdown => at \in Addresses,
           NEW body \in Bodies(acts + 1),
           NEW u \in {ui, [ui EXCEPT !.button = FALSE]}, Clicks(u, Ask(reqs, op, at, body))
    PROVE  TInv'
<1>1. u \in Uis(acts + 1) /\ u.sel = ui.sel /\ u.dialog = ui.dialog /\ u.open = ui.open
  <2> HIDE DEF Names, Addresses, Dialogs
  <2> QED BY Typed DEF Uis
<1>2. GoodUI(u, cache, acts + 1)
  BY <1>1, Typed DEF GoodUI
<1>3. GoodRequests(Ask(reqs, op, at, body), acts + 1)
  BY Typed, AskTyped
<1> QED BY <1>2, <1>3, Typed, ActsTyped DEF Clicks

LEMMA SelectorSaveTyped ==
    ASSUME TInv, page \in Dropdown,
           Clicks([ui EXCEPT !.button = FALSE],
                  Ask(reqs, "save", Of(ui.sel),
                      IF ui.open THEN Body(ui.val, ui.rest, Kept, 0) ELSE NoBody))
    PROVE  TInv'
<1> DEFINE body == IF ui.open THEN Body(ui.val, ui.rest, Kept, 0) ELSE NoBody
<1>1. body \in Bodies(acts + 1)
  <2>1. NoBody \in Bodies(acts + 1)
    BY Typed, NoBodyTyped
  <2>2. Body(ui.val, ui.rest, Kept, 0) \in Bodies(acts + 1)
    BY Typed, BodyTyped DEF Uis
  <2> QED BY <2>1, <2>2
<1>2. Of(ui.sel) \in Addresses \cup {Of(None)} /\ "save" \in Ops
  BY Typed, SomeAddresses DEF Uis, Ops
<1> HIDE DEF body
<1>3. Clicks([ui EXCEPT !.button = FALSE], Ask(reqs, "save", Of(ui.sel), body))
  BY DEF body
<1> QED BY <1>1, <1>2, <1>3, SentTyped

LEMMA InOrder ==
    ASSUME TInv PROVE srv.order \in Seq(Keys) /\ Range(srv.order) \subseteq Keys
<1>1. srv.order \in Seq(Keys)
  BY DEF TInv, Servers
<1> QED BY <1>1 DEF Range

LEMMA MovieTyped == ASSUME TInv, page = "movie", MovieClick PROVE TInv'
<1>1. page \in Dropdown /\ page # "connection"
  BY DEF Dropdown
<1>2. ASSUME NEW k \in Range(srv.order), MovieChange(k) PROVE TInv'
  <2>1. k \in Keys
    BY InOrder
  <2> QED BY <1>1, <1>2, <2>1, ChangeTyped DEF MovieChange, MovieLoad
<1>3. ASSUME MovieSave PROVE TInv'
  BY <1>1, <1>3, SelectorSaveTyped DEF MovieSave, MovieBody
<1>4. ASSUME MovieInstancesChanged PROVE TInv'
  <2>1. GoodRequests(reqs', acts + 1)
    <3>1. reqs' = Ask(reqs, "list", New, NoBody) /\ "list" \in Ops
      BY <1>4 DEF MovieInstancesChanged, Ops
    <3> QED BY <3>1, SomeAddresses, Typed, AskNone
  <2>2. acts' = acts + 1 /\ acts + 1 \in 0..MaxActs[page] /\ page' = page
    BY <1>4, Typed, Bounds DEF MovieInstancesChanged, TInv
  <2>3. hist' \in Hists(acts + 1)
    BY <1>4, Typed DEF MovieInstancesChanged, Hists, Excuses
  <2>4. srv' \in Servers(acts + 1) /\ GoodTimers(timers', acts + 1)
    BY <1>4, Typed, Grow, GrowTimers DEF MovieInstancesChanged
  <2>5. GoodUI(ui', cache', acts + 1) /\ GoodCache(cache', acts + 1)
    BY <1>4, Typed DEF MovieInstancesChanged
  <2> QED BY <2>1, <2>2, <2>3, <2>4, <2>5, Becomes, Typed
<1> QED BY <1>1, <1>2, <1>3, <1>4, EditsTyped, LeavesTyped, Typed
    DEF MovieClick, MovieType, MovieToken, MovieLeave, MovieDiscard

LEMMA TVTyped == ASSUME TInv, page = "tv", TVClick PROVE TInv'
<1>1. page \in Dropdown /\ page # "connection"
  BY DEF Dropdown
<1>2. ASSUME NEW k \in Range(srv.order), TVChange(k) PROVE TInv'
  <2>1. k \in Keys
    BY InOrder
  <2> QED BY <1>1, <1>2, <2>1, ChangeTyped DEF TVChange, TVLoad
<1>3. ASSUME TVSave PROVE TInv'
  BY <1>1, <1>3, SelectorSaveTyped DEF TVSave, TVBody
<1> QED BY <1>1, <1>2, <1>3, EditsTyped, LeavesTyped, Typed
    DEF TVClick, TVType, TVToken, TVLeave, TVDiscard

LEMMA ProfileTyped == ASSUME TInv, page = "profile", ProfileClick PROVE TInv'
<1>1. page # "connection"
  OBVIOUS
<1>2. ASSUME ProfileSave PROVE TInv'
  <2>1. ProfileBody \in Bodies(acts + 1)
    BY Typed, BodyTyped DEF ProfileBody, Uis
  <2>2. ui.at \in Addresses /\ "save" \in Ops
    BY Typed DEF Uis, Ops
  <2> QED BY <1>2, <2>1, <2>2, SentTyped DEF ProfileSave
<1> QED BY <1>1, <1>2, EditsTyped, LeavesTyped, Typed
    DEF ProfileClick, ProfileType, ProfileDrag, ProfileLeave, ProfileDiscard

\* An editor is opened for an entry, or for a new one.
LEMMA OpensTyped ==
    ASSUME TInv, page \in Editors, NEW at \in Addresses, NEW k \in Names,
           NEW u \in {ConnectionForm(at, k), IndexerForm(at, k)}, Opens(u, k)
    PROVE  TInv'
<1>1. u \in Uis(acts + 1) /\ u.sel = ui.sel /\ u.dialog = ui.dialog
  <2>1. ui \in Uis(acts) /\ acts \in Nat /\ ui \in Uis(acts + 1)
    BY Typed
  <2>2. ui.form + 1 \in 0..(acts + 1)
    BY <2>1 DEF Uis
  <2>3. u = [ui EXCEPT !.open = TRUE, !.form = ui.form + 1, !.at = at, !.rest = k, !.val = 0]
    BY DEF ConnectionForm, IndexerForm
  <2>4. 0 \in 0..(acts + 1)
    BY <2>1
  <2> HIDE DEF Names, Addresses, Dialogs
  <2> QED BY <2>1, <2>2, <2>3, <2>4 DEF Uis
<1>2. GoodUI(u, cache, acts + 1)
  BY <1>1, Typed DEF GoodUI, Editors, AtClick
<1> DEFINE own == IF k = None THEN {} ELSE {<<ui.form + 1, k>>}
           h == [hist EXCEPT !.owns = @ \cup own, !.typed = 0]
<1>3. h \in Hists(acts + 1)
  <2>1. hist \in Hists(acts + 1) /\ 0 \in 0..(acts + 1)
    BY Typed
  <2>2. ui.form + 1 \in 0..(acts + 1)
    BY Typed DEF Uis
  <2>3. own \in SUBSET ((0..(acts + 1)) \X Keys)
    BY <2>2 DEF Names
  <2> HIDE DEF own
  <2>4. hist.owns \cup own \in SUBSET ((0..(acts + 1)) \X Keys)
    BY <2>1, <2>3 DEF Hists
  <2> QED BY <2>1, <2>4 DEF Hists
<1>4. Acts(u, reqs, cache, h)
  BY DEF Opens
<1> HIDE DEF h
<1> QED BY <1>2, <1>3, <1>4, Typed, ActsTyped

\* A form sent, for its entry or a new one.
LEMMA PostedTyped ==
    ASSUME TInv, page \in Editors, NEW u \in {ui, [ui EXCEPT !.button = FALSE]},
           Clicks(u, Posted(reqs))
    PROVE  TInv'
<1> DEFINE op == IF ui.at = New THEN "add" ELSE "save"
<1>1. op \in Ops
  BY DEF Ops
<1>2. Body(ui.val, ui.rest, Kept, ui.form) \in Bodies(acts + 1) /\ ui.at \in Addresses
  BY Typed, BodyTyped DEF Uis
<1>3. Posted(reqs) = Ask(reqs, op, ui.at, Body(ui.val, ui.rest, Kept, ui.form))
  BY DEF Posted
<1> HIDE DEF op
<1> QED BY <1>1, <1>2, <1>3, SentTyped

\* A form closed, of which the button says nothing.
LEMMA ClosedTyped ==
    ASSUME TInv, ui' = [ui EXCEPT !.open = FALSE, !.at = New],
           UNCHANGED <<page, cache, timers, srv, reqs, hist, acts>>
    PROVE  TInv'
<1> DEFINE u == [ui EXCEPT !.open = FALSE, !.at = New]
<1>1. u \in Uis(acts) /\ u.sel = ui.sel /\ u.dialog = ui.dialog /\ ~u.open
  <2> HIDE DEF Names, Addresses, Dialogs
  <2> QED BY Typed, SomeAddresses DEF Uis
<1> HIDE DEF u
<1>2. GoodUI(u, cache, acts)
  BY <1>1, Typed DEF GoodUI
<1>3. ui' = u
  BY DEF u
<1> QED BY <1>2, <1>3, Becomes DEF TInv

LEMMA StayTyped == ASSUME TInv, Stay PROVE TInv'
<1> DEFINE u == [ui EXCEPT !.dialog = None]
<1>1. u \in Uis(acts) /\ u.sel = ui.sel /\ u.dialog = None /\ u.open = ui.open
  <2>1. None \in Dialogs
    BY DEF Dialogs
  <2> HIDE DEF Names, Addresses, Dialogs
  <2> QED BY <2>1, Typed DEF Uis
<1> HIDE DEF u
<1>2. GoodUI(u, cache, acts)
  BY <1>1, Typed DEF GoodUI
<1>3. ui' = u
  BY DEF u, Stay
<1> QED BY <1>2, <1>3, Becomes DEF TInv, Stay

LEMMA CachedKeys ==
    ASSUME TInv, page \in Editors PROVE cache \in Seq(Keys) /\ Range(cache) \subseteq Keys
<1>1. cache \in Seq(Keys)
  BY DEF TInv, GoodCache
<1> QED BY <1>1 DEF Range

LEMMA ConnectionTyped == ASSUME TInv, page = "connection", ConnectionClick PROVE TInv'
<1>1. page \in Editors
  BY DEF Editors
<1>2. ASSUME NEW k \in Keys, ConnectionOpen(k) PROVE TInv'
  BY <1>1, <1>2, OpensTyped, SomeAddresses DEF ConnectionOpen, Names
<1>3. ASSUME NEW k \in Keys, ConnectionDelete(k) PROVE TInv'
  <2> DEFINE u == [ui EXCEPT !.dialog = Of(k)]
  <2>1. u \in Uis(acts + 1) /\ u.dialog = Of(k)
    <3>1. Of(k) \in Dialogs
      BY DEF Dialogs
    <3> HIDE DEF Names, Addresses, Dialogs
    <3> QED BY <3>1, Typed DEF Uis
  <2> HIDE DEF u
  <2>2. GoodUI(u, cache, acts + 1)
    BY <2>1 DEF GoodUI, AtClick
  <2>3. Clicks(u, reqs)
    BY <1>3 DEF u, ConnectionDelete
  <2> QED BY <2>2, <2>3, Typed, ActsTyped DEF Clicks
<1>4. ASSUME ConnectionAdd PROVE TInv'
  BY <1>1, <1>4, OpensTyped, SomeAddresses DEF ConnectionAdd, Names
<1>5. ASSUME ConnectionDoDelete PROVE TInv'
  <2> DEFINE u == [ui EXCEPT !.dialog = None]
             Q == Ask(reqs, "remove", ui.dialog, NoBody)
  <2>1. u \in Uis(acts + 1) /\ u.dialog = None
    <3>1. None \in Dialogs
      BY DEF Dialogs
    <3> HIDE DEF Names, Addresses, Dialogs
    <3> QED BY <3>1, Typed DEF Uis
  <2>2. GoodUI(u, cache, acts + 1)
    <3> HIDE DEF u
    <3> QED BY <2>1 DEF GoodUI, AtClick
  <2>3. GoodRequests(Q, acts + 1)
    <3>1. ui.dialog \in {Of(k) : k \in Keys}
      BY <1>5, Typed DEF ConnectionDoDelete, GoodUI
    <3>2. ui.dialog \in Addresses /\ "remove" \in Ops
      BY <3>1, SomeAddresses DEF Ops
    <3> QED BY <3>2, Typed, AskNone
  <2>4. Clicks(u, Q)
    BY <1>5 DEF ConnectionDoDelete
  <2> HIDE DEF u, Q
  <2> QED BY <2>2, <2>3, <2>4, Typed, ActsTyped DEF Clicks
<1>6. ASSUME ConnectionClose PROVE TInv'
  BY <1>6, ClosedTyped DEF ConnectionClose
<1>7. ASSUME ConnectionSave PROVE TInv'
  BY <1>1, <1>7, PostedTyped DEF ConnectionSave
<1> QED BY <1>2, <1>3, <1>4, <1>5, <1>6, <1>7, EditsTyped
    DEF ConnectionClick, ConnectionType

LEMMA IndexerTyped == ASSUME TInv, page = "indexer", IndexerClick PROVE TInv'
<1>1. page \in Editors
  BY DEF Editors
<1>2. ASSUME NEW i \in DOMAIN cache, IndexerOpen(i) PROVE TInv'
  <2>1. cache[i] \in Keys /\ i \in Nat
    BY <1>1, <1>2, CachedKeys
  <2>2. PICK at \in {Of(cache[i]), Index(i)} : Opens(IndexerForm(at, cache[i]), cache[i])
    BY <1>2 DEF IndexerOpen
  <2>3. at \in Addresses /\ cache[i] \in Names
    BY <2>1, SomeAddresses DEF Names
  <2> QED BY <1>1, <2>2, <2>3, OpensTyped
<1>3. ASSUME IndexerAdd PROVE TInv'
  BY <1>1, <1>3, OpensTyped, SomeAddresses DEF IndexerAdd, Names
<1>4. ASSUME IndexerSave PROVE TInv'
  BY <1>1, <1>4, PostedTyped DEF IndexerSave
<1>5. ASSUME IndexerBack PROVE TInv'
  BY <1>5, ClosedTyped DEF IndexerBack
<1> QED BY <1>2, <1>3, <1>4, <1>5, EditsTyped DEF IndexerClick, IndexerType, IndexerImport

LEMMA ClickTyped == ASSUME TInv, Click PROVE TInv'
BY GeneralTyped, LogTyped, SwaparrTyped, InstanceTyped, ProwlarrTyped, MovieTyped, TVTyped,
   ProfileTyped, ConnectionTyped, IndexerTyped, StayTyped DEF Click

-----------------------------------------------------------------------------
(* The server, the answers and the timeouts keep the types.                *)

LEMMA Least ==
    ASSUME NEW T \in SUBSET Nat, T # {}
    PROVE  \E m \in T : \A n \in T : m <= n
<1> DEFINE R == {ss \in Nat \X Nat : ss[1] < ss[2]}
<1>1. R = OpToRel(<, Nat)
  BY DEF OpToRel
<1>2. \E x \in T : \A y \in T : ~(<<y, x>> \in R)
  <2>1. IsWellFoundedOn(R, Nat)
    BY <1>1, NatLessThanWellFounded
  <2> HIDE DEF R
  <2> QED BY <2>1, WFMin
<1>3. \A x, y \in Nat : <<y, x>> \in R <=> y < x
  OBVIOUS
<1> HIDE DEF R
<1>4. PICK x \in T : \A y \in T : ~(<<y, x>> \in R)
  BY <1>2
<1>5. \A y \in T : ~(y < x) /\ y \in Nat /\ x \in Nat
  BY <1>3, <1>4
<1> QED BY <1>5

LEMMA Removed ==
    ASSUME NEW S, NEW s \in Seq(S), NEW e
    PROVE  /\ RemoveFirst(s, e) \in Seq(S)
           /\ s = <<e>> => RemoveFirst(s, e) = <<>>
<1> DEFINE I == {i \in 1..Len(s) : s[i] = e}
<1>1. CASE I = {}
  BY <1>1 DEF RemoveFirst
<1>2. CASE I # {}
  <2>1. SelectInSeq(s, LAMBDA v : v = e) = Min(I)
    BY <1>2 DEF SelectInSeq
  <2>2. Min(I) \in I
    <3>1. I \in SUBSET Nat
      OBVIOUS
    <3> HIDE DEF I
    <3>2. \E m \in I : \A n \in I : m <= n
      BY <1>2, <3>1, Least
    <3> QED BY <3>2 DEF Min
  <2> DEFINE k == Min(I)
  <2>3. k \in 1..Len(s)
    BY <2>2
  <2> HIDE DEF k
  <2>4. RemoveFirst(s, e) = SubSeq(s, 1, k - 1) \o SubSeq(s, k + 1, Len(s))
    BY <1>2, <2>1 DEF RemoveFirst, RemoveAt, k
  <2>5. SubSeq(s, 1, k - 1) \in Seq(S) /\ SubSeq(s, k + 1, Len(s)) \in Seq(S)
    BY <2>3
  <2>6. ASSUME s = <<e>> PROVE SubSeq(s, 1, k - 1) = <<>> /\ SubSeq(s, k + 1, Len(s)) = <<>>
    <3>1. Len(s) = 1 /\ k = 1
      BY <2>3, <2>6
    <3> QED BY <3>1
  <2> QED BY <2>4, <2>5, <2>6
<1> QED BY <1>1, <1>2

LEMMA OnlyOne == ASSUME NEW S, S # {} PROVE Only(S) \in S
BY DEF Only

LEMMA NamedTyped ==
    ASSUME TInv, NEW at \in Addresses \cup {Of(None)}
    PROVE  /\ Named(at) \subseteq Range(srv.order) /\ Named(at) \subseteq Keys
           /\ \A k : at = Of(k) => Named(at) = {k} \cap Range(srv.order)
           /\ at.by = "index" => Named(at) = {srv.order[i] : i \in {at.i} \cap DOMAIN srv.order}
           /\ at.by = "none" => Named(at) = {}
<1>1. at.by \in {"key", "index", "none"}
  BY Addressed, Address
<1>2. srv.order \in Seq(Keys) /\ Range(srv.order) \subseteq Keys
  BY InOrder
<1>3. CASE at.by = "key"
  BY <1>2, <1>3, Address DEF Named
<1>4. CASE at.by = "index"
  BY <1>2, <1>4, Address DEF Named, Range
<1>5. CASE at.by = "none"
  BY <1>5, Address DEF Named
<1> QED BY <1>1, <1>3, <1>4, <1>5

LEMMA WrittenTyped ==
    ASSUME TInv, NEW k \in Keys, NEW b \in Bodies(acts)
    PROVE  /\ Written(k, b) \in Servers(acts) /\ Written(k, b).order = srv.order
           /\ Written(k, b).obj[k].val = b.val
           /\ Written(k, b).obj[k].other = IF b.other = Kept THEN srv.obj[k].other ELSE b.other
           /\ \A j \in Keys \ {k} : Written(k, b).obj[j] = srv.obj[j]
<1> DEFINE o == [val |-> b.val, other |-> IF b.other = Kept THEN srv.obj[k].other ELSE b.other]
<1>1. srv \in Servers(acts) /\ srv.obj \in [Keys -> [val : 0..acts, other : 0..acts]]
  BY Typed DEF Servers
<1>2. o \in [val : 0..acts, other : 0..acts]
  <2>1. srv.obj[k].other \in 0..acts /\ b.val \in 0..acts /\ b.other \in {Kept} \cup 0..acts
    BY <1>1 DEF Bodies, Others
  <2> QED BY <2>1
<1>3. Written(k, b) = [srv EXCEPT !.obj = [srv.obj EXCEPT ![k] = o]]
  BY <1>1 DEF Written, Servers
<1>4. [srv.obj EXCEPT ![k] = o] \in [Keys -> [val : 0..acts, other : 0..acts]]
  BY <1>1, <1>2
<1>5. Written(k, b).obj = [srv.obj EXCEPT ![k] = o] /\ Written(k, b).order = srv.order
      /\ Written(k, b) \in Servers(acts)
  BY <1>1, <1>3, <1>4 DEF Servers
<1>6. o.val = b.val /\ o.other = IF b.other = Kept THEN srv.obj[k].other ELSE b.other
  OBVIOUS
<1> HIDE DEF o
<1> QED BY <1>1, <1>5, <1>6

LEMMA ShownTyped ==
    ASSUME NEW a \in Nat, NEW s \in Servers(a), NEW k \in Keys
    PROVE  /\ Shown(s, k) \in Objects(a)
           /\ Shown(s, k).of = k /\ Shown(s, k).val = s.obj[k].val /\ Shown(s, k).other = s.obj[k].other
BY DEF Shown, Servers, Objects, Others, Names

LEMMA RequestTyped ==
    ASSUME TInv, NEW r \in reqs
    PROVE  /\ GoodRequest(r, acts) /\ r.op \in Ops /\ r.at \in Addresses \cup {Of(None)}
           /\ r.body \in Bodies(acts) /\ r.st \in {"sent", "done"} /\ r.ok \in BOOLEAN
           /\ page \notin Dropdown => r.at \in Addresses
<1>1. GoodRequest(r, acts)
  BY DEF TInv, GoodRequests
<1> QED BY <1>1 DEF GoodRequest

LEMMA Fields ==
    ASSUME TInv, NEW r \in reqs, NEW ok, NEW obj
    PROVE  Answered(r, ok, obj) = Ended(r) \cup
               {[n |-> r.n, op |-> r.op, at |-> r.at, body |-> r.body,
                 st |-> "done", ok |-> ok, obj |-> obj]}
<1>1. r \in [n : {r.n}, op : Ops, at : Addresses \cup {Of(None)}, body : Bodies(acts),
            st : {"sent", "done"}, ok : BOOLEAN, obj : {r.obj}]
  BY RequestTyped DEF GoodRequest
<1> DEFINE x == [r EXCEPT !.st = "done"]
           y == [x EXCEPT !.ok = ok]
<1>2. r = [n |-> r.n, op |-> r.op, at |-> r.at, body |-> r.body, st |-> r.st, ok |-> r.ok, obj |-> r.obj]
  BY <1>1
<1>3. x = [n |-> r.n, op |-> r.op, at |-> r.at, body |-> r.body, st |-> "done", ok |-> r.ok, obj |-> r.obj]
  BY <1>2
<1> HIDE DEF x
<1>4. y = [n |-> r.n, op |-> r.op, at |-> r.at, body |-> r.body, st |-> "done", ok |-> ok, obj |-> r.obj]
  BY <1>3
<1> HIDE DEF y
<1>5. [y EXCEPT !.obj = obj] = [n |-> r.n, op |-> r.op, at |-> r.at, body |-> r.body,
                                st |-> "done", ok |-> ok, obj |-> obj]
  BY <1>4
<1>6. Answered(r, ok, obj) = Ended(r) \cup {[y EXCEPT !.obj = obj]}
  BY DEF Answered, x, y
<1> QED BY <1>5, <1>6

LEMMA AnsweredTyped ==
    ASSUME TInv, NEW r \in reqs, NEW ok \in BOOLEAN, NEW obj,
           ok => IF page \in Editors
                 THEN /\ r.op \in {"load", "reload"} => obj \in Seq(Keys)
                      /\ r.op = "add" => obj \in Keys \X Nat
                 ELSE r.op \in {"load", "save"} => obj \in Objects(acts)
    PROVE  GoodRequests(Answered(r, ok, obj), acts)
<1> DEFINE q == [n |-> r.n, op |-> r.op, at |-> r.at, body |-> r.body,
                 st |-> "done", ok |-> ok, obj |-> obj]
<1>1. Answered(r, ok, obj) = Ended(r) \cup {q}
  BY Fields
<1>2. GoodRequest(q, acts)
  BY RequestTyped DEF GoodRequest, Brings
<1> HIDE DEF q
<1> QED BY <1>1, <1>2, EndedTyped DEF GoodRequests

LEMMA ServedTyped ==
    ASSUME TInv, NEW r, NEW s \in Servers(acts), NEW harm \in SUBSET Harms,
           NEW own \in SUBSET ((0..acts) \X Keys), NEW why \in SUBSET Excuses,
           Served(r, s, harm, own, why), GoodRequests(reqs', acts)
    PROVE  TInv'
<1> DEFINE late == IF \E q \in Earlier(r) : q.st = "sent" THEN {"reordered"} ELSE {}
<1>1. late \in SUBSET Excuses
  BY DEF Excuses
<1>2. hist' = [hist EXCEPT !.harm = hist.harm \cup harm, !.owns = hist.owns \cup own,
                           !.excuse = hist.excuse \cup why \cup late]
  BY DEF Served
<1> HIDE DEF late
<1>3. hist' \in Hists(acts)
  <2>1. hist \in Hists(acts)
    BY DEF TInv
  <2>2. hist.harm \cup harm \in SUBSET Harms /\ hist.owns \cup own \in SUBSET ((0..acts) \X Keys)
        /\ hist.excuse \cup why \cup late \in SUBSET Excuses
    BY <1>1, <2>1 DEF Hists
  <2> QED BY <1>2, <2>1, <2>2 DEF Hists
<1>4. page' = page /\ ui' = ui /\ cache' = cache /\ timers' = timers /\ acts' = acts /\ srv' = s
  BY DEF Served
<1> QED BY <1>3, <1>4, Becomes DEF TInv

LEMMA HarmTyped ==
    ASSUME NEW k, NEW b PROVE Harm(k, b) \in SUBSET Harms
<1>1. (IF page \notin Editors /\ b.rest # k THEN {"rest"} ELSE {}) \in SUBSET Harms
  BY DEF Harms
<1>2. (IF b.other \notin {Kept, srv.obj[k].other} THEN {"other"} ELSE {}) \in SUBSET Harms
  BY DEF Harms
<1>3. (IF page \in Editors /\ <<b.form, k>> \notin hist.owns THEN {"wrong"} ELSE {}) \in SUBSET Harms
  BY DEF Harms
<1> QED BY <1>1, <1>2, <1>3 DEF Harm

LEMMA ServeTyped ==
    ASSUME TInv, NEW r \in reqs, Serve(r)
    PROVE  TInv'
<1> DEFINE Owns == SUBSET ((0..acts) \X Keys)
<1>1. srv \in Servers(acts) /\ acts \in Nat
  BY Typed
<1>2. {} \in SUBSET Harms /\ {} \in SUBSET Excuses /\ {} \in Owns
  OBVIOUS
<1>3. ASSUME ServeLoad(r) PROVE TInv'
  <2> DEFINE K == Named(r.at)
             ok == K # {} \/ page \in Editors \/ r.op = "list"
             obj == IF page \in Editors THEN srv.order
                    ELSE IF K = {} THEN None ELSE Shown(srv, Only(K))
  <2>1. reqs' = Answered(r, ok, obj) /\ Served(r, srv, {}, {}, {})
    BY <1>3 DEF ServeLoad
  <2>2. r.op \in {"load", "reload", "list"}
    BY <1>3 DEF ServeLoad
  <2>3. K \subseteq Keys
    BY RequestTyped, NamedTyped
  <2>4. ok => IF page \in Editors
              THEN /\ r.op \in {"load", "reload"} => obj \in Seq(Keys)
                   /\ r.op = "add" => obj \in Keys \X Nat
              ELSE r.op \in {"load", "save"} => obj \in Objects(acts)
    BY <1>1, <2>2, <2>3, OnlyOne, ShownTyped, InOrder
  <2>5. ok \in BOOLEAN
    OBVIOUS
  <2> HIDE DEF ok, obj
  <2>6. GoodRequests(reqs', acts)
    BY <2>1, <2>4, <2>5, AnsweredTyped
  <2> QED BY <1>1, <1>2, <2>1, <2>6, ServedTyped
<1>4. ASSUME ServeSave(r) PROVE TInv'
  <2> DEFINE k == Only(Named(r.at))
  <2>1. k \in Keys /\ r.body \in Bodies(acts)
    <3>1. Named(r.at) \subseteq Keys /\ Named(r.at) # {}
      BY <1>4, RequestTyped, NamedTyped DEF ServeSave
    <3> QED BY <3>1, OnlyOne, RequestTyped
  <2>2. Served(r, Written(k, r.body), Harm(k, r.body), {}, {})
        /\ reqs' = Answered(r, TRUE, Shown(Written(k, r.body), k)) /\ r.op = "save"
    BY <1>4 DEF ServeSave
  <2> HIDE DEF k
  <2>3. Written(k, r.body) \in Servers(acts)
    BY <2>1, WrittenTyped
  <2>4. Shown(Written(k, r.body), k) \in Objects(acts)
    BY <1>1, <2>1, <2>3, ShownTyped
  <2>5. GoodRequests(reqs', acts)
    BY <2>2, <2>4, AnsweredTyped
  <2> QED BY <1>2, <2>2, <2>3, <2>5, HarmTyped, ServedTyped
<1>5. ASSUME ServeAdd(r) PROVE TInv'
  <2>1. PICK k \in Keys \ Range(srv.order) :
           /\ Served(r, [Written(k, r.body) EXCEPT !.order = Append(@, k)],
                     IF \E own \in hist.owns : own[1] = r.body.form THEN {"twice"} ELSE {},
                     {<<r.body.form, k>>}, {})
           /\ reqs' = Answered(r, TRUE, <<k, Len(srv.order) + 1>>)
    BY <1>5 DEF ServeAdd
  <2> DEFINE harm == IF \E own \in hist.owns : own[1] = r.body.form THEN {"twice"} ELSE {}
             w == Written(k, r.body)
             s == [w EXCEPT !.order = Append(@, k)]
  <2>2. harm \in SUBSET Harms
    BY DEF Harms
  <2>3. w \in Servers(acts)
    BY RequestTyped, WrittenTyped
  <2> HIDE DEF w
  <2>4. s \in Servers(acts)
    <3>1. w.order \in Seq(Keys)
      BY <2>3 DEF Servers
    <3>2. Append(w.order, k) \in Seq(Keys)
      BY <3>1
    <3> QED BY <2>3, <3>2 DEF Servers
  <2>5. {<<r.body.form, k>>} \in Owns
    BY RequestTyped DEF Bodies
  <2>6. GoodRequests(reqs', acts)
    <3>1. <<k, Len(srv.order) + 1>> \in Keys \X Nat /\ r.op = "add"
      BY <1>5, InOrder DEF ServeAdd
    <3> HIDE DEF s, harm
    <3>2. "add" \notin {"load", "reload"} /\ "add" \notin {"load", "save"}
      OBVIOUS
    <3> QED BY <2>1, <3>1, <3>2, AnsweredTyped
  <2> HIDE DEF s, harm
  <2>7. Served(r, s, harm, {<<r.body.form, k>>}, {})
    BY <2>1 DEF s, harm, w
  <2> QED BY <1>2, <2>2, <2>4, <2>5, <2>6, <2>7, ServedTyped
<1>6. ASSUME ServeRemove(r) PROVE TInv'
  <2> DEFINE s == [srv EXCEPT !.order = RemoveFirst(@, r.at.i)]
  <2>1. s \in Servers(acts)
    <3>1. RemoveFirst(srv.order, r.at.i) \in Seq(Keys)
      BY InOrder, Removed
    <3> QED BY <1>1, <3>1 DEF Servers
  <2>2. Served(r, s, {}, {}, {}) /\ reqs' = Answered(r, Named(r.at) # {}, None) /\ r.op = "remove"
    BY <1>6 DEF ServeRemove
  <2>3. GoodRequests(reqs', acts)
    <3> HIDE DEF s
    <3>1. (Named(r.at) # {}) \in BOOLEAN
      OBVIOUS
    <3> QED BY <2>2, <3>1, AnsweredTyped
  <2> HIDE DEF s
  <2> QED BY <1>2, <2>1, <2>2, <2>3, ServedTyped
<1>7. ASSUME ServeScores(r) \/ Refuse(r) PROVE TInv'
  <2>1. {"refused"} \in SUBSET Excuses
    BY DEF Excuses
  <2>2. Served(r, srv, {}, {}, {}) \/ Served(r, srv, {}, {}, {"refused"})
    BY <1>7 DEF ServeScores, Refuse
  <2>3. GoodRequests(reqs', acts)
    <3>1. (r.op = "scores" /\ reqs' = Answered(r, TRUE, None)) \/ reqs' = Answered(r, FALSE, None)
      BY <1>7 DEF ServeScores, Refuse
    <3> QED BY <3>1, AnsweredTyped
  <2> QED BY <1>1, <1>2, <2>1, <2>2, <2>3, ServedTyped
<1> QED BY <1>3, <1>4, <1>5, <1>6, <1>7 DEF Serve

LEMMA RemovedAt ==
    ASSUME NEW S, NEW T \in Seq(S), NEW i \in DOMAIN T
    PROVE  /\ RemoveAt(T, i) \in Seq(S) /\ Len(RemoveAt(T, i)) = Len(T) - 1
           /\ \A j \in DOMAIN RemoveAt(T, i) : \E k \in DOMAIN T : RemoveAt(T, i)[j] = T[k]
<1> DEFINE a == SubSeq(T, 1, i - 1)
           b == SubSeq(T, i + 1, Len(T))
<1>1. i \in 1..Len(T) /\ Len(T) \in Nat
  OBVIOUS
<1>2. a \in Seq(S) /\ Len(a) = i - 1 /\ \A j \in 1..(i - 1) : a[j] = T[j]
  BY <1>1
<1>3. b \in Seq(S) /\ Len(b) = Len(T) - i /\ \A j \in 1..(Len(T) - i) : b[j] = T[i + j]
  BY <1>1
<1>4. RemoveAt(T, i) = a \o b
  BY DEF RemoveAt
<1> HIDE DEF a, b
<1>5. a \o b \in Seq(S) /\ Len(a \o b) = Len(T) - 1
  BY <1>1, <1>2, <1>3
<1>6. ASSUME NEW j \in DOMAIN (a \o b) PROVE \E k \in DOMAIN T : (a \o b)[j] = T[k]
  <2>1. j \in 1..(Len(T) - 1)
    BY <1>5
  <2>2. CASE j \in 1..(i - 1)
    <3>1. (a \o b)[j] = T[j] /\ j \in DOMAIN T
      BY <1>1, <1>2, <1>3, <2>2
    <3> QED BY <3>1
  <2>3. CASE j \notin 1..(i - 1)
    <3>1. (a \o b)[j] = T[j + 1] /\ j + 1 \in DOMAIN T
      BY <1>1, <1>2, <1>3, <2>1, <2>3
    <3> QED BY <3>1
  <2> QED BY <2>2, <2>3
<1> QED BY <1>4, <1>5, <1>6

LEMMA RegeneratedTyped ==
    ASSUME NEW a \in Nat, NEW u \in Uis(a), NEW obj \in Objects(a)
    PROVE  /\ Regenerated(u, obj) \in Uis(a)
           /\ Regenerated(u, obj).sel = u.sel /\ Regenerated(u, obj).dialog = u.dialog
           /\ page \in {"general", "log_settings", "swaparr"} =>
                  Regenerated(u, obj) = Settled(Drawn(u, obj))
           /\ page \notin {"general", "log_settings", "swaparr"} => Regenerated(u, obj) = u
<1>1. /\ page \in {"general", "log_settings", "swaparr"} =>
             Regenerated(u, obj) = Settled(Drawn(u, obj))
      /\ page \notin {"general", "log_settings", "swaparr"} => Regenerated(u, obj) = u
  BY DEF Regenerated, GeneralForm, LogForm, SwaparrForm
<1>2. /\ Settled(Drawn(u, obj)) \in Uis(a) /\ Settled(Drawn(u, obj)).sel = u.sel
      /\ Settled(Drawn(u, obj)).dialog = u.dialog
  <2>1. Drawn(u, obj) \in Uis(a) /\ Drawn(u, obj).sel = u.sel /\ Drawn(u, obj).dialog = u.dialog
    BY UITyped
  <2> QED BY <2>1, UITyped
<1> QED BY <1>1, <1>2

LEMMA Brought ==
    ASSUME TInv, NEW r \in reqs, r.st = "done", r.ok
    PROVE  /\ page \notin Editors /\ r.op \in {"load", "save"} => r.obj \in Objects(acts)
           /\ page \in Editors /\ r.op \in {"load", "reload"} => r.obj \in Seq(Keys)
           /\ page \in Editors /\ r.op = "add" =>
                  r.obj[1] \in Keys /\ r.obj[2] \in Nat /\ r.obj = <<r.obj[1], r.obj[2]>>
<1>1. Brings(r, acts)
  BY RequestTyped DEF GoodRequest
<1> QED BY <1>1 DEF Brings

\* What the end of a request adds to the excuses.
LEMMA Whys == {} \in SUBSET Excuses /\ {"failed"} \in SUBSET Excuses
BY DEF Excuses

\* An end that only gives the button back, or nothing.
LEMMA PlainEnd ==
    ASSUME TInv, NEW r \in reqs, NEW Q, GoodRequests(Q, acts),
           NEW u \in {ui, [ui EXCEPT !.button = TRUE], [ui EXCEPT !.dirty = FALSE],
                      [ui EXCEPT !.mute = FALSE]},
           NEW c, c = cache \/ (page \in Editors /\ c \in Seq(Keys)),
           NEW why \in SUBSET Excuses, Handle(r, u, Q, c, timers, why)
    PROVE  TInv'
<1>1. u \in Uis(acts) /\ u.sel = ui.sel /\ u.dialog = ui.dialog /\ u.open = ui.open
  <2> HIDE DEF Names, Addresses, Dialogs
  <2> QED BY Typed DEF Uis
<1>2. GoodUI(u, c, acts) /\ GoodCache(c, acts)
  BY <1>1, Typed DEF GoodUI, GoodCache, Editors
<1> QED BY <1>2, Typed, HandleTyped

LEMMA AtClickEnds ==
    ASSUME TInv, page \in AtClick, NEW r \in reqs, AtClickAnswer(r) PROVE TInv'
<1>0. page \notin Editors /\ page # "connection" /\ acts \in Nat
  BY Typed DEF AtClick, Editors
<1>1. ASSUME SaveAppSettingsAnswer(r) PROVE TInv'
  <2> DEFINE obj == IF r.ok THEN r.obj
                    ELSE [of |-> ui.sel, val |-> r.body.val, other |-> r.body.other]
             u == IF page \in Opened THEN ui ELSE [ui EXCEPT !.open = FALSE]
             T == Append(timers, [t |-> "redraw", obj |-> obj])
  <2>1. Handle(r, u, Ended(r), obj, T, {}) /\ r.op = "save" /\ r.st = "done"
    BY <1>1 DEF SaveAppSettingsAnswer, Success, Refused
  <2>2. obj \in Objects(acts)
    <3>1. CASE r.ok
      BY <1>0, <2>1, <3>1, Brought
    <3>2. CASE ~r.ok
      BY <3>2, RequestTyped, Typed DEF Bodies, Uis, Objects
    <3> QED BY <3>1, <3>2
  <2> HIDE DEF obj
  <2>3. T \in Seq(Timers(acts))
    <3>1. [t |-> "redraw", obj |-> obj] \in Timers(acts)
      BY <2>2 DEF Timers
    <3> QED BY <3>1, Typed DEF GoodTimers
  <2>4. u \in Uis(acts) /\ u.sel = ui.sel /\ u.dialog = ui.dialog
    <3> HIDE DEF Names, Addresses, Dialogs
    <3> QED BY Typed DEF Uis
  <2> HIDE DEF u, T
  <2>5. GoodUI(u, obj, acts) /\ GoodCache(obj, acts)
    BY <1>0, <2>2, <2>4, Typed DEF GoodUI, GoodCache
  <2> QED BY <2>1, <2>3, <2>5, Whys, EndedTyped, HandleTyped DEF GoodTimers
<1>2. ASSUME SaveAppSettingsFailed(r) PROVE TInv'
  <2>1. Handle(r, [ui EXCEPT !.mute = FALSE], Ended(r), cache, timers, {"failed"})
    BY <1>2 DEF SaveAppSettingsFailed, Failure
  <2> QED BY <2>1, Whys, EndedTyped, PlainEnd
<1>3. ASSUME Success(r, "load"), Handle(r, Regenerated(ui, r.obj), Ended(r), r.obj, timers, {})
      PROVE  TInv'
  <2>1. r.obj \in Objects(acts)
    BY <1>0, <1>3, Brought DEF Success
  <2>2. Regenerated(ui, r.obj) \in Uis(acts) /\ Regenerated(ui, r.obj).sel = ui.sel
    BY <1>0, <2>1, Typed, RegeneratedTyped
  <2>3. GoodUI(Regenerated(ui, r.obj), r.obj, acts) /\ GoodCache(r.obj, acts)
    BY <1>0, <2>1, <2>2, Typed DEF GoodUI, GoodCache
  <2> QED BY <1>3, <2>3, Whys, Typed, EndedTyped, HandleTyped
<1>4. ASSUME Ignored(r, "load") \/ Dropped(r, "load") PROVE TInv'
  <2>1. Handle(r, ui, Ended(r), cache, timers, {}) \/ Handle(r, ui, Ended(r), cache, timers, {"failed"})
    BY <1>4 DEF Ignored, Dropped, Answer, Failure
  <2> QED BY <2>1, Whys, EndedTyped, PlainEnd
<1> QED BY <1>1, <1>2, <1>3, <1>4 DEF AtClickAnswer, LoadAnswer

\* The ends of the requests of a form with a selector.
LEMMA FilledTyped ==
    ASSUME TInv, page \in Dropdown, NEW r \in reqs, NEW k \in Keys,
           Answer(r, Unloaded(k), Ask(Ended(r), "load", Of(k), NoBody))
    PROVE  TInv'
<1>1. GoodRequests(Ask(Ended(r), "load", Of(k), NoBody), acts)
  BY SomeAddresses, EndedTyped, AskNone, Typed DEF Ops
<1> QED BY <1>1, UnloadedTyped, Typed, Whys, HandleTyped DEF Answer

LEMMA ShowTyped ==
    ASSUME TInv, page \in Dropdown, NEW r \in reqs, NEW obj \in Objects(acts),
           NEW why \in SUBSET Excuses,
           Handle(r, Drawn(ui, obj), Ended(r), cache, timers, why)
    PROVE  TInv'
<1>1. Drawn(ui, obj) \in Uis(acts) /\ acts \in Nat
  BY Typed, UITyped
<1>2. GoodUI(Drawn(ui, obj), cache, acts)
  BY <1>1 DEF GoodUI, Dropdown, AtClick
<1> QED BY <1>2, Typed, EndedTyped, HandleTyped

LEMMA DefaultsTyped ==
    ASSUME TInv PROVE MovieDefaults \in Objects(acts) /\ TVDefaults \in Objects(acts)
BY Typed DEF MovieDefaults, TVDefaults, Objects, Others, Names

LEMMA CleanTyped ==
    ASSUME TInv, page \in Dropdown, NEW r \in reqs, NEW u \in {Gone(ui), Settled(ui)},
           Answer(r, u, Ended(r))
    PROVE  TInv'
<1>1. u \in Uis(acts)
  BY Typed, UITyped
<1>2. GoodUI(u, cache, acts)
  BY <1>1 DEF GoodUI, Dropdown, AtClick
<1> QED BY <1>2, Typed, Whys, EndedTyped, HandleTyped DEF Answer

LEMMA MovieEnds == ASSUME TInv, page = "movie", NEW r \in reqs, MovieAnswer(r) PROVE TInv'
<1>1. page \in Dropdown /\ page \notin Editors
  BY DEF Dropdown, Editors
<1>2. ASSUME MovieInstances(r) PROVE TInv'
  <2>1. ASSUME NEW k \in Range(srv.order), Answer(r, Unloaded(k), MovieLoad(Ended(r), k)) PROVE TInv'
    BY <1>1, <2>1, InOrder, FilledTyped DEF MovieLoad
  <2>2. ASSUME Dropped(r, "list") PROVE TInv'
    BY <2>2, Whys, EndedTyped, PlainEnd DEF Dropped, Failure
  <2> QED BY <1>2, <2>1, <2>2 DEF MovieInstances
<1>3. ASSUME MovieShow(r) PROVE TInv'
  <2>1. ASSUME Success(r, "load"), Answer(r, MovieForm(ui, r.obj), Ended(r)) PROVE TInv'
    BY <1>1, <2>1, Brought, ShowTyped, Whys DEF Success, Answer, MovieForm
  <2>2. ASSUME Failure(r, "load", MovieForm(ui, MovieDefaults), Ended(r)) PROVE TInv'
    BY <1>1, <2>2, DefaultsTyped, ShowTyped, Whys DEF Failure, MovieForm
  <2> QED BY <1>3, <2>1, <2>2 DEF MovieShow
<1>4. ASSUME MovieSaved(r) PROVE TInv'
  <2>1. ASSUME Answer(r, Gone(ui), Ended(r)) PROVE TInv'
    BY <1>1, <2>1, CleanTyped
  <2>2. ASSUME Failure(r, "save", [ui EXCEPT !.button = TRUE], Ended(r)) PROVE TInv'
    BY <2>2, Whys, EndedTyped, PlainEnd DEF Failure
  <2> QED BY <1>4, <2>1, <2>2 DEF MovieSaved
<1> QED BY <1>2, <1>3, <1>4 DEF MovieAnswer

LEMMA TVEnds == ASSUME TInv, page = "tv", NEW r \in reqs, TVAnswer(r) PROVE TInv'
<1>1. page \in Dropdown /\ page \notin Editors
  BY DEF Dropdown, Editors
<1>2. ASSUME TVInstances(r) PROVE TInv'
  <2>1. ASSUME NEW k \in Range(srv.order), Answer(r, Unloaded(k), TVLoad(Ended(r), k)) PROVE TInv'
    BY <1>1, <2>1, InOrder, FilledTyped DEF TVLoad
  <2>2. ASSUME Dropped(r, "list") PROVE TInv'
    BY <2>2, Whys, EndedTyped, PlainEnd DEF Dropped, Failure
  <2> QED BY <1>2, <2>1, <2>2 DEF TVInstances
<1>3. ASSUME TVShow(r) PROVE TInv'
  <2>1. ASSUME Success(r, "load"), Answer(r, TVForm(ui, r.obj), Ended(r)) PROVE TInv'
    BY <1>1, <2>1, Brought, ShowTyped, Whys DEF Success, Answer, TVForm
  <2>2. ASSUME Failure(r, "load", TVForm(ui, TVDefaults), Ended(r)) PROVE TInv'
    BY <1>1, <2>2, DefaultsTyped, ShowTyped, Whys DEF Failure, TVForm
  <2> QED BY <1>3, <2>1, <2>2 DEF TVShow
<1>4. ASSUME TVSaved(r) PROVE TInv'
  <2>1. ASSUME Answer(r, Settled(ui), Ended(r)) PROVE TInv'
    BY <1>1, <2>1, CleanTyped
  <2>2. ASSUME Failure(r, "save", [ui EXCEPT !.button = TRUE], Ended(r)) PROVE TInv'
    BY <2>2, Whys, EndedTyped, PlainEnd DEF Failure
  <2> QED BY <1>4, <2>1, <2>2 DEF TVSaved
<1> QED BY <1>2, <1>3, <1>4 DEF TVAnswer

LEMMA ProfileEnds == ASSUME TInv, page = "profile", NEW r \in reqs, ProfileAnswer(r) PROVE TInv'
<1>1. page \notin Editors /\ page \notin Dropdown
  BY DEF Dropdown, Editors
<1>2. ASSUME ProfileOpen(r) PROVE TInv'
  <2>1. ASSUME Success(r, "load"),
               Answer(r, [ProfileForm(ui, r.obj) EXCEPT !.at = r.at], Ended(r))
        PROVE  TInv'
    <3> DEFINE v == ProfileForm(ui, r.obj)
    <3>1. v \in Uis(acts) /\ v.sel = ui.sel
      <4>1. r.obj \in Objects(acts) /\ acts \in Nat /\ ui \in Uis(acts)
        BY <1>1, <2>1, Brought, Typed DEF Success
      <4>2. Drawn(ui, r.obj) \in Uis(acts) /\ Drawn(ui, r.obj).sel = ui.sel
        BY <4>1, UITyped
      <4> QED BY <4>1, <4>2, UITyped DEF ProfileForm
    <3> HIDE DEF v
    <3> DEFINE u == [v EXCEPT !.at = r.at]
    <3>2. u \in Uis(acts) /\ u.sel = ui.sel
      <4>1. r.at \in Addresses
        BY <1>1, RequestTyped
      <4> HIDE DEF Names, Addresses, Dialogs
      <4> QED BY <3>1, <4>1 DEF Uis
    <3>3. Answer(r, u, Ended(r))
      BY <2>1 DEF v
    <3> HIDE DEF u
    <3>4. GoodUI(u, cache, acts)
      BY <3>2, Typed DEF GoodUI
    <3> QED BY <3>3, <3>4, Typed, Whys, EndedTyped, HandleTyped DEF Answer
  <2>2. ASSUME Ignored(r, "load") \/ Dropped(r, "load") PROVE TInv'
    BY <2>2, Whys, EndedTyped, PlainEnd DEF Ignored, Dropped, Failure, Answer
  <2> QED BY <1>2, <2>1, <2>2 DEF ProfileOpen
<1>3. ASSUME ProfileSaved(r) PROVE TInv'
  <2>1. GoodRequests(ProfileSaveScores(Ended(r)), acts)
    BY SomeAddresses, EndedTyped, AskNone, Typed DEF Ops, ProfileSaveScores
  <2> QED BY <1>3, <2>1, Whys, EndedTyped, PlainEnd DEF ProfileSaved, Answer, Failure
<1>4. ASSUME ProfileScoresSaved(r) PROVE TInv'
  BY <1>4, Whys, EndedTyped, PlainEnd DEF ProfileScoresSaved, Ignored, Dropped, Failure, Answer
<1> QED BY <1>2, <1>3, <1>4 DEF ProfileAnswer

\* The ends of the requests of an editor.
LEMMA NamesTyped ==
    ASSUME TInv, page \in Editors, NEW at \in Addresses, NEW r \in reqs, NEW Q,
           GoodRequests(Q, acts), Answer(r, [ui EXCEPT !.at = at], Q)
    PROVE  TInv'
<1> DEFINE u == [ui EXCEPT !.at = at]
<1>1. u \in Uis(acts) /\ u.dialog = ui.dialog
  <2> HIDE DEF Names, Addresses, Dialogs
  <2> QED BY Typed DEF Uis
<1>2. Handle(r, u, Q, cache, timers, {})
  BY DEF Answer
<1> HIDE DEF u
<1>3. GoodUI(u, cache, acts)
  BY <1>1, Typed DEF GoodUI, Editors, AtClick
<1> QED BY <1>2, <1>3, Typed, Whys, HandleTyped

LEMMA ConnectionEnds ==
    ASSUME TInv, page = "connection", NEW r \in reqs, ConnectionAnswer(r) PROVE TInv'
<1>1. page \in Editors
  BY DEF Editors
<1>2. ASSUME NEW op \in Ops
      PROVE  /\ GoodRequests(Ask(Ended(r), op, New, NoBody), acts)
             /\ GoodRequests(ConnectionsReload(Ended(r)), acts)
  BY SomeAddresses, EndedTyped, AskNone, Typed DEF Ops, ConnectionsReload
<1>3. ASSUME ConnectionsShow(r) PROVE TInv'
  BY <1>1, <1>3, Brought, Whys, EndedTyped, PlainEnd
     DEF ConnectionsShow, Success, Dropped, Failure
<1>4. ASSUME ConnectionSaved(r) PROVE TInv'
  <2>0. "reload" \in Ops
    BY DEF Ops
  <2>1. ASSUME Success(r, "add"),
               Answer(r, IF ui.at = New THEN [ui EXCEPT !.at = Of(r.obj[1])] ELSE ui,
                      ConnectionsReload(Ended(r)))
        PROVE  TInv'
    <3>1. Of(r.obj[1]) \in Addresses
      BY <1>1, <2>1, Brought, SomeAddresses DEF Success
    <3>2. CASE ui.at = New
      BY <1>1, <1>2, <2>0, <2>1, <3>1, <3>2, NamesTyped
    <3>3. CASE ui.at # New
      BY <1>1, <1>2, <2>0, <2>1, <3>3, Whys, PlainEnd DEF Answer
    <3> QED BY <3>2, <3>3
  <2>2. ASSUME Answer(r, ui, ConnectionsReload(Ended(r))) PROVE TInv'
    BY <1>2, <2>0, <2>2, Whys, PlainEnd DEF Answer
  <2>3. ASSUME NEW op, \/ Refused(r, op) /\ Answer(r, [ui EXCEPT !.button = TRUE], Ended(r))
                       \/ Failure(r, op, [ui EXCEPT !.button = TRUE], Ended(r))
        PROVE  TInv'
    BY <2>3, Whys, EndedTyped, PlainEnd DEF Answer, Failure
  <2> QED BY <1>4, <2>1, <2>2, <2>3 DEF ConnectionSaved
<1>5. ASSUME ConnectionsReloaded(r) PROVE TInv'
  BY <1>1, <1>5, Brought, Whys, EndedTyped, PlainEnd
     DEF ConnectionsReloaded, Success, Failure
<1>6. ASSUME ConnectionDeleted(r) PROVE TInv'
  <2>1. "load" \in Ops
    BY DEF Ops
  <2> QED BY <1>2, <1>6, <2>1, Whys, EndedTyped, PlainEnd
          DEF ConnectionDeleted, Answer, Ignored, Dropped, Failure
<1> QED BY <1>3, <1>4, <1>5, <1>6 DEF ConnectionAnswer

LEMMA IndexerEnds ==
    ASSUME TInv, page = "indexer", NEW r \in reqs, IndexerAnswer(r) PROVE TInv'
<1>1. page \in Editors
  BY DEF Editors
<1>2. ASSUME IndexersShow(r) PROVE TInv'
  BY <1>1, <1>2, Brought, Whys, EndedTyped, PlainEnd
     DEF IndexersShow, Success, Dropped, Failure
<1>3. ASSUME IndexerSaved(r) PROVE TInv'
  <2> DEFINE at == IF ~ui.open \/ ui.at # New THEN ui.at
                   ELSE Index(IF Success(r, "add") THEN r.obj[2] ELSE 0)
  <2>1. at \in Addresses
    <3>1. ui.at \in Addresses
      BY Typed DEF Uis
    <3>2. Success(r, "add") => r.obj[2] \in Nat
      BY <1>1, Brought DEF Success
    <3> QED BY <3>1, <3>2, SomeAddresses
  <2>2. Answer(r, [ui EXCEPT !.at = at], Ask(Ended(r), "load", New, NoBody))
        \/ Dropped(r, "add") \/ Dropped(r, "save")
    BY <1>3 DEF IndexerSaved
  <2> HIDE DEF at
  <2>3. GoodRequests(Ask(Ended(r), "load", New, NoBody), acts)
    BY SomeAddresses, EndedTyped, AskNone, Typed DEF Ops
  <2>4. ASSUME Dropped(r, "add") \/ Dropped(r, "save") PROVE TInv'
    BY <2>4, Whys, EndedTyped, PlainEnd DEF Dropped, Failure
  <2> QED BY <1>1, <2>1, <2>2, <2>3, <2>4, NamesTyped
<1> QED BY <1>2, <1>3 DEF IndexerAnswer

LEMMA EndsTyped == ASSUME TInv, NEW r \in reqs, Ends(r) PROVE TInv'
BY AtClickEnds, MovieEnds, TVEnds, ProfileEnds, ConnectionEnds, IndexerEnds DEF Ends

LEMMA FirstOne ==
    ASSUME NEW t, NEW i \in First(t) PROVE i \in DOMAIN timers /\ timers[i].t = t
BY DEF First

LEMMA TimersTyped == ASSUME TInv, Redraw \/ Listen PROVE TInv'
<1>0. acts \in Nat /\ timers \in Seq(Timers(acts))
  BY Typed DEF GoodTimers
<1>1. ASSUME Redraw PROVE TInv'
  <2>1. PICK i \in First("redraw") :
           RunOut(Regenerated(ui, timers[i].obj),
                  Append(RemoveAt(timers, i), [t |-> "listen", obj |-> None]))
    BY <1>1 DEF Redraw
  <2>2. timers[i].obj \in Objects(acts) /\ RemoveAt(timers, i) \in Seq(Timers(acts))
    <3>1. timers[i] \in Timers(acts) /\ timers[i].t = "redraw"
      BY <1>0, <2>1, FirstOne
    <3> QED BY <1>0, <2>1, <3>1, FirstOne, RemovedAt DEF Timers
  <2>3. Append(RemoveAt(timers, i), [t |-> "listen", obj |-> None]) \in Seq(Timers(acts))
    <3>1. [t |-> "listen", obj |-> None] \in Timers(acts)
      BY DEF Timers
    <3> QED BY <2>2, <3>1
  <2> DEFINE u == Regenerated(ui, timers[i].obj)
  <2>4. u \in Uis(acts) /\ u.sel = ui.sel /\ u.dialog = ui.dialog
        /\ (page \in {"instance", "prowlarr"} => u = ui)
    BY <1>0, <2>2, Typed, RegeneratedTyped
  <2>5. ui' = u
    BY <2>1 DEF RunOut
  <2> HIDE DEF u
  <2>6. GoodUI(u, cache, acts)
    BY <2>4, Typed DEF GoodUI
  <2> QED BY <2>1, <2>3, <2>5, <2>6, Becomes DEF RunOut, TInv, GoodTimers
<1>2. ASSUME Listen PROVE TInv'
  <2>1. PICK i \in First("listen") : RunOut([ui EXCEPT !.mute = FALSE], RemoveAt(timers, i))
    BY <1>2 DEF Listen
  <2>2. RemoveAt(timers, i) \in Seq(Timers(acts))
    BY <1>0, <2>1, FirstOne, RemovedAt
  <2> DEFINE u == [ui EXCEPT !.mute = FALSE]
  <2>3. u \in Uis(acts) /\ u.sel = ui.sel /\ u.dialog = ui.dialog /\ u.open = ui.open
    <3> HIDE DEF Names, Addresses, Dialogs
    <3> QED BY Typed DEF Uis
  <2>4. ui' = u
    BY <2>1 DEF RunOut
  <2> HIDE DEF u
  <2>5. GoodUI(u, cache, acts)
    BY <2>3, Typed DEF GoodUI
  <2> QED BY <2>1, <2>2, <2>4, <2>5, Becomes DEF RunOut, TInv, GoodTimers
<1> QED BY <1>1, <1>2, <1>0

LEMMA OtherTabTyped == ASSUME TInv, OtherTab PROVE TInv'
<1>1. acts \in Nat /\ srv \in Servers(acts + 1) /\ acts' = acts + 1 /\ page' = page
      /\ acts + 1 \in 0..MaxActs[page] /\ acts + 1 \in 0..(acts + 1)
  BY Typed, Grow, Bounds DEF OtherTab, TInv
<1>2. srv' \in Servers(acts + 1)
  <2>1. ASSUME NEW k \in Keys, srv' = [srv EXCEPT !.obj[k].other = acts + 1]
        PROVE  srv' \in Servers(acts + 1)
    <3> DEFINE O == [val : 0..(acts + 1), other : 0..(acts + 1)]
    <3>1. srv.obj \in [Keys -> O]
      BY <1>1 DEF Servers
    <3>2. [srv.obj[k] EXCEPT !.other = acts + 1] \in O
      BY <1>1, <3>1
    <3>3. srv' = [srv EXCEPT !.obj = [srv.obj EXCEPT ![k] = [srv.obj[k] EXCEPT !.other = acts + 1]]]
      BY <2>1
    <3> HIDE DEF O
    <3>4. [srv.obj EXCEPT ![k] = [srv.obj[k] EXCEPT !.other = acts + 1]] \in [Keys -> O]
      BY <3>1, <3>2
    <3> QED BY <1>1, <3>3, <3>4 DEF Servers, O
  <2>2. ASSUME srv.order # <<>>, srv' = [srv EXCEPT !.order = Tail(@)]
        PROVE  srv' \in Servers(acts + 1)
    <3>1. Tail(srv.order) \in Seq(Keys)
      BY <2>2, InOrder
    <3> QED BY <1>1, <2>2, <3>1 DEF Servers
  <2> QED BY <2>1, <2>2 DEF OtherTab
<1>3. hist' \in Hists(acts + 1)
  BY Typed DEF OtherTab, Hists, Excuses
<1>4. GoodTimers(timers, acts + 1)
  BY <1>1, GrowTimers, Typed
<1> QED BY <1>1, <1>2, <1>3, <1>4, Typed, Becomes DEF OtherTab

LEMMA BlankTyped ==
    ASSUME NEW k \in Names, NEW at \in Addresses
    PROVE  /\ Blank(k, at) \in Uis(0) /\ Blank(k, at).sel = k /\ ~Blank(k, at).open
           /\ Blank(k, at).dialog = None
BY DEF Blank, Uis, Others, Names, Dialogs

LEMMA InitTyped == Init => TInv
<1> SUFFICES ASSUME Init PROVE TInv
  OBVIOUS
<1>1. page \in Pages /\ acts = 0 /\ acts \in 0..MaxActs[page] /\ 0 \in 0..0
  BY Bounds DEF Init
<1>2. Stored[1] \in Names /\ None \in Names /\ Of(Stored[1]) \in Addresses /\ New \in Addresses
      /\ Index(1) \in Addresses
  BY Bounds, SomeAddresses DEF Names
<1>3. GoodUI(ui, cache, 0)
  <2> DEFINE v == Blank(None, New)
             w == [v EXCEPT !.button = TRUE]
  <2>1. /\ ui \in Uis(0) /\ ~ui.open /\ ui.dialog = None
        /\ page \in AtClick \cup {"profile"} => ui.sel = Stored[1]
    <3>1. \/ \E at \in Addresses : ui = Blank(Stored[1], at)
          \/ page \in Dropdown /\ ui = v
          \/ page \in Editors /\ ui = w
      BY <1>2 DEF Init, Entry
    <3>2. CASE \E at \in Addresses : ui = Blank(Stored[1], at)
      BY <1>2, <3>2, BlankTyped
    <3>3. v \in Uis(0) /\ ~v.open /\ v.dialog = None
      BY <1>2, BlankTyped
    <3>4. CASE page \in Dropdown /\ ui = v
      BY <3>3, <3>4 DEF Dropdown, AtClick
    <3> HIDE DEF v
    <3>5. w \in Uis(0) /\ w.open = v.open /\ w.dialog = v.dialog
      <4> HIDE DEF Names, Addresses, Dialogs
      <4> QED BY <3>3 DEF Uis
    <3>6. CASE page \in Editors /\ ui = w
      <4> HIDE DEF w
      <4> QED BY <3>3, <3>5, <3>6 DEF Editors, AtClick
    <3> QED BY <3>1, <3>2, <3>4, <3>6
  <2> QED BY <2>1 DEF GoodUI
<1>4. GoodCache(cache, 0) /\ GoodTimers(timers, 0)
  BY DEF Init, GoodCache, GoodTimers
<1>5. srv \in Servers(0) /\ hist \in Hists(0)
  <2>1. srv = [obj |-> [k \in Keys |-> [val |-> 0, other |-> 0]], order |-> Stored]
        /\ hist = [harm |-> {}, excuse |-> {}, typed |-> 0, owns |-> {}]
    BY DEF Init
  <2> QED BY <1>1, <2>1, Bounds DEF Servers, Hists
<1>6. GoodRequests(reqs, 0)
  <2>1. GoodRequests({}, 0) /\ 0 \in Nat /\ "load" \in Ops /\ "list" \in Ops
    BY DEF GoodRequests, Ops
  <2>2. \E at \in Addresses, op \in Ops : reqs = Ask({}, op, at, NoBody)
    BY <1>2, <2>1 DEF Init, Entry
  <2> QED BY <2>1, <2>2, AskNone
<1> QED BY <1>1, <1>3, <1>4, <1>5, <1>6 DEF TInv

LEMMA StepTyped == TInv /\ [Next]_vars => TInv'
<1> SUFFICES ASSUME TInv, [Next]_vars PROVE TInv'
  OBVIOUS
<1>1. CASE UNCHANGED vars
  <2>1. page' = page /\ ui' = ui /\ cache' = cache /\ timers' = timers /\ srv' = srv
        /\ reqs' = reqs /\ hist' = hist /\ acts' = acts
    BY <1>1 DEF vars
  <2> QED BY <2>1, Becomes DEF TInv
<1> QED BY <1>1, ClickTyped, ServeTyped, EndsTyped, TimersTyped, OtherTabTyped DEF Next, Network

LEMMA TypesAlways == Spec => []TInv
BY InitTyped, StepTyped, PTL DEF Spec

\* The state of each of the ten forms, and of the server, stays well typed:
\* what a form shows or sends is an edit made so far, and an entry goes by a
\* key or a position (saveAppSettings, the editors' save handlers).
THEOREM TypeCorrect == Spec => []TypeOK
<1>1. TInv => TypeOK
  <2> SUFFICES ASSUME TInv PROVE TypeOK
    OBVIOUS
  <2>1. ui \in Uis(acts) /\ acts \in 0..MaxActs[page] /\ page \in Pages
    BY Typed DEF TInv
  <2>2. ui.at.by \in {"key", "index", "none"} /\ ui.at.i \in Nat \cup Keys
    BY <2>1, Addressed DEF Uis
  <2>3. hist.harm \subseteq Harms /\ srv.order \in Seq(Keys)
        /\ srv.obj \in [Keys -> [val : 0..acts, other : 0..acts]]
        /\ (page \in Editors => cache \in Seq(Keys))
    BY DEF TInv, Hists, Servers, GoodCache
  <2> QED BY <2>1, <2>2, <2>3 DEF TypeOK, Uis, Names, Harms
<1> QED BY <1>1, TypesAlways, PTL

-----------------------------------------------------------------------------
(* The fields that are not on the form.                                    *)

\* They are as they were stored, until another page writes them, wherever a
\* form has a copy; and only the forms that save all of an object send one.
Clean(x) == x \in {Kept, 0}
CleanCache(c) == page \notin Editors /\ c # None => Clean(c.other)
CleanRequests(Q) ==
    \A r \in Q : /\ Clean(r.body.other)
                 /\ page \notin Editors /\ r.op \in {"load", "save"} /\ r.st = "done" /\ r.ok
                      => Clean(r.obj.other)
CleanTimers(T) == \A i \in DOMAIN T : T[i].t = "redraw" => Clean(T[i].obj.other)
CleanServer(s) == \A k \in Keys : s.obj[k].other = 0
Unwritten(u, c, Q, T, s) ==
    Clean(u.other) /\ CleanCache(c) /\ CleanRequests(Q) /\ CleanTimers(T) /\ CleanServer(s)
Separate(Q) == page \notin Whole => \A r \in Q : r.body.other = Kept

OInv ==
    /\ Separate(reqs)
    /\ "other" \notin hist.excuse => Unwritten(ui, cache, reqs, timers, srv)
    /\ OthersKept

LEMMA OthersBecome ==
    ASSUME page' = page, Separate(reqs'),
           "other" \notin hist'.excuse => Unwritten(ui', cache', reqs', timers', srv'),
           "other" \in hist'.harm => page \in Whole /\ "other" \in hist'.excuse
    PROVE  OInv'
BY DEF OInv, Separate, Unwritten, Clean, CleanCache, CleanRequests, CleanTimers, CleanServer, OthersKept

LEMMA OthersActs ==
    ASSUME TInv, OInv, NEW u, NEW Q, NEW c, NEW h \in Hists(acts + 1), Acts(u, Q, c, h), Separate(Q),
           Unwritten(ui, cache, reqs, timers, srv) => Clean(u.other) /\ CleanCache(c) /\ CleanRequests(Q),
           hist.excuse \subseteq h.excuse, "other" \in h.harm => "other" \in hist.harm
    PROVE  OInv'
<1>1. page' = page /\ ui' = u /\ cache' = c /\ reqs' = Q /\ timers' = timers /\ srv' = srv
  BY DEF Acts
<1>2. hist'.harm = h.harm /\ h.excuse \subseteq hist'.excuse
  BY DEF Acts, Hists
<1>3. "other" \notin hist'.excuse => Unwritten(u, c, Q, timers, srv)
  BY <1>2 DEF OInv, Unwritten
<1> QED BY <1>1, <1>2, <1>3, OthersBecome DEF OInv, OthersKept

LEMMA OthersHandle ==
    ASSUME TInv, OInv, NEW r, NEW u, NEW Q, NEW c, NEW T, NEW why,
           Handle(r, u, Q, c, T, why), Separate(Q),
           Unwritten(ui, cache, reqs, timers, srv) =>
               Clean(u.other) /\ CleanCache(c) /\ CleanRequests(Q) /\ CleanTimers(T)
    PROVE  OInv'
<1>1. page' = page /\ ui' = u /\ cache' = c /\ reqs' = Q /\ timers' = T /\ srv' = srv
  BY DEF Handle
<1>2. hist'.harm = hist.harm /\ hist.excuse \subseteq hist'.excuse
  BY Typed DEF Handle, Hists
<1>3. "other" \notin hist'.excuse => Unwritten(u, c, Q, T, srv)
  BY <1>2 DEF OInv, Unwritten
<1> QED BY <1>1, <1>2, <1>3, OthersBecome DEF OInv, OthersKept

LEMMA AskClean ==
    ASSUME NEW Q, NEW op, NEW at, NEW body
    PROVE  /\ CleanRequests(Q) /\ Clean(body.other) => CleanRequests(Ask(Q, op, at, body))
           /\ Separate(Q) /\ (page \notin Whole => body.other = Kept)
                => Separate(Ask(Q, op, at, body))
BY DEF CleanRequests, Separate, Ask

LEMMA EndedClean ==
    ASSUME NEW r
    PROVE  /\ CleanRequests(reqs) => CleanRequests(Ended(r))
           /\ Separate(reqs) => Separate(Ended(r))
BY DEF CleanRequests, Separate, Ended

LEMMA NoBodyClean == NoBody.other = Kept /\ Clean(NoBody.other)
BY DEF NoBody, Body, Clean

LEMMA BodyField ==
    ASSUME NEW v, NEW k, NEW o, NEW f
    PROVE  /\ Body(v, k, o, f).other = o /\ Body(v, k, o, f).val = v
           /\ Body(v, k, o, f).rest = k /\ Body(v, k, o, f).form = f
BY DEF Body

\* What the operators on forms do to their fields.
LEMMA Shape ==
    ASSUME NEW a \in Nat, NEW u \in Uis(a)
    PROVE  /\ Settled(u) = [u EXCEPT !.dirty = FALSE, !.button = FALSE]
           /\ Settled(u).other = u.other /\ Gone(u).other = u.other
           /\ Settled(u).rest = u.rest /\ Gone(u).rest = u.rest
           /\ Settled(u).val = u.val /\ Settled(u).at = u.at /\ Gone(u).at = u.at
           /\ Settled(u).mute = u.mute /\ Gone(u).mute = u.mute
           /\ ~Settled(u).dirty /\ ~Settled(u).button /\ ~Gone(u).dirty /\ ~Gone(u).button
<1> HIDE DEF Names, Addresses, Dialogs
<1> QED BY DEF Settled, Gone, Uis

LEMMA DrawnShape ==
    ASSUME NEW a \in Nat, NEW u \in Uis(a), NEW obj
    PROVE  LET d == Drawn(u, obj) IN
           /\ d.other = obj.other /\ d.rest = obj.of /\ d.val = obj.val /\ d.open
           /\ d.at = u.at /\ d.mute = u.mute /\ d.dirty = u.dirty /\ d.button = u.button
           /\ d.sel = u.sel /\ d.dialog = u.dialog /\ d.form = u.form
<1> HIDE DEF Names, Addresses, Dialogs
<1> QED BY DEF Drawn, Uis

LEMMA OthersEdits ==
    ASSUME TInv, OInv, NEW noticed \in BOOLEAN, Edits(noticed) PROVE OInv'
<1> DEFINE u == [ui EXCEPT !.val = acts + 1, !.dirty = @ \/ noticed, !.button = @ \/ noticed]
           h == [hist EXCEPT !.typed = acts + 1]
<1>1. Acts(u, reqs, cache, h)
  BY DEF Edits
<1>2. h \in Hists(acts + 1) /\ h.harm = hist.harm /\ h.excuse = hist.excuse
  BY Typed DEF Hists
<1>3. u.other = ui.other
  BY Typed DEF Uis
<1> HIDE DEF u, h
<1> QED BY <1>1, <1>2, <1>3, OthersActs DEF OInv, Unwritten

LEMMA ReloadClean ==
    /\ CleanRequests(reqs) => CleanRequests(Reload)
    /\ Separate(reqs) => Separate(Reload)
BY AskClean, NoBodyClean DEF Reload

LEMMA OthersLeaves ==
    ASSUME TInv, OInv, NEW Q \in {reqs, Reload}, Leaves(Gone(ui), Q) \/ Confirms(Gone(ui), Q)
    PROVE  OInv'
<1> DEFINE lost == IF Loses THEN {"lost"} ELSE {}
           h == [hist EXCEPT !.harm = @ \cup lost, !.typed = 0]
           g == [hist EXCEPT !.typed = 0]
           u == [ui EXCEPT !.dialog = "leave"]
<1>1. Acts(u, reqs, cache, hist) \/ Acts(Gone(ui), Q, cache, h) \/ Acts(Gone(ui), Q, cache, g)
  BY DEF Leaves, Confirms, Clicks
<1>2. lost \in SUBSET Harms /\ "other" \notin lost
  BY DEF Harms
<1>3. acts + 1 \in Nat /\ ui \in Uis(acts) /\ acts \in Nat /\ hist \in Hists(acts + 1)
  BY Typed
<1> HIDE DEF lost
<1>4. /\ h \in Hists(acts + 1) /\ h.harm = hist.harm \cup lost /\ h.excuse = hist.excuse
      /\ g \in Hists(acts + 1) /\ g.harm = hist.harm /\ g.excuse = hist.excuse
  <2>1. hist.harm \cup lost \in SUBSET Harms /\ 0 \in 0..(acts + 1)
    BY <1>2, <1>3 DEF Hists
  <2> QED BY <1>3, <2>1 DEF Hists
<1>5. u.other = ui.other /\ Gone(ui).other = ui.other
  BY <1>3, Shape DEF Uis
<1>6. Separate(Q) /\ (CleanRequests(reqs) => CleanRequests(Q))
  BY ReloadClean DEF OInv
<1> HIDE DEF u, h, g
<1>7. ASSUME Acts(u, reqs, cache, hist) PROVE OInv'
  BY <1>3, <1>5, <1>7, OthersActs DEF OInv, Unwritten
<1>8. ASSUME NEW k \in {h, g}, Acts(Gone(ui), Q, cache, k) PROVE OInv'
  BY <1>2, <1>4, <1>5, <1>6, <1>8, OthersActs DEF Unwritten
<1> QED BY <1>1, <1>7, <1>8

\* The save of core.js, and every other save.
LEMMA OthersSave ==
    ASSUME TInv, OInv, NEW c, NEW v, NEW k, NEW o, SaveAppSettings(Settled(ui), c, Body(v, k, o, 0)),
           page \notin Whole => o = Kept,
           Unwritten(ui, cache, reqs, timers, srv) => Clean(o) /\ CleanCache(c)
    PROVE  OInv'
<1> DEFINE u == [Settled(ui) EXCEPT !.mute = TRUE]
           Q == Ask(reqs, "save", Of(ui.sel), Body(v, k, o, 0))
<1>1. Acts(u, Q, c, hist)
  BY DEF SaveAppSettings
<1>2. u.other = ui.other
  <2>1. Settled(ui) \in Uis(acts) /\ Settled(ui).other = ui.other
    BY Typed, UITyped, Shape
  <2> QED BY <2>1 DEF Uis
<1>3. Separate(Q) /\ (CleanRequests(reqs) /\ Clean(o) => CleanRequests(Q))
  BY AskClean, BodyField DEF OInv
<1> HIDE DEF u, Q
<1> QED BY <1>1, <1>2, <1>3, Typed, OthersActs DEF Unwritten

LEMMA OthersSent ==
    ASSUME TInv, OInv, NEW op, NEW at, NEW body, body.other = Kept,
           NEW u \in {ui, [ui EXCEPT !.button = FALSE], [ui EXCEPT !.dialog = None]},
           Clicks(u, Ask(reqs, op, at, body))
    PROVE  OInv'
<1>1. u.other = ui.other
  BY Typed DEF Uis
<1>2. /\ Separate(Ask(reqs, op, at, body))
      /\ CleanRequests(reqs) => CleanRequests(Ask(reqs, op, at, body))
  BY AskClean DEF OInv, Clean
<1> QED BY <1>1, <1>2, Typed, OthersActs DEF Clicks, Unwritten

LEMMA OthersStay ==
    ASSUME TInv, OInv, page' = page, ui'.other = ui.other,
           UNCHANGED <<cache, timers, srv, reqs, hist>>
    PROVE  OInv'
BY OthersBecome DEF OInv, OthersKept, Unwritten

LEMMA OthersAtClick ==
    ASSUME TInv, OInv, page \in AtClick,
           \/ page = "general" /\ GeneralClick
           \/ page = "log_settings" /\ LogClick
           \/ page = "swaparr" /\ SwaparrClick
           \/ page = "instance" /\ InstanceClick
           \/ page = "prowlarr" /\ ProwlarrClick
    PROVE  OInv'
<1> DEFINE U == Unwritten(ui, cache, reqs, timers, srv)
<1>0. acts \in Nat /\ ui \in Uis(acts) /\ page \notin Editors
  BY Typed DEF AtClick, Editors
<1>1. ASSUME page = "general" /\ GeneralClick PROVE OInv'
  <2>1. ASSUME GeneralSave PROVE OInv'
    BY <1>1, <2>1, OthersSave DEF GeneralSave, GeneralBody, Clean, Unwritten, Whole
  <2>2. ASSUME GeneralUncollected PROVE OInv'
    <3> DEFINE u == [ui EXCEPT !.dirty = TRUE, !.button = TRUE]
               h == [hist EXCEPT !.typed = acts + 1, !.excuse = @ \cup {"uncollected"}]
    <3>1. Acts(u, reqs, cache, h)
      BY <2>2 DEF GeneralUncollected
    <3>2. h \in Hists(acts + 1) /\ h.harm = hist.harm /\ hist.excuse \subseteq h.excuse
      BY Typed DEF Hists, Excuses
    <3>3. u.other = ui.other
      BY <1>0 DEF Uis
    <3> HIDE DEF u, h
    <3> QED BY <3>1, <3>2, <3>3, OthersActs DEF OInv, Unwritten
  <2> QED BY <1>1, <2>1, <2>2, OthersEdits, OthersLeaves DEF GeneralClick, GeneralType
<1>2. ASSUME page = "log_settings" /\ LogClick PROVE OInv'
  <2>1. ASSUME LogSave PROVE OInv'
    BY <2>1, OthersSave DEF LogSave, Clean, Unwritten
  <2>2. (~ui.mute) \in BOOLEAN
    OBVIOUS
  <2> QED BY <1>2, <2>1, <2>2, OthersEdits, OthersLeaves DEF LogClick, LogType
<1>3. ASSUME page = "swaparr" /\ SwaparrClick PROVE OInv'
  <2>1. ASSUME SwaparrSave PROVE OInv'
    BY <1>3, <2>1, OthersSave DEF SwaparrSave, Unwritten, Whole
  <2>2. ASSUME SwaparrTag PROVE OInv'
    <3> DEFINE u == [ui EXCEPT !.val = acts + 1]
               h == [hist EXCEPT !.typed = acts + 1, !.excuse = @ \cup {"unnoticed"}]
    <3>1. Acts(u, reqs, cache, h)
      BY <2>2 DEF SwaparrTag
    <3>2. h \in Hists(acts + 1) /\ h.harm = hist.harm /\ hist.excuse \subseteq h.excuse
      BY Typed DEF Hists, Excuses
    <3>3. u.other = ui.other
      BY <1>0 DEF Uis
    <3> HIDE DEF u, h
    <3> QED BY <3>1, <3>2, <3>3, OthersActs DEF OInv, Unwritten
  <2> QED BY <1>3, <2>1, <2>2, OthersEdits, OthersLeaves DEF SwaparrClick, SwaparrType
<1>4. ASSUME NEW c \in {InstanceForm(ui, cache), ProwlarrForm(ui, cache)}, Clicks(c, reqs), cache # None
      PROVE  OInv'
  <2> DEFINE v == [ui EXCEPT !.form = @ + 1]
  <2>1. v \in Uis(acts + 1)
    <3>1. ui.form + 1 \in 0..(acts + 1) /\ ui \in Uis(acts + 1)
      BY Typed DEF Uis
    <3> HIDE DEF Names, Addresses, Dialogs
    <3> QED BY <3>1 DEF Uis
  <2>2. c = Settled(Drawn(v, cache))
    BY DEF InstanceForm, ProwlarrForm
  <2> HIDE DEF v
  <2>3. c.other = cache.other
    <3>1. cache \in Objects(acts + 1) /\ acts + 1 \in Nat
      BY <1>0, <1>4, Typed, Grow DEF GoodCache
    <3>2. Drawn(v, cache) \in Uis(acts + 1)
      BY <2>1, <3>1, UITyped
    <3>3. Drawn(v, cache).other = cache.other
      BY <2>1, <3>1, DrawnShape
    <3> QED BY <2>2, <3>1, <3>2, <3>3, Shape
  <2>4. U => Clean(c.other)
    BY <1>0, <1>4, <2>3 DEF Unwritten, CleanCache
  <2> QED BY <1>4, <2>4, Typed, OthersActs DEF Clicks, OInv, Unwritten
<1>5. ASSUME page \in {"instance", "prowlarr"}, ui.open,
             SaveAppSettings(Settled(ui), [cache EXCEPT !.val = ui.val],
                             Body(ui.val, ui.rest, cache.other, 0))
      PROVE  OInv'
  <2>2. cache \in Objects(acts)
    BY <1>0, <1>5, Typed DEF GoodUI
  <2>3. [cache EXCEPT !.val = ui.val].other = cache.other
    BY <2>2 DEF Objects
  <2>4. U => CleanCache([cache EXCEPT !.val = ui.val]) /\ Clean(cache.other)
    <3>1. cache # None
      BY <1>0, <2>2, Bounds
    <3> QED BY <1>0, <2>3, <3>1 DEF Unwritten, CleanCache
  <2>5. page \in Whole
    BY <1>5 DEF Whole
  <2> DEFINE c == [cache EXCEPT !.val = ui.val]
             o == cache.other
  <2>7. SaveAppSettings(Settled(ui), c, Body(ui.val, ui.rest, o, 0))
    BY <1>5
  <2> HIDE DEF c, o
  <2>8. U => Clean(o) /\ CleanCache(c)
    BY <2>4 DEF c, o
  <2> QED BY <2>5, <2>7, <2>8, OthersSave
<1>6. ASSUME page = "instance" /\ InstanceClick PROVE OInv'
  <2>1. ASSUME InstanceDelete PROVE OInv'
    <3> DEFINE u == [Drawn(ui, cache) EXCEPT !.open = FALSE, !.dialog = "delete"]
    <3>1. Clicks(u, reqs)
      BY <2>1 DEF InstanceDelete
    <3>2. u.other = cache.other
      <4>1. cache \in Objects(acts)
        BY <1>0, <2>1, Typed DEF GoodCache, InstanceDelete
      <4>2. Drawn(ui, cache) \in Uis(acts)
        BY <1>0, <4>1, UITyped
      <4>3. Drawn(ui, cache).other = cache.other
        BY <1>0, DrawnShape
      <4> QED BY <4>2, <4>3 DEF Uis
    <3>3. U => Clean(u.other)
      BY <1>0, <2>1, <3>2 DEF Unwritten, CleanCache, InstanceDelete
    <3> HIDE DEF u
    <3> QED BY <3>1, <3>3, Typed, OthersActs DEF Clicks, OInv, Unwritten
  <2>2. ASSUME InstanceDoDelete PROVE OInv'
    <3> DEFINE u == [ui EXCEPT !.dialog = None, !.mute = TRUE]
               Q == Ask(reqs, "save", Of(ui.sel), Body(acts + 1, ui.rest, ui.other, 0))
               c == [of |-> ui.rest, val |-> acts + 1, other |-> ui.other]
               h == [hist EXCEPT !.typed = acts + 1]
    <3>1. Acts(u, Q, c, h)
      BY <2>2 DEF InstanceDoDelete
    <3>2. h \in Hists(acts + 1) /\ h.harm = hist.harm /\ h.excuse = hist.excuse
      BY Typed DEF Hists
    <3>3. u.other = ui.other /\ c.other = ui.other
      BY <1>0 DEF Uis
    <3>4. Separate(Q) /\ (CleanRequests(reqs) /\ Clean(ui.other) => CleanRequests(Q))
      <4>1. page \in Whole
        BY <1>6 DEF Whole
      <4> QED BY <4>1, AskClean, BodyField DEF OInv
    <3>5. U => CleanCache(c)
      BY <3>3 DEF Unwritten, CleanCache
    <3> HIDE DEF u, Q, c, h
    <3> QED BY <3>1, <3>2, <3>3, <3>4, <3>5, OthersActs DEF Unwritten
  <2> QED BY <1>4, <1>5, <1>6, <2>1, <2>2, OthersEdits, OthersLeaves
          DEF InstanceClick, InstanceOpen, InstanceType, InstanceTag, InstanceSave,
              InstanceBack, InstanceDiscard
<1>7. ASSUME page = "prowlarr" /\ ProwlarrClick PROVE OInv'
  BY <1>4, <1>5, <1>7, OthersEdits, OthersLeaves
     DEF ProwlarrClick, ProwlarrOpen, ProwlarrType, ProwlarrSave, ProwlarrBack, ProwlarrDiscard
<1> QED BY <1>1, <1>2, <1>3, <1>6, <1>7


LEMMA OthersDropdown ==
    ASSUME TInv, OInv, page \in Dropdown,
           (page = "movie" /\ MovieClick) \/ (page = "tv" /\ TVClick)
    PROVE  OInv'
<1>1. ASSUME NEW k \in Keys,
             Acts(Unloaded(k), Ask(reqs, "load", Of(k), NoBody), cache, [hist EXCEPT !.typed = 0])
      PROVE  OInv'
  <2> DEFINE h == [hist EXCEPT !.typed = 0]
             Q == Ask(reqs, "load", Of(k), NoBody)
             u == Unloaded(k)
  <2>1. h \in Hists(acts + 1) /\ h.harm = hist.harm /\ h.excuse = hist.excuse
    BY Typed DEF Hists
  <2>2. u.other = ui.other
    <3>1. Gone(ui) \in Uis(acts) /\ Gone(ui).other = ui.other
      BY Typed, UITyped, Shape
    <3> QED BY <3>1 DEF Unloaded, Uis
  <2>3. Separate(Q) /\ (CleanRequests(reqs) => CleanRequests(Q))
    BY AskClean, NoBodyClean DEF OInv
  <2>4. Acts(u, Q, cache, h)
    BY <1>1
  <2> HIDE DEF h, Q, u
  <2> QED BY <2>1, <2>2, <2>3, <2>4, OthersActs DEF Unwritten
<1>2. ASSUME Clicks([ui EXCEPT !.button = FALSE],
                    Ask(reqs, "save", Of(ui.sel),
                        IF ui.open THEN Body(ui.val, ui.rest, Kept, 0) ELSE NoBody))
      PROVE  OInv'
  <2> DEFINE b == IF ui.open THEN Body(ui.val, ui.rest, Kept, 0) ELSE NoBody
  <2>1. b.other = Kept
    BY BodyField, NoBodyClean
  <2>2. Clicks([ui EXCEPT !.button = FALSE], Ask(reqs, "save", Of(ui.sel), b))
    BY <1>2
  <2> HIDE DEF b
  <2> QED BY <2>1, <2>2, OthersSent
<1>3. ASSUME MovieInstancesChanged PROVE OInv'
  <2>1. page' = page /\ ui' = ui /\ cache' = cache /\ timers' = timers /\ srv' = srv
        /\ reqs' = Ask(reqs, "list", New, NoBody)
        /\ hist' = [hist EXCEPT !.excuse = @ \cup {"refilled"}]
    BY <1>3 DEF MovieInstancesChanged
  <2>2. hist'.harm = hist.harm /\ hist.excuse \subseteq hist'.excuse
    BY <2>1, Typed DEF Hists
  <2>3. Separate(reqs') /\ (CleanRequests(reqs) => CleanRequests(reqs'))
    BY <2>1, AskClean, NoBodyClean DEF OInv
  <2>4. "other" \notin hist'.excuse => Unwritten(ui', cache', reqs', timers', srv')
    BY <2>1, <2>2, <2>3 DEF OInv, Unwritten
  <2> QED BY <2>1, <2>2, <2>3, <2>4, OthersBecome DEF OInv, OthersKept
<1>4. \A k \in Range(srv.order) : k \in Keys
  BY InOrder
<1>5. ASSUME page = "movie" /\ MovieClick PROVE OInv'
  BY <1>1, <1>2, <1>3, <1>4, <1>5, OthersEdits, OthersLeaves
     DEF MovieClick, MovieChange, MovieLoad, MovieType, MovieToken, MovieSave, MovieBody,
         MovieLeave, MovieDiscard
<1>6. ASSUME page = "tv" /\ TVClick PROVE OInv'
  BY <1>1, <1>2, <1>4, <1>6, OthersEdits, OthersLeaves
     DEF TVClick, TVChange, TVLoad, TVType, TVToken, TVSave, TVBody, TVLeave, TVDiscard
<1> QED BY <1>5, <1>6

LEMMA OthersProfile == ASSUME TInv, OInv, ProfileClick PROVE OInv'
<1>1. ASSUME ProfileSave PROVE OInv'
  <2>1. ProfileBody.other = Kept
    BY BodyField DEF ProfileBody
  <2>2. Clicks([ui EXCEPT !.button = FALSE], Ask(reqs, "save", ui.at, ProfileBody))
    BY <1>1 DEF ProfileSave
  <2> QED BY <2>1, <2>2, OthersSent
<1> QED BY <1>1, OthersEdits, OthersLeaves
        DEF ProfileClick, ProfileType, ProfileDrag, ProfileLeave, ProfileDiscard

LEMMA OthersEditors ==
    ASSUME TInv, OInv, page \in Editors,
           (page = "connection" /\ ConnectionClick) \/ (page = "indexer" /\ IndexerClick)
    PROVE  OInv'
<1>1. ASSUME NEW at, NEW k \in Names, NEW u \in {ConnectionForm(at, k), IndexerForm(at, k)}, Opens(u, k)
      PROVE  OInv'
  <2> DEFINE own == IF k = None THEN {} ELSE {<<ui.form + 1, k>>}
             h == [hist EXCEPT !.owns = @ \cup own, !.typed = 0]
  <2>1. Acts(u, reqs, cache, h)
    BY <1>1 DEF Opens
  <2>2. own \in SUBSET ((0..(acts + 1)) \X Keys)
    <3>1. ui.form + 1 \in 0..(acts + 1)
      BY Typed DEF Uis
    <3> QED BY <3>1 DEF Names
  <2> HIDE DEF own
  <2>3. h \in Hists(acts + 1) /\ h.harm = hist.harm /\ h.excuse = hist.excuse
    <3>1. hist \in Hists(acts + 1) /\ 0 \in 0..(acts + 1)
      BY Typed
    <3>2. hist.owns \cup own \in SUBSET ((0..(acts + 1)) \X Keys)
      BY <2>2, <3>1 DEF Hists
    <3> QED BY <3>1, <3>2 DEF Hists
  <2>4. u.other = ui.other
    BY Typed DEF ConnectionForm, IndexerForm, Uis
  <2> HIDE DEF h
  <2> QED BY <2>1, <2>3, <2>4, OthersActs DEF OInv, Unwritten
<1>2. ASSUME NEW u \in {ui, [ui EXCEPT !.button = FALSE]}, Clicks(u, Posted(reqs)) PROVE OInv'
  <2> DEFINE b == Body(ui.val, ui.rest, Kept, ui.form)
             op == IF ui.at = New THEN "add" ELSE "save"
  <2>1. b.other = Kept
    BY BodyField
  <2>2. Clicks(u, Ask(reqs, op, ui.at, b))
    BY <1>2 DEF Posted
  <2> HIDE DEF b, op
  <2> QED BY <1>2, <2>1, <2>2, OthersSent
<1>3. ASSUME ui' = [ui EXCEPT !.open = FALSE, !.at = New],
             UNCHANGED <<page, cache, timers, srv, reqs, hist, acts>>
      PROVE  OInv'
  <2>1. ui'.other = ui.other
    BY <1>3, Typed DEF Uis
  <2> QED BY <1>3, <2>1, OthersStay
<1>4. ASSUME NEW k, Clicks([ui EXCEPT !.dialog = Of(k)], reqs) PROVE OInv'
  <2>1. [ui EXCEPT !.dialog = Of(k)].other = ui.other
    BY Typed DEF Uis
  <2> QED BY <1>4, <2>1, Typed, OthersActs DEF Clicks, OInv, Unwritten
<1>5. ASSUME ConnectionDoDelete PROVE OInv'
  BY <1>5, OthersSent, NoBodyClean DEF ConnectionDoDelete
<1>6. (\A k \in Range(cache) : k \in Names) /\ None \in Names
  BY CachedKeys DEF Names
<1>7. ASSUME page = "connection", ConnectionClick PROVE OInv'
  BY <1>1, <1>2, <1>3, <1>4, <1>5, <1>6, <1>7, OthersEdits
     DEF ConnectionClick, ConnectionOpen, ConnectionDelete, ConnectionAdd, ConnectionType,
         ConnectionClose, ConnectionSave
<1>8. ASSUME page = "indexer", IndexerClick PROVE OInv'
  <2>1. ASSUME NEW i \in DOMAIN cache, IndexerOpen(i) PROVE OInv'
    <3>1. cache[i] \in Names
      BY <1>6, <2>1 DEF Range
    <3> QED BY <1>1, <2>1, <3>1 DEF IndexerOpen
  <2> QED BY <1>1, <1>2, <1>3, <1>6, <1>8, <2>1, OthersEdits
          DEF IndexerClick, IndexerAdd, IndexerType, IndexerImport, IndexerSave, IndexerBack
<1> QED BY <1>7, <1>8

LEMMA OthersClick == ASSUME TInv, OInv, Click PROVE OInv'
<1>1. ASSUME Stay PROVE OInv'
  <2>1. ui'.other = ui.other
    BY <1>1, Typed DEF Stay, Uis
  <2> QED BY <1>1, <2>1, OthersStay DEF Stay
<1> QED BY <1>1, OthersAtClick, OthersDropdown, OthersProfile, OthersEditors
        DEF Click, AtClick, Dropdown, Editors

LEMMA OthersServed ==
    ASSUME TInv, OInv, NEW r \in reqs, NEW s, NEW harm, NEW own, NEW why, NEW ok, NEW obj,
           Served(r, s, harm, own, why), reqs' = Answered(r, ok, obj),
           Unwritten(ui, cache, reqs, timers, srv) =>
               /\ CleanServer(s)
               /\ page \notin Editors /\ r.op \in {"load", "save"} /\ ok => Clean(obj.other),
           "other" \in harm => page \in Whole /\ "other" \in hist.excuse
    PROVE  OInv'
<1> DEFINE q == [n |-> r.n, op |-> r.op, at |-> r.at, body |-> r.body,
                 st |-> "done", ok |-> ok, obj |-> obj]
<1>1. reqs' = Ended(r) \cup {q}
  BY Fields
<1>2. Separate(reqs')
  BY <1>1 DEF OInv, Separate, Ended
<1>3. page' = page /\ ui' = ui /\ cache' = cache /\ timers' = timers /\ srv' = s
  BY DEF Served
<1>4. hist'.harm = hist.harm \cup harm /\ hist.excuse \subseteq hist'.excuse
  BY Typed DEF Served, Hists
<1>5. ASSUME "other" \notin hist'.excuse PROVE Unwritten(ui', cache', reqs', timers', srv')
  <2>1. Unwritten(ui, cache, reqs, timers, srv)
    BY <1>4, <1>5 DEF OInv
  <2>2. CleanRequests(Ended(r)) /\ Clean(r.body.other)
    BY <2>1, EndedClean DEF Unwritten, CleanRequests
  <2>3. CleanRequests(reqs')
    BY <1>1, <2>1, <2>2 DEF CleanRequests
  <2> QED BY <1>3, <2>1, <2>3 DEF Unwritten
<1> QED BY <1>2, <1>3, <1>4, <1>5, OthersBecome DEF OInv, OthersKept

LEMMA OthersServe == ASSUME TInv, OInv, NEW r \in reqs, Serve(r) PROVE OInv'
<1> DEFINE U == Unwritten(ui, cache, reqs, timers, srv)
<1>0. srv \in Servers(acts) /\ acts \in Nat /\ (U => CleanServer(srv))
      /\ r.at \in Addresses \cup {Of(None)} /\ r.body \in Bodies(acts)
  BY Typed, RequestTyped DEF Unwritten
<1>1. ASSUME ServeLoad(r) PROVE OInv'
  <2> DEFINE K == Named(r.at)
             ok == K # {} \/ page \in Editors \/ r.op = "list"
             obj == IF page \in Editors THEN srv.order
                    ELSE IF K = {} THEN None ELSE Shown(srv, Only(K))
  <2>1. reqs' = Answered(r, ok, obj) /\ Served(r, srv, {}, {}, {})
    BY <1>1 DEF ServeLoad
  <2>2. K \subseteq Keys
    BY <1>0, NamedTyped
  <2>3. ASSUME U, page \notin Editors, r.op \in {"load", "save"}, ok PROVE Clean(obj.other)
    <3>1. K # {} /\ Only(K) \in Keys /\ obj = Shown(srv, Only(K))
      BY <2>2, <2>3, OnlyOne
    <3>2. obj.other = srv.obj[Only(K)].other
      BY <1>0, <3>1, ShownTyped
    <3> QED BY <1>0, <2>3, <3>1, <3>2 DEF CleanServer, Clean
  <2> HIDE DEF ok, obj
  <2> QED BY <1>0, <2>1, <2>3, OthersServed
<1>2. ASSUME ServeSave(r) PROVE OInv'
  <2> DEFINE k == Only(Named(r.at))
             w == Written(k, r.body)
  <2>1. k \in Keys
    <3>1. Named(r.at) \subseteq Keys /\ Named(r.at) # {}
      BY <1>0, <1>2, NamedTyped DEF ServeSave
    <3> QED BY <3>1, OnlyOne
  <2>2. Served(r, w, Harm(k, r.body), {}, {}) /\ reqs' = Answered(r, TRUE, Shown(w, k))
    BY <1>2 DEF ServeSave
  <2> HIDE DEF k
  <2>3. /\ w \in Servers(acts)
        /\ w.obj[k].other = IF r.body.other = Kept THEN srv.obj[k].other ELSE r.body.other
        /\ \A j \in Keys \ {k} : w.obj[j] = srv.obj[j]
    BY <1>0, <2>1, WrittenTyped
  <2> HIDE DEF w
  <2>4. ASSUME U PROVE CleanServer(w) /\ Clean(Shown(w, k).other) /\ r.body.other \in {Kept, srv.obj[k].other}
    <3>1. Clean(r.body.other) /\ srv.obj[k].other = 0
      BY <1>0, <2>1, <2>4 DEF Unwritten, CleanRequests, CleanServer
    <3>2. w.obj[k].other = 0
      BY <2>3, <3>1 DEF Clean
    <3>3. CleanServer(w)
      BY <1>0, <2>3, <2>4, <3>2 DEF CleanServer
    <3>4. Shown(w, k).other = 0
      BY <1>0, <2>1, <2>3, <3>2, ShownTyped
    <3> QED BY <3>1, <3>3, <3>4 DEF Clean
  <2>5. "other" \in Harm(k, r.body) => r.body.other \notin {Kept, srv.obj[k].other}
    BY DEF Harm
  <2>6. "other" \in Harm(k, r.body) => page \in Whole /\ "other" \in hist.excuse
    BY <2>4, <2>5 DEF OInv, Separate
  <2> HIDE DEF U
  <2> QED BY <2>2, <2>4, <2>6, OthersServed DEF U
<1>3. ASSUME ServeAdd(r) PROVE OInv'
  <2>1. PICK k \in Keys \ Range(srv.order) :
           /\ Served(r, [Written(k, r.body) EXCEPT !.order = Append(@, k)],
                     IF \E own \in hist.owns : own[1] = r.body.form THEN {"twice"} ELSE {},
                     {<<r.body.form, k>>}, {})
           /\ reqs' = Answered(r, TRUE, <<k, Len(srv.order) + 1>>)
    BY <1>3 DEF ServeAdd
  <2> DEFINE harm == IF \E own \in hist.owns : own[1] = r.body.form THEN {"twice"} ELSE {}
             w == Written(k, r.body)
             s == [w EXCEPT !.order = Append(@, k)]
  <2>2. "other" \notin harm /\ r.op \notin {"load", "save"}
    BY <1>3 DEF ServeAdd
  <2>3. Served(r, s, harm, {<<r.body.form, k>>}, {})
    BY <2>1
  <2>4. /\ w \in Servers(acts)
        /\ w.obj[k].other = IF r.body.other = Kept THEN srv.obj[k].other ELSE r.body.other
        /\ \A j \in Keys \ {k} : w.obj[j] = srv.obj[j]
    BY <1>0, WrittenTyped
  <2> HIDE DEF w, harm
  <2>5. s.obj = w.obj
    BY <2>4 DEF Servers
  <2> HIDE DEF s
  <2>6. ASSUME U PROVE CleanServer(s)
    <3>1. Clean(r.body.other) /\ srv.obj[k].other = 0
      BY <1>0, <2>6 DEF Unwritten, CleanRequests, CleanServer
    <3>2. w.obj[k].other = 0
      BY <2>4, <3>1 DEF Clean
    <3> QED BY <1>0, <2>4, <2>5, <2>6, <3>2 DEF CleanServer
  <2> HIDE DEF U
  <2> QED BY <2>1, <2>2, <2>3, <2>6, OthersServed DEF U
<1>4. ASSUME ServeRemove(r) PROVE OInv'
  <2> DEFINE s == [srv EXCEPT !.order = RemoveFirst(@, r.at.i)]
             ok == Named(r.at) # {}
  <2>1. Served(r, s, {}, {}, {}) /\ reqs' = Answered(r, ok, None) /\ r.op \notin {"load", "save"}
    BY <1>4 DEF ServeRemove
  <2>2. s.obj = srv.obj
    BY <1>0 DEF Servers
  <2> HIDE DEF s, ok
  <2> QED BY <1>0, <2>1, <2>2, OthersServed DEF CleanServer
<1>5. ASSUME ServeScores(r) \/ Refuse(r) PROVE OInv'
  <2>1. Served(r, srv, {}, {}, {}) \/ Served(r, srv, {}, {}, {"refused"})
    BY <1>5 DEF ServeScores, Refuse
  <2>2. (r.op = "scores" /\ reqs' = Answered(r, TRUE, None)) \/ reqs' = Answered(r, FALSE, None)
    BY <1>5 DEF ServeScores, Refuse
  <2> HIDE DEF U
  <2> QED BY <1>0, <2>1, <2>2, OthersServed DEF U
<1> QED BY <1>1, <1>2, <1>3, <1>4, <1>5 DEF Serve

\* An end after which the form has the fields it had.
LEMMA OthersEnd ==
    ASSUME TInv, OInv, NEW r \in reqs, NEW u, u.other = ui.other, NEW Q,
           Q = Ended(r) \/ \E op, at : Q = Ask(Ended(r), op, at, NoBody),
           NEW c, c = cache \/ page \in Editors, NEW why, Handle(r, u, Q, c, timers, why)
    PROVE  OInv'
<1>1. Separate(Q) /\ (CleanRequests(reqs) => CleanRequests(Q))
  BY EndedClean, AskClean, NoBodyClean DEF OInv
<1> QED BY <1>1, OthersHandle DEF Unwritten, CleanCache

LEMMA SameOther ==
    ASSUME TInv
    PROVE  /\ \A x : [ui EXCEPT !.button = x].other = ui.other
           /\ \A x : [ui EXCEPT !.dirty = x].other = ui.other
           /\ \A x : [ui EXCEPT !.mute = x].other = ui.other
           /\ \A x : [ui EXCEPT !.open = x].other = ui.other
           /\ \A x : [ui EXCEPT !.at = x].other = ui.other
           /\ Gone(ui).other = ui.other /\ Settled(ui).other = ui.other
           /\ \A k : Unloaded(k).other = ui.other
<1>1. ui \in Uis(acts) /\ Gone(ui) \in Uis(acts) /\ Gone(ui).other = ui.other
      /\ Settled(ui).other = ui.other
  BY Typed, UITyped, Shape
<1>2. \A k : Unloaded(k).other = ui.other
  BY <1>1 DEF Unloaded, Uis
<1> QED BY <1>1, <1>2 DEF Uis

LEMMA OthersRegenerated ==
    ASSUME NEW a \in Nat, NEW u \in Uis(a), NEW obj \in Objects(a)
    PROVE  Regenerated(u, obj).other \in {u.other, obj.other}
<1>1. Drawn(u, obj) \in Uis(a)
  BY UITyped
<1>2. Drawn(u, obj).other = obj.other
  BY DrawnShape
<1>3. Settled(Drawn(u, obj)).other = obj.other
  BY <1>1, <1>2, Shape
<1> QED BY <1>3, RegeneratedTyped

LEMMA OthersAtClickEnds ==
    ASSUME TInv, OInv, page \in AtClick, NEW r \in reqs, AtClickAnswer(r) PROVE OInv'
<1> DEFINE U == Unwritten(ui, cache, reqs, timers, srv)
<1>0. page \notin Editors /\ acts \in Nat /\ ui \in Uis(acts)
  BY Typed DEF AtClick, Editors
<1>1. ASSUME SaveAppSettingsAnswer(r) PROVE OInv'
  <2> DEFINE obj == IF r.ok THEN r.obj ELSE [of |-> ui.sel, val |-> r.body.val, other |-> r.body.other]
             u == IF page \in Opened THEN ui ELSE [ui EXCEPT !.open = FALSE]
             x == [t |-> "redraw", obj |-> obj]
             T == Append(timers, x)
  <2>1. Handle(r, u, Ended(r), obj, T, {}) /\ r.op = "save" /\ r.st = "done"
    BY <1>1 DEF SaveAppSettingsAnswer, Success, Refused
  <2>2. U => Clean(obj.other)
    BY <1>0, <2>1 DEF Unwritten, CleanRequests
  <2>3. u.other = ui.other
    BY SameOther
  <2> HIDE DEF obj, u
  <2>4. U => CleanTimers(T) /\ CleanCache(obj)
    <3>1. timers \in Seq(Timers(acts)) /\ x.t = "redraw" /\ x.obj = obj
      BY Typed DEF GoodTimers
    <3> HIDE DEF x
    <3>2. \A i \in DOMAIN T : (i \in DOMAIN timers /\ T[i] = timers[i]) \/ T[i] = x
      BY <3>1
    <3> QED BY <2>2, <3>1, <3>2 DEF CleanTimers, CleanCache, Unwritten
  <2>5. Separate(Ended(r)) /\ (U => CleanRequests(Ended(r)))
    BY EndedClean DEF OInv, Unwritten
  <2>6. U => Clean(u.other)
    BY <2>3 DEF Unwritten
  <2> HIDE DEF T
  <2> QED BY <2>1, <2>4, <2>5, <2>6, OthersHandle
<1>2. ASSUME SaveAppSettingsFailed(r) PROVE OInv'
  BY <1>2, SameOther, OthersEnd DEF SaveAppSettingsFailed, Failure
<1>3. ASSUME Success(r, "load"), Handle(r, Regenerated(ui, r.obj), Ended(r), r.obj, timers, {})
      PROVE  OInv'
  <2>1. r.obj \in Objects(acts) /\ r.op = "load" /\ r.st = "done" /\ r.ok
    BY <1>0, <1>3, Brought DEF Success
  <2>2. Regenerated(ui, r.obj).other \in {ui.other, r.obj.other}
    BY <1>0, <2>1, OthersRegenerated
  <2>3. U => Clean(r.obj.other)
    BY <1>0, <2>1 DEF Unwritten, CleanRequests
  <2>4. Separate(Ended(r)) /\ (U => CleanRequests(Ended(r)))
    BY EndedClean DEF OInv, Unwritten
  <2>5. U => Clean(Regenerated(ui, r.obj).other) /\ CleanCache(r.obj) /\ CleanTimers(timers)
    BY <2>2, <2>3 DEF Unwritten, CleanCache
  <2> QED BY <1>3, <2>4, <2>5, OthersHandle
<1>4. ASSUME Ignored(r, "load") \/ Dropped(r, "load") PROVE OInv'
  BY <1>4, OthersEnd DEF Ignored, Dropped, Answer, Failure
<1> QED BY <1>1, <1>2, <1>3, <1>4 DEF AtClickAnswer, LoadAnswer

\* An answer that draws the form.
LEMMA OthersShow ==
    ASSUME TInv, OInv, NEW r \in reqs, NEW u, NEW why, Handle(r, u, Ended(r), cache, timers, why),
           Unwritten(ui, cache, reqs, timers, srv) => Clean(u.other)
    PROVE  OInv'
<1>1. Separate(Ended(r)) /\ (CleanRequests(reqs) => CleanRequests(Ended(r)))
  BY EndedClean DEF OInv
<1> QED BY <1>1, OthersHandle DEF Unwritten

LEMMA OthersDropdownEnds ==
    ASSUME TInv, OInv, page \in Dropdown, NEW r \in reqs, MovieAnswer(r) \/ TVAnswer(r) PROVE OInv'
<1> DEFINE U == Unwritten(ui, cache, reqs, timers, srv)
<1>0. page \notin Editors /\ acts \in Nat /\ ui \in Uis(acts)
  BY Typed DEF Dropdown, Editors
<1>1. ASSUME NEW k, Answer(r, Unloaded(k), Ask(Ended(r), "load", Of(k), NoBody)) PROVE OInv'
  BY <1>1, SameOther, OthersEnd DEF Answer
<1>2. ASSUME Success(r, "load"), Answer(r, Drawn(ui, r.obj), Ended(r)) PROVE OInv'
  <2>1. Drawn(ui, r.obj).other = r.obj.other
    BY <1>0, DrawnShape
  <2>2. U => Clean(r.obj.other)
    BY <1>0, <1>2 DEF Unwritten, CleanRequests, Success
  <2> QED BY <1>2, <2>1, <2>2, OthersShow DEF Answer
<1>3. ASSUME NEW obj, obj.other = 0, Failure(r, "load", Drawn(ui, obj), Ended(r)) PROVE OInv'
  <2>1. Drawn(ui, obj).other = obj.other
    BY <1>0, DrawnShape
  <2> QED BY <1>3, <2>1, OthersShow DEF Failure, Clean
<1>4. ASSUME NEW u \in {ui, Gone(ui), Settled(ui), [ui EXCEPT !.button = TRUE]}, NEW op,
             Answer(r, u, Ended(r)) \/ Failure(r, op, u, Ended(r))
      PROVE  OInv'
  BY <1>4, SameOther, OthersEnd DEF Answer, Failure
<1>5. MovieDefaults.other = 0 /\ TVDefaults.other = 0
  BY DEF MovieDefaults, TVDefaults
<1>6. ASSUME MovieAnswer(r) PROVE OInv'
  BY <1>1, <1>2, <1>3, <1>4, <1>5, <1>6
     DEF MovieAnswer, MovieInstances, MovieLoad, MovieShow, MovieForm, MovieSaved, Dropped
<1>7. ASSUME TVAnswer(r) PROVE OInv'
  BY <1>1, <1>2, <1>3, <1>4, <1>5, <1>7
     DEF TVAnswer, TVInstances, TVLoad, TVShow, TVForm, TVSaved, Dropped
<1> QED BY <1>6, <1>7

LEMMA OthersProfileEnds ==
    ASSUME TInv, OInv, page = "profile", NEW r \in reqs, ProfileAnswer(r) PROVE OInv'
<1> DEFINE U == Unwritten(ui, cache, reqs, timers, srv)
<1>0. page \notin Editors /\ acts \in Nat /\ ui \in Uis(acts)
  BY Typed DEF Editors
<1>1. ASSUME Success(r, "load"), Answer(r, [ProfileForm(ui, r.obj) EXCEPT !.at = r.at], Ended(r))
      PROVE  OInv'
  <2>1. r.obj \in Objects(acts) /\ r.op = "load" /\ r.st = "done" /\ r.ok
    BY <1>0, <1>1, Brought DEF Success
  <2>2. ProfileForm(ui, r.obj) \in Uis(acts) /\ ProfileForm(ui, r.obj).other = r.obj.other
    <3>1. Drawn(ui, r.obj) \in Uis(acts)
      BY <1>0, <2>1, UITyped
    <3>2. Drawn(ui, r.obj).other = r.obj.other
      BY <1>0, DrawnShape
    <3> QED BY <1>0, <3>1, <3>2, UITyped, Shape DEF ProfileForm
  <2> DEFINE v == ProfileForm(ui, r.obj)
             u == [v EXCEPT !.at = r.at]
  <2>3. v \in Uis(acts) /\ v.other = r.obj.other /\ Answer(r, u, Ended(r))
    BY <1>1, <2>2
  <2> HIDE DEF v
  <2>4. u.other = r.obj.other
    BY <2>3 DEF Uis
  <2>5. U => Clean(r.obj.other)
    BY <1>0, <2>1 DEF Unwritten, CleanRequests
  <2> HIDE DEF u
  <2> QED BY <2>3, <2>4, <2>5, OthersShow DEF Answer
<1>2. ASSUME NEW u \in {ui, [ui EXCEPT !.dirty = FALSE], [ui EXCEPT !.button = TRUE]}, NEW op,
             NEW Q, Q = Ended(r) \/ Q = ProfileSaveScores(Ended(r)),
             Answer(r, u, Q) \/ Failure(r, op, u, Q)
      PROVE  OInv'
  BY <1>2, SameOther, OthersEnd DEF Answer, Failure, ProfileSaveScores
<1>3. ASSUME ProfileOpen(r) PROVE OInv'
  BY <1>1, <1>2, <1>3 DEF ProfileOpen, Ignored, Dropped
<1> QED BY <1>2, <1>3 DEF ProfileAnswer, ProfileSaved, ProfileScoresSaved, Ignored, Dropped

LEMMA OthersEditorsEnds ==
    ASSUME TInv, OInv, page \in Editors, NEW r \in reqs, ConnectionAnswer(r) \/ IndexerAnswer(r)
    PROVE  OInv'
<1>1. ASSUME NEW u, u.other = ui.other, NEW op, NEW c, NEW why, NEW Q,
             Q = Ended(r) \/ \E o, at : Q = Ask(Ended(r), o, at, NoBody),
             Handle(r, u, Q, c, timers, why)
      PROVE  OInv'
  BY <1>1, OthersEnd
<1>2. ASSUME ConnectionAnswer(r) PROVE OInv'
  <2>1. ASSUME ConnectionsShow(r) \/ ConnectionsReloaded(r) \/ ConnectionDeleted(r) PROVE OInv'
    BY <1>1, <2>1, SameOther
       DEF ConnectionsShow, ConnectionsReloaded, ConnectionDeleted, Answer, Failure, Ignored, Dropped
  <2>2. ASSUME ConnectionSaved(r) PROVE OInv'
    BY <1>1, <2>2, SameOther DEF ConnectionSaved, ConnectionsReload, Answer, Failure
  <2> QED BY <1>2, <2>1, <2>2 DEF ConnectionAnswer
<1>3. ASSUME IndexerAnswer(r) PROVE OInv'
  BY <1>1, <1>3, SameOther DEF IndexerAnswer, IndexersShow, IndexerSaved, Answer, Dropped, Failure
<1> QED BY <1>2, <1>3

LEMMA OthersEnds == ASSUME TInv, OInv, NEW r \in reqs, Ends(r) PROVE OInv'
BY OthersAtClickEnds, OthersDropdownEnds, OthersProfileEnds, OthersEditorsEnds
   DEF Ends, Dropdown, Editors

LEMMA OthersTimers == ASSUME TInv, OInv, Redraw \/ Listen PROVE OInv'
<1> DEFINE U == Unwritten(ui, cache, reqs, timers, srv)
<1>0. acts \in Nat /\ timers \in Seq(Timers(acts)) /\ ui \in Uis(acts)
  BY Typed DEF GoodTimers
<1>1. ASSUME NEW i \in DOMAIN timers, NEW T,
             T = RemoveAt(timers, i) \/ T = Append(RemoveAt(timers, i), [t |-> "listen", obj |-> None])
      PROVE  CleanTimers(timers) => CleanTimers(T)
  <2> DEFINE R == RemoveAt(timers, i)
             x == [t |-> "listen", obj |-> None]
  <2>1. R \in Seq(Timers(acts)) /\ \A j \in DOMAIN R : \E k \in DOMAIN timers : R[j] = timers[k]
    BY <1>0, <1>1, RemovedAt
  <2>2. x.t = "listen" /\ (T = R \/ T = Append(R, x))
    BY <1>1
  <2> HIDE DEF R, x
  <2>3. \A j \in DOMAIN T : (\E k \in DOMAIN timers : T[j] = timers[k]) \/ T[j] = x
    BY <2>1, <2>2
  <2> QED BY <2>2, <2>3 DEF CleanTimers
<1>2. ASSUME NEW u, NEW T, RunOut(u, T), U => Clean(u.other) /\ CleanTimers(T) PROVE OInv'
  BY <1>2, OthersBecome DEF RunOut, OInv, OthersKept, Unwritten
<1>3. ASSUME Redraw PROVE OInv'
  <2>1. PICK i \in First("redraw") :
           RunOut(Regenerated(ui, timers[i].obj),
                  Append(RemoveAt(timers, i), [t |-> "listen", obj |-> None]))
    BY <1>3 DEF Redraw
  <2>2. i \in DOMAIN timers /\ timers[i].t = "redraw" /\ timers[i].obj \in Objects(acts)
    <3>1. i \in DOMAIN timers /\ timers[i].t = "redraw"
      BY <2>1, FirstOne
    <3> QED BY <3>1, Typed DEF GoodTimers, Timers
  <2>3. Regenerated(ui, timers[i].obj).other \in {ui.other, timers[i].obj.other}
    BY <1>0, <2>2, OthersRegenerated
  <2>4. U => Clean(Regenerated(ui, timers[i].obj).other)
    BY <2>2, <2>3 DEF Unwritten, CleanTimers
  <2>5. U => CleanTimers(Append(RemoveAt(timers, i), [t |-> "listen", obj |-> None]))
    BY <1>1, <2>2 DEF Unwritten
  <2> HIDE DEF U
  <2> QED BY <1>2, <2>1, <2>4, <2>5
<1>4. ASSUME Listen PROVE OInv'
  <2>1. PICK i \in First("listen") : RunOut([ui EXCEPT !.mute = FALSE], RemoveAt(timers, i))
    BY <1>4 DEF Listen
  <2>2. U => Clean([ui EXCEPT !.mute = FALSE].other) /\ CleanTimers(RemoveAt(timers, i))
    BY <1>1, <2>1, FirstOne, SameOther DEF Unwritten
  <2> HIDE DEF U
  <2> QED BY <1>2, <2>1, <2>2
<1> QED BY <1>3, <1>4

LEMMA OthersTab == ASSUME TInv, OInv, OtherTab PROVE OInv'
<1>1. hist'.excuse = hist.excuse \cup {"other"} /\ hist'.harm = hist.harm
      /\ page' = page /\ reqs' = reqs
  BY Typed DEF OtherTab, Hists
<1> QED BY <1>1, OthersBecome DEF OInv, OthersKept

LEMMA OthersInit == Init => OInv
<1> SUFFICES ASSUME Init PROVE OInv
  OBVIOUS
<1>1. hist.harm = {} /\ cache \in {None, <<>>} /\ timers = <<>> /\ CleanServer(srv)
      /\ (page \notin Editors => cache = None)
  BY DEF Init, CleanServer
<1>2. Clean(ui.other)
  BY DEF Init, Entry, Blank, Clean
<1>3. Separate(reqs) /\ CleanRequests(reqs)
  <2>1. Separate({}) /\ CleanRequests({})
    BY DEF Separate, CleanRequests
  <2> QED BY <2>1, AskClean, NoBodyClean DEF Init, Entry
<1> QED BY <1>1, <1>2, <1>3 DEF OInv, Unwritten, OthersKept, CleanCache, CleanTimers

LEMMA OthersStep == TInv /\ OInv /\ [Next]_vars => OInv'
<1> SUFFICES ASSUME TInv, OInv, [Next]_vars PROVE OInv'
  OBVIOUS
<1>1. CASE UNCHANGED vars
  BY <1>1, OthersStay DEF vars
<1> QED BY <1>1, OthersClick, OthersServe, OthersEnds, OthersTimers, OthersTab DEF Next, Network

\* A save never undoes what another page wrote to fields that are not on the
\* form, but where the form sends the whole object and another page wrote
\* since: swaparr.js and instance-editor.js send back the object they read,
\* the other saves only the fields of the form.
THEOREM OthersAreKept == Spec => []OthersKept
<1>1. Init => TInv /\ OInv
  BY InitTyped, OthersInit
<1>2. TInv /\ OInv /\ [Next]_vars => TInv' /\ OInv'
  BY StepTyped, OthersStep
<1>3. OInv => OthersKept
  BY DEF OInv
<1> QED BY <1>1, <1>2, <1>3, PTL DEF Spec

-----------------------------------------------------------------------------
(* The last edit, and the object it is stored in.                          *)

Alone(Q) == \A q, r \in Q : q = r
Has(s, k, v) == v = 0 \/ s.obj[k].val = v

\* Forms that save at the click (S: the key).  What such a form draws is always
\* of its own object ...
ClickUi(S, u, c) ==
    /\ u.sel = S
    /\ u.open \/ u.dialog = "delete" => u.rest = S
    /\ u.dialog = "delete" => page = "instance"
    /\ c # None => c.of = S
ClickSent(S, Q) ==
    \A r \in Q : /\ r.op \in {"load", "save"} /\ r.at = Of(S)
                 /\ r.op = "save" => r.body.rest = S
                 /\ r.st = "done" /\ r.ok => r.obj.of = S
ClickTimers(S, T) == \A i \in DOMAIN T : T[i].t = "redraw" => T[i].obj.of = S
\* ... and, for a user who waits, one thing is under way at a time, and the
\* last edit (v) is on the form, on its way, or stored.
ClickHas(S, u, Q, T, s, v) ==
    /\ Alone(Q) /\ (T # <<>> => Q = {} /\ Len(T) = 1)
    /\ T = <<>> /\ (\A r \in Q : r.op # "save") => ~u.mute
    /\ u.button <=> u.dirty
    /\ u.dialog = "delete" => ~u.open
    /\ u.dirty => Q = {} /\ T = <<>> /\ u.open /\ u.val = v
    /\ ~u.dirty => Has(s, S, v) \/ \E r \in Q : r.op = "save" /\ r.st = "sent"
    /\ \A r \in Q : r.op = "save" => IF r.st = "sent" THEN r.body.val = v ELSE r.ok
CInv ==
    page \in AtClick =>
        /\ ClickUi(Stored[1], ui, cache) /\ ClickSent(Stored[1], reqs)
        /\ ClickTimers(Stored[1], timers) /\ srv.order = Stored
        /\ hist.harm \cap {"rest", "wrong", "twice"} = {}
        /\ hist.excuse \subseteq {"other"} =>
               ClickHas(Stored[1], ui, reqs, timers, srv, hist.typed) /\ "lost" \notin hist.harm

\* A profile: the same, unless it goes by its position and another page
\* removed profiles (H: the excuses).  Its changes stay until the answer.
ProfileUi(S, u) == u.sel = S /\ u.at \in {Of(S), Index(1)} /\ u.dialog \in {None, "leave"}
ProfileSent(u, Q) ==
    \A r \in Q : /\ r.op \in {"load", "save", "scores"}
                 /\ r.op \in {"load", "save"} => r.at = u.at
ProfileOwn(S, u, Q) ==
    /\ u.open => u.rest = S
    /\ \A r \in Q : /\ r.op = "save" => r.body.rest = S
                    /\ r.op = "load" /\ r.st = "done" /\ r.ok => r.obj.of = S
ProfileCopes(u) ==
    {"failed", "reordered", "refused"} \cup (IF u.at.by = "key" THEN {"other"} ELSE {})
ProfileHas(S, u, Q, s, v) ==
    /\ Alone(Q)
    /\ u.button => u.dirty
    /\ u.dirty => u.open /\ u.val = v
    /\ ~u.dirty => Has(s, S, v)
    /\ \A r \in Q : /\ r.op # "save" => ~u.dirty
                    /\ r.op = "load" => ~u.open
                    /\ r.op = "save" => u.dirty /\ ~u.button
                    /\ r.op = "save" /\ r.st = "sent" => r.body.val = v
                    /\ r.op = "save" /\ r.st = "done" /\ r.ok => s.obj[S].val = v
PInv ==
    page = "profile" =>
        /\ ProfileUi(Stored[1], ui) /\ ProfileSent(ui, reqs) /\ timers = <<>>
        /\ "other" \notin hist.excuse => srv.order = Stored
        /\ ui.at = Of(Stored[1]) \/ "other" \notin hist.excuse => ProfileOwn(Stored[1], ui, reqs)
        /\ hist.harm \cap {"wrong", "twice"} = {}
        /\ "rest" \in hist.harm => "other" \in hist.excuse
        /\ hist.excuse \subseteq ProfileCopes(ui) =>
               ProfileHas(Stored[1], ui, reqs, srv, hist.typed) /\ "lost" \notin hist.harm

\* A form with a selector: it is of what is selected, for a user who waits
\* while nothing fails; its changes stay until the answer.
SelectedOf(u, Q, T, s) ==
    /\ s.order = Stored /\ T = <<>>
    /\ \A r \in Q : r.op \in {"list", "load", "save"}
    /\ u.dialog \in {None, "leave"}
SelectorOf(u, Q) ==
    /\ Alone(Q)
    /\ u.sel = None => ~u.open
    /\ u.button => u.open
    /\ u.open => u.rest = u.sel
    /\ \A r \in Q : /\ r.op = "list" => u.sel = None /\ ~u.open
                    /\ r.op = "load" => u.sel # None /\ ~u.open /\ r.at = Of(u.sel)
                    /\ r.op = "save" => r.at = Of(u.sel) /\ r.body.rest = u.sel
                    /\ r.op = "load" /\ r.st = "done" /\ r.ok => r.obj.of = u.sel
SelectorHas(u, Q, s, v) ==
    /\ Alone(Q)
    /\ u.sel = None => ~u.open /\ v = 0
    /\ u.button => u.dirty
    /\ u.dirty => u.open /\ u.val = v
    /\ u.sel # None /\ ~u.dirty => Has(s, u.sel, v)
    /\ \A r \in Q : /\ r.op # "save" => ~u.dirty /\ ~u.open /\ v = 0
                    /\ r.op = "list" => u.sel = None
                    /\ r.op = "load" => u.sel # None
                    /\ r.op = "save" => u.dirty /\ r.at = Of(u.sel)
                    /\ r.op = "save" /\ r.st = "sent" => r.body.val = v
                    /\ r.op = "save" /\ r.st = "done" => r.ok /\ s.obj[u.sel].val = v
Uneven == {"failed", "hasty", "refilled"}
SInv ==
    page \in Dropdown =>
        /\ SelectedOf(ui, reqs, timers, srv)
        /\ hist.harm \cap {"wrong", "twice"} = {}
        /\ hist.excuse \cap Uneven = {} => SelectorOf(ui, reqs) /\ "rest" \notin hist.harm
        /\ hist.excuse \subseteq Copes =>
               SelectorHas(ui, reqs, srv, hist.typed) /\ "lost" \notin hist.harm

\* Editors: the address under edit, and that of a save, is of an entry of the
\* form; a position is that of the same entry in the list and on the server.
\* (O: whose entry is whose.)
Prefix(c, s) == \A i \in DOMAIN c : i \in DOMAIN s.order /\ c[i] = s.order[i]
OwnAt(f, at, s, O) ==
    /\ at.by = "key" => <<f, at.i>> \in O
    /\ at.by = "index" => at.i = 0 \/ (at.i \in DOMAIN s.order /\ <<f, s.order[at.i]>> \in O)
EditorOf(u, Q, T) ==
    /\ T = <<>>
    /\ page = "connection" =>
         /\ u.at.by \in {"key", "none"}
         /\ \A r \in Q : /\ r.op \in {"load", "reload", "save", "add", "remove"}
                         /\ r.op \in {"save", "remove"} => r.at.by = "key"
    /\ page = "indexer" => \A r \in Q : r.op \in {"load", "save", "add"}
    /\ \A r \in Q : r.op = "save" => r.at # New
EditorOwns(u, c, Q, s, O) ==
    /\ Alone(Q)
    /\ \A o \in O : o[1] <= u.form
    /\ \A r \in Q : r.op \in {"save", "add"} => r.body.form = u.form
    /\ OwnAt(u.form, u.at, s, O)
    /\ \A r \in Q : /\ r.op = "save" => OwnAt(u.form, r.at, s, O)
                    /\ r.op = "add" /\ r.st = "done" /\ r.ok => <<u.form, r.obj[1]>> \in O
    /\ page = "indexer" =>
         /\ Prefix(c, s)
         /\ \A r \in Q : r.st = "done" /\ r.ok =>
                /\ r.op = "load" => Prefix(r.obj, s)
                /\ r.op = "add" => r.obj[2] \in DOMAIN s.order /\ s.order[r.obj[2]] = r.obj[1]
Unowned(f, O) == \A o \in O : o[1] # f
EditorOnce(u, Q, O) ==
    /\ \A r \in Q : r.op = "add" /\ (r.st = "sent" \/ ~r.ok) => Unowned(r.body.form, O)
    /\ u.open /\ u.at = New /\ (\A r \in Q : r.op # "add") => Unowned(u.form, O)
Astray == {"hasty", "failed", "other"}
Wrong(H) == IF page = "connection" THEN "hasty" \in H ELSE H \cap Astray # {}
EInv ==
    page \in Editors =>
        /\ EditorOf(ui, reqs, timers)
        /\ hist.harm \cap {"lost", "rest"} = {}
        /\ ~Wrong(hist.excuse) =>
               EditorOwns(ui, cache, reqs, srv, hist.owns) /\ "wrong" \notin hist.harm
        /\ hist.excuse \cap Astray = {} =>
               EditorOnce(ui, reqs, hist.owns) /\ "twice" \notin hist.harm

\* What operations on sets of requests and on forms do to the parts.
LEMMA Asked ==
    ASSUME NEW Q, NEW op, NEW at, NEW body
    PROVE  \E q : /\ Ask(Q, op, at, body) = Q \cup {q}
                  /\ q.op = op /\ q.at = at /\ q.body = body /\ q.st = "sent" /\ ~q.ok
<1> DEFINE q == [n |-> Next1(Q), op |-> op, at |-> at, body |-> body,
                 st |-> "sent", ok |-> FALSE, obj |-> None]
<1>1. Ask(Q, op, at, body) = Q \cup {q}
  BY DEF Ask
<1>2. q.op = op /\ q.at = at /\ q.body = body /\ q.st = "sent" /\ ~q.ok
  OBVIOUS
<1> HIDE DEF q
<1> QED BY <1>1, <1>2

LEMMA Given ==
    ASSUME TInv, NEW r \in reqs, NEW ok, NEW obj
    PROVE  \E q : /\ Answered(r, ok, obj) = Ended(r) \cup {q}
                  /\ q.op = r.op /\ q.at = r.at /\ q.body = r.body /\ q.st = "done"
                  /\ q.ok = ok /\ q.obj = obj
<1> DEFINE q == [n |-> r.n, op |-> r.op, at |-> r.at, body |-> r.body,
                 st |-> "done", ok |-> ok, obj |-> obj]
<1>1. Answered(r, ok, obj) = Ended(r) \cup {q}
  BY Fields
<1>2. q.op = r.op /\ q.at = r.at /\ q.body = r.body /\ q.st = "done" /\ q.ok = ok /\ q.obj = obj
  OBVIOUS
<1> HIDE DEF q
<1> QED BY <1>1, <1>2

LEMMA AloneEnded ==
    ASSUME Alone(reqs), NEW r \in reqs PROVE Ended(r) = {} /\ reqs = {r}
BY DEF Alone, Ended

LEMMA EndedWithin == ASSUME NEW r PROVE Ended(r) \subseteq reqs
BY DEF Ended

LEMMA AloneOne == Alone({}) /\ \A q : Alone({q})
BY DEF Alone

LEMMA Settles ==
    ASSUME NEW a \in Nat, NEW u \in Uis(a)
    PROVE  /\ Settled(u) \in Uis(a) /\ Gone(u) \in Uis(a)
           /\ Settled(u).sel = u.sel /\ Gone(u).sel = u.sel
           /\ Settled(u).at = u.at /\ Gone(u).at = u.at
           /\ Settled(u).rest = u.rest /\ Settled(u).val = u.val
           /\ Settled(u).mute = u.mute /\ Gone(u).mute = u.mute
           /\ Settled(u).open = u.open /\ ~Gone(u).open
           /\ Settled(u).dialog = u.dialog /\ Gone(u).dialog = None
           /\ ~Settled(u).dirty /\ ~Settled(u).button /\ ~Gone(u).dirty /\ ~Gone(u).button
BY UITyped, Shape

LEMMA Draws ==
    ASSUME NEW a \in Nat, NEW u \in Uis(a), NEW obj \in Objects(a)
    PROVE  /\ Drawn(u, obj) \in Uis(a) /\ Drawn(u, obj).open
           /\ Drawn(u, obj).sel = u.sel /\ Drawn(u, obj).at = u.at
           /\ Drawn(u, obj).rest = obj.of /\ Drawn(u, obj).val = obj.val
           /\ Drawn(u, obj).mute = u.mute /\ Drawn(u, obj).dialog = u.dialog
           /\ Drawn(u, obj).dirty = u.dirty /\ Drawn(u, obj).button = u.button
BY UITyped, DrawnShape

\* What a form drawn from an object is like.
LEMMA DrawsClean ==
    ASSUME NEW a \in Nat, NEW u \in Uis(a), NEW obj \in Objects(a)
    PROVE  LET v == Settled(Drawn(u, obj)) IN
           /\ v \in Uis(a) /\ v.open /\ v.sel = u.sel /\ v.at = u.at
           /\ v.rest = obj.of /\ v.val = obj.val /\ v.mute = u.mute /\ v.dialog = u.dialog
           /\ ~v.dirty /\ ~v.button
<1>1. Drawn(u, obj) \in Uis(a) /\ Drawn(u, obj).open /\ Drawn(u, obj).sel = u.sel
      /\ Drawn(u, obj).at = u.at /\ Drawn(u, obj).rest = obj.of /\ Drawn(u, obj).val = obj.val
      /\ Drawn(u, obj).mute = u.mute /\ Drawn(u, obj).dialog = u.dialog
  BY Draws
<1> QED BY <1>1, Settles

\* What operations and ends do to the history.
LEMMA ActsHist ==
    ASSUME TInv, NEW u, NEW Q, NEW c, NEW h \in Hists(acts + 1), Acts(u, Q, c, h)
    PROVE  /\ page' = page /\ ui' = u /\ reqs' = Q /\ cache' = c /\ timers' = timers /\ srv' = srv
           /\ hist'.harm = h.harm /\ hist'.typed = h.typed /\ hist'.owns = h.owns
           /\ h.excuse \subseteq hist'.excuse
           /\ "hasty" \notin hist'.excuse => reqs = {} /\ timers = <<>>
BY DEF Acts, Hists, Busy

LEMMA HandleHist ==
    ASSUME TInv, NEW r, NEW u, NEW Q, NEW c, NEW T, NEW why, Handle(r, u, Q, c, T, why)
    PROVE  /\ page' = page /\ ui' = u /\ reqs' = Q /\ cache' = c /\ timers' = T /\ srv' = srv
           /\ hist'.harm = hist.harm /\ hist'.typed = hist.typed /\ hist'.owns = hist.owns
           /\ hist.excuse \cup why \subseteq hist'.excuse
BY Typed DEF Handle, Hists

LEMMA ServedHist ==
    ASSUME TInv, NEW r, NEW s, NEW harm, NEW own, NEW why, Served(r, s, harm, own, why)
    PROVE  /\ page' = page /\ ui' = ui /\ cache' = cache /\ timers' = timers /\ srv' = s
           /\ hist'.harm = hist.harm \cup harm /\ hist'.typed = hist.typed
           /\ hist'.owns = hist.owns \cup own
           /\ hist.excuse \cup why \subseteq hist'.excuse
BY Typed DEF Served, Hists

LEMMA HistWith ==
    ASSUME TInv
    PROVE  /\ LET h == [hist EXCEPT !.typed = acts + 1] IN
              h \in Hists(acts + 1) /\ h.harm = hist.harm /\ h.excuse = hist.excuse
              /\ h.owns = hist.owns /\ h.typed = acts + 1
           /\ LET h == [hist EXCEPT !.typed = 0] IN
              h \in Hists(acts + 1) /\ h.harm = hist.harm /\ h.excuse = hist.excuse
              /\ h.owns = hist.owns /\ h.typed = 0
           /\ LET h == [hist EXCEPT !.typed = acts + 1, !.excuse = @ \cup {"unnoticed"}] IN
              h \in Hists(acts + 1) /\ h.harm = hist.harm /\ h.excuse = hist.excuse \cup {"unnoticed"}
              /\ h.owns = hist.owns /\ h.typed = acts + 1
           /\ LET h == [hist EXCEPT !.harm = @ \cup (IF Loses THEN {"lost"} ELSE {}), !.typed = 0] IN
              h \in Hists(acts + 1) /\ h.harm = hist.harm \cup (IF Loses THEN {"lost"} ELSE {})
              /\ h.excuse = hist.excuse /\ h.owns = hist.owns /\ h.typed = 0
<1>1. hist \in Hists(acts + 1) /\ acts + 1 \in 0..(acts + 1) /\ 0 \in 0..(acts + 1)
  BY Typed
<1>2. hist.harm \cup (IF Loses THEN {"lost"} ELSE {}) \in SUBSET Harms
      /\ hist.excuse \cup {"unnoticed"} \in SUBSET Excuses
  BY <1>1 DEF Hists, Harms, Excuses
<1>3. LET h == [hist EXCEPT !.typed = acts + 1] IN
      h \in Hists(acts + 1) /\ h.harm = hist.harm /\ h.excuse = hist.excuse
      /\ h.owns = hist.owns /\ h.typed = acts + 1
  BY <1>1 DEF Hists
<1>4. LET h == [hist EXCEPT !.typed = 0] IN
      h \in Hists(acts + 1) /\ h.harm = hist.harm /\ h.excuse = hist.excuse
      /\ h.owns = hist.owns /\ h.typed = 0
  BY <1>1 DEF Hists
<1>5. LET h == [hist EXCEPT !.typed = acts + 1, !.excuse = @ \cup {"unnoticed"}] IN
      h \in Hists(acts + 1) /\ h.harm = hist.harm /\ h.excuse = hist.excuse \cup {"unnoticed"}
      /\ h.owns = hist.owns /\ h.typed = acts + 1
  BY <1>1, <1>2 DEF Hists
<1>6. LET h == [hist EXCEPT !.harm = @ \cup (IF Loses THEN {"lost"} ELSE {}), !.typed = 0] IN
      h \in Hists(acts + 1) /\ h.harm = hist.harm \cup (IF Loses THEN {"lost"} ELSE {})
      /\ h.excuse = hist.excuse /\ h.owns = hist.owns /\ h.typed = 0
  BY <1>1, <1>2 DEF Hists
<1> QED BY <1>3, <1>4, <1>5, <1>6

-----------------------------------------------------------------------------
(* Forms that save at the click.                                           *)

\* What holds of such a form while nothing is under way.
ClickCalm ==
    /\ reqs = {} /\ timers = <<>>
    /\ ~ui.mute /\ (ui.button <=> ui.dirty)
    /\ ui.dialog = "delete" => ~ui.open
    /\ ui.dirty => ui.open /\ ui.val = hist.typed
    /\ ~ui.dirty => Has(srv, Stored[1], hist.typed)
    /\ "lost" \notin hist.harm /\ hist.excuse \subseteq {"other"}

LEMMA ClickBecomes ==
    ASSUME page' = page, page \in AtClick, ClickUi(Stored[1], ui', cache'),
           ClickSent(Stored[1], reqs'), ClickTimers(Stored[1], timers'), srv'.order = Stored,
           hist'.harm \cap {"rest", "wrong", "twice"} = {},
           hist'.excuse \subseteq {"other"} =>
               ClickHas(Stored[1], ui', reqs', timers', srv', hist'.typed) /\ "lost" \notin hist'.harm
    PROVE  CInv'
BY DEF CInv, ClickUi, ClickSent, ClickTimers, ClickHas, Alone, Has

LEMMA ClickActs ==
    ASSUME TInv, CInv, page \in AtClick, NEW u, NEW Q, NEW c, NEW h \in Hists(acts + 1),
           Acts(u, Q, c, h), ClickUi(Stored[1], u, c), ClickSent(Stored[1], Q),
           hist.excuse \subseteq h.excuse, h.harm \subseteq hist.harm \cup {"lost"},
           ClickCalm /\ h.excuse \subseteq {"other"} =>
               ClickHas(Stored[1], u, Q, <<>>, srv, h.typed) /\ "lost" \notin h.harm
    PROVE  CInv'
<1>1. /\ page' = page /\ ui' = u /\ reqs' = Q /\ cache' = c /\ timers' = timers /\ srv' = srv
      /\ hist'.harm = h.harm /\ hist'.typed = h.typed
      /\ h.excuse \subseteq hist'.excuse
      /\ "hasty" \notin hist'.excuse => reqs = {} /\ timers = <<>>
  BY ActsHist
<1>2. ASSUME hist'.excuse \subseteq {"other"}
      PROVE  ClickHas(Stored[1], ui', reqs', timers', srv', hist'.typed) /\ "lost" \notin hist'.harm
  <2>1. reqs = {} /\ timers = <<>> /\ hist.excuse \subseteq {"other"} /\ h.excuse \subseteq {"other"}
    BY <1>1, <1>2
  <2>2. ClickHas(Stored[1], ui, reqs, timers, srv, hist.typed) /\ "lost" \notin hist.harm
    BY <2>1 DEF CInv
  <2>3. ClickCalm
    BY <2>1, <2>2 DEF ClickCalm, ClickHas
  <2> QED BY <1>1, <2>1, <2>3
<1> QED BY <1>1, <1>2, ClickBecomes DEF CInv

LEMMA ClickEdits ==
    ASSUME TInv, CInv, page \in AtClick, NEW noticed \in BOOLEAN, ~ui.mute => noticed, Edits(noticed)
    PROVE  CInv'
<1> DEFINE u == [ui EXCEPT !.val = acts + 1, !.dirty = @ \/ noticed, !.button = @ \/ noticed]
           h == [hist EXCEPT !.typed = acts + 1]
<1>1. Acts(u, reqs, cache, h) /\ ui.open /\ ui.dialog = None
  BY DEF Edits, Uncovered
<1>2. h \in Hists(acts + 1) /\ h.harm = hist.harm /\ h.excuse = hist.excuse /\ h.typed = acts + 1
  BY HistWith
<1>3. /\ u.sel = ui.sel /\ u.open = ui.open /\ u.dialog = ui.dialog /\ u.rest = ui.rest
      /\ u.mute = ui.mute /\ u.val = acts + 1
      /\ (noticed => u.dirty /\ u.button)
  <2> HIDE DEF Names, Addresses, Dialogs
  <2> QED BY Typed DEF Uis
<1> HIDE DEF u, h
<1>4. ClickUi(Stored[1], u, cache) /\ ClickSent(Stored[1], reqs)
  BY <1>3 DEF CInv, ClickUi
<1>5. None # "delete"
  BY Bounds
<1>6. ClickCalm => ClickHas(Stored[1], u, reqs, <<>>, srv, h.typed)
  BY <1>1, <1>2, <1>3, <1>5, AloneOne DEF ClickCalm, ClickHas
<1>7. ClickCalm => "lost" \notin h.harm
  BY <1>2 DEF ClickCalm
<1> QED BY <1>1, <1>2, <1>4, <1>6, <1>7, ClickActs

LEMMA ClickSave ==
    ASSUME TInv, CInv, page \in AtClick, NEW c, NEW o, ui.open, ui.button, Uncovered,
           c # None => c.of = Stored[1], SaveAppSettings(Settled(ui), c, Body(ui.val, ui.rest, o, 0))
    PROVE  CInv'
<1> DEFINE v == Settled(ui)
           u == [v EXCEPT !.mute = TRUE]
           b == Body(ui.val, ui.rest, o, 0)
<1>0. Acts(u, Ask(reqs, "save", Of(ui.sel), b), c, hist)
  BY DEF SaveAppSettings
<1>1. /\ v \in Uis(acts) /\ v.sel = ui.sel /\ v.open = ui.open /\ v.dialog = ui.dialog
      /\ v.rest = ui.rest /\ ~v.dirty /\ ~v.button
  <2>1. acts \in Nat /\ ui \in Uis(acts)
    BY Typed
  <2>2. /\ v \in Uis(acts) /\ v.sel = ui.sel /\ v.dialog = ui.dialog /\ v.rest = ui.rest
        /\ ~v.dirty /\ ~v.button
    BY <2>1, Settles
  <2>3. v.open = ui.open
    BY <2>1, UITyped
  <2> QED BY <2>2, <2>3
<1> HIDE DEF v
<1>2. /\ u.sel = ui.sel /\ u.open = ui.open /\ u.dialog = ui.dialog
      /\ u.rest = ui.rest /\ ~u.dirty /\ ~u.button
  <2> HIDE DEF Names, Addresses, Dialogs
  <2> QED BY <1>1 DEF Uis
<1>3. b.val = ui.val /\ b.rest = ui.rest
  BY BodyField
<1> HIDE DEF u, b
<1>4. PICK q : /\ Ask(reqs, "save", Of(ui.sel), b) = reqs \cup {q}
               /\ q.op = "save" /\ q.at = Of(ui.sel) /\ q.body = b /\ q.st = "sent" /\ ~q.ok
  BY Asked
<1>5. ClickUi(Stored[1], u, c) /\ ClickSent(Stored[1], reqs \cup {q})
  BY <1>2, <1>3, <1>4 DEF CInv, ClickUi, ClickSent
<1>6. ClickCalm => ClickHas(Stored[1], u, {q}, <<>>, srv, hist.typed) /\ reqs = {}
  <2>1. None # "delete" /\ ui.dialog = None
    BY Bounds DEF Uncovered
  <2> QED BY <1>2, <1>3, <1>4, <2>1, AloneOne DEF ClickCalm, ClickHas
<1>7. ClickCalm => "lost" \notin hist.harm
  BY DEF ClickCalm
<1>8. Acts(u, reqs \cup {q}, c, hist) /\ hist \in Hists(acts + 1)
  BY <1>0, <1>4, Typed
<1>9. ClickCalm => ClickHas(Stored[1], u, reqs \cup {q}, <<>>, srv, hist.typed)
  <2>1. reqs = {} => reqs \cup {q} = {q}
    OBVIOUS
  <2> QED BY <1>6, <2>1
<1> QED BY <1>5, <1>7, <1>8, <1>9, ClickActs

LEMMA ClickLeaves ==
    ASSUME TInv, CInv, page \in AtClick, NEW Q \in {reqs, Reload},
           Leaves(Gone(ui), Q) \/ Confirms(Gone(ui), Q)
    PROVE  CInv'
<1> DEFINE S == Stored[1]
           lost == IF Loses THEN {"lost"} ELSE {}
           h == [hist EXCEPT !.harm = @ \cup lost, !.typed = 0]
           g == [hist EXCEPT !.typed = 0]
           u == [ui EXCEPT !.dialog = "leave"]
           w == Gone(ui)
<1>1. \/ Acts(u, reqs, cache, hist) /\ ui.open /\ ui.dialog = None
      \/ Acts(w, Q, cache, h) /\ ui.open /\ ui.dialog = None /\ ~ui.dirty
      \/ Acts(w, Q, cache, g)
  BY DEF Leaves, Confirms, Clicks, Uncovered
<1>2. /\ h \in Hists(acts + 1) /\ h.harm = hist.harm \cup lost /\ h.excuse = hist.excuse /\ h.typed = 0
      /\ g \in Hists(acts + 1) /\ g.harm = hist.harm /\ g.excuse = hist.excuse /\ g.typed = 0
      /\ hist \in Hists(acts + 1)
  BY HistWith, Typed
<1>3. /\ u.sel = ui.sel /\ u.open = ui.open /\ u.dialog = "leave" /\ u.rest = ui.rest
      /\ u.mute = ui.mute /\ u.val = ui.val /\ u.dirty = ui.dirty /\ u.button = ui.button
  <2> HIDE DEF Names, Addresses, Dialogs
  <2> QED BY Typed DEF Uis
<1>4. /\ w.sel = ui.sel /\ ~w.open /\ w.dialog = None /\ w.mute = ui.mute
      /\ ~w.dirty /\ ~w.button
  <2>1. acts \in Nat /\ ui \in Uis(acts)
    BY Typed
  <2> QED BY <2>1, Settles
<1>5. lost \subseteq {"lost"} /\ (ClickCalm /\ ~ui.dirty => lost = {})
  <2>1. Edited = S \/ page \notin AtClick
    BY DEF Edited, CInv, ClickUi, AtClick
  <2>2. ClickCalm /\ ~ui.dirty => ~Loses
    BY <2>1 DEF ClickCalm, Has, Loses
  <2> QED BY <2>2
<1>6. ClickSent(S, Q) /\ (reqs = {} => Alone(Q) /\ \A r \in Q : r.op # "save")
  <2>1. PICK q : Reload = reqs \cup {q} /\ q.op = "load" /\ q.at = Of(ui.sel) /\ q.st = "sent" /\ ~q.ok
    BY Asked DEF Reload
  <2>2. ClickSent(S, reqs) /\ ui.sel = S
    BY DEF CInv, ClickUi
  <2>3. ClickSent(S, reqs \cup {q})
    BY <2>1, <2>2 DEF ClickSent
  <2> QED BY <2>1, <2>2, <2>3, AloneOne
<1>7. None # "delete" /\ Has(srv, S, 0)
  BY Bounds DEF Has
<1> HIDE DEF u, h, g, w, lost
<1>8. ASSUME Acts(u, reqs, cache, hist), ui.open, ui.dialog = None PROVE CInv'
  <2>1. ClickUi(S, u, cache) /\ ClickSent(S, reqs)
    BY <1>3, <1>8 DEF CInv, ClickUi
  <2>2. ClickCalm => ClickHas(S, u, reqs, <<>>, srv, hist.typed) /\ "lost" \notin hist.harm
    BY <1>3, AloneOne DEF ClickCalm, ClickHas
  <2> QED BY <1>2, <1>8, <2>1, <2>2, ClickActs
<1>9. ClickUi(S, w, cache)
  BY <1>4, <1>7 DEF CInv, ClickUi
<1>10. ClickCalm => ClickHas(S, w, Q, <<>>, srv, 0)
  BY <1>4, <1>6, <1>7 DEF ClickCalm, ClickHas
<1>11. ASSUME Acts(w, Q, cache, h), ~ui.dirty PROVE CInv'
  <2>1. ClickCalm => "lost" \notin h.harm
    BY <1>2, <1>5, <1>11 DEF ClickCalm
  <2> QED BY <1>2, <1>5, <1>6, <1>9, <1>10, <1>11, <2>1, ClickActs
<1>12. ASSUME Acts(w, Q, cache, g) PROVE CInv'
  <2>1. ClickCalm => "lost" \notin g.harm
    BY <1>2 DEF ClickCalm
  <2> QED BY <1>2, <1>6, <1>9, <1>10, <1>12, <2>1, ClickActs
<1> QED BY <1>1, <1>8, <1>11, <1>12

\* Opening an entry from the cached object, or asking whether to delete it.
LEMMA ClickOpens ==
    ASSUME TInv, CInv, page \in {"instance", "prowlarr"}, cache # None, ~ui.open, Uncovered,
           NEW u \in {InstanceForm(ui, cache), ProwlarrForm(ui, cache)}, Clicks(u, reqs)
    PROVE  CInv'
<1> DEFINE v == [ui EXCEPT !.form = @ + 1]
<1>0. page \in AtClick /\ page \notin Editors
  BY DEF AtClick, Editors
<1>1. acts + 1 \in Nat /\ cache \in Objects(acts + 1)
  BY <1>0, Typed DEF GoodCache
<1>2. v \in Uis(acts + 1) /\ v.sel = ui.sel /\ v.mute = ui.mute /\ v.dialog = ui.dialog
  <2>1. ui.form + 1 \in 0..(acts + 1) /\ ui \in Uis(acts + 1)
    BY Typed DEF Uis
  <2> HIDE DEF Names, Addresses, Dialogs
  <2> QED BY <2>1 DEF Uis
<1>3. u = Settled(Drawn(v, cache))
  BY DEF InstanceForm, ProwlarrForm
<1> HIDE DEF v
<1>4. /\ u.open /\ u.sel = ui.sel /\ u.rest = cache.of /\ u.mute = ui.mute
      /\ u.dialog = ui.dialog /\ ~u.dirty /\ ~u.button
  BY <1>1, <1>2, <1>3, DrawsClean
<1>5. ui.dialog = None /\ None # "delete"
  BY Bounds DEF Uncovered
<1>6. ClickUi(Stored[1], u, cache) /\ ClickSent(Stored[1], reqs)
  BY <1>0, <1>4, <1>5 DEF CInv, ClickUi
<1>7. ClickCalm => ClickHas(Stored[1], u, reqs, <<>>, srv, hist.typed) /\ "lost" \notin hist.harm
  BY <1>4, <1>5, AloneOne DEF ClickCalm, ClickHas
<1>8. Acts(u, reqs, cache, hist) /\ hist \in Hists(acts + 1)
  BY Typed DEF Clicks
<1> QED BY <1>0, <1>6, <1>7, <1>8, ClickActs

LEMMA ClickDelete == ASSUME TInv, CInv, page = "instance", InstanceDelete PROVE CInv'
<1> DEFINE v == Drawn(ui, cache)
           u == [v EXCEPT !.open = FALSE, !.dialog = "delete"]
<1>0. page \in AtClick /\ page \notin Editors
  BY DEF AtClick, Editors
<1>1. acts \in Nat /\ ui \in Uis(acts) /\ cache \in Objects(acts) /\ ~ui.open
  BY <1>0, Typed DEF GoodCache, InstanceDelete
<1>2. /\ v \in Uis(acts) /\ v.sel = ui.sel /\ v.rest = cache.of /\ v.mute = ui.mute
      /\ v.dirty = ui.dirty /\ v.button = ui.button
  BY <1>1, Draws
<1>3. Acts(u, reqs, cache, hist) /\ hist \in Hists(acts + 1)
  BY Typed DEF InstanceDelete, Clicks
<1> HIDE DEF v
<1>4. /\ ~u.open /\ u.dialog = "delete" /\ u.sel = ui.sel /\ u.rest = cache.of
      /\ u.mute = ui.mute /\ u.dirty = ui.dirty /\ u.button = ui.button
  <2> HIDE DEF Names, Addresses, Dialogs
  <2> QED BY <1>2 DEF Uis
<1> HIDE DEF u
<1>5. cache # None
  BY DEF InstanceDelete
<1>6. ClickUi(Stored[1], u, cache) /\ ClickSent(Stored[1], reqs)
  BY <1>0, <1>4, <1>5 DEF CInv, ClickUi
<1>7. ClickCalm => ClickHas(Stored[1], u, reqs, <<>>, srv, hist.typed) /\ "lost" \notin hist.harm
  BY <1>1, <1>4, AloneOne DEF ClickCalm, ClickHas
<1> QED BY <1>0, <1>3, <1>6, <1>7, ClickActs

LEMMA ClickDoDelete == ASSUME TInv, CInv, page = "instance", InstanceDoDelete PROVE CInv'
<1> DEFINE u == [ui EXCEPT !.dialog = None, !.mute = TRUE]
           b == Body(acts + 1, ui.rest, ui.other, 0)
           c == [of |-> ui.rest, val |-> acts + 1, other |-> ui.other]
           h == [hist EXCEPT !.typed = acts + 1]
<1>0. page \in AtClick
  BY DEF AtClick
<1>1. Acts(u, Ask(reqs, "save", Of(ui.sel), b), c, h) /\ ui.dialog = "delete"
  BY DEF InstanceDoDelete
<1>2. h \in Hists(acts + 1) /\ h.harm = hist.harm /\ h.excuse = hist.excuse /\ h.typed = acts + 1
  BY HistWith
<1>3. /\ u.sel = ui.sel /\ u.open = ui.open /\ u.dialog = None /\ u.rest = ui.rest
      /\ u.dirty = ui.dirty /\ u.button = ui.button
  <2> HIDE DEF Names, Addresses, Dialogs
  <2> QED BY Typed DEF Uis
<1>4. b.val = acts + 1 /\ b.rest = ui.rest /\ c.of = ui.rest
  BY BodyField
<1> HIDE DEF u, b, c, h
<1>5. PICK q : /\ Ask(reqs, "save", Of(ui.sel), b) = reqs \cup {q}
               /\ q.op = "save" /\ q.at = Of(ui.sel) /\ q.body = b /\ q.st = "sent" /\ ~q.ok
  BY Asked
<1>6. None # "delete"
  BY Bounds
<1>7. ClickUi(Stored[1], u, c) /\ ClickSent(Stored[1], reqs \cup {q})
  BY <1>0, <1>1, <1>3, <1>4, <1>5, <1>6 DEF CInv, ClickUi, ClickSent
<1>8. ClickCalm => ClickHas(Stored[1], u, {q}, <<>>, srv, h.typed) /\ reqs = {}
  BY <1>1, <1>2, <1>3, <1>4, <1>5, <1>6, AloneOne DEF ClickCalm, ClickHas
<1>9. ClickCalm => ClickHas(Stored[1], u, reqs \cup {q}, <<>>, srv, h.typed) /\ "lost" \notin h.harm
  <2>1. reqs = {} => reqs \cup {q} = {q}
    OBVIOUS
  <2> QED BY <1>2, <1>8, <2>1 DEF ClickCalm
<1> QED BY <1>0, <1>1, <1>2, <1>5, <1>7, <1>9, ClickActs

LEMMA ClickTag == ASSUME TInv, CInv, page = "swaparr", SwaparrTag PROVE CInv'
<1> DEFINE u == [ui EXCEPT !.val = acts + 1]
           h == [hist EXCEPT !.typed = acts + 1, !.excuse = @ \cup {"unnoticed"}]
<1>0. page \in AtClick
  BY DEF AtClick
<1>1. Acts(u, reqs, cache, h)
  BY DEF SwaparrTag
<1>2. h \in Hists(acts + 1) /\ h.harm = hist.harm /\ h.excuse = hist.excuse \cup {"unnoticed"}
  BY HistWith
<1>3. u.sel = ui.sel /\ u.open = ui.open /\ u.dialog = ui.dialog /\ u.rest = ui.rest
  <2> HIDE DEF Names, Addresses, Dialogs
  <2> QED BY Typed DEF Uis
<1> HIDE DEF u, h
<1>4. ClickUi(Stored[1], u, cache) /\ ClickSent(Stored[1], reqs)
  BY <1>0, <1>3 DEF CInv, ClickUi
<1>5. ~(h.excuse \subseteq {"other"})
  BY <1>2
<1> QED BY <1>0, <1>1, <1>2, <1>4, <1>5, ClickActs

LEMMA ClickUncollected ==
    ASSUME TInv, CInv, page = "general", GeneralUncollected PROVE CInv'
<1> DEFINE u == [ui EXCEPT !.dirty = TRUE, !.button = TRUE]
           h == [hist EXCEPT !.typed = acts + 1, !.excuse = @ \cup {"uncollected"}]
<1>0. page \in AtClick
  BY DEF AtClick
<1>1. Acts(u, reqs, cache, h)
  BY DEF GeneralUncollected
<1>2. h \in Hists(acts + 1) /\ h.harm = hist.harm /\ h.excuse = hist.excuse \cup {"uncollected"}
  <2>1. hist \in Hists(acts)
    BY DEF TInv
  <2> QED BY <2>1, Typed DEF Hists, Excuses
<1>3. u.sel = ui.sel /\ u.open = ui.open /\ u.dialog = ui.dialog /\ u.rest = ui.rest
  <2> HIDE DEF Names, Addresses, Dialogs
  <2> QED BY Typed DEF Uis
<1> HIDE DEF u, h
<1>4. ClickUi(Stored[1], u, cache) /\ ClickSent(Stored[1], reqs)
  BY <1>0, <1>3 DEF CInv, ClickUi
<1>5. ~(h.excuse \subseteq {"other"})
  BY <1>2
<1> QED BY <1>0, <1>1, <1>2, <1>4, <1>5, ClickActs

LEMMA ClickCached ==
    ASSUME TInv, CInv, page \in {"instance", "prowlarr"}, ui.open
    PROVE  LET c == [cache EXCEPT !.val = ui.val] IN c # None => c.of = Stored[1]
<1>1. cache \in Objects(acts) /\ page \in AtClick
  BY Typed DEF GoodUI, AtClick
<1>2. [cache EXCEPT !.val = ui.val].of = cache.of /\ cache # None
  BY <1>1, Bounds, Typed DEF Objects
<1> QED BY <1>1, <1>2 DEF CInv, ClickUi

LEMMA ClickClick == ASSUME TInv, CInv, page \in AtClick, Click PROVE CInv'
<1>1. ASSUME page = "general", GeneralClick PROVE CInv'
  <2>1. ASSUME GeneralSave PROVE CInv'
    BY <2>1, ClickSave DEF GeneralSave, GeneralBody, CInv, ClickUi
  <2> QED BY <1>1, <2>1, ClickUncollected, ClickEdits, ClickLeaves DEF GeneralClick, GeneralType
<1>2. ASSUME page = "log_settings", LogClick PROVE CInv'
  <2>1. ASSUME LogSave PROVE CInv'
    BY <2>1, ClickSave DEF LogSave, CInv, ClickUi
  <2>2. (~ui.mute) \in BOOLEAN
    OBVIOUS
  <2> QED BY <1>2, <2>1, <2>2, ClickEdits, ClickLeaves DEF LogClick, LogType
<1>3. ASSUME page = "swaparr", SwaparrClick PROVE CInv'
  <2>1. ASSUME SwaparrSave PROVE CInv'
    BY <2>1, ClickSave DEF SwaparrSave, CInv, ClickUi
  <2> QED BY <1>3, <2>1, ClickTag, ClickEdits, ClickLeaves DEF SwaparrClick, SwaparrType
<1>4. ASSUME page \in {"instance", "prowlarr"}, ui.open, ui.button, Uncovered,
             SaveAppSettings(Settled(ui), [cache EXCEPT !.val = ui.val],
                             Body(ui.val, ui.rest, cache.other, 0))
      PROVE  CInv'
  BY <1>4, ClickCached, ClickSave
<1>5. ASSUME page = "instance", InstanceClick PROVE CInv'
  BY <1>4, <1>5, ClickOpens, ClickDelete, ClickDoDelete, ClickEdits, ClickLeaves
     DEF InstanceClick, InstanceOpen, InstanceType, InstanceTag, InstanceSave,
         InstanceBack, InstanceDiscard
<1>6. ASSUME page = "prowlarr", ProwlarrClick PROVE CInv'
  BY <1>4, <1>6, ClickOpens, ClickEdits, ClickLeaves
     DEF ProwlarrClick, ProwlarrOpen, ProwlarrType, ProwlarrSave, ProwlarrBack, ProwlarrDiscard
<1>7. ASSUME Stay PROVE CInv'
  <2>1. /\ page' = page /\ cache' = cache /\ timers' = timers /\ srv' = srv /\ reqs' = reqs
        /\ hist' = hist /\ ui' = [ui EXCEPT !.dialog = None]
    BY <1>7 DEF Stay
  <2>2. /\ ui'.sel = ui.sel /\ ui'.open = ui.open /\ ui'.dialog = None /\ ui'.rest = ui.rest
        /\ ui'.mute = ui.mute /\ ui'.val = ui.val /\ ui'.dirty = ui.dirty /\ ui'.button = ui.button
    <3> HIDE DEF Names, Addresses, Dialogs
    <3> QED BY <2>1, Typed DEF Uis
  <2>3. None # "delete"
    BY Bounds
  <2>4. ClickUi(Stored[1], ui', cache')
    BY <2>1, <2>2, <2>3 DEF CInv, ClickUi
  <2>5. ClickHas(Stored[1], ui, reqs, timers, srv, hist.typed)
          => ClickHas(Stored[1], ui', reqs', timers', srv', hist'.typed)
    BY <2>1, <2>2, <2>3 DEF ClickHas
  <2> QED BY <2>1, <2>4, <2>5, ClickBecomes DEF CInv
<1>8. page \notin {"movie", "tv", "profile", "connection", "indexer"}
  BY DEF AtClick
<1> QED BY <1>1, <1>2, <1>3, <1>5, <1>6, <1>7, <1>8 DEF Click

\* The server's answers to such a form.
LEMMA ClickServed ==
    ASSUME TInv, CInv, page \in AtClick, NEW r \in reqs, NEW s, NEW harm, NEW own, NEW why,
           NEW ok \in BOOLEAN, NEW obj, Served(r, s, harm, own, why), reqs' = Answered(r, ok, obj),
           s.order = Stored, harm \cap {"lost", "rest", "wrong", "twice"} = {},
           ok => obj.of = Stored[1],
           why \subseteq {"other"} /\ r.op = "save" /\ (r.st = "sent" => r.body.val = hist.typed)
               => ok /\ Has(s, Stored[1], hist.typed),
           r.op # "save" => \A k \in Keys : s.obj[k].val = srv.obj[k].val,
           r.st = "sent"
    PROVE  CInv'
<1> DEFINE S == Stored[1]
<1>1. PICK q : /\ Answered(r, ok, obj) = Ended(r) \cup {q}
               /\ q.op = r.op /\ q.at = r.at /\ q.body = r.body /\ q.st = "done"
               /\ q.ok = ok /\ q.obj = obj
  BY Given
<1>2. /\ page' = page /\ ui' = ui /\ cache' = cache /\ timers' = timers /\ srv' = s
      /\ hist'.harm = hist.harm \cup harm /\ hist'.typed = hist.typed
      /\ hist.excuse \cup why \subseteq hist'.excuse
  BY ServedHist
<1>3. ClickSent(S, reqs')
  BY <1>1, EndedWithin DEF CInv, ClickSent
<1>4. ASSUME hist'.excuse \subseteq {"other"}
      PROVE  ClickHas(S, ui', reqs', timers', srv', hist'.typed) /\ "lost" \notin hist'.harm
  <2>1. ClickHas(S, ui, reqs, timers, srv, hist.typed) /\ "lost" \notin hist.harm /\ why \subseteq {"other"}
    BY <1>2, <1>4 DEF CInv
  <2>2. Alone(reqs)
    BY <2>1 DEF ClickHas
  <2>3. reqs = {r} /\ reqs' = {q}
    BY <1>1, <2>2, AloneEnded
  <2>4. timers = <<>> /\ ~ui.dirty
    BY <2>1, <2>3 DEF ClickHas
  <2>5. Has(s, S, hist.typed) /\ (r.op = "save" => ok)
    <3>1. CASE r.op = "save"
      BY <2>1, <2>3, <3>1 DEF ClickHas
    <3>2. CASE r.op # "save"
      <4>1. Has(srv, S, hist.typed) /\ S \in Keys
        BY <2>1, <2>3, <2>4, <3>2, Bounds DEF ClickHas
      <4> QED BY <3>2, <4>1 DEF Has
    <3> QED BY <3>1, <3>2
  <2>6. ui.button = ui.dirty \/ (ui.button <=> ui.dirty)
    BY <2>1 DEF ClickHas
  <2>7. ClickHas(S, ui, {q}, <<>>, s, hist.typed)
    BY <1>1, <2>1, <2>3, <2>4, <2>5, AloneOne DEF ClickHas
  <2> QED BY <1>2, <2>1, <2>3, <2>4, <2>7
<1> QED BY <1>2, <1>3, <1>4, ClickBecomes DEF CInv

LEMMA ClickNamed ==
    ASSUME TInv, CInv, page \in AtClick, NEW r \in reqs
    PROVE  /\ Named(r.at) = {Stored[1]} /\ Only(Named(r.at)) = Stored[1]
           /\ r.op \in {"load", "save"} /\ (r.op = "save" => r.body.rest = Stored[1])
           /\ Stored[1] \in Keys
<1>1. r.at = Of(Stored[1]) /\ srv.order = Stored /\ r.op \in {"load", "save"}
      /\ (r.op = "save" => r.body.rest = Stored[1])
  BY DEF CInv, ClickSent
<1>2. Stored[1] \in Range(Stored) /\ Stored[1] \in Keys
  BY Bounds, FormsAssumption DEF FormsAssumption, Range
<1>3. Named(r.at) = {Stored[1]} \cap Range(srv.order)
  BY <1>1, <1>2, SomeAddresses, NamedTyped
<1>4. Only({Stored[1]}) \in {Stored[1]}
  BY OnlyOne
<1> QED BY <1>1, <1>2, <1>3, <1>4

LEMMA ClickServe == ASSUME TInv, CInv, page \in AtClick, NEW r \in reqs, Serve(r) PROVE CInv'
<1> DEFINE S == Stored[1]
<1>0. /\ srv.order = Stored /\ r.st = "sent" /\ page \notin Editors /\ acts \in Nat
      /\ srv \in Servers(acts) /\ r.body \in Bodies(acts) /\ S \in Keys
      /\ Named(r.at) = {S} /\ Only(Named(r.at)) = S /\ r.op \in {"load", "save"}
      /\ (r.op = "save" => r.body.rest = S)
  BY ClickNamed, Typed, RequestTyped DEF CInv, Serve, AtClick, Editors
<1>1. ASSUME ServeLoad(r) PROVE CInv'
  <2> DEFINE ok == Named(r.at) # {} \/ page \in Editors \/ r.op = "list"
             obj == IF page \in Editors THEN srv.order
                    ELSE IF Named(r.at) = {} THEN None ELSE Shown(srv, Only(Named(r.at)))
  <2>1. Served(r, srv, {}, {}, {}) /\ reqs' = Answered(r, ok, obj) /\ r.op # "save"
    BY <1>1 DEF ServeLoad
  <2>2. obj.of = S /\ ok \in BOOLEAN
    BY <1>0, ShownTyped
  <2> HIDE DEF ok, obj
  <2> QED BY <1>0, <2>1, <2>2, ClickServed
<1>2. ASSUME ServeSave(r) PROVE CInv'
  <2> DEFINE w == Written(S, r.body)
  <2>1. Served(r, w, Harm(S, r.body), {}, {}) /\ reqs' = Answered(r, TRUE, Shown(w, S)) /\ r.op = "save"
    BY <1>0, <1>2 DEF ServeSave
  <2>2. w \in Servers(acts) /\ w.order = srv.order /\ w.obj[S].val = r.body.val
    BY <1>0, WrittenTyped
  <2>3. Harm(S, r.body) \cap {"lost", "rest", "wrong", "twice"} = {}
    <3>1. r.body.rest = S
      BY <1>0, <2>1
    <3> QED BY <1>0, <3>1 DEF Harm
  <2> HIDE DEF w
  <2>4. Shown(w, S).of = S
    BY <1>0, <2>2, ShownTyped
  <2>5. r.body.val = hist.typed => Has(w, S, hist.typed)
    BY <2>2 DEF Has
  <2> QED BY <1>0, <2>1, <2>2, <2>3, <2>4, <2>5, ClickServed
<1>3. ASSUME Refuse(r) PROVE CInv'
  <2>1. Served(r, srv, {}, {}, {"refused"}) /\ reqs' = Answered(r, FALSE, None) /\ r.op \in {"save", "add", "scores"}
    BY <1>3 DEF Refuse
  <2>2. ~({"refused"} \subseteq {"other"})
    OBVIOUS
  <2> QED BY <1>0, <2>1, <2>2, ClickServed
<1> QED BY <1>0, <1>1, <1>2, <1>3 DEF Serve, ServeAdd, ServeRemove, ServeScores

\* The ends of its requests: the last thing under way.
ClickEnding(r) ==
    /\ ClickHas(Stored[1], ui, reqs, timers, srv, hist.typed)
    /\ reqs = {r} /\ timers = <<>> /\ ~ui.dirty

LEMMA ClickEnd ==
    ASSUME TInv, CInv, page \in AtClick, NEW r \in reqs, NEW u, NEW c, NEW T, NEW why,
           Handle(r, u, Ended(r), c, T, why), ClickUi(Stored[1], u, c), ClickTimers(Stored[1], T),
           ClickEnding(r) /\ why \subseteq {"other"} => ClickHas(Stored[1], u, {}, T, srv, hist.typed)
    PROVE  CInv'
<1> DEFINE S == Stored[1]
<1>1. /\ page' = page /\ ui' = u /\ reqs' = Ended(r) /\ cache' = c /\ timers' = T /\ srv' = srv
      /\ hist'.harm = hist.harm /\ hist'.typed = hist.typed /\ hist.excuse \cup why \subseteq hist'.excuse
  BY HandleHist
<1>2. ClickSent(S, Ended(r))
  BY EndedWithin DEF CInv, ClickSent
<1>3. ASSUME hist'.excuse \subseteq {"other"}
      PROVE  ClickHas(S, ui', reqs', timers', srv', hist'.typed) /\ "lost" \notin hist'.harm
  <2>1. ClickHas(S, ui, reqs, timers, srv, hist.typed) /\ "lost" \notin hist.harm /\ why \subseteq {"other"}
    BY <1>1, <1>3 DEF CInv
  <2>2. Alone(reqs)
    BY <2>1 DEF ClickHas
  <2>3. reqs = {r} /\ Ended(r) = {}
    BY <2>2, AloneEnded
  <2>4. timers = <<>> /\ ~ui.dirty
    BY <2>1, <2>3 DEF ClickHas
  <2>5. ClickHas(S, u, {}, T, srv, hist.typed)
    BY <2>1, <2>3, <2>4 DEF ClickEnding
  <2> QED BY <1>1, <2>1, <2>3, <2>5
<1> QED BY <1>1, <1>2, <1>3, ClickBecomes DEF CInv

LEMMA RegeneratedUi ==
    ASSUME page \in AtClick, NEW a \in Nat, NEW u \in Uis(a), NEW obj \in Objects(a)
    PROVE  LET v == Regenerated(u, obj) IN
           \/ v = u
           \/ /\ page \in {"general", "log_settings", "swaparr"}
              /\ v.open /\ v.sel = u.sel /\ v.rest = obj.of /\ v.mute = u.mute
              /\ v.dialog = u.dialog /\ ~v.dirty /\ ~v.button
<1>1. CASE page \in {"general", "log_settings", "swaparr"}
  <2>1. Regenerated(u, obj) = Settled(Drawn(u, obj))
    BY <1>1, RegeneratedTyped
  <2> QED BY <1>1, <2>1, DrawsClean
<1>2. CASE page \notin {"general", "log_settings", "swaparr"}
  BY <1>2, RegeneratedTyped
<1> QED BY <1>1, <1>2

LEMMA ClickRegenerated ==
    ASSUME TInv, CInv, page \in AtClick, NEW obj \in Objects(acts), obj.of = Stored[1], NEW c,
           c = obj \/ c = cache
    PROVE  /\ ClickUi(Stored[1], Regenerated(ui, obj), c)
           /\ Regenerated(ui, obj).mute = ui.mute
           /\ ~ui.dirty /\ (ui.button <=> ui.dirty) /\ (ui.dialog = "delete" => ~ui.open) =>
                /\ ~Regenerated(ui, obj).dirty /\ ~Regenerated(ui, obj).button
                /\ Regenerated(ui, obj).dialog = "delete" => ~Regenerated(ui, obj).open
<1> DEFINE v == Regenerated(ui, obj)
<1>1. acts \in Nat /\ ui \in Uis(acts)
  BY Typed
<1>2. \/ v = ui
      \/ /\ page \in {"general", "log_settings", "swaparr"}
         /\ v.open /\ v.sel = ui.sel /\ v.rest = obj.of /\ v.mute = ui.mute
         /\ v.dialog = ui.dialog /\ ~v.dirty /\ ~v.button
  BY <1>1, RegeneratedUi
<1> HIDE DEF v
<1>3. page # "instance" => ui.dialog # "delete"
  BY DEF CInv, ClickUi
<1>4. ClickUi(Stored[1], ui, cache)
  BY DEF CInv
<1>5. ClickUi(Stored[1], v, c)
  BY <1>2, <1>3, <1>4 DEF ClickUi
<1>6. v.mute = ui.mute
  BY <1>2
<1>7. ~ui.dirty /\ (ui.button <=> ui.dirty) /\ (ui.dialog = "delete" => ~ui.open) =>
          ~v.dirty /\ ~v.button /\ (v.dialog = "delete" => ~v.open)
  BY <1>2, <1>3
<1> QED BY <1>5, <1>6, <1>7 DEF v

LEMMA ClickEnds == ASSUME TInv, CInv, page \in AtClick, NEW r \in reqs, AtClickAnswer(r) PROVE CInv'
<1> DEFINE S == Stored[1]
           C == ClickEnding(r)
<1>0. page \notin Editors /\ acts \in Nat /\ ui \in Uis(acts)
  BY Typed DEF AtClick, Editors
<1>1. ASSUME SaveAppSettingsAnswer(r) PROVE CInv'
  <2> DEFINE obj == IF r.ok THEN r.obj ELSE [of |-> ui.sel, val |-> r.body.val, other |-> r.body.other]
             u == IF page \in Opened THEN ui ELSE [ui EXCEPT !.open = FALSE]
             x == [t |-> "redraw", obj |-> obj]
             T == Append(timers, x)
  <2>1. Handle(r, u, Ended(r), obj, T, {}) /\ r.op = "save" /\ r.st = "done"
    BY <1>1 DEF SaveAppSettingsAnswer, Success, Refused
  <2>2. obj.of = S
    BY <2>1 DEF CInv, ClickUi, ClickSent
  <2>3. /\ u.sel = ui.sel /\ (u.open => ui.open) /\ u.dialog = ui.dialog /\ u.rest = ui.rest
        /\ u.mute = ui.mute /\ u.dirty = ui.dirty /\ u.button = ui.button
    <3> HIDE DEF Names, Addresses, Dialogs
    <3> QED BY <1>0 DEF Uis
  <2> HIDE DEF obj, u
  <2>4. ClickUi(S, u, obj)
    BY <2>2, <2>3 DEF CInv, ClickUi
  <2>5. /\ T \in Seq(Timers(acts) \cup {x})
        /\ \A i \in DOMAIN T : (i \in DOMAIN timers /\ T[i] = timers[i]) \/ T[i] = x
        /\ x.t = "redraw" /\ x.obj = obj
        /\ timers = <<>> => Len(T) = 1
    <3>1. timers \in Seq(Timers(acts) \cup {x}) /\ x.t = "redraw" /\ x.obj = obj
      BY Typed DEF GoodTimers
    <3> HIDE DEF x
    <3> QED BY <3>1
  <2> HIDE DEF x, T
  <2>6. ClickTimers(S, T)
    BY <2>2, <2>5 DEF CInv, ClickTimers
  <2>7. C => ClickHas(S, u, {}, T, srv, hist.typed)
    <3>1. C => Has(srv, S, hist.typed)
      BY <2>1 DEF ClickEnding, ClickHas
    <3>2. timers = <<>> => T # <<>>
      <4>1. timers = <<>> => Len(T) = 1
        BY <2>5
      <4> QED BY <4>1
    <3> QED BY <2>3, <2>5, <3>1, <3>2, AloneOne DEF ClickEnding, ClickHas
  <2> QED BY <2>1, <2>4, <2>6, <2>7, ClickEnd
<1>2. ASSUME SaveAppSettingsFailed(r) PROVE CInv'
  <2> DEFINE u == [ui EXCEPT !.mute = FALSE]
  <2>1. Handle(r, u, Ended(r), cache, timers, {"failed"})
    BY <1>2 DEF SaveAppSettingsFailed, Failure
  <2>2. u.sel = ui.sel /\ u.open = ui.open /\ u.dialog = ui.dialog /\ u.rest = ui.rest
    <3> HIDE DEF Names, Addresses, Dialogs
    <3> QED BY <1>0 DEF Uis
  <2> HIDE DEF u
  <2>3. ClickUi(S, u, cache) /\ ClickTimers(S, timers)
    BY <2>2 DEF CInv, ClickUi
  <2>4. ~({"failed"} \subseteq {"other"})
    OBVIOUS
  <2> QED BY <2>1, <2>3, <2>4, ClickEnd
<1>3. ASSUME Success(r, "load"), Handle(r, Regenerated(ui, r.obj), Ended(r), r.obj, timers, {})
      PROVE  CInv'
  <2> DEFINE u == Regenerated(ui, r.obj)
  <2>1. r.obj \in Objects(acts) /\ r.op = "load" /\ r.st = "done" /\ r.ok /\ r.obj.of = S
    BY <1>0, <1>3, Brought DEF Success, CInv, ClickSent
  <2>2. /\ ClickUi(S, u, r.obj) /\ u.mute = ui.mute
        /\ ~ui.dirty /\ (ui.button <=> ui.dirty) /\ (ui.dialog = "delete" => ~ui.open) =>
             ~u.dirty /\ ~u.button /\ (u.dialog = "delete" => ~u.open)
    BY <2>1, ClickRegenerated
  <2>3. Handle(r, u, Ended(r), r.obj, timers, {})
    BY <1>3
  <2> HIDE DEF u
  <2>4. C => ClickHas(S, u, {}, timers, srv, hist.typed)
    <3>1. C => Has(srv, S, hist.typed) /\ ~ui.mute
      BY <2>1 DEF ClickEnding, ClickHas
    <3> QED BY <2>2, <3>1, AloneOne DEF ClickEnding, ClickHas
  <2>5. ClickTimers(S, timers)
    BY DEF CInv
  <2> QED BY <2>2, <2>3, <2>4, <2>5, ClickEnd
<1>4. ASSUME Ignored(r, "load") \/ Dropped(r, "load") PROVE CInv'
  <2>1. r.op = "load" /\ (Handle(r, ui, Ended(r), cache, timers, {})
                          \/ Handle(r, ui, Ended(r), cache, timers, {"failed"}))
    BY <1>4 DEF Ignored, Dropped, Refused, Answer, Failure
  <2>2. ClickUi(S, ui, cache) /\ ClickTimers(S, timers)
    BY DEF CInv
  <2>3. C => ClickHas(S, ui, {}, timers, srv, hist.typed)
    <3>1. C => Has(srv, S, hist.typed) /\ ~ui.mute
      BY <2>1 DEF ClickEnding, ClickHas
    <3> QED BY <3>1, AloneOne DEF ClickEnding, ClickHas
  <2> QED BY <2>1, <2>2, <2>3, ClickEnd
<1> QED BY <1>1, <1>2, <1>3, <1>4 DEF AtClickAnswer, LoadAnswer

LEMMA ClickTimeouts == ASSUME TInv, CInv, page \in AtClick, Redraw \/ Listen PROVE CInv'
<1> DEFINE S == Stored[1]
<1>0. acts \in Nat /\ timers \in Seq(Timers(acts)) /\ ui \in Uis(acts)
  BY Typed DEF GoodTimers
<1>1. ASSUME NEW i \in DOMAIN timers
      PROVE  LET R == RemoveAt(timers, i) IN
             /\ ClickTimers(S, R) /\ ClickTimers(S, Append(R, [t |-> "listen", obj |-> None]))
             /\ Len(timers) = 1 => R = <<>> /\ Len(Append(R, [t |-> "listen", obj |-> None])) = 1
             /\ timers # <<>>
  <2> DEFINE R == RemoveAt(timers, i)
             x == [t |-> "listen", obj |-> None]
  <2>1. /\ R \in Seq(Timers(acts)) /\ Len(R) = Len(timers) - 1
        /\ \A j \in DOMAIN R : \E k \in DOMAIN timers : R[j] = timers[k]
    BY <1>0, <1>1, RemovedAt
  <2>2. x.t = "listen"
    OBVIOUS
  <2> HIDE DEF R, x
  <2>3. \A j \in DOMAIN Append(R, x) : (j \in DOMAIN R /\ Append(R, x)[j] = R[j]) \/ Append(R, x)[j] = x
    BY <2>1
  <2>4. ClickTimers(S, R)
    BY <2>1 DEF CInv, ClickTimers
  <2>5. ClickTimers(S, Append(R, x))
    BY <2>2, <2>3, <2>4 DEF ClickTimers
  <2>6. Len(timers) = 1 => R = <<>> /\ Len(Append(R, x)) = 1
    BY <2>1
  <2> QED BY <1>0, <1>1, <2>4, <2>5, <2>6 DEF R, x
<1>2. ASSUME NEW u, NEW T, RunOut(u, T), ClickUi(S, u, cache), ClickTimers(S, T),
             /\ ClickHas(S, ui, reqs, timers, srv, hist.typed) /\ timers # <<>>
                  => ClickHas(S, u, reqs, T, srv, hist.typed),
             timers # <<>>
      PROVE  CInv'
  <2>1. page' = page /\ ui' = u /\ timers' = T /\ cache' = cache /\ srv' = srv /\ reqs' = reqs /\ hist' = hist
    BY <1>2 DEF RunOut
  <2> QED BY <1>2, <2>1, ClickBecomes DEF CInv
<1>3. ASSUME Redraw PROVE CInv'
  <2>1. PICK i \in First("redraw") :
           RunOut(Regenerated(ui, timers[i].obj),
                  Append(RemoveAt(timers, i), [t |-> "listen", obj |-> None]))
    BY <1>3 DEF Redraw
  <2> DEFINE obj == timers[i].obj
             u == Regenerated(ui, obj)
             T == Append(RemoveAt(timers, i), [t |-> "listen", obj |-> None])
  <2>2. i \in DOMAIN timers /\ obj \in Objects(acts) /\ obj.of = S
    <3>1. i \in DOMAIN timers /\ timers[i].t = "redraw"
      BY <2>1, FirstOne
    <3> QED BY <3>1, Typed DEF GoodTimers, Timers, CInv, ClickTimers
  <2>3. ClickTimers(S, T) /\ timers # <<>> /\ (Len(timers) = 1 => Len(T) = 1)
    BY <1>1, <2>2
  <2>4. RunOut(u, T)
    BY <2>1
  <2> HIDE DEF obj
  <2>5. /\ ClickUi(S, u, cache)
        /\ ~ui.dirty /\ (ui.button <=> ui.dirty) /\ (ui.dialog = "delete" => ~ui.open) =>
             ~u.dirty /\ ~u.button /\ (u.dialog = "delete" => ~u.open)
    BY <2>2, ClickRegenerated
  <2> HIDE DEF u, T
  <2>6. ClickHas(S, ui, reqs, timers, srv, hist.typed) => ClickHas(S, u, reqs, T, srv, hist.typed)
    <3>1. Len(T) = 1 => T # <<>>
      OBVIOUS
    <3> QED BY <2>3, <2>5, <3>1, AloneOne DEF ClickHas
  <2> QED BY <1>2, <2>3, <2>4, <2>5, <2>6
<1>4. ASSUME Listen PROVE CInv'
  <2>1. PICK i \in First("listen") : RunOut([ui EXCEPT !.mute = FALSE], RemoveAt(timers, i))
    BY <1>4 DEF Listen
  <2> DEFINE u == [ui EXCEPT !.mute = FALSE]
             T == RemoveAt(timers, i)
  <2>2. ClickTimers(S, T) /\ timers # <<>> /\ (Len(timers) = 1 => T = <<>>)
    BY <1>1, <2>1, FirstOne
  <2>3. /\ u.sel = ui.sel /\ u.open = ui.open /\ u.dialog = ui.dialog /\ u.rest = ui.rest
        /\ ~u.mute /\ u.val = ui.val /\ u.dirty = ui.dirty /\ u.button = ui.button
    <3> HIDE DEF Names, Addresses, Dialogs
    <3> QED BY <1>0 DEF Uis
  <2>4. RunOut(u, T)
    BY <2>1
  <2> HIDE DEF u, T
  <2>5. ClickUi(S, u, cache)
    BY <2>3 DEF CInv, ClickUi
  <2>6. ClickHas(S, ui, reqs, timers, srv, hist.typed) => ClickHas(S, u, reqs, T, srv, hist.typed)
    BY <2>2, <2>3 DEF ClickHas
  <2> QED BY <1>2, <2>2, <2>4, <2>5, <2>6
<1> QED BY <1>3, <1>4

\* Another tab writes other fields than the user edits.
LEMMA OtherWritten ==
    ASSUME TInv, OtherTab, page \notin Editors
    PROVE  /\ page' = page /\ ui' = ui /\ cache' = cache /\ timers' = timers /\ reqs' = reqs
           /\ hist'.excuse = hist.excuse \cup {"other"} /\ hist'.harm = hist.harm
           /\ hist'.typed = hist.typed
           /\ \A k \in Keys : srv'.obj[k].val = srv.obj[k].val
           /\ page # "profile" => srv'.order = srv.order
<1>1. /\ page' = page /\ ui' = ui /\ cache' = cache /\ timers' = timers /\ reqs' = reqs
      /\ hist'.excuse = hist.excuse \cup {"other"} /\ hist'.harm = hist.harm
      /\ hist'.typed = hist.typed
  BY Typed DEF OtherTab, Hists
<1>2. srv \in Servers(acts) /\ srv.obj \in [Keys -> [val : 0..acts, other : 0..acts]]
  BY Typed DEF Servers
<1>3. ASSUME NEW k \in Keys, srv' = [srv EXCEPT !.obj[k].other = acts + 1]
      PROVE  srv'.order = srv.order /\ \A j \in Keys : srv'.obj[j].val = srv.obj[j].val
  <2>1. srv' = [srv EXCEPT !.obj = [srv.obj EXCEPT ![k] = [srv.obj[k] EXCEPT !.other = acts + 1]]]
    BY <1>3
  <2>2. srv'.order = srv.order /\ srv'.obj = [srv.obj EXCEPT ![k] = [srv.obj[k] EXCEPT !.other = acts + 1]]
    BY <1>2, <2>1 DEF Servers
  <2>3. [srv.obj[k] EXCEPT !.other = acts + 1].val = srv.obj[k].val
    BY <1>2
  <2> QED BY <1>2, <2>2, <2>3
<1>4. ASSUME srv' = [srv EXCEPT !.order = Tail(@)] PROVE srv'.obj = srv.obj
  BY <1>2, <1>4 DEF Servers
<1>5. ASSUME page # "profile" PROVE \E k \in Keys : srv' = [srv EXCEPT !.obj[k].other = acts + 1]
  BY <1>5 DEF OtherTab
<1>6. (\E k \in Keys : srv' = [srv EXCEPT !.obj[k].other = acts + 1])
      \/ srv' = [srv EXCEPT !.order = Tail(@)]
  BY DEF OtherTab
<1> QED BY <1>1, <1>3, <1>4, <1>5, <1>6

LEMMA ClickOtherTab == ASSUME TInv, CInv, page \in AtClick, OtherTab PROVE CInv'
<1> DEFINE S == Stored[1]
<1>1. page \notin Editors /\ page # "profile" /\ S \in Keys
  BY Bounds DEF AtClick, Editors
<1>2. /\ page' = page /\ ui' = ui /\ cache' = cache /\ timers' = timers /\ reqs' = reqs
      /\ hist'.excuse = hist.excuse \cup {"other"} /\ hist'.harm = hist.harm
      /\ hist'.typed = hist.typed /\ srv'.order = srv.order
      /\ \A k \in Keys : srv'.obj[k].val = srv.obj[k].val
  BY <1>1, OtherWritten
<1>3. Has(srv, S, hist.typed) => Has(srv', S, hist.typed)
  BY <1>1, <1>2 DEF Has
<1>4. ClickHas(S, ui, reqs, timers, srv, hist.typed) => ClickHas(S, ui, reqs, timers, srv', hist.typed)
  BY <1>3 DEF ClickHas
<1> QED BY <1>2, <1>4, ClickBecomes DEF CInv

LEMMA ClickInit == Init => CInv
<1> SUFFICES ASSUME Init, page \in AtClick PROVE CInv
  BY DEF CInv
<1> DEFINE S == Stored[1]
<1>1. /\ ui = Blank(S, Of(S)) /\ reqs = Ask({}, "load", Of(S), NoBody)
      /\ cache = None /\ timers = <<>> /\ srv.order = Stored
      /\ hist.harm = {} /\ hist.typed = 0
  BY DEF Init, Entry, AtClick, Dropdown, Editors
<1>2. /\ ui.sel = S /\ ~ui.open /\ ui.dialog = None /\ ~ui.mute /\ ~ui.dirty /\ ~ui.button
  BY <1>1 DEF Blank
<1>3. PICK q : reqs = {} \cup {q} /\ q.op = "load" /\ q.at = Of(S) /\ q.st = "sent"
  BY <1>1, Asked
<1>4. None # "delete" /\ reqs = {q}
  BY <1>3, Bounds
<1>5. ClickUi(S, ui, cache) /\ ClickSent(S, reqs) /\ ClickTimers(S, timers)
  BY <1>1, <1>2, <1>3, <1>4 DEF ClickUi, ClickSent, ClickTimers
<1>6. ClickHas(S, ui, reqs, timers, srv, hist.typed)
  BY <1>1, <1>2, <1>3, <1>4, AloneOne DEF ClickHas, Has
<1> QED BY <1>1, <1>5, <1>6 DEF CInv

\* A behaviour is one visit of one page.
LEMMA PageKept == ASSUME [Next]_vars PROVE page' = page
<1>1. ASSUME Click PROVE page' = page
  <2>1. ASSUME NEW u, NEW Q, NEW c, NEW h, Acts(u, Q, c, h) PROVE page' = page
    BY <2>1 DEF Acts
  <2>2. ASSUME NEW u, NEW Q, NEW b \in BOOLEAN,
               Clicks(u, Q) \/ Edits(b) \/ Leaves(u, Q) \/ Confirms(u, Q)
        PROVE  page' = page
    BY <2>1, <2>2 DEF Clicks, Edits, Leaves, Confirms
  <2>3. ASSUME NEW u, NEW c, NEW b, NEW k, SaveAppSettings(u, c, b) \/ Opens(u, k) PROVE page' = page
    BY <2>1, <2>3 DEF SaveAppSettings, Opens
  <2>4. (~ui.mute) \in BOOLEAN
    OBVIOUS
  <2>5. ASSUME GeneralClick \/ LogClick \/ SwaparrClick PROVE page' = page
    BY <2>1, <2>2, <2>3, <2>4, <2>5
       DEF GeneralClick, GeneralType, GeneralUncollected, GeneralSave, LogClick, LogType, LogSave,
           SwaparrClick, SwaparrType, SwaparrTag, SwaparrSave
  <2>6. ASSUME InstanceClick \/ ProwlarrClick PROVE page' = page
    BY <2>1, <2>2, <2>3, <2>6
       DEF InstanceClick, InstanceOpen, InstanceType, InstanceTag, InstanceSave, InstanceBack,
           InstanceDiscard, InstanceDelete, InstanceDoDelete,
           ProwlarrClick, ProwlarrOpen, ProwlarrType, ProwlarrSave, ProwlarrBack, ProwlarrDiscard
  <2>7. ASSUME MovieClick \/ TVClick \/ ProfileClick PROVE page' = page
    BY <2>1, <2>2, <2>7
       DEF MovieClick, MovieChange, MovieType, MovieToken, MovieSave, MovieLeave, MovieDiscard,
           MovieInstancesChanged, TVClick, TVChange, TVType, TVToken, TVSave, TVLeave, TVDiscard,
           ProfileClick, ProfileType, ProfileDrag, ProfileSave, ProfileLeave, ProfileDiscard
  <2>8. ASSUME ConnectionClick \/ IndexerClick PROVE page' = page
    BY <2>1, <2>2, <2>3, <2>8
       DEF ConnectionClick, ConnectionOpen, ConnectionDelete, ConnectionAdd, ConnectionType,
           ConnectionClose, ConnectionSave, ConnectionDoDelete,
           IndexerClick, IndexerOpen, IndexerAdd, IndexerType, IndexerImport, IndexerSave, IndexerBack
  <2> QED BY <1>1, <2>5, <2>6, <2>7, <2>8 DEF Click, Stay
<1>2. ASSUME NEW r \in reqs, Serve(r) PROVE page' = page
  BY <1>2 DEF Serve, ServeLoad, ServeSave, ServeAdd, ServeRemove, ServeScores, Refuse, Served
<1>3. ASSUME NEW r \in reqs, Ends(r) PROVE page' = page
  <2>1. ASSUME NEW u, NEW Q, NEW c, NEW T, NEW why, Handle(r, u, Q, c, T, why) PROVE page' = page
    BY <2>1 DEF Handle
  <2>2. ASSUME NEW u, NEW Q, NEW op,
               Answer(r, u, Q) \/ Failure(r, op, u, Q) \/ Dropped(r, op) \/ Ignored(r, op)
        PROVE  page' = page
    BY <2>1, <2>2 DEF Answer, Failure, Dropped, Ignored
  <2>3. ASSUME AtClickAnswer(r) \/ ProfileAnswer(r) PROVE page' = page
    BY <2>1, <2>2, <2>3
       DEF AtClickAnswer, SaveAppSettingsAnswer, SaveAppSettingsFailed, LoadAnswer,
           ProfileAnswer, ProfileOpen, ProfileSaved, ProfileScoresSaved
  <2>4. ASSUME MovieAnswer(r) \/ TVAnswer(r) PROVE page' = page
    BY <2>1, <2>2, <2>4
       DEF MovieAnswer, MovieInstances, MovieShow, MovieSaved, TVAnswer, TVInstances, TVShow, TVSaved
  <2>5. ASSUME ConnectionAnswer(r) \/ IndexerAnswer(r) PROVE page' = page
    BY <2>1, <2>2, <2>5
       DEF ConnectionAnswer, ConnectionsShow, ConnectionSaved, ConnectionsReloaded, ConnectionDeleted,
           IndexerAnswer, IndexersShow, IndexerSaved
  <2> QED BY <1>3, <2>3, <2>4, <2>5 DEF Ends
<1> QED BY <1>1, <1>2, <1>3 DEF Next, Network, vars, OtherTab, Redraw, Listen, RunOut

LEMMA ClickStep == TInv /\ CInv /\ [Next]_vars => CInv'
<1> SUFFICES ASSUME TInv, CInv, [Next]_vars PROVE CInv'
  OBVIOUS
<1>1. CASE page \notin AtClick
  BY <1>1, PageKept DEF CInv, AtClick
<1>2. CASE page \in AtClick
  <2>1. CASE UNCHANGED vars
    BY <1>2, <2>1, ClickBecomes DEF vars, CInv
  <2>2. ASSUME NEW r \in reqs, Ends(r) PROVE AtClickAnswer(r)
    BY <1>2, <2>2 DEF Ends, AtClick
  <2> QED BY <1>2, <2>1, <2>2, ClickClick, ClickServe, ClickEnds, ClickTimeouts, ClickOtherTab
          DEF Next, Network
<1> QED BY <1>1, <1>2

-----------------------------------------------------------------------------
(* A profile.                                                              *)

\* What holds of its form while nothing is under way.
ProfileCalm ==
    /\ reqs = {}
    /\ ui.open => ui.rest = Stored[1]
    /\ ui.button => ui.dirty
    /\ ui.dirty => ui.open /\ ui.val = hist.typed
    /\ ~ui.dirty => Has(srv, Stored[1], hist.typed)
    /\ "lost" \notin hist.harm

LEMMA ProfileBecomes ==
    ASSUME page' = page, page = "profile", ProfileUi(Stored[1], ui'), ProfileSent(ui', reqs'),
           timers' = <<>>, "other" \notin hist'.excuse => srv'.order = Stored,
           ui'.at = Of(Stored[1]) \/ "other" \notin hist'.excuse => ProfileOwn(Stored[1], ui', reqs'),
           hist'.harm \cap {"wrong", "twice"} = {},
           "rest" \in hist'.harm => "other" \in hist'.excuse,
           hist'.excuse \subseteq ProfileCopes(ui') =>
               ProfileHas(Stored[1], ui', reqs', srv', hist'.typed) /\ "lost" \notin hist'.harm
    PROVE  PInv'
BY DEF PInv, ProfileUi, ProfileSent, ProfileOwn, ProfileCopes, ProfileHas, Alone, Has, Of, Index

LEMMA ProfileFacts ==
    ASSUME PInv, page = "profile"
    PROVE  /\ hist.excuse \subseteq ProfileCopes(ui) =>
                  /\ ui.at = Of(Stored[1]) \/ "other" \notin hist.excuse
                  /\ ProfileOwn(Stored[1], ui, reqs) /\ "lost" \notin hist.harm
                  /\ ProfileHas(Stored[1], ui, reqs, srv, hist.typed)
           /\ \A u, H : u.at = ui.at /\ hist.excuse \subseteq H /\ H \subseteq ProfileCopes(u)
                          => hist.excuse \subseteq ProfileCopes(ui)
           /\ page \notin Editors /\ page \notin AtClick /\ page \notin Dropdown
<1>1. ASSUME hist.excuse \subseteq ProfileCopes(ui)
      PROVE  ui.at = Of(Stored[1]) \/ "other" \notin hist.excuse
  BY <1>1, Address DEF PInv, ProfileUi, ProfileCopes
<1> QED BY <1>1 DEF PInv, ProfileCopes, Editors, AtClick, Dropdown

LEMMA ProfileActs ==
    ASSUME TInv, PInv, page = "profile", NEW u, NEW Q, NEW c, NEW h \in Hists(acts + 1),
           Acts(u, Q, c, h), ProfileUi(Stored[1], u), u.at = ui.at, ProfileSent(u, Q),
           ProfileOwn(Stored[1], ui, reqs) => ProfileOwn(Stored[1], u, Q),
           h.excuse = hist.excuse, h.harm \subseteq hist.harm \cup {"lost"},
           ProfileCalm => ProfileHas(Stored[1], u, Q, srv, h.typed) /\ "lost" \notin h.harm
    PROVE  PInv'
<1>1. /\ page' = page /\ ui' = u /\ reqs' = Q /\ cache' = c /\ timers' = timers /\ srv' = srv
      /\ hist'.harm = h.harm /\ hist'.typed = h.typed
      /\ h.excuse \subseteq hist'.excuse
      /\ "hasty" \notin hist'.excuse => reqs = {}
  BY ActsHist
<1>2. ASSUME hist'.excuse \subseteq ProfileCopes(ui')
      PROVE  ProfileHas(Stored[1], ui', reqs', srv', hist'.typed) /\ "lost" \notin hist'.harm
  <2>1. reqs = {} /\ hist.excuse \subseteq ProfileCopes(ui)
    BY <1>1, <1>2 DEF ProfileCopes
  <2>2. ProfileCalm
    BY <2>1, ProfileFacts DEF ProfileCalm, ProfileHas, ProfileOwn
  <2> QED BY <1>1, <2>2
<1> QED BY <1>1, <1>2, ProfileBecomes DEF PInv

LEMMA ProfileEdits ==
    ASSUME TInv, PInv, page = "profile", Edits(TRUE) PROVE PInv'
<1> DEFINE u == [ui EXCEPT !.val = acts + 1, !.dirty = @ \/ TRUE, !.button = @ \/ TRUE]
           h == [hist EXCEPT !.typed = acts + 1]
<1>1. Acts(u, reqs, cache, h) /\ ui.open
  BY DEF Edits
<1>2. h \in Hists(acts + 1) /\ h.harm = hist.harm /\ h.excuse = hist.excuse /\ h.typed = acts + 1
  BY HistWith
<1>3. /\ u.sel = ui.sel /\ u.at = ui.at /\ u.open = ui.open /\ u.dialog = ui.dialog
      /\ u.rest = ui.rest /\ u.val = acts + 1 /\ u.dirty
  <2> HIDE DEF Names, Addresses, Dialogs
  <2> QED BY Typed DEF Uis
<1> HIDE DEF u, h
<1>4. ProfileUi(Stored[1], u) /\ ProfileSent(u, reqs)
  BY <1>3 DEF PInv, ProfileUi, ProfileSent
<1>5. ProfileOwn(Stored[1], ui, reqs) => ProfileOwn(Stored[1], u, reqs)
  BY <1>3 DEF ProfileOwn
<1>6. ProfileCalm => ProfileHas(Stored[1], u, reqs, srv, h.typed) /\ "lost" \notin h.harm
  BY <1>1, <1>2, <1>3, AloneOne DEF ProfileCalm, ProfileHas
<1> QED BY <1>1, <1>2, <1>3, <1>4, <1>5, <1>6, ProfileActs

LEMMA ProfileSaves == ASSUME TInv, PInv, page = "profile", ProfileSave PROVE PInv'
<1> DEFINE u == [ui EXCEPT !.button = FALSE]
           b == ProfileBody
<1>1. Acts(u, Ask(reqs, "save", ui.at, b), cache, hist) /\ ui.open /\ ui.button /\ hist \in Hists(acts + 1)
  BY Typed DEF ProfileSave, Clicks
<1>2. b.val = ui.val /\ b.rest = ui.rest
  BY BodyField DEF ProfileBody
<1>3. /\ u.sel = ui.sel /\ u.at = ui.at /\ u.open = ui.open /\ u.dialog = ui.dialog
      /\ u.rest = ui.rest /\ u.val = ui.val /\ u.dirty = ui.dirty /\ ~u.button
  <2> HIDE DEF Names, Addresses, Dialogs
  <2> QED BY Typed DEF Uis
<1> HIDE DEF u, b
<1>4. PICK q : /\ Ask(reqs, "save", ui.at, b) = reqs \cup {q}
               /\ q.op = "save" /\ q.at = ui.at /\ q.body = b /\ q.st = "sent" /\ ~q.ok
  BY Asked
<1>5. ProfileUi(Stored[1], u) /\ ProfileSent(u, reqs \cup {q})
  BY <1>3, <1>4 DEF PInv, ProfileUi, ProfileSent
<1>6. ProfileOwn(Stored[1], ui, reqs) => ProfileOwn(Stored[1], u, reqs \cup {q})
  BY <1>1, <1>2, <1>3, <1>4 DEF ProfileOwn
<1>7. ProfileCalm => ProfileHas(Stored[1], u, reqs \cup {q}, srv, hist.typed) /\ "lost" \notin hist.harm
  <2>1. ProfileCalm => ProfileHas(Stored[1], u, {q}, srv, hist.typed)
    BY <1>1, <1>2, <1>3, <1>4, AloneOne DEF ProfileCalm, ProfileHas
  <2>2. ProfileCalm => reqs \cup {q} = {q} /\ "lost" \notin hist.harm
    BY DEF ProfileCalm
  <2> QED BY <2>1, <2>2
<1> QED BY <1>1, <1>3, <1>4, <1>5, <1>6, <1>7, ProfileActs

LEMMA ProfileLeaves ==
    ASSUME TInv, PInv, page = "profile", Leaves(Gone(ui), reqs) \/ Confirms(Gone(ui), reqs)
    PROVE  PInv'
<1> DEFINE S == Stored[1]
           lost == IF Loses THEN {"lost"} ELSE {}
           h == [hist EXCEPT !.harm = @ \cup lost, !.typed = 0]
           g == [hist EXCEPT !.typed = 0]
           u == [ui EXCEPT !.dialog = "leave"]
           w == Gone(ui)
<1>1. \/ Acts(u, reqs, cache, hist) /\ ui.open
      \/ Acts(w, reqs, cache, h) /\ ui.open /\ ~ui.dirty
      \/ Acts(w, reqs, cache, g)
  BY DEF Leaves, Confirms, Clicks
<1>2. /\ h \in Hists(acts + 1) /\ h.harm = hist.harm \cup lost /\ h.excuse = hist.excuse /\ h.typed = 0
      /\ g \in Hists(acts + 1) /\ g.harm = hist.harm /\ g.excuse = hist.excuse /\ g.typed = 0
      /\ hist \in Hists(acts + 1)
  BY HistWith, Typed
<1>3. /\ u.sel = ui.sel /\ u.at = ui.at /\ u.open = ui.open /\ u.dialog = "leave"
      /\ u.rest = ui.rest /\ u.val = ui.val /\ u.dirty = ui.dirty /\ u.button = ui.button
  <2> HIDE DEF Names, Addresses, Dialogs
  <2> QED BY Typed DEF Uis
<1>4. w.sel = ui.sel /\ w.at = ui.at /\ ~w.open /\ w.dialog = None /\ ~w.dirty /\ ~w.button
  <2>1. acts \in Nat /\ ui \in Uis(acts)
    BY Typed
  <2> QED BY <2>1, Settles
<1>5. lost \subseteq {"lost"} /\ (ProfileCalm /\ ui.open /\ ~ui.dirty => lost = {})
  <2>1. Edited = ui.rest
    BY DEF Edited
  <2>2. ProfileCalm /\ ui.open /\ ~ui.dirty => ~Loses
    BY <2>1 DEF ProfileCalm, Has, Loses
  <2> QED BY <2>2
<1> HIDE DEF u, h, g, w, lost
<1>6. /\ ProfileUi(S, u) /\ ProfileSent(u, reqs)
      /\ ProfileUi(S, w) /\ ProfileSent(w, reqs)
      /\ ProfileOwn(S, ui, reqs) => ProfileOwn(S, u, reqs) /\ ProfileOwn(S, w, reqs)
  BY <1>3, <1>4 DEF PInv, ProfileUi, ProfileSent, ProfileOwn
<1>7. ASSUME Acts(u, reqs, cache, hist) PROVE PInv'
  <2>1. ProfileCalm => ProfileHas(S, u, reqs, srv, hist.typed) /\ "lost" \notin hist.harm
    BY <1>3, AloneOne DEF ProfileCalm, ProfileHas
  <2> QED BY <1>2, <1>3, <1>6, <1>7, <2>1, ProfileActs
<1>8. ProfileCalm => ProfileHas(S, w, reqs, srv, 0)
  BY <1>4, AloneOne DEF ProfileCalm, ProfileHas, Has
<1>9. ASSUME Acts(w, reqs, cache, h), ui.open, ~ui.dirty PROVE PInv'
  <2>1. ProfileCalm => "lost" \notin h.harm
    BY <1>2, <1>5, <1>9 DEF ProfileCalm
  <2> QED BY <1>2, <1>4, <1>5, <1>6, <1>8, <1>9, <2>1, ProfileActs
<1>10. ASSUME Acts(w, reqs, cache, g) PROVE PInv'
  <2>1. ProfileCalm => "lost" \notin g.harm
    BY <1>2 DEF ProfileCalm
  <2> QED BY <1>2, <1>4, <1>6, <1>8, <1>10, <2>1, ProfileActs
<1> QED BY <1>1, <1>7, <1>9, <1>10

\* The server's answers.
LEMMA ProfileServed ==
    ASSUME TInv, PInv, page = "profile", NEW r \in reqs, NEW s, NEW harm, NEW own, NEW why,
           NEW ok \in BOOLEAN, NEW obj, Served(r, s, harm, own, why), reqs' = Answered(r, ok, obj),
           r.st = "sent", s.order = srv.order, harm \cap {"lost", "wrong", "twice"} = {},
           ui.at = Of(Stored[1]) \/ "other" \notin hist.excuse =>
               "rest" \notin harm /\ (ok /\ r.op = "load" => obj.of = Stored[1]),
           ui.at = Of(Stored[1]) \/ "other" \notin hist.excuse =>
               (r.op = "save" /\ ok => s.obj[Stored[1]].val = r.body.val),
           (r.op = "save" /\ ok) \/ \A k \in Keys : s.obj[k].val = srv.obj[k].val
    PROVE  PInv'
<1> DEFINE S == Stored[1]
<1>1. PICK q : /\ Answered(r, ok, obj) = Ended(r) \cup {q}
               /\ q.op = r.op /\ q.at = r.at /\ q.body = r.body /\ q.st = "done"
               /\ q.ok = ok /\ q.obj = obj
  BY Given
<1>2. /\ page' = page /\ ui' = ui /\ cache' = cache /\ timers' = timers /\ srv' = s
      /\ hist'.harm = hist.harm \cup harm /\ hist'.typed = hist.typed
      /\ hist.excuse \cup why \subseteq hist'.excuse
  BY ServedHist
<1>3. ProfileSent(ui, reqs')
  BY <1>1, EndedWithin DEF PInv, ProfileSent
<1>4. ui.at = Of(S) \/ "other" \notin hist.excuse => ProfileOwn(S, ui, reqs')
  BY <1>1, EndedWithin DEF PInv, ProfileOwn
<1>5. ASSUME hist'.excuse \subseteq ProfileCopes(ui')
      PROVE  ProfileHas(S, ui', reqs', srv', hist'.typed) /\ "lost" \notin hist'.harm
  <2>1. hist.excuse \subseteq ProfileCopes(ui)
    BY <1>2, <1>5 DEF ProfileCopes
  <2>2. /\ ui.at = Of(S) \/ "other" \notin hist.excuse
        /\ ProfileHas(S, ui, reqs, srv, hist.typed) /\ "lost" \notin hist.harm
    BY <2>1, ProfileFacts
  <2>3. Alone(reqs)
    BY <2>2 DEF ProfileHas
  <2>4. reqs = {r} /\ reqs' = {q}
    BY <1>1, <2>3, AloneEnded
  <2>5. ~ui.dirty => Has(s, S, hist.typed)
    <3>1. CASE r.op = "save"
      BY <2>2, <2>4, <3>1 DEF ProfileHas
    <3>2. CASE r.op # "save"
      <4>1. S \in Keys
        BY Bounds
      <4> QED BY <2>2, <3>2, <4>1 DEF ProfileHas, Has
    <3> QED BY <3>1, <3>2
  <2>6. ProfileHas(S, ui, {q}, s, hist.typed)
    BY <1>1, <2>2, <2>4, <2>5, AloneOne DEF ProfileHas
  <2> QED BY <1>2, <2>2, <2>4, <2>6
<1> QED BY <1>2, <1>3, <1>4, <1>5, ProfileBecomes DEF PInv

LEMMA ProfileServe == ASSUME TInv, PInv, page = "profile", NEW r \in reqs, Serve(r) PROVE PInv'
<1> DEFINE S == Stored[1]
           sure == (ui.at = Of(S) \/ "other" \notin hist.excuse)
<1>0. /\ r.st = "sent" /\ page \notin Editors /\ acts \in Nat /\ srv \in Servers(acts)
      /\ r.body \in Bodies(acts) /\ S \in Keys /\ r.op \in {"load", "save", "scores"}
      /\ Named(r.at) \subseteq Keys
      /\ (sure /\ r.op \in {"load", "save"} => Named(r.at) \subseteq {S})
      /\ (sure /\ r.op = "save" => r.body.rest = S)
  <2>1. /\ r.op \in {"load", "save", "scores"} /\ (r.op \in {"load", "save"} => r.at = ui.at)
        /\ ui.at \in {Of(S), Index(1)} /\ ("other" \notin hist.excuse => srv.order = Stored)
        /\ (sure /\ r.op = "save" => r.body.rest = S)
    BY DEF PInv, ProfileSent, ProfileUi, ProfileOwn
  <2>2. r.at \in Addresses \cup {Of(None)} /\ S \in Keys
    BY RequestTyped, Bounds
  <2>3. Named(r.at) \subseteq Keys /\ (r.at = Of(S) => Named(r.at) = {S} \cap Range(srv.order))
        /\ (r.at.by = "index" => Named(r.at) = {srv.order[i] : i \in {r.at.i} \cap DOMAIN srv.order})
    BY <2>2, NamedTyped
  <2>4. ASSUME sure, r.op \in {"load", "save"} PROVE Named(r.at) \subseteq {S}
    BY <2>1, <2>3, <2>4, Address
  <2> QED BY <2>1, <2>2, <2>3, <2>4, Typed, RequestTyped, ProfileFacts DEF Serve
<1>1. ASSUME ServeLoad(r) PROVE PInv'
  <2> DEFINE K == Named(r.at)
             ok == K # {} \/ page \in Editors \/ r.op = "list"
             obj == IF page \in Editors THEN srv.order
                    ELSE IF K = {} THEN None ELSE Shown(srv, Only(K))
  <2>1. Served(r, srv, {}, {}, {}) /\ reqs' = Answered(r, ok, obj) /\ r.op = "load"
    BY <1>0, <1>1 DEF ServeLoad
  <2>2. ok \in BOOLEAN /\ (sure /\ ok => obj.of = S)
    <3>1. ASSUME ok PROVE Only(K) \in K /\ obj = Shown(srv, Only(K))
      BY <1>0, <2>1, <3>1, OnlyOne
    <3> QED BY <1>0, <2>1, <3>1, ShownTyped
  <2> HIDE DEF ok, obj
  <2> QED BY <1>0, <2>1, <2>2, ProfileServed
<1>2. ASSUME ServeSave(r) PROVE PInv'
  <2> DEFINE k == Only(Named(r.at))
             w == Written(k, r.body)
  <2>1. Served(r, w, Harm(k, r.body), {}, {}) /\ reqs' = Answered(r, TRUE, Shown(w, k)) /\ r.op = "save"
    BY <1>2 DEF ServeSave
  <2>2. k \in Keys /\ (sure => k = S)
    <3>1. k \in Named(r.at)
      BY <1>2, OnlyOne DEF ServeSave
    <3> QED BY <1>0, <2>1, <3>1
  <2> HIDE DEF k
  <2>3. w.order = srv.order /\ w.obj[k].val = r.body.val
    BY <1>0, <2>2, WrittenTyped
  <2> HIDE DEF w
  <2>4. Harm(k, r.body) \cap {"lost", "wrong", "twice"} = {} /\ (sure => "rest" \notin Harm(k, r.body))
    BY <1>0, <2>1, <2>2 DEF Harm
  <2> QED BY <1>0, <2>1, <2>2, <2>3, <2>4, ProfileServed
<1>3. ASSUME ServeScores(r) \/ Refuse(r) PROVE PInv'
  <2>1. \/ Served(r, srv, {}, {}, {}) /\ reqs' = Answered(r, TRUE, None) /\ r.op = "scores"
        \/ Served(r, srv, {}, {}, {"refused"}) /\ reqs' = Answered(r, FALSE, None)
    BY <1>3 DEF ServeScores, Refuse
  <2> QED BY <1>0, <2>1, ProfileServed
<1> QED BY <1>0, <1>1, <1>2, <1>3 DEF Serve, ServeAdd, ServeRemove

\* The ends of its requests: the only one under way.
ProfileEnding(r) ==
    /\ ProfileHas(Stored[1], ui, reqs, srv, hist.typed)
    /\ ProfileOwn(Stored[1], ui, reqs) /\ reqs = {r} /\ Ended(r) = {}

LEMMA ProfileEnd ==
    ASSUME TInv, PInv, page = "profile", NEW r \in reqs, NEW u, NEW Q, NEW why,
           Handle(r, u, Q, cache, timers, why), ProfileUi(Stored[1], u), u.at = ui.at,
           ProfileSent(u, Q), ProfileOwn(Stored[1], ui, reqs) => ProfileOwn(Stored[1], u, Q),
           ProfileEnding(r) => ProfileHas(Stored[1], u, Q, srv, hist.typed)
    PROVE  PInv'
<1> DEFINE S == Stored[1]
<1>1. /\ page' = page /\ ui' = u /\ reqs' = Q /\ cache' = cache /\ timers' = timers /\ srv' = srv
      /\ hist'.harm = hist.harm /\ hist'.typed = hist.typed /\ hist.excuse \cup why \subseteq hist'.excuse
  BY HandleHist
<1>2. ASSUME hist'.excuse \subseteq ProfileCopes(ui')
      PROVE  ProfileHas(S, ui', reqs', srv', hist'.typed) /\ "lost" \notin hist'.harm
  <2>1. hist.excuse \subseteq ProfileCopes(ui)
    BY <1>1, <1>2 DEF ProfileCopes
  <2>2. ProfileHas(S, ui, reqs, srv, hist.typed) /\ "lost" \notin hist.harm
        /\ ProfileOwn(S, ui, reqs)
    BY <2>1, ProfileFacts
  <2>3. Alone(reqs)
    BY <2>2 DEF ProfileHas
  <2>4. ProfileEnding(r)
    BY <2>2, <2>3, AloneEnded DEF ProfileEnding
  <2> QED BY <1>1, <2>2, <2>4
<1> QED BY <1>1, <1>2, ProfileBecomes DEF PInv

LEMMA ProfileAnswers ==
    ASSUME TInv, PInv, page = "profile", NEW r \in reqs, ProfileAnswer(r) PROVE PInv'
<1> DEFINE S == Stored[1]
<1>0. acts \in Nat /\ ui \in Uis(acts) /\ page \notin Editors /\ page \notin Dropdown
  BY Typed DEF Editors, Dropdown
<1>1. ASSUME Success(r, "load"),
             Answer(r, [ProfileForm(ui, r.obj) EXCEPT !.at = r.at], Ended(r))
      PROVE  PInv'
  <2> DEFINE v == ProfileForm(ui, r.obj)
             u == [v EXCEPT !.at = r.at]
  <2>1. r.obj \in Objects(acts) /\ r.op = "load" /\ r.st = "done" /\ r.ok /\ r.at = ui.at
    BY <1>0, <1>1, Brought DEF Success, PInv, ProfileSent
  <2>2. /\ v \in Uis(acts) /\ v.open /\ v.sel = ui.sel /\ v.rest = r.obj.of
        /\ v.dialog = ui.dialog /\ ~v.dirty /\ ~v.button
    BY <1>0, <2>1, DrawsClean DEF ProfileForm
  <2> HIDE DEF v
  <2>3. /\ u.open /\ u.sel = ui.sel /\ u.rest = r.obj.of /\ u.at = ui.at
        /\ u.dialog = ui.dialog /\ ~u.dirty /\ ~u.button
    <3> HIDE DEF Names, Addresses, Dialogs
    <3> QED BY <2>1, <2>2 DEF Uis
  <2>4. Handle(r, u, Ended(r), cache, timers, {})
    BY <1>1 DEF Answer, v
  <2> HIDE DEF u
  <2>5. ProfileUi(S, u) /\ ProfileSent(u, Ended(r))
    BY <2>3, EndedWithin DEF PInv, ProfileUi, ProfileSent
  <2>6. ProfileOwn(S, ui, reqs) => ProfileOwn(S, u, Ended(r))
    BY <2>1, <2>3, EndedWithin DEF ProfileOwn
  <2>7. ProfileEnding(r) => ProfileHas(S, u, Ended(r), srv, hist.typed)
    BY <2>1, <2>3, AloneOne DEF ProfileEnding, ProfileHas
  <2> QED BY <2>3, <2>4, <2>5, <2>6, <2>7, ProfileEnd
<1>2. ASSUME Success(r, "save"),
             Answer(r, [ui EXCEPT !.dirty = FALSE], ProfileSaveScores(Ended(r)))
      PROVE  PInv'
  <2> DEFINE u == [ui EXCEPT !.dirty = FALSE]
  <2>1. PICK q : /\ ProfileSaveScores(Ended(r)) = Ended(r) \cup {q}
                 /\ q.op = "scores" /\ q.st = "sent" /\ ~q.ok
    BY Asked DEF ProfileSaveScores
  <2>2. Handle(r, u, Ended(r) \cup {q}, cache, timers, {}) /\ r.op = "save" /\ r.st = "done" /\ r.ok
    BY <1>2, <2>1 DEF Answer, Success
  <2>3. /\ u.open = ui.open /\ u.sel = ui.sel /\ u.rest = ui.rest /\ u.at = ui.at
        /\ u.dialog = ui.dialog /\ ~u.dirty /\ u.button = ui.button /\ u.val = ui.val
    <3> HIDE DEF Names, Addresses, Dialogs
    <3> QED BY <1>0 DEF Uis
  <2> HIDE DEF u
  <2>4. ProfileUi(S, u) /\ ProfileSent(u, Ended(r) \cup {q})
    BY <2>1, <2>3, EndedWithin DEF PInv, ProfileUi, ProfileSent
  <2>5. ProfileOwn(S, ui, reqs) => ProfileOwn(S, u, Ended(r) \cup {q})
    BY <2>1, <2>3, EndedWithin DEF ProfileOwn
  <2>6. ProfileEnding(r) => ProfileHas(S, u, Ended(r) \cup {q}, srv, hist.typed)
    <3>1. ProfileEnding(r) => /\ Ended(r) \cup {q} = {q} /\ ~u.button /\ ~u.dirty
                              /\ Has(srv, S, hist.typed)
      BY <2>2, <2>3 DEF ProfileEnding, ProfileHas, Has
    <3>2. ProfileEnding(r) => ProfileHas(S, u, {q}, srv, hist.typed)
      BY <2>1, <3>1, AloneOne DEF ProfileHas
    <3> QED BY <3>1, <3>2
  <2> QED BY <2>2, <2>3, <2>4, <2>5, <2>6, ProfileEnd
<1>3. ASSUME NEW why, r.op = "save",
             Handle(r, [ui EXCEPT !.button = TRUE], Ended(r), cache, timers, why)
      PROVE  PInv'
  <2> DEFINE u == [ui EXCEPT !.button = TRUE]
  <2>1. /\ u.open = ui.open /\ u.sel = ui.sel /\ u.rest = ui.rest /\ u.at = ui.at
        /\ u.dialog = ui.dialog /\ u.dirty = ui.dirty /\ u.val = ui.val
    <3> HIDE DEF Names, Addresses, Dialogs
    <3> QED BY <1>0 DEF Uis
  <2>2. Handle(r, u, Ended(r), cache, timers, why)
    BY <1>3
  <2> HIDE DEF u
  <2>3. ProfileUi(S, u) /\ ProfileSent(u, Ended(r))
    BY <2>1, EndedWithin DEF PInv, ProfileUi, ProfileSent
  <2>4. ProfileOwn(S, ui, reqs) => ProfileOwn(S, u, Ended(r))
    BY <2>1, EndedWithin DEF ProfileOwn
  <2>5. ProfileEnding(r) => ProfileHas(S, u, Ended(r), srv, hist.typed)
    BY <1>3, <2>1, AloneOne DEF ProfileEnding, ProfileHas
  <2> QED BY <2>1, <2>2, <2>3, <2>4, <2>5, ProfileEnd
<1>4. ASSUME NEW why, r.op # "save", Handle(r, ui, Ended(r), cache, timers, why) PROVE PInv'
  <2>1. ProfileUi(S, ui) /\ ProfileSent(ui, Ended(r))
    BY EndedWithin DEF PInv, ProfileSent
  <2>2. ProfileOwn(S, ui, reqs) => ProfileOwn(S, ui, Ended(r))
    BY EndedWithin DEF ProfileOwn
  <2>3. ProfileEnding(r) => ProfileHas(S, ui, Ended(r), srv, hist.typed)
    BY <1>4, AloneOne DEF ProfileEnding, ProfileHas
  <2> QED BY <1>4, <2>1, <2>2, <2>3, ProfileEnd
<1> QED BY <1>1, <1>2, <1>3, <1>4
        DEF ProfileAnswer, ProfileOpen, ProfileSaved, ProfileScoresSaved,
            Success, Refused, Ignored, Dropped, Answer, Failure

LEMMA ProfileStay == ASSUME TInv, PInv, page = "profile", Stay PROVE PInv'
<1> DEFINE u == [ui EXCEPT !.dialog = None]
<1>1. /\ page' = page /\ timers' = timers /\ srv' = srv /\ reqs' = reqs /\ hist' = hist /\ ui' = u
  BY DEF Stay
<1>2. /\ u.open = ui.open /\ u.sel = ui.sel /\ u.rest = ui.rest /\ u.at = ui.at /\ u.dialog = None
      /\ u.dirty = ui.dirty /\ u.button = ui.button /\ u.val = ui.val
  <2> HIDE DEF Names, Addresses, Dialogs
  <2> QED BY Typed DEF Uis
<1> HIDE DEF u
<1>3. /\ ProfileUi(Stored[1], u) /\ ProfileSent(u, reqs)
      /\ ProfileOwn(Stored[1], ui, reqs) => ProfileOwn(Stored[1], u, reqs)
      /\ ProfileHas(Stored[1], ui, reqs, srv, hist.typed) =>
             ProfileHas(Stored[1], u, reqs, srv, hist.typed)
  BY <1>2 DEF PInv, ProfileUi, ProfileSent, ProfileOwn, ProfileHas
<1>4. ProfileCopes(u) = ProfileCopes(ui)
  BY <1>2 DEF ProfileCopes
<1> QED BY <1>1, <1>2, <1>3, <1>4, ProfileBecomes DEF PInv

LEMMA ProfileOtherTab == ASSUME TInv, PInv, page = "profile", OtherTab PROVE PInv'
<1> DEFINE S == Stored[1]
<1>1. /\ page' = page /\ ui' = ui /\ timers' = timers /\ reqs' = reqs
      /\ hist'.excuse = hist.excuse \cup {"other"} /\ hist'.harm = hist.harm
      /\ hist'.typed = hist.typed
      /\ \A k \in Keys : srv'.obj[k].val = srv.obj[k].val
  BY OtherWritten DEF Editors
<1>2. S \in Keys
  BY Bounds
<1>3. ProfileHas(S, ui, reqs, srv, hist.typed) => ProfileHas(S, ui, reqs, srv', hist.typed)
  BY <1>1, <1>2 DEF ProfileHas, Has
<1> QED BY <1>1, <1>3, ProfileBecomes DEF PInv

LEMMA ProfileInit == Init => PInv
<1> SUFFICES ASSUME Init, page = "profile" PROVE PInv
  BY DEF PInv
<1> DEFINE S == Stored[1]
<1>1. PICK at \in {Of(S), Index(1)} : ui = Blank(S, at) /\ reqs = Ask({}, "load", at, NoBody)
  BY DEF Init, Entry, AtClick, Dropdown, Editors
<1>2. timers = <<>> /\ srv.order = Stored /\ hist.harm = {} /\ hist.typed = 0
  BY DEF Init
<1>3. ui.sel = S /\ ui.at = at /\ ~ui.open /\ ui.dialog = None /\ ~ui.dirty /\ ~ui.button
  BY <1>1 DEF Blank
<1>4. PICK q : reqs = {} \cup {q} /\ q.op = "load" /\ q.at = at /\ q.st = "sent"
  BY <1>1, Asked
<1>5. reqs = {q}
  BY <1>4
<1>6. ProfileUi(S, ui) /\ ProfileSent(ui, reqs) /\ ProfileOwn(S, ui, reqs)
  BY <1>3, <1>4, <1>5 DEF ProfileUi, ProfileSent, ProfileOwn
<1>7. ProfileHas(S, ui, reqs, srv, hist.typed)
  BY <1>2, <1>3, <1>4, <1>5, AloneOne DEF ProfileHas, Has
<1> QED BY <1>2, <1>6, <1>7 DEF PInv

LEMMA ProfileStep == TInv /\ PInv /\ [Next]_vars => PInv'
<1> SUFFICES ASSUME TInv, PInv, [Next]_vars PROVE PInv'
  OBVIOUS
<1>1. CASE page # "profile"
  BY <1>1, PageKept DEF PInv
<1>2. CASE page = "profile"
  <2>1. CASE UNCHANGED vars
    BY <1>2, <2>1, ProfileBecomes DEF vars, PInv
  <2>2. ASSUME NEW r \in reqs, Ends(r) PROVE ProfileAnswer(r)
    BY <1>2, <2>2 DEF Ends, AtClick
  <2>3. ~(Redraw \/ Listen)
    <3>1. timers = <<>>
      BY <1>2 DEF PInv
    <3> QED BY <3>1 DEF Redraw, Listen, First
  <2>4. ASSUME Click PROVE PInv'
    BY <1>2, <2>4, ProfileEdits, ProfileSaves, ProfileLeaves, ProfileStay
       DEF Click, ProfileClick, ProfileType, ProfileDrag, ProfileLeave, ProfileDiscard
  <2> QED BY <1>2, <2>1, <2>2, <2>3, <2>4, ProfileServe, ProfileAnswers, ProfileOtherTab
          DEF Next, Network
<1> QED BY <1>1, <1>2

-----------------------------------------------------------------------------
(* Forms with a selector.                                                  *)

SelectPatient == {"other", "failed", "reordered"}

\* What holds of such a form while nothing is under way.
SelectCalm ==
    reqs = {} /\ SelectorHas(ui, {}, srv, hist.typed) /\ "lost" \notin hist.harm

LEMMA SelectCopes ==
    /\ page \in Dropdown => Copes = SelectPatient
    /\ page' \in Dropdown => Copes' = SelectPatient
<1>1. \A p \in Dropdown : p \notin AtClick /\ p # "profile" /\ p \notin Editors
  BY DEF Dropdown, AtClick, Editors
<1> QED BY <1>1 DEF Copes, SelectPatient

LEMMA SelectBecomes ==
    ASSUME page' = page, page \in Dropdown, SelectedOf(ui', reqs', timers', srv'),
           hist'.harm \cap {"wrong", "twice"} = {},
           hist'.excuse \cap Uneven = {} => SelectorOf(ui', reqs') /\ "rest" \notin hist'.harm,
           hist'.excuse \subseteq SelectPatient =>
               SelectorHas(ui', reqs', srv', hist'.typed) /\ "lost" \notin hist'.harm
    PROVE  SInv'
<1>1. Copes' = SelectPatient
  BY SelectCopes
<1> QED BY <1>1 DEF SInv, SelectedOf, SelectorOf, SelectorHas, Alone, Has, Of, Uneven

LEMMA SelectFacts ==
    ASSUME SInv, page \in Dropdown
    PROVE  /\ SelectedOf(ui, reqs, timers, srv) /\ timers = <<>>
           /\ hist.harm \cap {"wrong", "twice"} = {}
           /\ hist.excuse \cap Uneven = {} => SelectorOf(ui, reqs) /\ "rest" \notin hist.harm
           /\ hist.excuse \subseteq SelectPatient =>
                  SelectorHas(ui, reqs, srv, hist.typed) /\ "lost" \notin hist.harm
           /\ page \notin Editors /\ page \notin AtClick /\ page # "profile"
<1>1. Copes = SelectPatient
  BY SelectCopes
<1> QED BY <1>1 DEF SInv, SelectedOf, Editors, AtClick, Dropdown

LEMMA SelectActs ==
    ASSUME TInv, SInv, page \in Dropdown, NEW u, NEW Q, NEW c, NEW h \in Hists(acts + 1),
           Acts(u, Q, c, h), SelectedOf(u, Q, <<>>, srv),
           h.excuse = hist.excuse, h.harm \subseteq hist.harm \cup {"lost"},
           reqs = {} /\ SelectorOf(ui, {}) => SelectorOf(u, Q),
           SelectCalm => SelectorHas(u, Q, srv, h.typed) /\ "lost" \notin h.harm
    PROVE  SInv'
<1>1. /\ page' = page /\ ui' = u /\ reqs' = Q /\ cache' = c /\ timers' = timers /\ srv' = srv
      /\ hist'.harm = h.harm /\ hist'.typed = h.typed
      /\ h.excuse \subseteq hist'.excuse
      /\ "hasty" \notin hist'.excuse => reqs = {}
  BY ActsHist
<1>2. ASSUME hist'.excuse \cap Uneven = {}
      PROVE  SelectorOf(ui', reqs') /\ "rest" \notin hist'.harm
  <2>1. reqs = {} /\ hist.excuse \cap Uneven = {}
    BY <1>1, <1>2 DEF Uneven
  <2> QED BY <1>1, <2>1, SelectFacts
<1>3. ASSUME hist'.excuse \subseteq SelectPatient
      PROVE  SelectorHas(ui', reqs', srv', hist'.typed) /\ "lost" \notin hist'.harm
  <2>1. reqs = {} /\ hist.excuse \subseteq SelectPatient
    BY <1>1, <1>3 DEF SelectPatient
  <2>2. SelectCalm
    BY <2>1, SelectFacts DEF SelectCalm
  <2> QED BY <1>1, <2>2
<1>4. SelectedOf(ui', reqs', timers', srv') /\ hist'.harm \cap {"wrong", "twice"} = {}
  BY <1>1, SelectFacts
<1> QED BY <1>1, <1>2, <1>3, <1>4, SelectBecomes

LEMMA SelectEdits ==
    ASSUME TInv, SInv, page \in Dropdown, Edits(TRUE) PROVE SInv'
<1> DEFINE u == [ui EXCEPT !.val = acts + 1, !.dirty = @ \/ TRUE, !.button = @ \/ TRUE]
           h == [hist EXCEPT !.typed = acts + 1]
<1>1. Acts(u, reqs, cache, h) /\ ui.open
  BY DEF Edits
<1>2. h \in Hists(acts + 1) /\ h.harm = hist.harm /\ h.excuse = hist.excuse /\ h.typed = acts + 1
  BY HistWith
<1>3. /\ u.sel = ui.sel /\ u.open = ui.open /\ u.dialog = ui.dialog
      /\ u.rest = ui.rest /\ u.val = acts + 1 /\ u.dirty
  <2> HIDE DEF Names, Addresses, Dialogs
  <2> QED BY Typed DEF Uis
<1> HIDE DEF u, h
<1>4. SelectedOf(u, reqs, <<>>, srv)
  BY <1>3, SelectFacts DEF SelectedOf
<1>5. reqs = {} /\ SelectorOf(ui, {}) => SelectorOf(u, reqs)
  BY <1>1, <1>3 DEF SelectorOf
<1>6. SelectCalm => SelectorHas(u, reqs, srv, h.typed) /\ "lost" \notin h.harm
  BY <1>1, <1>2, <1>3 DEF SelectCalm, SelectorHas
<1> QED BY <1>1, <1>2, <1>4, <1>5, <1>6, SelectActs

LEMMA SelectSaves ==
    ASSUME TInv, SInv, page \in Dropdown, MovieSave \/ TVSave PROVE SInv'
<1> DEFINE u == [ui EXCEPT !.button = FALSE]
           b == IF ui.open THEN Body(ui.val, ui.rest, Kept, 0) ELSE NoBody
<1>1. Acts(u, Ask(reqs, "save", Of(ui.sel), b), cache, hist) /\ ui.button /\ hist \in Hists(acts + 1)
  BY Typed DEF MovieSave, TVSave, MovieBody, TVBody, Clicks
<1>2. ui.open => b.val = ui.val /\ b.rest = ui.rest
  BY BodyField
<1>3. /\ u.sel = ui.sel /\ u.open = ui.open /\ u.dialog = ui.dialog
      /\ u.rest = ui.rest /\ u.val = ui.val /\ u.dirty = ui.dirty /\ ~u.button
  <2> HIDE DEF Names, Addresses, Dialogs
  <2> QED BY Typed DEF Uis
<1> HIDE DEF u, b
<1>4. PICK q : /\ Ask(reqs, "save", Of(ui.sel), b) = reqs \cup {q}
               /\ q.op = "save" /\ q.at = Of(ui.sel) /\ q.body = b /\ q.st = "sent" /\ ~q.ok
  BY Asked
<1>5. SelectedOf(u, reqs \cup {q}, <<>>, srv)
  BY <1>3, <1>4, SelectFacts DEF SelectedOf
<1>6. reqs = {} /\ SelectorOf(ui, {}) => SelectorOf(u, reqs \cup {q})
  <2>1. reqs = {} /\ SelectorOf(ui, {}) => SelectorOf(u, {q})
    BY <1>1, <1>2, <1>3, <1>4, AloneOne DEF SelectorOf
  <2>2. reqs = {} => reqs \cup {q} = {q}
    OBVIOUS
  <2> QED BY <2>1, <2>2
<1>7. SelectCalm => SelectorHas(u, reqs \cup {q}, srv, hist.typed) /\ "lost" \notin hist.harm
  <2>1. SelectCalm => SelectorHas(u, {q}, srv, hist.typed) /\ "lost" \notin hist.harm
    BY <1>1, <1>2, <1>3, <1>4, AloneOne DEF SelectCalm, SelectorHas
  <2>2. SelectCalm => reqs \cup {q} = {q}
    BY DEF SelectCalm
  <2> QED BY <2>1, <2>2
<1> QED BY <1>1, <1>4, <1>5, <1>6, <1>7, SelectActs

\* The form of k, before its settings arrive.
LEMMA Unload ==
    ASSUME NEW a \in Nat, NEW v \in Uis(a), NEW k \in Keys
    PROVE  LET u == [Gone(v) EXCEPT !.sel = k] IN
           /\ u.sel = k /\ ~u.open /\ u.dialog = None /\ ~u.dirty /\ ~u.button
<1> DEFINE w == Gone(v)
<1>1. w \in Uis(a) /\ ~w.open /\ w.dialog = None /\ ~w.dirty /\ ~w.button
  BY Settles
<1> HIDE DEF w
<1>2. LET u == [w EXCEPT !.sel = k] IN
      /\ u.sel = k /\ u.open = w.open /\ u.dialog = w.dialog
      /\ u.dirty = w.dirty /\ u.button = w.button
  <2> HIDE DEF Addresses, Dialogs
  <2> QED BY <1>1 DEF Uis
<1> QED BY <1>1, <1>2 DEF w

\* A form that has just been told to show k, and asks for its settings.
LEMMA SelectNew ==
    ASSUME TInv, SInv, page \in Dropdown, NEW k \in Keys, NEW q,
           q.op = "load", q.at = Of(k), q.st = "sent"
    PROVE  /\ SelectedOf(Unloaded(k), {q}, <<>>, srv)
           /\ SelectorOf(Unloaded(k), {q}) /\ SelectorHas(Unloaded(k), {q}, srv, 0)
<1> DEFINE u == Unloaded(k)
<1>1. u.sel = k /\ ~u.open /\ u.dialog = None /\ ~u.dirty /\ ~u.button
  <2>1. acts \in Nat /\ ui \in Uis(acts)
    BY Typed
  <2> QED BY <2>1, Unload DEF Unloaded
<1> HIDE DEF u
<1>2. k # None /\ srv.order = Stored
  BY Bounds, SelectFacts DEF SelectedOf
<1>3. SelectedOf(u, {q}, <<>>, srv) /\ SelectorOf(u, {q}) /\ SelectorHas(u, {q}, srv, 0)
  BY <1>1, <1>2, AloneOne DEF SelectedOf, SelectorOf, SelectorHas, Has
<1> QED BY <1>3 DEF u

LEMMA SelectChange ==
    ASSUME TInv, SInv, page \in Dropdown, NEW k \in Range(srv.order), MovieChange(k) \/ TVChange(k)
    PROVE  SInv'
<1> DEFINE h == [hist EXCEPT !.typed = 0]
           u == Unloaded(k)
<1>0. k \in Keys
  BY InOrder
<1>1. PICK q : /\ Ask(reqs, "load", Of(k), NoBody) = reqs \cup {q}
               /\ q.op = "load" /\ q.at = Of(k) /\ q.st = "sent"
  BY Asked
<1>2. Acts(u, reqs \cup {q}, cache, h)
  BY <1>1 DEF MovieChange, TVChange, MovieLoad, TVLoad
<1>3. h \in Hists(acts + 1) /\ h.harm = hist.harm /\ h.excuse = hist.excuse /\ h.typed = 0
  BY HistWith
<1>4. SelectedOf(u, {q}, <<>>, srv) /\ SelectorOf(u, {q}) /\ SelectorHas(u, {q}, srv, 0)
  BY <1>0, <1>1, SelectNew
<1> HIDE DEF u, h
<1>5. SelectedOf(u, reqs \cup {q}, <<>>, srv)
  BY <1>4, SelectFacts DEF SelectedOf
<1>6. reqs = {} => reqs \cup {q} = {q}
  OBVIOUS
<1> QED BY <1>2, <1>3, <1>4, <1>5, <1>6, SelectActs DEF SelectCalm

LEMMA SelectLeaves ==
    ASSUME TInv, SInv, page \in Dropdown, Leaves(Gone(ui), reqs) \/ Confirms(Gone(ui), reqs)
    PROVE  SInv'
<1> DEFINE lost == IF Loses THEN {"lost"} ELSE {}
           h == [hist EXCEPT !.harm = @ \cup lost, !.typed = 0]
           g == [hist EXCEPT !.typed = 0]
           u == [ui EXCEPT !.dialog = "leave"]
           w == Gone(ui)
<1>1. \/ Acts(u, reqs, cache, hist) /\ ui.open
      \/ Acts(w, reqs, cache, h) /\ ui.open /\ ~ui.dirty
      \/ Acts(w, reqs, cache, g)
  BY DEF Leaves, Confirms, Clicks
<1>2. /\ h \in Hists(acts + 1) /\ h.harm = hist.harm \cup lost /\ h.excuse = hist.excuse /\ h.typed = 0
      /\ g \in Hists(acts + 1) /\ g.harm = hist.harm /\ g.excuse = hist.excuse /\ g.typed = 0
      /\ hist \in Hists(acts + 1)
  BY HistWith, Typed
<1>3. /\ u.sel = ui.sel /\ u.open = ui.open /\ u.dialog = "leave"
      /\ u.rest = ui.rest /\ u.val = ui.val /\ u.dirty = ui.dirty /\ u.button = ui.button
  <2> HIDE DEF Names, Addresses, Dialogs
  <2> QED BY Typed DEF Uis
<1>4. w.sel = ui.sel /\ ~w.open /\ w.dialog = None /\ ~w.dirty /\ ~w.button
  <2>1. acts \in Nat /\ ui \in Uis(acts)
    BY Typed
  <2> QED BY <2>1, Settles
<1>5. lost \subseteq {"lost"} /\ (SelectCalm /\ ui.open /\ ~ui.dirty => lost = {})
  <2>1. Edited = ui.sel
    BY SelectFacts DEF Edited
  <2>2. SelectCalm /\ ui.open /\ ~ui.dirty => ~Loses
    BY <2>1 DEF SelectCalm, SelectorHas, Has, Loses
  <2> QED BY <2>2
<1> HIDE DEF u, h, g, w, lost
<1>6. SelectedOf(u, reqs, <<>>, srv) /\ SelectedOf(w, reqs, <<>>, srv)
  BY <1>3, <1>4, SelectFacts DEF SelectedOf
<1>7. reqs = {} /\ SelectorOf(ui, {}) => SelectorOf(u, reqs) /\ SelectorOf(w, reqs)
  BY <1>3, <1>4 DEF SelectorOf
<1>8. ASSUME Acts(u, reqs, cache, hist) PROVE SInv'
  <2>1. SelectCalm => SelectorHas(u, reqs, srv, hist.typed) /\ "lost" \notin hist.harm
    BY <1>3 DEF SelectCalm, SelectorHas
  <2> QED BY <1>2, <1>6, <1>7, <1>8, <2>1, SelectActs
<1>9. SelectCalm => SelectorHas(w, reqs, srv, 0)
  BY <1>4 DEF SelectCalm, SelectorHas, Has
<1>10. ASSUME Acts(w, reqs, cache, h), ui.open, ~ui.dirty PROVE SInv'
  <2>1. SelectCalm => "lost" \notin h.harm
    BY <1>2, <1>5, <1>10 DEF SelectCalm
  <2> QED BY <1>2, <1>5, <1>6, <1>7, <1>9, <1>10, <2>1, SelectActs
<1>11. ASSUME Acts(w, reqs, cache, g) PROVE SInv'
  <2>1. SelectCalm => "lost" \notin g.harm
    BY <1>2 DEF SelectCalm
  <2> QED BY <1>2, <1>6, <1>7, <1>9, <1>11, <2>1, SelectActs
<1> QED BY <1>1, <1>8, <1>10, <1>11

LEMMA SelectRefilled ==
    ASSUME TInv, SInv, page \in Dropdown, MovieInstancesChanged PROVE SInv'
<1>1. PICK q : Ask(reqs, "list", New, NoBody) = reqs \cup {q} /\ q.op = "list"
  BY Asked
<1>2. /\ page' = page /\ ui' = ui /\ timers' = timers /\ srv' = srv /\ reqs' = reqs \cup {q}
      /\ hist'.harm = hist.harm /\ "refilled" \in hist'.excuse
  BY <1>1, Typed DEF MovieInstancesChanged, Hists
<1>3. SelectedOf(ui, reqs \cup {q}, timers, srv)
  BY <1>1, SelectFacts DEF SelectedOf
<1> QED BY <1>2, <1>3, SelectFacts, SelectBecomes DEF Uneven, SelectPatient

LEMMA SelectStay == ASSUME TInv, SInv, page \in Dropdown, Stay PROVE SInv'
<1> DEFINE u == [ui EXCEPT !.dialog = None]
<1>1. /\ page' = page /\ timers' = timers /\ srv' = srv /\ reqs' = reqs /\ hist' = hist /\ ui' = u
  BY DEF Stay
<1>2. /\ u.open = ui.open /\ u.sel = ui.sel /\ u.rest = ui.rest /\ u.dialog = None
      /\ u.dirty = ui.dirty /\ u.button = ui.button /\ u.val = ui.val
  <2> HIDE DEF Names, Addresses, Dialogs
  <2> QED BY Typed DEF Uis
<1> HIDE DEF u
<1>3. /\ SelectedOf(u, reqs, timers, srv)
      /\ SelectorOf(ui, reqs) => SelectorOf(u, reqs)
      /\ SelectorHas(ui, reqs, srv, hist.typed) => SelectorHas(u, reqs, srv, hist.typed)
  BY <1>2, SelectFacts DEF SelectedOf, SelectorOf, SelectorHas
<1> QED BY <1>1, <1>3, SelectFacts, SelectBecomes

LEMMA SelectOtherTab == ASSUME TInv, SInv, page \in Dropdown, OtherTab PROVE SInv'
<1>1. /\ page' = page /\ ui' = ui /\ timers' = timers /\ reqs' = reqs
      /\ hist'.excuse = hist.excuse \cup {"other"} /\ hist'.harm = hist.harm
      /\ hist'.typed = hist.typed /\ srv'.order = srv.order
      /\ \A k \in Keys : srv'.obj[k].val = srv.obj[k].val
  BY OtherWritten, SelectFacts
<1>2. ui.sel # None => ui.sel \in Keys
  BY Typed DEF Uis, Names
<1>3. SelectorHas(ui, reqs, srv, hist.typed) => SelectorHas(ui, reqs, srv', hist.typed)
  BY <1>1, <1>2 DEF SelectorHas, Has
<1>4. SelectedOf(ui, reqs, timers, srv')
  BY <1>1, SelectFacts DEF SelectedOf
<1>5. hist.excuse \subseteq hist'.excuse
  BY <1>1
<1> QED BY <1>1, <1>3, <1>4, <1>5, SelectFacts, SelectBecomes DEF Uneven

LEMMA SelectInit == Init => SInv
<1> SUFFICES ASSUME Init, page \in Dropdown PROVE SInv
  BY DEF SInv
<1>1. ui = Blank(None, New) /\ reqs = Ask({}, "list", New, NoBody)
  BY DEF Init, Entry, AtClick, Dropdown, Editors
<1>2. timers = <<>> /\ srv.order = Stored /\ hist.harm = {} /\ hist.typed = 0
  BY DEF Init
<1>3. ui.sel = None /\ ~ui.open /\ ui.dialog = None /\ ~ui.dirty /\ ~ui.button
  BY <1>1 DEF Blank
<1>4. PICK q : reqs = {} \cup {q} /\ q.op = "list" /\ q.st = "sent"
  BY <1>1, Asked
<1>5. reqs = {q}
  BY <1>4
<1>6. SelectedOf(ui, reqs, timers, srv) /\ SelectorOf(ui, reqs)
  BY <1>2, <1>3, <1>4, <1>5, AloneOne DEF SelectedOf, SelectorOf
<1>7. SelectorHas(ui, reqs, srv, hist.typed)
  BY <1>2, <1>3, <1>4, <1>5, AloneOne DEF SelectorHas
<1> QED BY <1>2, <1>6, <1>7 DEF SInv

\* The server's answers.
LEMMA SelectServed ==
    ASSUME TInv, SInv, page \in Dropdown, NEW r \in reqs, NEW s, NEW harm, NEW own, NEW why,
           NEW ok \in BOOLEAN, NEW obj, Served(r, s, harm, own, why), reqs' = Answered(r, ok, obj),
           r.st = "sent", s.order = srv.order, harm \cap {"lost", "wrong", "twice"} = {},
           SelectorOf(ui, reqs) => "rest" \notin harm /\ (ok /\ r.op = "load" => obj.of = ui.sel),
           SelectorHas(ui, reqs, srv, hist.typed) /\ r.op = "save" /\ why \subseteq SelectPatient
               => ok /\ s.obj[ui.sel].val = r.body.val
    PROVE  SInv'
<1>1. PICK q : /\ Answered(r, ok, obj) = Ended(r) \cup {q}
               /\ q.op = r.op /\ q.at = r.at /\ q.body = r.body /\ q.st = "done"
               /\ q.ok = ok /\ q.obj = obj
  BY Given
<1>2. /\ page' = page /\ ui' = ui /\ timers' = timers /\ srv' = s
      /\ hist'.harm = hist.harm \cup harm /\ hist'.typed = hist.typed
      /\ hist.excuse \cup why \subseteq hist'.excuse
  BY ServedHist
<1>3. SelectedOf(ui, reqs', timers, s)
  BY <1>1, EndedWithin, SelectFacts DEF SelectedOf
<1>4. ASSUME hist'.excuse \cap Uneven = {} PROVE SelectorOf(ui, reqs') /\ "rest" \notin hist'.harm
  <2>1. hist.excuse \cap Uneven = {}
    BY <1>2, <1>4
  <2>2. SelectorOf(ui, reqs) /\ "rest" \notin hist.harm
    BY <2>1, SelectFacts
  <2>3. reqs = {r} /\ reqs' = {q}
    BY <1>1, <2>2, AloneEnded DEF SelectorOf
  <2>4. SelectorOf(ui, {q})
    BY <1>1, <2>2, <2>3, AloneOne DEF SelectorOf
  <2> QED BY <1>2, <2>2, <2>3, <2>4
<1>5. ASSUME hist'.excuse \subseteq SelectPatient
      PROVE  SelectorHas(ui, reqs', s, hist.typed) /\ "lost" \notin hist'.harm
  <2>1. SelectorHas(ui, reqs, srv, hist.typed) /\ "lost" \notin hist.harm /\ why \subseteq SelectPatient
    BY <1>2, <1>5, SelectFacts
  <2>2. reqs = {r} /\ reqs' = {q}
    BY <1>1, <2>1, AloneEnded DEF SelectorHas
  <2>3. ui.sel # None /\ ~ui.dirty => Has(s, ui.sel, hist.typed)
    BY <2>1, <2>2 DEF SelectorHas, Has
  <2>4. SelectorHas(ui, {q}, s, hist.typed)
    BY <1>1, <2>1, <2>2, <2>3, AloneOne DEF SelectorHas
  <2> QED BY <1>2, <2>1, <2>2, <2>4
<1> QED BY <1>2, <1>3, <1>4, <1>5, SelectFacts, SelectBecomes

LEMMA SelectServe == ASSUME TInv, SInv, page \in Dropdown, NEW r \in reqs, Serve(r) PROVE SInv'
<1>0. /\ r.st = "sent" /\ page \notin Editors /\ acts \in Nat /\ srv \in Servers(acts)
      /\ r.body \in Bodies(acts) /\ r.op \in {"list", "load", "save"}
      /\ Named(r.at) \subseteq Keys /\ (r.at = Of(ui.sel) => Named(r.at) \subseteq {ui.sel})
      /\ (SelectorOf(ui, reqs) /\ r.op \in {"load", "save"} => r.at = Of(ui.sel))
      /\ (SelectorOf(ui, reqs) /\ r.op = "save" => r.body.rest = ui.sel)
      /\ (SelectorHas(ui, reqs, srv, hist.typed) /\ r.op = "save" => r.at = Of(ui.sel))
  <2>1. r.op \in {"list", "load", "save"} /\ page \notin Editors
    BY SelectFacts DEF SelectedOf
  <2>2. /\ (SelectorOf(ui, reqs) /\ r.op \in {"load", "save"} => r.at = Of(ui.sel))
        /\ (SelectorOf(ui, reqs) /\ r.op = "save" => r.body.rest = ui.sel)
        /\ (SelectorHas(ui, reqs, srv, hist.typed) /\ r.op = "save" => r.at = Of(ui.sel))
    BY DEF SelectorOf, SelectorHas
  <2>3. r.at \in Addresses \cup {Of(None)} /\ r.body \in Bodies(acts)
    BY RequestTyped
  <2>4. Named(r.at) \subseteq Keys /\ (r.at = Of(ui.sel) => Named(r.at) = {ui.sel} \cap Range(srv.order))
    BY <2>3, NamedTyped
  <2> QED BY <2>1, <2>2, <2>3, <2>4, Typed DEF Serve
<1>1. ASSUME ServeLoad(r) PROVE SInv'
  <2> DEFINE K == Named(r.at)
             ok == K # {} \/ page \in Editors \/ r.op = "list"
             obj == IF page \in Editors THEN srv.order
                    ELSE IF K = {} THEN None ELSE Shown(srv, Only(K))
  <2>1. Served(r, srv, {}, {}, {}) /\ reqs' = Answered(r, ok, obj) /\ r.op \in {"load", "reload", "list"}
    BY <1>1 DEF ServeLoad
  <2>2. ok \in BOOLEAN /\ (SelectorOf(ui, reqs) /\ ok /\ r.op = "load" => obj.of = ui.sel)
    <3>1. ASSUME ok, r.op = "load" PROVE Only(K) \in K /\ obj = Shown(srv, Only(K))
      BY <1>0, <3>1, OnlyOne
    <3> QED BY <1>0, <3>1, ShownTyped
  <2> HIDE DEF ok, obj
  <2> QED BY <1>0, <2>1, <2>2, SelectServed
<1>2. ASSUME ServeSave(r) PROVE SInv'
  <2> DEFINE k == Only(Named(r.at))
             w == Written(k, r.body)
  <2>1. Served(r, w, Harm(k, r.body), {}, {}) /\ reqs' = Answered(r, TRUE, Shown(w, k)) /\ r.op = "save"
    BY <1>2 DEF ServeSave
  <2>2. k \in Keys /\ (r.at = Of(ui.sel) => k = ui.sel)
    <3>1. k \in Named(r.at)
      BY <1>2, OnlyOne DEF ServeSave
    <3> QED BY <1>0, <3>1
  <2> HIDE DEF k
  <2>3. w.order = srv.order /\ w.obj[k].val = r.body.val
    BY <1>0, <2>2, WrittenTyped
  <2> HIDE DEF w
  <2>4. /\ Harm(k, r.body) \cap {"lost", "wrong", "twice"} = {}
        /\ SelectorOf(ui, reqs) => "rest" \notin Harm(k, r.body)
    BY <1>0, <2>1, <2>2 DEF Harm
  <2> QED BY <1>0, <2>1, <2>2, <2>3, <2>4, SelectServed
<1>3. ASSUME Refuse(r) PROVE SInv'
  <2>1. Served(r, srv, {}, {}, {"refused"}) /\ reqs' = Answered(r, FALSE, None) /\ r.op # "list"
    BY <1>3 DEF Refuse
  <2>2. ~({"refused"} \subseteq SelectPatient)
    BY DEF SelectPatient
  <2> QED BY <1>0, <2>1, <2>2, SelectServed
<1> QED BY <1>0, <1>1, <1>2, <1>3 DEF Serve, ServeAdd, ServeRemove, ServeScores

\* The ends of its requests: the only one under way.
LEMMA SelectEnd ==
    ASSUME TInv, SInv, page \in Dropdown, NEW r \in reqs, NEW u, NEW Q, NEW why,
           Handle(r, u, Q, cache, timers, why), SelectedOf(u, Q, <<>>, srv),
           /\ SelectorOf(ui, reqs) /\ reqs = {r} /\ Ended(r) = {} /\ why \cap Uneven = {}
                => SelectorOf(u, Q),
           SelectorHas(ui, reqs, srv, hist.typed) /\ reqs = {r} /\ Ended(r) = {}
               => SelectorHas(u, Q, srv, hist.typed)
    PROVE  SInv'
<1>1. /\ page' = page /\ ui' = u /\ reqs' = Q /\ timers' = timers /\ srv' = srv
      /\ hist'.harm = hist.harm /\ hist'.typed = hist.typed /\ hist.excuse \cup why \subseteq hist'.excuse
  BY HandleHist
<1>2. ASSUME hist'.excuse \cap Uneven = {} PROVE SelectorOf(u, Q) /\ "rest" \notin hist.harm
  <2>1. SelectorOf(ui, reqs) /\ "rest" \notin hist.harm /\ why \cap Uneven = {}
    BY <1>1, <1>2, SelectFacts
  <2> QED BY <2>1, AloneEnded DEF SelectorOf
<1>3. ASSUME hist'.excuse \subseteq SelectPatient
      PROVE  SelectorHas(u, Q, srv, hist.typed) /\ "lost" \notin hist.harm
  <2>1. SelectorHas(ui, reqs, srv, hist.typed) /\ "lost" \notin hist.harm
    BY <1>1, <1>3, SelectFacts
  <2> QED BY <2>1, AloneEnded DEF SelectorHas
<1> QED BY <1>1, <1>2, <1>3, SelectFacts, SelectBecomes

LEMMA SelectListed ==
    ASSUME TInv, SInv, page \in Dropdown, NEW r \in reqs, MovieInstances(r) \/ TVInstances(r)
    PROVE  SInv'
<1>1. ASSUME r.op = "list", NEW k \in Range(srv.order),
             Answer(r, Unloaded(k), Ask(Ended(r), "load", Of(k), NoBody))
      PROVE  SInv'
  <2>1. PICK q : /\ Ask(Ended(r), "load", Of(k), NoBody) = Ended(r) \cup {q}
                 /\ q.op = "load" /\ q.at = Of(k) /\ q.st = "sent"
    BY Asked
  <2> DEFINE u == Unloaded(k)
  <2>2. Handle(r, u, Ended(r) \cup {q}, cache, timers, {})
    BY <1>1, <2>1 DEF Answer
  <2>3. k \in Keys
    BY InOrder
  <2>4. SelectedOf(u, {q}, <<>>, srv) /\ SelectorOf(u, {q}) /\ SelectorHas(u, {q}, srv, 0)
    BY <2>1, <2>3, SelectNew
  <2> HIDE DEF u
  <2>5. SelectedOf(u, Ended(r) \cup {q}, <<>>, srv)
    BY <2>4, EndedWithin, SelectFacts DEF SelectedOf
  <2>6. Ended(r) = {} => Ended(r) \cup {q} = {q}
    OBVIOUS
  <2>7. SelectorHas(ui, reqs, srv, hist.typed) => hist.typed = 0
    BY <1>1 DEF SelectorHas
  <2> QED BY <2>2, <2>4, <2>5, <2>6, <2>7, SelectEnd
<1>2. ASSUME r.op = "list", Handle(r, ui, Ended(r), cache, timers, {"failed"}) PROVE SInv'
  <2>1. SelectedOf(ui, Ended(r), <<>>, srv)
    BY EndedWithin, SelectFacts DEF SelectedOf
  <2>2. SelectorHas(ui, reqs, srv, hist.typed) /\ Ended(r) = {} => SelectorHas(ui, Ended(r), srv, hist.typed)
    BY AloneOne DEF SelectorHas
  <2>3. {"failed"} \cap Uneven # {}
    BY DEF Uneven
  <2> QED BY <1>2, <2>1, <2>2, <2>3, SelectEnd
<1> QED BY <1>1, <1>2
        DEF MovieInstances, TVInstances, Success, Dropped, Failure, MovieLoad, TVLoad

LEMMA SelectShown ==
    ASSUME TInv, SInv, page \in Dropdown, NEW r \in reqs, MovieShow(r) \/ TVShow(r)
    PROVE  SInv'
<1>1. ASSUME r.op = "load", NEW obj \in Objects(acts), NEW why,
             Handle(r, Drawn(ui, obj), Ended(r), cache, timers, why),
             why \cap Uneven = {} /\ SelectorOf(ui, reqs) => obj.of = ui.sel
      PROVE  SInv'
  <2> DEFINE u == Drawn(ui, obj)
  <2>1. /\ u.open /\ u.sel = ui.sel /\ u.rest = obj.of /\ u.dialog = ui.dialog
        /\ u.dirty = ui.dirty /\ u.button = ui.button
    <3>1. acts \in Nat /\ ui \in Uis(acts)
      BY Typed
    <3> QED BY <3>1, Draws
  <2>2. Handle(r, u, Ended(r), cache, timers, why)
    BY <1>1
  <2> HIDE DEF u
  <2>3. SelectedOf(u, Ended(r), <<>>, srv)
    BY <2>1, EndedWithin, SelectFacts DEF SelectedOf
  <2>4. /\ SelectorOf(ui, reqs) /\ reqs = {r} /\ Ended(r) = {} /\ why \cap Uneven = {}
             => SelectorOf(u, Ended(r))
    BY <1>1, <2>1, AloneOne DEF SelectorOf
  <2>5. SelectorHas(ui, reqs, srv, hist.typed) /\ Ended(r) = {} => SelectorHas(u, Ended(r), srv, hist.typed)
    BY <1>1, <2>1, AloneOne DEF SelectorHas, Has
  <2> QED BY <2>2, <2>3, <2>4, <2>5, SelectEnd
<1>2. ASSUME Success(r, "load"), Answer(r, Drawn(ui, r.obj), Ended(r)) PROVE SInv'
  <2>1. r.obj \in Objects(acts)
    BY <1>2, SelectFacts, Brought DEF Success
  <2>2. SelectorOf(ui, reqs) => r.obj.of = ui.sel
    BY <1>2 DEF Success, SelectorOf
  <2> QED BY <1>1, <1>2, <2>1, <2>2 DEF Success, Answer
<1>3. ASSUME NEW obj \in Objects(acts), Failure(r, "load", Drawn(ui, obj), Ended(r)) PROVE SInv'
  <2>1. {"failed"} \cap Uneven # {}
    BY DEF Uneven
  <2> QED BY <1>1, <1>3, <2>1 DEF Failure
<1> QED BY <1>2, <1>3, DefaultsTyped DEF MovieShow, TVShow, MovieForm, TVForm

LEMMA SelectSaved ==
    ASSUME TInv, SInv, page \in Dropdown, NEW r \in reqs, MovieSaved(r) \/ TVSaved(r)
    PROVE  SInv'
<1>0. acts \in Nat /\ ui \in Uis(acts)
  BY Typed
<1>1. ASSUME r.op = "save", r.st = "done", NEW u \in {Gone(ui), Settled(ui)}, Answer(r, u, Ended(r))
      PROVE  SInv'
  <2>1. /\ u.sel = ui.sel /\ u.dialog \in {ui.dialog, None} /\ ~u.dirty /\ ~u.button
        /\ ~u.open \/ (ui.open /\ u.rest = ui.rest)
    <3>1. Gone(ui).sel = ui.sel /\ Gone(ui).dialog = None /\ ~Gone(ui).open
          /\ ~Gone(ui).dirty /\ ~Gone(ui).button
      BY <1>0, Settles
    <3>2. /\ Settled(ui).sel = ui.sel /\ Settled(ui).dialog = ui.dialog
          /\ ~Settled(ui).dirty /\ ~Settled(ui).button /\ Settled(ui).rest = ui.rest
      BY <1>0, Settles
    <3>3. Settled(ui).open = ui.open
      BY <1>0, UITyped
    <3> HIDE DEF Gone, Settled
    <3>4. CASE u = Gone(ui)
      BY <3>1, <3>4
    <3>5. CASE u = Settled(ui)
      BY <3>2, <3>3, <3>5
    <3> QED BY <3>4, <3>5
  <2>2. SelectedOf(u, Ended(r), <<>>, srv)
    BY <2>1, EndedWithin, SelectFacts DEF SelectedOf
  <2>3. SelectorOf(ui, reqs) /\ Ended(r) = {} => SelectorOf(u, Ended(r))
    BY <2>1, AloneOne DEF SelectorOf
  <2>4. SelectorHas(ui, reqs, srv, hist.typed) /\ Ended(r) = {} => SelectorHas(u, Ended(r), srv, hist.typed)
    BY <1>1, <2>1, AloneOne DEF SelectorHas, Has
  <2>5. Handle(r, u, Ended(r), cache, timers, {})
    BY <1>1 DEF Answer
  <2> QED BY <2>2, <2>3, <2>4, <2>5, SelectEnd
<1>2. ASSUME r.op = "save", Handle(r, [ui EXCEPT !.button = TRUE], Ended(r), cache, timers, {"failed"})
      PROVE  SInv'
  <2> DEFINE u == [ui EXCEPT !.button = TRUE]
  <2>1. /\ u.open = ui.open /\ u.sel = ui.sel /\ u.rest = ui.rest
        /\ u.dialog = ui.dialog /\ u.dirty = ui.dirty /\ u.val = ui.val
    <3> HIDE DEF Names, Addresses, Dialogs
    <3> QED BY <1>0 DEF Uis
  <2>2. Handle(r, u, Ended(r), cache, timers, {"failed"})
    BY <1>2
  <2> HIDE DEF u
  <2>3. SelectedOf(u, Ended(r), <<>>, srv)
    BY <2>1, EndedWithin, SelectFacts DEF SelectedOf
  <2>4. {"failed"} \cap Uneven # {}
    BY DEF Uneven
  <2>5. SelectorHas(ui, reqs, srv, hist.typed) /\ Ended(r) = {} => SelectorHas(u, Ended(r), srv, hist.typed)
    BY <1>2, <2>1, AloneOne DEF SelectorHas
  <2> QED BY <2>2, <2>3, <2>4, <2>5, SelectEnd
<1> QED BY <1>1, <1>2 DEF MovieSaved, TVSaved, Success, Refused, Failure

LEMMA SelectStep == TInv /\ SInv /\ [Next]_vars => SInv'
<1> SUFFICES ASSUME TInv, SInv, [Next]_vars PROVE SInv'
  OBVIOUS
<1>1. CASE page \notin Dropdown
  BY <1>1, PageKept DEF SInv, Dropdown
<1>2. CASE page \in Dropdown
  <2>1. CASE UNCHANGED vars
    BY <1>2, <2>1, SelectFacts, SelectBecomes DEF vars
  <2>2. ASSUME NEW r \in reqs, Ends(r) PROVE MovieAnswer(r) \/ TVAnswer(r)
    BY <1>2, <2>2 DEF Ends, AtClick, Dropdown
  <2>3. ASSUME NEW r \in reqs, Ends(r) PROVE SInv'
    BY <1>2, <2>2, <2>3, SelectListed, SelectShown, SelectSaved DEF MovieAnswer, TVAnswer
  <2>4. ~(Redraw \/ Listen)
    <3>1. timers = <<>>
      BY <1>2, SelectFacts
    <3> QED BY <3>1 DEF Redraw, Listen, First
  <2>5. ASSUME MovieClick \/ TVClick PROVE SInv'
    BY <1>2, <2>5, SelectEdits, SelectSaves, SelectChange, SelectLeaves, SelectRefilled
       DEF MovieClick, MovieType, MovieToken, MovieLeave, MovieDiscard,
           TVClick, TVType, TVToken, TVLeave, TVDiscard
  <2>6. ASSUME Click PROVE MovieClick \/ TVClick \/ Stay
    BY <1>2, <2>6 DEF Click, Dropdown
  <2> QED BY <1>2, <2>1, <2>3, <2>4, <2>5, <2>6, SelectStay, SelectServe, SelectOtherTab
          DEF Next, Network
<1> QED BY <1>1, <1>2

-----------------------------------------------------------------------------
(* Editors of the entries of a list.                                       *)

LEMMA EditorBecomes ==
    ASSUME page' = page, page \in Editors, EditorOf(ui', reqs', timers'),
           hist'.harm \cap {"lost", "rest"} = {},
           ~Wrong(hist'.excuse) =>
               EditorOwns(ui', cache', reqs', srv', hist'.owns) /\ "wrong" \notin hist'.harm,
           hist'.excuse \cap Astray = {} =>
               EditorOnce(ui', reqs', hist'.owns) /\ "twice" \notin hist'.harm
    PROVE  EInv'
BY DEF EInv, EditorOf, EditorOwns, EditorOnce, OwnAt, Prefix, Alone, Unowned, Wrong, Astray, New

LEMMA EditorFacts ==
    ASSUME TInv, EInv, page \in Editors
    PROVE  /\ EditorOf(ui, reqs, timers) /\ timers = <<>>
           /\ hist.harm \cap {"lost", "rest"} = {}
           /\ \A H : hist.excuse \subseteq H /\ ~Wrong(H) =>
                  EditorOwns(ui, cache, reqs, srv, hist.owns) /\ "wrong" \notin hist.harm
           /\ \A H : hist.excuse \subseteq H /\ H \cap Astray = {} =>
                  /\ EditorOwns(ui, cache, reqs, srv, hist.owns)
                  /\ EditorOnce(ui, reqs, hist.owns) /\ "twice" \notin hist.harm
           /\ page \in {"connection", "indexer"} /\ page \notin AtClick
           /\ page \notin Dropdown /\ page # "profile"
<1>1. EditorOf(ui, reqs, timers) /\ timers = <<>> /\ hist.harm \cap {"lost", "rest"} = {}
  BY DEF EInv, EditorOf
<1>2. ASSUME NEW H, hist.excuse \subseteq H
      PROVE  /\ Wrong(hist.excuse) => Wrong(H)
             /\ H \cap Astray = {} => ~Wrong(H)
  BY <1>2 DEF Wrong, Astray
<1> QED BY <1>1, <1>2 DEF EInv, Editors, AtClick, Dropdown

\* What a form owns, it owns after more is added.
LEMMA OwnsGrow ==
    ASSUME page \in Editors, NEW u, NEW c, NEW Q, NEW T, NEW s, NEW t, NEW O, NEW P,
           EditorOf(u, Q, T), EditorOwns(u, c, Q, s, O), O \subseteq P, \A p \in P : p[1] <= u.form,
           page = "connection" \/ Prefix(s.order, t)
    PROVE  EditorOwns(u, c, Q, t, P)
<1>1. CASE page = "connection"
  <2>1. OwnAt(u.form, u.at, t, P)
    BY <1>1 DEF EditorOf, EditorOwns, OwnAt
  <2>2. \A r \in Q : r.op = "save" => OwnAt(u.form, r.at, t, P)
    BY <1>1 DEF EditorOf, EditorOwns, OwnAt
  <2> QED BY <1>1, <2>1, <2>2 DEF EditorOwns
<1>2. CASE page = "indexer"
  <2>0. \A i \in DOMAIN s.order : i \in DOMAIN t.order /\ t.order[i] = s.order[i]
    BY <1>2 DEF Prefix
  <2>1. \A at : OwnAt(u.form, at, s, O) => OwnAt(u.form, at, t, P)
    BY <2>0 DEF OwnAt
  <2>2. \A d : Prefix(d, s) => Prefix(d, t)
    BY <1>2, <2>0 DEF Prefix
  <2> QED BY <1>2, <2>0, <2>1, <2>2 DEF EditorOwns
<1> QED BY <1>1, <1>2 DEF Editors

LEMMA EditorActs ==
    ASSUME TInv, EInv, page \in Editors, NEW u, NEW Q, NEW h \in Hists(acts + 1),
           Acts(u, Q, cache, h), EditorOf(u, Q, <<>>), h.harm = hist.harm, h.excuse = hist.excuse,
           reqs = {} /\ EditorOwns(ui, cache, {}, srv, hist.owns)
               => EditorOwns(u, cache, Q, srv, h.owns),
           reqs = {} /\ EditorOwns(ui, cache, {}, srv, hist.owns) /\ EditorOnce(ui, {}, hist.owns)
               => EditorOnce(u, Q, h.owns)
    PROVE  EInv'
<1>1. /\ page' = page /\ ui' = u /\ reqs' = Q /\ cache' = cache /\ timers' = timers /\ srv' = srv
      /\ hist'.harm = h.harm /\ hist'.owns = h.owns
      /\ h.excuse \subseteq hist'.excuse
      /\ "hasty" \notin hist'.excuse => reqs = {}
  BY ActsHist
<1>2. ASSUME ~Wrong(hist'.excuse)
      PROVE  EditorOwns(u, cache, Q, srv, h.owns) /\ "wrong" \notin hist.harm
  <2>1. reqs = {}
    BY <1>1, <1>2 DEF Wrong, Astray
  <2> QED BY <1>1, <1>2, <2>1, EditorFacts
<1>3. ASSUME hist'.excuse \cap Astray = {}
      PROVE  EditorOnce(u, Q, h.owns) /\ "twice" \notin hist.harm
  <2>1. reqs = {}
    BY <1>1, <1>3 DEF Astray
  <2> QED BY <1>1, <1>3, <2>1, EditorFacts
<1> QED BY <1>1, <1>2, <1>3, EditorFacts, EditorBecomes

\* A form is opened, of the entry k or of a new one.
LEMMA EditorOpens ==
    ASSUME TInv, EInv, page \in Editors, NEW k \in Names, NEW at \in Addresses,
           Opens([ui EXCEPT !.open = TRUE, !.form = @ + 1, !.at = at, !.rest = k, !.val = 0], k),
           page = "connection" => at.by \in {"key", "none"},
           k = None => at = New,
           at.by = "key" => at = Of(k),
           at.by = "index" => at.i \in DOMAIN cache /\ cache[at.i] = k,
           k # None => at # New
    PROVE  EInv'
<1> DEFINE u == [ui EXCEPT !.open = TRUE, !.form = @ + 1, !.at = at, !.rest = k, !.val = 0]
           o == <<ui.form + 1, k>>
           own == IF k = None THEN {} ELSE {o}
           h == [hist EXCEPT !.owns = @ \cup own, !.typed = 0]
<1>1. Acts(u, reqs, cache, h)
  BY DEF Opens
<1>2. ui \in Uis(acts) /\ acts \in Nat /\ hist \in Hists(acts) /\ acts + 1 \in 0..(acts + 1)
  BY Typed
<1>3. u.form = ui.form + 1 /\ u.at = at
  <2> HIDE DEF Names, Addresses, Dialogs
  <2> QED BY <1>2 DEF Uis
<1>4. ui.form \in 0..acts
  BY <1>2 DEF Uis
<1>5. own \subseteq (0..(acts + 1)) \X Keys
  <2>1. k # None => k \in Keys
    BY DEF Names
  <2> QED BY <1>2, <1>4, <2>1
<1>6. h \in Hists(acts + 1) /\ h.harm = hist.harm /\ h.excuse = hist.excuse /\ h.owns = hist.owns \cup own
  <2>1. hist \in Hists(acts + 1)
    BY Typed
  <2>2. 0 \in 0..(acts + 1) /\ hist.owns \cup own \in SUBSET ((0..(acts + 1)) \X Keys)
    BY <1>2, <1>5, <2>1 DEF Hists
  <2> HIDE DEF own
  <2> QED BY <2>1, <2>2 DEF Hists
<1>7. hist.owns \subseteq (0..acts) \X Keys
  BY <1>2 DEF Hists
<1>8. o[1] = ui.form + 1 /\ o[2] = k
  OBVIOUS
<1> HIDE DEF u, h
<1>9. EditorOf(u, reqs, <<>>)
  BY <1>3, EditorFacts DEF EditorOf
<1>10. ASSUME reqs = {}, EditorOwns(ui, cache, {}, srv, hist.owns)
       PROVE  EditorOwns(u, cache, reqs, srv, h.owns) /\ EditorOnce(u, reqs, h.owns)
  <2>1. \A p \in hist.owns : p[1] \in 0..acts /\ p[1] <= ui.form
    BY <1>7, <1>10 DEF EditorOwns
  <2>2. \A p \in h.owns : p[1] <= u.form
    BY <1>3, <1>4, <1>6, <1>8, <2>1
  <2>3. OwnAt(u.form, u.at, srv, h.owns)
    <3>1. at.by \in {"key", "index"} => k # None /\ <<u.form, k>> \in h.owns
      BY <1>3, <1>6, Address DEF Editors
    <3>2. at.by = "index" => at.i \in DOMAIN srv.order /\ srv.order[at.i] = k
      BY <1>10, EditorFacts DEF EditorOwns, Prefix
    <3>3. at.by = "key" => at.i = k
      BY Address
    <3> QED BY <1>3, <3>1, <3>2, <3>3 DEF OwnAt
  <2>4. EditorOwns(u, cache, {}, srv, h.owns)
    BY <1>10, <2>2, <2>3 DEF EditorOwns
  <2>5. u.at = New => Unowned(u.form, h.owns)
    <3>1. u.at = New => h.owns = hist.owns
      BY <1>3, <1>6
    <3> QED BY <1>3, <1>4, <2>1, <3>1 DEF Unowned
  <2>6. EditorOnce(u, {}, h.owns)
    BY <2>5 DEF EditorOnce
  <2> QED BY <1>10, <2>4, <2>6
<1> QED BY <1>1, <1>6, <1>9, <1>10, EditorActs

\* A click that asks for nothing and leaves the entry under edit.
LEMMA EditorKeeps ==
    ASSUME TInv, EInv, page \in Editors, NEW u, NEW h \in Hists(acts + 1),
           Acts(u, reqs, cache, h), h.harm = hist.harm, h.excuse = hist.excuse, h.owns = hist.owns,
           u.at = ui.at, u.form = ui.form, u.open = ui.open
    PROVE  EInv'
<1>1. EditorOf(u, reqs, <<>>)
  BY EditorFacts DEF EditorOf
<1>2. EditorOwns(ui, cache, {}, srv, hist.owns) => EditorOwns(u, cache, {}, srv, h.owns)
  BY DEF EditorOwns
<1>3. EditorOnce(ui, {}, hist.owns) => EditorOnce(u, {}, h.owns)
  BY DEF EditorOnce
<1> QED BY <1>1, <1>2, <1>3, EditorActs

LEMMA EditorEdits == ASSUME TInv, EInv, page \in Editors, Edits(FALSE) PROVE EInv'
<1> DEFINE u == [ui EXCEPT !.val = acts + 1, !.dirty = @ \/ FALSE, !.button = @ \/ FALSE]
           h == [hist EXCEPT !.typed = acts + 1]
<1>1. Acts(u, reqs, cache, h)
  BY DEF Edits
<1>2. /\ h \in Hists(acts + 1) /\ h.harm = hist.harm /\ h.excuse = hist.excuse /\ h.owns = hist.owns
  BY HistWith
<1>3. u.at = ui.at /\ u.form = ui.form /\ u.open = ui.open
  <2> HIDE DEF Names, Addresses, Dialogs
  <2> QED BY Typed DEF Uis
<1> HIDE DEF u, h
<1> QED BY <1>1, <1>2, <1>3, EditorKeeps

\* A form is closed, whatever is under way.
LEMMA EditorCloses ==
    ASSUME TInv, EInv, page \in Editors, ui' = [ui EXCEPT !.open = FALSE, !.at = New],
           UNCHANGED <<page, cache, timers, srv, reqs, hist, acts>>
    PROVE  EInv'
<1> DEFINE u == [ui EXCEPT !.open = FALSE, !.at = New]
<1>1. ~u.open /\ u.at = New /\ u.form = ui.form
  <2> HIDE DEF Names, Addresses, Dialogs
  <2> QED BY Typed DEF Uis
<1>2. ui' = u
  OBVIOUS
<1> HIDE DEF u
<1>3. EditorOf(u, reqs, timers)
  BY <1>1, Address, EditorFacts DEF EditorOf
<1>4. EditorOwns(ui, cache, reqs, srv, hist.owns) => EditorOwns(u, cache, reqs, srv, hist.owns)
  BY <1>1, Address DEF EditorOwns, OwnAt
<1>5. EditorOnce(ui, reqs, hist.owns) => EditorOnce(u, reqs, hist.owns)
  BY <1>1 DEF EditorOnce
<1> QED BY <1>2, <1>3, <1>4, <1>5, EditorFacts, EditorBecomes

LEMMA EditorStays == ASSUME TInv, EInv, page \in Editors, Stay PROVE EInv'
<1> DEFINE u == [ui EXCEPT !.dialog = None]
<1>1. u.at = ui.at /\ u.form = ui.form /\ u.open = ui.open
  <2> HIDE DEF Names, Addresses, Dialogs
  <2> QED BY Typed DEF Uis
<1>2. /\ ui' = u /\ page' = page /\ cache' = cache /\ timers' = timers /\ srv' = srv
      /\ reqs' = reqs /\ hist' = hist
  BY DEF Stay
<1> HIDE DEF u
<1>3. EditorOf(u, reqs, timers)
  BY <1>1, EditorFacts DEF EditorOf
<1>4. EditorOwns(ui, cache, reqs, srv, hist.owns) => EditorOwns(u, cache, reqs, srv, hist.owns)
  BY <1>1 DEF EditorOwns
<1>5. EditorOnce(ui, reqs, hist.owns) => EditorOnce(u, reqs, hist.owns)
  BY <1>1 DEF EditorOnce
<1> QED BY <1>2, <1>3, <1>4, <1>5, EditorFacts, EditorBecomes

LEMMA EditorPosts ==
    ASSUME TInv, EInv, page \in Editors, NEW u, ui.open, Clicks(u, Posted(reqs)),
           u.at = ui.at, u.form = ui.form, u.open = ui.open
    PROVE  EInv'
<1> DEFINE op == IF ui.at = New THEN "add" ELSE "save"
           b == Body(ui.val, ui.rest, Kept, ui.form)
<1>1. PICK q : Posted(reqs) = reqs \cup {q} /\ q.op = op /\ q.at = ui.at /\ q.body = b /\ q.st = "sent"
  BY Asked DEF Posted
<1>2. b.form = ui.form
  BY BodyField
<1>3. ui.at \in Addresses
  BY Typed DEF Uis
<1> HIDE DEF b
<1>4. EditorOf(u, reqs \cup {q}, <<>>)
  <2>1. page = "connection" /\ q.op = "save" => q.at.by = "key"
    BY <1>1, <1>3, Addressed, EditorFacts DEF EditorOf
  <2>2. q.op \in {"save", "add"} /\ (q.op = "save" => q.at # New)
    BY <1>1
  <2> QED BY <2>1, <2>2, EditorFacts DEF EditorOf
<1>5. EditorOwns(ui, cache, {}, srv, hist.owns) => EditorOwns(u, cache, {q}, srv, hist.owns)
  BY <1>1, <1>2, AloneOne DEF EditorOwns
<1>6. EditorOnce(ui, {}, hist.owns) => EditorOnce(u, {q}, hist.owns)
  BY <1>1, <1>2 DEF EditorOnce
<1>7. reqs = {} => reqs \cup {q} = {q}
  OBVIOUS
<1>8. Acts(u, reqs \cup {q}, cache, hist) /\ hist \in Hists(acts + 1)
  BY <1>1, Typed DEF Clicks
<1> QED BY <1>4, <1>5, <1>6, <1>7, <1>8, EditorActs

LEMMA EditorRemoves ==
    ASSUME TInv, EInv, page = "connection", ConnectionDoDelete PROVE EInv'
<1> DEFINE u == [ui EXCEPT !.dialog = None]
<1>1. PICK q : /\ Ask(reqs, "remove", ui.dialog, NoBody) = reqs \cup {q}
               /\ q.op = "remove" /\ q.at = ui.dialog /\ q.st = "sent"
  BY Asked
<1>2. Acts(u, reqs \cup {q}, cache, hist) /\ hist \in Hists(acts + 1) /\ q.at.by = "key"
  <2>1. ui.dialog \in {Of(k) : k \in Keys}
    BY Typed DEF GoodUI, ConnectionDoDelete
  <2>2. q.at.by = "key"
    BY <1>1, <2>1, Address
  <2>3. Acts(u, reqs \cup {q}, cache, hist)
    BY <1>1 DEF ConnectionDoDelete, Clicks
  <2> QED BY <2>2, <2>3, Typed
<1>3. u.at = ui.at /\ u.form = ui.form /\ u.open = ui.open
  <2> HIDE DEF Names, Addresses, Dialogs
  <2> QED BY Typed DEF Uis
<1> HIDE DEF u
<1>0. page \in Editors
  BY DEF Editors
<1>4. EditorOf(u, reqs \cup {q}, <<>>)
  BY <1>0, <1>1, <1>2, <1>3, EditorFacts DEF EditorOf
<1>5. EditorOwns(ui, cache, {}, srv, hist.owns) => EditorOwns(u, cache, {q}, srv, hist.owns)
  BY <1>1, <1>3, AloneOne DEF EditorOwns
<1>6. EditorOnce(ui, {}, hist.owns) => EditorOnce(u, {q}, hist.owns)
  BY <1>1, <1>3 DEF EditorOnce
<1>7. reqs = {} => reqs \cup {q} = {q}
  OBVIOUS
<1> QED BY <1>0, <1>2, <1>4, <1>5, <1>6, <1>7, EditorActs

LEMMA EditorClicks ==
    ASSUME TInv, EInv, page \in Editors, ConnectionClick \/ IndexerClick, Click PROVE EInv'
<1>1. CASE page = "connection" /\ ConnectionClick
  <2>1. ASSUME NEW k \in Keys, ConnectionOpen(k) PROVE EInv'
    <3>1. Of(k) \in Addresses /\ k \in Names /\ k # None /\ Of(k).by = "key" /\ Of(k) # New
      BY Address, SomeAddresses, Bounds DEF Names
    <3> QED BY <1>1, <2>1, <3>1, EditorOpens DEF ConnectionOpen, ConnectionForm
  <2>2. ASSUME ConnectionAdd PROVE EInv'
    <3>1. New \in Addresses /\ None \in Names /\ New.by = "none"
      BY Address, SomeAddresses DEF Names
    <3> QED BY <1>1, <2>2, <3>1, EditorOpens DEF ConnectionAdd, ConnectionForm
  <2>3. ASSUME ConnectionSave PROVE EInv'
    <3> DEFINE u == [ui EXCEPT !.button = FALSE]
    <3>1. u.at = ui.at /\ u.form = ui.form /\ u.open = ui.open
      <4> HIDE DEF Names, Addresses, Dialogs
      <4> QED BY Typed DEF Uis
    <3> HIDE DEF u
    <3>2. ui.open /\ Clicks(u, Posted(reqs))
      BY <2>3 DEF ConnectionSave, u
    <3> QED BY <3>1, <3>2, EditorPosts
  <2>4. ASSUME NEW k \in Keys, ConnectionDelete(k) PROVE EInv'
    <3> DEFINE u == [ui EXCEPT !.dialog = Of(k)]
    <3>1. u.at = ui.at /\ u.form = ui.form /\ u.open = ui.open
      <4> HIDE DEF Names, Addresses, Dialogs
      <4> QED BY Typed DEF Uis
    <3> HIDE DEF u
    <3>2. Acts(u, reqs, cache, hist) /\ hist \in Hists(acts + 1)
      BY <2>4, Typed DEF ConnectionDelete, Clicks, u
    <3> QED BY <3>1, <3>2, EditorKeeps
  <2>5. ASSUME ConnectionClose PROVE EInv'
    BY <2>5, EditorCloses DEF ConnectionClose
  <2>6. ASSUME ConnectionType PROVE EInv'
    BY <2>6, EditorEdits DEF ConnectionType
  <2> QED BY <1>1, <2>1, <2>2, <2>3, <2>4, <2>5, <2>6, EditorRemoves DEF ConnectionClick
<1>2. CASE page = "indexer" /\ IndexerClick
  <2>1. ASSUME NEW i \in DOMAIN cache, IndexerOpen(i) PROVE EInv'
    <3>1. cache[i] \in Keys /\ i \in Nat
      BY CachedKeys
    <3>2. PICK at \in {Of(cache[i]), Index(i)} : Opens(IndexerForm(at, cache[i]), cache[i])
      BY <2>1 DEF IndexerOpen
    <3>3. /\ at \in Addresses /\ cache[i] \in Names /\ cache[i] # None /\ at # New
          /\ at.by = "key" => at = Of(cache[i])
          /\ at.by = "index" => at.i = i
      BY <3>1, <3>2, Address, SomeAddresses, Bounds DEF Names
    <3> QED BY <1>2, <2>1, <3>2, <3>3, EditorOpens DEF IndexerForm
  <2>2. ASSUME IndexerAdd PROVE EInv'
    <3>1. New \in Addresses /\ None \in Names /\ New.by = "none"
      BY Address, SomeAddresses DEF Names
    <3> QED BY <1>2, <2>2, <3>1, EditorOpens DEF IndexerAdd, IndexerForm
  <2>3. ASSUME IndexerSave PROVE EInv'
    BY <2>3, EditorPosts DEF IndexerSave
  <2>4. ASSUME IndexerBack PROVE EInv'
    BY <2>4, EditorCloses DEF IndexerBack
  <2>5. ASSUME IndexerType \/ IndexerImport PROVE EInv'
    BY <2>5, EditorEdits DEF IndexerType, IndexerImport
  <2> QED BY <1>2, <2>1, <2>2, <2>3, <2>4, <2>5 DEF IndexerClick
<1>3. Stay \/ (page = "connection" /\ ConnectionClick) \/ (page = "indexer" /\ IndexerClick)
  BY EditorFacts DEF Click
<1> QED BY <1>1, <1>2, <1>3, EditorStays

\* The server's answers.
LEMMA EditorServed ==
    ASSUME TInv, EInv, page \in Editors, NEW r \in reqs, NEW s, NEW harm, NEW own, NEW why,
           NEW ok \in BOOLEAN, NEW obj, Served(r, s, harm, own, why), reqs' = Answered(r, ok, obj),
           r.st = "sent", page = "connection" \/ Prefix(srv.order, s),
           harm \cap {"lost", "rest"} = {},
           EditorOwns(ui, cache, reqs, srv, hist.owns) => "wrong" \notin harm,
           EditorOnce(ui, reqs, hist.owns) => "twice" \notin harm,
           \A o \in own : o[1] = r.body.form /\ r.op = "add" /\ ok,
           ok /\ r.op = "add" => /\ <<r.body.form, obj[1]>> \in own
                                 /\ obj[2] \in DOMAIN s.order /\ s.order[obj[2]] = obj[1],
           ok /\ r.op = "load" => Prefix(obj, s)
    PROVE  EInv'
<1>1. PICK q : /\ Answered(r, ok, obj) = Ended(r) \cup {q}
               /\ q.op = r.op /\ q.at = r.at /\ q.body = r.body /\ q.st = "done"
               /\ q.ok = ok /\ q.obj = obj
  BY Given
<1>2. /\ page' = page /\ ui' = ui /\ cache' = cache /\ timers' = timers /\ srv' = s
      /\ hist'.harm = hist.harm \cup harm /\ hist'.owns = hist.owns \cup own
      /\ hist.excuse \subseteq hist'.excuse
  BY ServedHist
<1>3. EditorOf(ui, reqs', timers)
  BY <1>1, EndedWithin, EditorFacts DEF EditorOf
<1>4. ASSUME EditorOwns(ui, cache, reqs, srv, hist.owns)
      PROVE  reqs = {r} /\ reqs' = {q} /\ EditorOwns(ui, cache, {q}, s, hist.owns \cup own)
  <2> DEFINE P == hist.owns \cup own
  <2>1. reqs = {r} /\ reqs' = {q}
    BY <1>1, <1>4, AloneEnded DEF EditorOwns
  <2>2. ui.form \in Nat
    BY Typed DEF Uis
  <2>3. \A p \in P : p[1] <= ui.form
    BY <1>4, <2>2 DEF EditorOwns
  <2>4. EditorOwns(ui, cache, {r}, s, P)
    BY <1>4, <2>1, <2>3, EditorFacts, OwnsGrow
  <2> HIDE DEF P
  <2>5. ok /\ r.op = "add" => <<ui.form, obj[1]>> \in P
    BY <2>4 DEF EditorOwns, P
  <2>6. EditorOwns(ui, cache, {q}, s, P)
    BY <1>1, <2>4, <2>5, AloneOne DEF EditorOwns
  <2> QED BY <2>1, <2>6 DEF P
<1>5. ASSUME EditorOwns(ui, cache, reqs, srv, hist.owns), EditorOnce(ui, reqs, hist.owns)
      PROVE  EditorOnce(ui, reqs', hist.owns \cup own)
  <2>1. reqs = {r} /\ reqs' = {q}
    BY <1>4, <1>5
  <2>2. r.op # "add" \/ ~ok => hist.owns \cup own = hist.owns
    OBVIOUS
  <2>3. EditorOnce(ui, {q}, hist.owns \cup own)
    BY <1>1, <1>5, <2>1, <2>2 DEF EditorOnce
  <2> QED BY <2>1, <2>3
<1>6. ASSUME ~Wrong(hist'.excuse)
      PROVE  EditorOwns(ui, cache, reqs', s, hist.owns \cup own) /\ "wrong" \notin hist'.harm
  <2>1. EditorOwns(ui, cache, reqs, srv, hist.owns) /\ "wrong" \notin hist.harm
    BY <1>2, <1>6, EditorFacts
  <2> QED BY <1>2, <1>4, <2>1
<1>7. ASSUME hist'.excuse \cap Astray = {}
      PROVE  EditorOnce(ui, reqs', hist.owns \cup own) /\ "twice" \notin hist'.harm
  <2>1. /\ EditorOwns(ui, cache, reqs, srv, hist.owns) /\ EditorOnce(ui, reqs, hist.owns)
        /\ "twice" \notin hist.harm
    BY <1>2, <1>7, EditorFacts
  <2> QED BY <1>2, <1>5, <2>1
<1> QED BY <1>2, <1>3, <1>6, <1>7, EditorFacts, EditorBecomes

LEMMA EditorAnswered ==
    ASSUME TInv, EInv, page \in Editors, NEW r \in reqs, NEW s, NEW why,
           NEW ok \in BOOLEAN, NEW obj, Served(r, s, {}, {}, why), reqs' = Answered(r, ok, obj),
           r.st = "sent", page = "connection" \/ Prefix(srv.order, s), ~ok \/ r.op # "add",
           ok /\ r.op = "load" => Prefix(obj, s)
    PROVE  EInv'
<1>1. /\ \A o \in {} : o[1] = r.body.form /\ r.op = "add" /\ ok
      /\ ok /\ r.op = "add" => /\ <<r.body.form, obj[1]>> \in {}
                              /\ obj[2] \in DOMAIN s.order /\ s.order[obj[2]] = obj[1]
      /\ {} \cap {"lost", "rest"} = {} /\ "wrong" \notin {} /\ "twice" \notin {}
  OBVIOUS
<1> QED BY <1>1, EditorServed

LEMMA PrefixSelf == Prefix(srv.order, srv)
BY DEF Prefix

LEMMA EditorServe == ASSUME TInv, EInv, page \in Editors, NEW r \in reqs, Serve(r) PROVE EInv'
<1>0. /\ r.st = "sent" /\ acts \in Nat /\ srv \in Servers(acts) /\ srv.order \in Seq(Keys)
      /\ r.body \in Bodies(acts) /\ r.at \in Addresses \cup {Of(None)} /\ r.at \in Addresses
  BY EditorFacts, Typed, RequestTyped DEF Serve, Servers
<1>1. ASSUME ServeLoad(r) PROVE EInv'
  <2> DEFINE K == Named(r.at)
             ok == K # {} \/ page \in Editors \/ r.op = "list"
             obj == IF page \in Editors THEN srv.order
                    ELSE IF K = {} THEN None ELSE Shown(srv, Only(K))
  <2>1. Served(r, srv, {}, {}, {}) /\ reqs' = Answered(r, ok, obj) /\ r.op \in {"load", "reload", "list"}
    BY <1>1 DEF ServeLoad
  <2>2. ok \in BOOLEAN /\ obj = srv.order
    OBVIOUS
  <2> HIDE DEF ok, obj
  <2> QED BY <1>0, <2>1, <2>2, PrefixSelf, EditorAnswered
<1>2. ASSUME ServeSave(r) PROVE EInv'
  <2> DEFINE k == Only(Named(r.at))
             w == Written(k, r.body)
  <2>1. Served(r, w, Harm(k, r.body), {}, {}) /\ reqs' = Answered(r, TRUE, Shown(w, k)) /\ r.op = "save"
    BY <1>2 DEF ServeSave
  <2>2. k \in Named(r.at) /\ k \in Keys
    BY <1>0, <1>2, OnlyOne, NamedTyped DEF ServeSave
  <2> HIDE DEF k
  <2>3. w.order = srv.order
    BY <1>0, <2>2, WrittenTyped
  <2> HIDE DEF w
  <2>4. Prefix(srv.order, w)
    BY <2>3 DEF Prefix
  <2>5. ASSUME EditorOwns(ui, cache, reqs, srv, hist.owns) PROVE <<r.body.form, k>> \in hist.owns
    <3>1. r.body.form = ui.form /\ OwnAt(ui.form, r.at, srv, hist.owns) /\ r.at # New
      BY <2>1, <2>5, EditorFacts DEF EditorOwns, EditorOf
    <3>2. CASE r.at.by = "key"
      <4>1. r.at = Of(r.at.i)
        BY <1>0, <3>2, Addressed
      <4>2. k = r.at.i
        BY <1>0, <2>2, <4>1, NamedTyped
      <4> QED BY <3>1, <3>2, <4>2 DEF OwnAt
    <3>3. CASE r.at.by = "index"
      <4>1. k \in {srv.order[i] : i \in {r.at.i} \cap DOMAIN srv.order}
        BY <1>0, <2>2, <3>3, NamedTyped
      <4>2. r.at.i \in DOMAIN srv.order /\ k = srv.order[r.at.i] /\ r.at.i # 0
        BY <1>0, <4>1
      <4> QED BY <3>1, <3>3, <4>2 DEF OwnAt
    <3> QED BY <1>0, <3>1, <3>2, <3>3, Addressed
  <2>6. /\ Harm(k, r.body) \cap {"lost", "rest", "twice"} = {}
        /\ EditorOwns(ui, cache, reqs, srv, hist.owns) => "wrong" \notin Harm(k, r.body)
    BY <2>5 DEF Harm
  <2> QED BY <1>0, <2>1, <2>4, <2>6, EditorServed
<1>3. ASSUME ServeAdd(r) PROVE EInv'
  <2>1. PICK k \in Keys \ Range(srv.order) :
           /\ Served(r, [Written(k, r.body) EXCEPT !.order = Append(@, k)],
                     IF \E own \in hist.owns : own[1] = r.body.form THEN {"twice"} ELSE {},
                     {<<r.body.form, k>>}, {})
           /\ reqs' = Answered(r, TRUE, <<k, Len(srv.order) + 1>>)
    BY <1>3 DEF ServeAdd
  <2> DEFINE w == Written(k, r.body)
             s == [w EXCEPT !.order = Append(@, k)]
             harm == IF \E own \in hist.owns : own[1] = r.body.form THEN {"twice"} ELSE {}
             obj == <<k, Len(srv.order) + 1>>
             o == <<r.body.form, k>>
  <2>2. w \in Servers(acts) /\ w.order = srv.order
    BY <1>0, WrittenTyped
  <2> HIDE DEF w
  <2>3. s.order = Append(srv.order, k)
    BY <2>2 DEF Servers
  <2>4. obj[1] = k /\ obj[2] = Len(srv.order) + 1 /\ o[1] = r.body.form
    OBVIOUS
  <2>5. Served(r, s, harm, {o}, {}) /\ reqs' = Answered(r, TRUE, obj) /\ r.op = "add"
    BY <1>3, <2>1 DEF w, ServeAdd
  <2> HIDE DEF s, obj
  <2>6. Prefix(srv.order, s) /\ obj[2] \in DOMAIN s.order /\ s.order[obj[2]] = obj[1]
    BY <1>0, <2>3, <2>4 DEF Prefix
  <2>7. harm \subseteq {"twice"} /\ (EditorOnce(ui, reqs, hist.owns) => "twice" \notin harm)
    BY <1>0, <2>5 DEF EditorOnce, Unowned
  <2>8. <<r.body.form, obj[1]>> \in {o} /\ \A p \in {o} : p[1] = r.body.form
    BY <2>4
  <2> HIDE DEF harm, o
  <2> QED BY <1>0, <2>5, <2>6, <2>7, <2>8, EditorServed
<1>4. ASSUME ServeRemove(r) PROVE EInv'
  <2>1. /\ Served(r, [srv EXCEPT !.order = RemoveFirst(@, r.at.i)], {}, {}, {})
        /\ reqs' = Answered(r, Named(r.at) # {}, None) /\ r.op = "remove"
    BY <1>4 DEF ServeRemove
  <2>2. page = "connection" /\ (Named(r.at) # {}) \in BOOLEAN
    BY <2>1, EditorFacts DEF EditorOf
  <2> QED BY <1>0, <2>1, <2>2, EditorAnswered
<1>5. ASSUME Refuse(r) \/ ServeScores(r) PROVE EInv'
  <2>1. \/ Served(r, srv, {}, {}, {"refused"}) /\ reqs' = Answered(r, FALSE, None)
        \/ Served(r, srv, {}, {}, {}) /\ reqs' = Answered(r, TRUE, None) /\ r.op = "scores"
    BY <1>5 DEF Refuse, ServeScores
  <2> QED BY <1>0, <2>1, PrefixSelf, EditorAnswered
<1> QED BY <1>1, <1>2, <1>3, <1>4, <1>5 DEF Serve

\* The ends of its requests.
EditorEnding(r) ==
    EditorOwns(ui, cache, reqs, srv, hist.owns) /\ reqs = {r} /\ Ended(r) = {}

LEMMA EditorEnd ==
    ASSUME TInv, EInv, page \in Editors, NEW r \in reqs, NEW u, NEW Q, NEW c, NEW why,
           Handle(r, u, Q, c, timers, why), EditorOf(u, Q, <<>>),
           EditorEnding(r) => EditorOwns(u, c, Q, srv, hist.owns),
           EditorEnding(r) /\ EditorOnce(ui, reqs, hist.owns) /\ why \cap Astray = {}
               => EditorOnce(u, Q, hist.owns)
    PROVE  EInv'
<1>1. /\ page' = page /\ ui' = u /\ reqs' = Q /\ cache' = c /\ timers' = timers /\ srv' = srv
      /\ hist'.harm = hist.harm /\ hist'.owns = hist.owns /\ hist.excuse \cup why \subseteq hist'.excuse
  BY HandleHist
<1>2. EditorOwns(ui, cache, reqs, srv, hist.owns) => EditorEnding(r)
  BY AloneEnded DEF EditorOwns, EditorEnding
<1>3. ASSUME ~Wrong(hist'.excuse)
      PROVE  EditorOwns(u, c, Q, srv, hist.owns) /\ "wrong" \notin hist.harm
  BY <1>1, <1>2, <1>3, EditorFacts
<1>4. ASSUME hist'.excuse \cap Astray = {}
      PROVE  EditorOnce(u, Q, hist.owns) /\ "twice" \notin hist.harm
  <2>1. why \cap Astray = {}
    BY <1>1, <1>4
  <2> QED BY <1>1, <1>2, <1>4, <2>1, EditorFacts
<1> QED BY <1>1, <1>3, <1>4, EditorFacts, EditorBecomes

\* An end that leaves the entry under edit.
LEMMA EditorEndsPlain ==
    ASSUME TInv, EInv, page \in Editors, NEW r \in reqs, NEW u, NEW Q, NEW c, NEW why,
           Handle(r, u, Q, c, timers, why), u.at = ui.at, u.form = ui.form, u.open = ui.open,
           page = "indexer" => c = cache \/ (r.op = "load" /\ r.st = "done" /\ r.ok /\ c = r.obj),
           Q = Ended(r) \/ (\E op \in {"load", "reload"} :
                               (page = "indexer" => op = "load") /\ Q = Ask(Ended(r), op, New, NoBody)),
           r.op = "add" => why \cap Astray # {} \/ (r.st = "done" /\ ~r.ok)
    PROVE  EInv'
<1>1. Q = Ended(r) \/ \E q : /\ Q = Ended(r) \cup {q} /\ q.op \in {"load", "reload"} /\ q.st = "sent"
                             /\ page = "indexer" => q.op = "load"
  BY Asked
<1>2. EditorOf(u, Q, <<>>)
  BY <1>1, EndedWithin, EditorFacts DEF EditorOf
<1>3. Ended(r) = {} => Q = {} \/ \E q : /\ Q = {q} /\ q.op \in {"load", "reload"} /\ q.st = "sent"
  BY <1>1
<1>4. ASSUME EditorEnding(r) PROVE EditorOwns(u, c, Q, srv, hist.owns)
  <2>1. Q = {} \/ \E q : /\ Q = {q} /\ q.op \in {"load", "reload"} /\ q.st = "sent"
    BY <1>3, <1>4 DEF EditorEnding
  <2>2. EditorOwns(ui, cache, reqs, srv, hist.owns)
    BY <1>4 DEF EditorEnding
  <2>3. page = "indexer" => Prefix(c, srv)
    BY <2>2 DEF EditorOwns
  <2> QED BY <2>1, <2>2, <2>3, AloneOne DEF EditorOwns
<1>5. ASSUME EditorEnding(r), EditorOnce(ui, reqs, hist.owns), why \cap Astray = {}
      PROVE  EditorOnce(u, Q, hist.owns)
  <2>1. \A q \in Q : q.op # "add"
    BY <1>3, <1>5 DEF EditorEnding
  <2>2. u.open /\ u.at = New => Unowned(u.form, hist.owns)
    BY <1>5 DEF EditorOnce, EditorEnding, EditorOwns
  <2> QED BY <2>1, <2>2 DEF EditorOnce
<1> QED BY <1>2, <1>4, <1>5, EditorEnd

\* A form without an entry takes the one just added for its own.
LEMMA EditorTakes ==
    ASSUME TInv, EInv, page \in Editors, NEW r \in reqs, r.op \in {"add", "save"}, r.st = "done",
           NEW at \in Addresses, NEW op \in {"load", "reload"}, page = "indexer" => op = "load",
           Answer(r, [ui EXCEPT !.at = at], Ask(Ended(r), op, New, NoBody)),
           page = "connection" => at.by \in {"key", "none"},
           at = ui.at \/ at.by = "key" \/ at.by = "index",
           ui.open => at # New,
           EditorEnding(r) => OwnAt(ui.form, at, srv, hist.owns)
    PROVE  EInv'
<1> DEFINE u == [ui EXCEPT !.at = at]
<1>1. PICK q : /\ Ask(Ended(r), op, New, NoBody) = Ended(r) \cup {q}
               /\ q.op = op /\ q.st = "sent"
  BY Asked
<1>2. u.at = at /\ u.form = ui.form /\ u.open = ui.open
  <2> HIDE DEF Names, Addresses, Dialogs
  <2> QED BY Typed DEF Uis
<1>3. Handle(r, u, Ended(r) \cup {q}, cache, timers, {})
  BY <1>1 DEF Answer
<1> HIDE DEF u
<1>4. EditorOf(u, Ended(r) \cup {q}, <<>>)
  BY <1>1, <1>2, EndedWithin, EditorFacts DEF EditorOf
<1>5. Ended(r) = {} => Ended(r) \cup {q} = {q}
  OBVIOUS
<1>6. EditorEnding(r) => EditorOwns(u, cache, {q}, srv, hist.owns)
  BY <1>1, <1>2, AloneOne DEF EditorEnding, EditorOwns
<1>7. EditorOnce(u, {q}, hist.owns)
  BY <1>1, <1>2 DEF EditorOnce
<1> QED BY <1>3, <1>4, <1>5, <1>6, <1>7, EditorEnd DEF EditorEnding

LEMMA ConnectionAnswers ==
    ASSUME TInv, EInv, page = "connection", NEW r \in reqs, ConnectionAnswer(r) PROVE EInv'
<1>0. page \in Editors /\ page # "indexer"
  BY DEF Editors
<1> DEFINE b == [ui EXCEPT !.button = TRUE]
<1>1. b.at = ui.at /\ b.form = ui.form /\ b.open = ui.open
  <2> HIDE DEF Names, Addresses, Dialogs
  <2> QED BY Typed DEF Uis
<1> HIDE DEF b
<1>2. {"failed"} \cap Astray # {}
  BY DEF Astray
<1>3. ASSUME NEW u \in {ui, b}, NEW Q, NEW c, NEW why, Handle(r, u, Q, c, timers, why),
             Q = Ended(r) \/ \E op \in {"load", "reload"} : Q = Ask(Ended(r), op, New, NoBody),
             r.op = "add" => why = {"failed"} \/ (r.st = "done" /\ ~r.ok)
      PROVE  EInv'
  <2>1. u.at = ui.at /\ u.form = ui.form /\ u.open = ui.open
    BY <1>1, <1>3
  <2> QED BY <1>0, <1>2, <1>3, <2>1, EditorEndsPlain
<1>4. ASSUME ConnectionsShow(r) PROVE EInv'
  <2>1. r.op = "load" /\ (Handle(r, ui, Ended(r), r.obj, timers, {})
                          \/ Handle(r, ui, Ended(r), cache, timers, {"failed"}))
    BY <1>4 DEF ConnectionsShow, Success, Dropped, Failure
  <2> QED BY <1>3, <2>1
<1>5. ASSUME ConnectionsReloaded(r) PROVE EInv'
  <2>1. r.op = "reload" /\ (Handle(r, b, Ended(r), r.obj, timers, {})
                            \/ Handle(r, b, Ended(r), cache, timers, {"failed"}))
    BY <1>5 DEF ConnectionsReloaded, Success, Failure, b
  <2> QED BY <1>3, <2>1
<1>6. ASSUME ConnectionDeleted(r) PROVE EInv'
  <2>1. r.op = "remove" /\ (Handle(r, ui, Ask(Ended(r), "load", New, NoBody), cache, timers, {})
                            \/ Handle(r, ui, Ended(r), cache, timers, {})
                            \/ Handle(r, ui, Ended(r), cache, timers, {"failed"}))
    BY <1>6 DEF ConnectionDeleted, Success, Ignored, Refused, Answer, Dropped, Failure
  <2> QED BY <1>3, <2>1
<1>7. ASSUME Success(r, "add"), ui.at = New,
             Answer(r, [ui EXCEPT !.at = Of(r.obj[1])], ConnectionsReload(Ended(r)))
      PROVE  EInv'
  <2>1. r.obj[1] \in Keys /\ r.op = "add" /\ r.st = "done" /\ r.ok
    BY <1>0, <1>7, Brought DEF Success
  <2>2. Of(r.obj[1]) \in Addresses /\ Of(r.obj[1]).by = "key" /\ Of(r.obj[1]).i = r.obj[1]
        /\ Of(r.obj[1]) # New
    BY <2>1, Address, SomeAddresses
  <2>3. EditorEnding(r) => OwnAt(ui.form, Of(r.obj[1]), srv, hist.owns)
    BY <2>1, <2>2 DEF EditorEnding, EditorOwns, OwnAt
  <2> QED BY <1>0, <1>7, <2>1, <2>2, <2>3, EditorTakes DEF ConnectionsReload
<1>8. ASSUME Success(r, "add"), ui.at # New, Answer(r, ui, ConnectionsReload(Ended(r))) PROVE EInv'
  <2>1. ui.at \in Addresses /\ ui = [ui EXCEPT !.at = ui.at]
    <3> HIDE DEF Names, Addresses, Dialogs
    <3> QED BY Typed DEF Uis
  <2>2. ui.at.by \in {"key", "none"}
    BY <1>0, EditorFacts DEF EditorOf
  <2>3. EditorEnding(r) => OwnAt(ui.form, ui.at, srv, hist.owns)
    BY DEF EditorEnding, EditorOwns
  <2> QED BY <1>0, <1>8, <2>1, <2>2, <2>3, EditorTakes DEF ConnectionsReload, Success
<1>9. ASSUME Success(r, "save"), Answer(r, ui, ConnectionsReload(Ended(r))) PROVE EInv'
  BY <1>3, <1>9 DEF Success, ConnectionsReload, Answer
<1>10. ASSUME NEW op \in {"add", "save"},
              (Refused(r, op) /\ Answer(r, b, Ended(r))) \/ Failure(r, op, b, Ended(r))
       PROVE  EInv'
  BY <1>3, <1>10 DEF Refused, Answer, Failure
<1> QED BY <1>4, <1>5, <1>6, <1>7, <1>8, <1>9, <1>10 DEF ConnectionAnswer, ConnectionSaved, b

LEMMA IndexerAnswers ==
    ASSUME TInv, EInv, page = "indexer", NEW r \in reqs, IndexerAnswer(r) PROVE EInv'
<1>0. page \in Editors /\ page # "connection"
  BY DEF Editors
<1>1. {"failed"} \cap Astray # {}
  BY DEF Astray
<1>2. ASSUME IndexersShow(r) \/ Dropped(r, "add") \/ Dropped(r, "save") PROVE EInv'
  <2>1. \/ /\ r.op = "load" /\ r.st = "done" /\ r.ok
           /\ Handle(r, ui, Ended(r), r.obj, timers, {})
        \/ Handle(r, ui, Ended(r), cache, timers, {"failed"})
    BY <1>2 DEF IndexersShow, Success, Dropped, Failure
  <2> QED BY <1>0, <1>1, <2>1, EditorEndsPlain
<1> DEFINE at == IF ~ui.open \/ ui.at # New THEN ui.at
                 ELSE Index(IF Success(r, "add") THEN r.obj[2] ELSE 0)
<1>3. ASSUME r.op \in {"add", "save"}, r.st = "done",
             Answer(r, [ui EXCEPT !.at = at], Ask(Ended(r), "load", New, NoBody))
      PROVE  EInv'
  <2>1. ui.at \in Addresses
    BY Typed DEF Uis
  <2>2. Success(r, "add") => r.obj[2] \in Nat /\ r.ok /\ r.op = "add"
    BY <1>0, Brought DEF Success
  <2> DEFINE i == IF Success(r, "add") THEN r.obj[2] ELSE 0
  <2>3. i \in Nat /\ Index(i) \in Addresses /\ Index(i).by = "index" /\ Index(i).i = i /\ Index(i) # New
    BY <2>2, Address, SomeAddresses
  <2>4. EditorEnding(r) => OwnAt(ui.form, Index(i), srv, hist.owns)
    <3>1. ASSUME EditorEnding(r), Success(r, "add")
          PROVE  i \in DOMAIN srv.order /\ <<ui.form, srv.order[i]>> \in hist.owns
      BY <1>0, <1>3, <2>2, <3>1 DEF EditorEnding, EditorOwns
    <3>2. ~Success(r, "add") => i = 0
      OBVIOUS
    <3> HIDE DEF i
    <3> QED BY <2>3, <3>1, <3>2 DEF OwnAt
  <2>5. EditorEnding(r) => OwnAt(ui.form, ui.at, srv, hist.owns)
    BY DEF EditorEnding, EditorOwns
  <2>6. at = IF ~ui.open \/ ui.at # New THEN ui.at ELSE Index(i)
    OBVIOUS
  <2> HIDE DEF i, at
  <2>7. /\ at \in Addresses /\ (at = ui.at \/ at.by = "index") /\ (ui.open => at # New)
        /\ EditorEnding(r) => OwnAt(ui.form, at, srv, hist.owns)
    BY <2>1, <2>3, <2>4, <2>5, <2>6
  <2> QED BY <1>0, <1>3, <2>7, EditorTakes
<1>4. ASSUME \E op \in {"add", "save"} : Success(r, op) \/ Refused(r, op),
             Answer(r, [ui EXCEPT !.at = IF ~ui.open \/ @ # New THEN @
                                         ELSE Index(IF Success(r, "add") THEN r.obj[2] ELSE 0)],
                    Ask(Ended(r), "load", New, NoBody))
      PROVE  EInv'
  <2>1. r.op \in {"add", "save"} /\ r.st = "done"
    BY <1>4 DEF Success, Refused
  <2> QED BY <1>3, <1>4, <2>1
<1> QED BY <1>2, <1>4 DEF IndexerAnswer, IndexerSaved

\* Another tab: the form of a connection goes by its id, that of an indexer
\* may go by its position.
LEMMA EditorOtherTab == ASSUME TInv, EInv, page \in Editors, OtherTab PROVE EInv'
<1>1. /\ page' = page /\ ui' = ui /\ cache' = cache /\ timers' = timers /\ reqs' = reqs
      /\ hist'.harm = hist.harm /\ hist'.owns = hist.owns
      /\ hist.excuse \subseteq hist'.excuse /\ "other" \in hist'.excuse
  BY Typed DEF OtherTab, Hists
<1>2. ASSUME ~Wrong(hist'.excuse)
      PROVE  EditorOwns(ui, cache, reqs, srv', hist.owns) /\ "wrong" \notin hist.harm
  <2>1. page = "connection"
    BY <1>1, <1>2, EditorFacts DEF Wrong, Astray
  <2>2. EditorOwns(ui, cache, reqs, srv, hist.owns) /\ "wrong" \notin hist.harm
    BY <1>1, <1>2, EditorFacts
  <2>3. \A o \in hist.owns : o[1] <= ui.form
    BY <2>2 DEF EditorOwns
  <2> QED BY <2>1, <2>2, <2>3, EditorFacts, OwnsGrow
<1>3. hist'.excuse \cap Astray # {}
  BY <1>1 DEF Astray
<1> QED BY <1>1, <1>2, <1>3, EditorFacts, EditorBecomes

LEMMA EditorInit == Init => EInv
<1> SUFFICES ASSUME Init, page \in Editors PROVE EInv
  BY DEF EInv
<1>1. ui = [Blank(None, New) EXCEPT !.button = TRUE] /\ reqs = Ask({}, "load", New, NoBody)
  BY DEF Init, Entry, AtClick, Dropdown, Editors
<1>2. timers = <<>> /\ cache = <<>> /\ hist.harm = {} /\ hist.owns = {}
  BY DEF Init
<1>3. ui.at = New /\ ~ui.open /\ ui.form = 0
  BY <1>1 DEF Blank
<1>4. PICK q : reqs = {} \cup {q} /\ q.op = "load" /\ q.st = "sent"
  BY <1>1, Asked
<1>5. reqs = {q}
  BY <1>4
<1>6. EditorOf(ui, reqs, timers)
  BY <1>2, <1>3, <1>4, <1>5, Address DEF EditorOf
<1>7. EditorOwns(ui, cache, reqs, srv, hist.owns) /\ EditorOnce(ui, reqs, hist.owns)
  <2>1. OwnAt(ui.form, ui.at, srv, hist.owns) /\ Prefix(cache, srv)
    BY <1>2, <1>3, Address DEF OwnAt, Prefix
  <2>2. Alone(reqs)
    BY <1>5, AloneOne
  <2>3. EditorOwns(ui, cache, reqs, srv, hist.owns)
    BY <1>2, <1>4, <1>5, <2>1, <2>2 DEF EditorOwns
  <2>4. EditorOnce(ui, reqs, hist.owns)
    BY <1>3, <1>4, <1>5 DEF EditorOnce
  <2> QED BY <2>3, <2>4
<1> QED BY <1>2, <1>6, <1>7 DEF EInv

LEMMA EditorStep == TInv /\ EInv /\ [Next]_vars => EInv'
<1> SUFFICES ASSUME TInv, EInv, [Next]_vars PROVE EInv'
  OBVIOUS
<1>1. CASE page \notin Editors
  BY <1>1, PageKept DEF EInv, Editors
<1>2. CASE page \in Editors
  <2>1. CASE UNCHANGED vars
    BY <1>2, <2>1, EditorFacts, EditorBecomes DEF vars
  <2>2. ASSUME NEW r \in reqs, Ends(r) PROVE EInv'
    BY <1>2, <2>2, EditorFacts, ConnectionAnswers, IndexerAnswers DEF Ends
  <2>3. ~(Redraw \/ Listen)
    <3>1. timers = <<>>
      BY <1>2, EditorFacts
    <3> QED BY <3>1 DEF Redraw, Listen, First
  <2>4. ASSUME Click PROVE EInv'
    BY <1>2, <2>4, EditorFacts, EditorClicks, EditorStays DEF Click
  <2> QED BY <1>2, <2>1, <2>2, <2>3, <2>4, EditorServe, EditorOtherTab DEF Next, Network
<1> QED BY <1>1, <1>2

-----------------------------------------------------------------------------
(* The theorems.                                                           *)

\* The invariant of all families.
FormsInv == TInv /\ CInv /\ PInv /\ SInv /\ EInv

LEMMA FormsInvariant == Spec => []FormsInv
<1>1. Init => FormsInv
  BY InitTyped, ClickInit, ProfileInit, SelectInit, EditorInit DEF FormsInv
<1>2. FormsInv /\ [Next]_vars => FormsInv'
  BY StepTyped, ClickStep, ProfileStep, SelectStep, EditorStep DEF FormsInv
<1> QED BY <1>1, <1>2, PTL DEF Spec

LEMMA CopesOf ==
    /\ page \in AtClick => Copes = {"other"}
    /\ page = "profile" => Copes = ProfileCopes(ui)
    /\ page \in Dropdown => Copes = SelectPatient
    /\ page \in Pages => \/ page \in AtClick \/ page \in Dropdown
                         \/ page = "profile" \/ page \in Editors
    /\ page \in Editors => page \notin AtClick /\ page \notin Dropdown /\ page # "profile"
<1>1. /\ \A p \in AtClick : p \notin Dropdown /\ p # "profile" /\ p \notin Editors
      /\ "profile" \notin AtClick /\ "profile" \notin Dropdown /\ "profile" \notin Editors
      /\ \A p \in Editors : p \notin AtClick /\ p \notin Dropdown
      /\ \A p \in Pages : p \in AtClick \/ p \in Dropdown \/ p = "profile" \/ p \in Editors
  BY DEF Dropdown, AtClick, Editors, Pages, ByAnswer
<1>2. page \in AtClick => Copes = {"other"}
  BY <1>1 DEF Copes
<1>3. page = "profile" => Copes = ProfileCopes(ui)
  BY <1>1 DEF Copes, ProfileCopes
<1> QED BY <1>1, <1>2, <1>3, SelectCopes

\* When everything asked has been answered, no timeout is pending and an open
\* form shows no unsaved change, the server has the last edit not given up,
\* through whatever the form's family copes with (saveAppSettings of core.js,
\* save of movie-management.js and tv-management.js, saveProfileFromEditor).
THEOREM LastEditSaved == Spec => []Saved
<1>1. FormsInv => Saved
  <2> SUFFICES ASSUME FormsInv, page \notin Editors, reqs = {}, timers = <<>>,
                      ui.open, ~ui.dirty, hist.excuse \subseteq Copes
               PROVE  hist.typed \in {0, srv.obj[Edited].val}
    BY DEF Saved, Busy
  <2>1. CASE page \in AtClick
    <3>1. ui.sel = Stored[1] /\ Edited = ui.sel
      BY <2>1 DEF FormsInv, CInv, ClickUi, Edited, AtClick
    <3>2. ClickHas(Stored[1], ui, reqs, timers, srv, hist.typed)
      BY <2>1, CopesOf DEF FormsInv, CInv
    <3> QED BY <3>1, <3>2 DEF ClickHas, Has
  <2>2. CASE page = "profile"
    <3>1. hist.excuse \subseteq ProfileCopes(ui)
      BY <2>2, CopesOf
    <3>2. ProfileHas(Stored[1], ui, reqs, srv, hist.typed) /\ ProfileOwn(Stored[1], ui, reqs)
      BY <2>2, <3>1, ProfileFacts DEF FormsInv
    <3> QED BY <2>2, <3>2 DEF ProfileHas, ProfileOwn, Has, Edited
  <2>3. CASE page \in Dropdown
    <3>1. SelectorHas(ui, reqs, srv, hist.typed) /\ page # "profile"
      BY <2>3, CopesOf, SelectFacts DEF FormsInv
    <3> QED BY <3>1 DEF SelectorHas, Has, Edited
  <2>4. page \in Pages
    BY DEF FormsInv, TInv
  <2> QED BY <2>1, <2>2, <2>3, <2>4, CopesOf
<1> QED BY <1>1, FormsInvariant, PTL

\* No edit is lost by leaving a form without a question
\* (confirmLeaveMovieManagement, confirmLeaveInstanceEditor,
\* window._hasUnsavedChanges), but through what its family does not cope with.
THEOREM LeavingAsks == Spec => []LeaveAsks
<1>1. FormsInv => LeaveAsks
  <2> SUFFICES ASSUME FormsInv, "lost" \in hist.harm, hist.excuse \subseteq Copes PROVE FALSE
    BY DEF LeaveAsks
  <2>1. CASE page \in AtClick
    BY <2>1, CopesOf DEF FormsInv, CInv
  <2>2. CASE page = "profile"
    BY <2>2, CopesOf, ProfileFacts DEF FormsInv
  <2>3. CASE page \in Dropdown
    BY <2>3, CopesOf, SelectFacts DEF FormsInv
  <2>4. CASE page \in Editors
    BY <2>4, EditorFacts DEF FormsInv
  <2>5. page \in Pages
    BY DEF FormsInv, TInv
  <2> QED BY <2>1, <2>2, <2>3, <2>4, <2>5, CopesOf
<1> QED BY <1>1, FormsInvariant, PTL

\* A save sends the fields that the user left alone as they are in the object
\* it is sent to, but for a selector that failed, was hurried or was refilled,
\* and for a profile that goes by its position while another page removes one.
THEOREM FieldsOfItsOwn == Spec => []RightForm
<1>1. FormsInv => RightForm
  <2> SUFFICES ASSUME FormsInv, "rest" \in hist.harm
               PROVE  \/ page \in Dropdown /\ hist.excuse \cap {"failed", "hasty", "refilled"} # {}
                      \/ page = "profile"  /\ "other" \in hist.excuse
    BY DEF RightForm
  <2>1. CASE page \in AtClick
    BY <2>1 DEF FormsInv, CInv
  <2>2. CASE page = "profile"
    BY <2>2 DEF FormsInv, PInv
  <2>3. CASE page \in Dropdown
    BY <2>3, SelectFacts DEF FormsInv, Uneven
  <2>4. CASE page \in Editors
    BY <2>4, EditorFacts DEF FormsInv
  <2>5. page \in Pages
    BY DEF FormsInv, TInv
  <2> QED BY <2>1, <2>2, <2>3, <2>4, <2>5, CopesOf
<1> QED BY <1>1, FormsInvariant, PTL

\* An editor writes the entry it was opened for or added, and adds one at most
\* (handleSave of notifications.js, saveIndexerFromEditor), unless the user did
\* not wait, a request failed, or another page removed an entry.  A connection,
\* saved by its id, overwrites another one for no reason but a user in a hurry.
THEOREM OneOwnEntry == Spec => []RightEntry
<1>1. FormsInv => RightEntry
  <2> SUFFICES ASSUME FormsInv, hist.harm \cap {"wrong", "twice"} # {}
               PROVE  /\ hist.excuse \cap Astray # {}
                      /\ page = "connection" /\ "wrong" \in hist.harm => "hasty" \in hist.excuse
    BY DEF RightEntry, Astray
  <2>1. page \in Editors
    <3>1. page \in AtClick => hist.harm \cap {"wrong", "twice"} = {}
      BY DEF FormsInv, CInv
    <3>2. page = "profile" => hist.harm \cap {"wrong", "twice"} = {}
      BY DEF FormsInv, PInv
    <3>3. page \in Dropdown => hist.harm \cap {"wrong", "twice"} = {}
      BY DEF FormsInv, SInv
    <3>4. page \in Pages
      BY DEF FormsInv, TInv
    <3> QED BY <3>1, <3>2, <3>3, <3>4, CopesOf
  <2>2. ~Wrong(hist.excuse) => "wrong" \notin hist.harm
    BY <2>1, EditorFacts DEF FormsInv
  <2>3. hist.excuse \cap Astray = {} => "twice" \notin hist.harm
    BY <2>1, EditorFacts DEF FormsInv
  <2>4. Wrong(hist.excuse) => hist.excuse \cap Astray # {}
    BY DEF Wrong, Astray
  <2>5. page = "connection" => (Wrong(hist.excuse) <=> "hasty" \in hist.excuse)
    BY DEF Wrong
  <2> QED BY <2>2, <2>3, <2>4, <2>5
<1> QED BY <1>1, FormsInvariant, PTL
=============================================================================
