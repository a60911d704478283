------------------------------ MODULE FormServer ------------------------------
(***************************************************************************)
(* The settings forms of the web interface and the server they talk to:    *)
(* the requests.  A form shows an object that the server stores under a    *)
(* key (an application, an instance, a profile, a connection).  The object *)
(* has the fields of the form, of which the user edits one, "val", and     *)
(* fields that are not on the form, "other", which other pages write.  An  *)
(* edit is a number: 0 is what was stored at first.  Module Forms has the  *)
(* forms.                                                                  *)
(***************************************************************************)
EXTENDS Naturals, FiniteSets, SequencesExt

CONSTANTS Keys,     \* names of objects, stored at first or added later
          Stored,   \* those stored at first, in the order of the list
          None,     \* no key, no dialog, no answer yet
          Kept,     \* of a request: leaves the fields "other" alone
          MaxActs   \* bound of each page: operations of the user and of another tab

AtClick  == {"general", "log_settings", "swaparr", "instance", "prowlarr"}
ByAnswer == {"movie", "tv", "profile"}
Editors  == {"connection", "indexer"}
Pages    == AtClick \cup ByAnswer \cup Editors
Opened   == {"instance", "prowlarr"} \cup Editors  \* forms opened from a list
\* Forms whose save sends fields that are not on the form: all of the object
\* as it was fetched, or, the general form, some of them at their defaults.
Whole    == {"swaparr", "instance", "prowlarr", "general"}
Dropdown == {"movie", "tv"}                        \* forms with a selector of the key

ASSUME FormsAssumption ==
    /\ Stored \in Seq(Keys) /\ Stored # <<>>
    /\ \A i, j \in DOMAIN Stored : Stored[i] = Stored[j] => i = j
    /\ None \notin Keys \cup Nat \cup {"leave", "delete"} /\ Kept \notin Nat
    /\ None \notin [of : Keys \cup {None}, val : Nat, other : Nat \cup {Kept}]
    /\ MaxActs \in [Pages -> Nat]

VARIABLES
    page,   \* the page visited: a behaviour is one visit
    ui,     \* its state
    cache,  \* sniparrUI.originalSettings[app]; of an editor, the rows of its list
    timers, \* timeouts set and not yet run
    srv,    \* the server: the objects, the order of those that exist
    reqs,   \* requests sent and not yet answered
    hist,   \* harm and excuses; the last edit not given up; whose entry is whose
    acts    \* operations so far

vars == <<page, ui, cache, timers, srv, reqs, hist, acts>>

---------------------------------------------------------------------------
\* An address: a key, a position, or none.
Of(k)    == [by |-> "key", i |-> k]
Index(i) == [by |-> "index", i |-> i]
New      == [by |-> "none", i |-> 0]

\* What a form sends: the edit, where its other fields come from (a key, or
\* None for defaults), the fields not on it, and which form it is.
Body(val, rest, other, form) == [val |-> val, rest |-> rest, other |-> other, form |-> form]
NoBody == Body(0, None, Kept, 0)

Next1(S) == 1 + Max({x.n : x \in S} \cup {0})
Ask(Q, op, at, body) ==
    Q \cup {[n |-> Next1(Q), op |-> op, at |-> at, body |-> body,
             st |-> "sent", ok |-> FALSE, obj |-> None]}

\* The objects an address names.
Named(at) ==
    CASE at.by = "key"   -> {at.i} \cap Range(srv.order)
      [] at.by = "index" -> {srv.order[i] : i \in {at.i} \cap DOMAIN srv.order}
      [] at.by = "none"  -> {}
Only(S) == CHOOSE x \in S : TRUE

Earlier(r) == {q \in reqs : q.n < r.n}
Ended(r)   == reqs \ {r}

Written(k, b) ==
    [srv EXCEPT !.obj[k] = [val |-> b.val, other |-> IF b.other = Kept THEN @.other ELSE b.other]]
Answered(r, ok, obj) == Ended(r) \cup {[r EXCEPT !.st = "done", !.ok = ok, !.obj = obj]}

Shown(s, k) == [of |-> k, val |-> s.obj[k].val, other |-> s.obj[k].other]

\* What writing b to k does that the user did not mean.
Harm(k, b) ==
    (IF page \notin Editors /\ b.rest # k THEN {"rest"} ELSE {}) \cup
    (IF b.other \notin {Kept, srv.obj[k].other} THEN {"other"} ELSE {}) \cup
    (IF page \in Editors /\ <<b.form, k>> \notin hist.owns THEN {"wrong"} ELSE {})

Served(r, s, harm, own, why) ==
    /\ srv' = s
    /\ hist' = [hist EXCEPT !.harm = @ \cup harm, !.owns = @ \cup own,
                            !.excuse = @ \cup why \cup
                                (IF \E q \in Earlier(r) : q.st = "sent"
                                 THEN {"reordered"} ELSE {})]
    /\ UNCHANGED <<page, ui, cache, timers, acts>>

\* The server handles a request ...
ServeLoad(r) ==
    /\ r.op \in {"load", "reload", "list"}
    /\ LET K == Named(r.at) IN
       reqs' = Answered(r, K # {} \/ page \in Editors \/ r.op = "list",
                        IF page \in Editors THEN srv.order
                        ELSE IF K = {} THEN None ELSE Shown(srv, Only(K)))
    /\ Served(r, srv, {}, {}, {})

ServeSave(r) ==
    /\ r.op = "save" /\ Named(r.at) # {}
    /\ LET k == Only(Named(r.at)) IN
       /\ Served(r, Written(k, r.body), Harm(k, r.body), {}, {})
       /\ reqs' = Answered(r, TRUE, Shown(Written(k, r.body), k))

\* A new entry; the answer has its key and its position.
ServeAdd(r) ==
    /\ r.op = "add"
    /\ \E k \in Keys \ Range(srv.order) :
       /\ Served(r, [Written(k, r.body) EXCEPT !.order = Append(@, k)],
                 IF \E own \in hist.owns : own[1] = r.body.form THEN {"twice"} ELSE {},
                 {<<r.body.form, k>>}, {})
       /\ reqs' = Answered(r, TRUE, <<k, Len(srv.order) + 1>>)

ServeRemove(r) ==
    /\ r.op = "remove"
    /\ Served(r, [srv EXCEPT !.order = RemoveFirst(@, r.at.i)], {}, {}, {})
    /\ reqs' = Answered(r, Named(r.at) # {}, None)

ServeScores(r) ==
    r.op = "scores" /\ Served(r, srv, {}, {}, {}) /\ reqs' = Answered(r, TRUE, None)

\* ... or refuses to write, for a reason of its own or because there is no
\* such entry.
Refuse(r) ==
    /\ r.op \in {"save", "add", "scores"}
    /\ Served(r, srv, {}, {}, {"refused"})
    /\ reqs' = Answered(r, FALSE, None)

Serve(r) ==
    /\ r.st = "sent"
    /\ ServeLoad(r) \/ ServeSave(r) \/ ServeAdd(r) \/ ServeRemove(r) \/ ServeScores(r) \/ Refuse(r)

\* Another tab or page writes fields that are not on the form, or removes the
\* first entry of the list.
OtherTab ==
    /\ acts < MaxActs[page]
    /\ acts' = acts + 1
    /\ \/ page \notin Editors /\ \E k \in Keys : srv' = [srv EXCEPT !.obj[k].other = acts + 1]
       \/ page \in Editors \cup {"profile"} /\ srv.order # <<>>
          /\ srv' = [srv EXCEPT !.order = Tail(@)]
    /\ hist' = [hist EXCEPT !.excuse = @ \cup {"other"}]
    /\ UNCHANGED <<page, ui, cache, timers, reqs>>

=============================================================================
