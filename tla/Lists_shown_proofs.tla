------------------------- MODULE Lists_shown_proofs -------------------------
(***************************************************************************)
(* Proofs about Lists: a page at rest shows what the server has, also for  *)
(* a user in a hurry, as long as nothing fails or is overtaken and nobody  *)
(* else writes.  Requests are then served and answered in the order they   *)
(* were sent, so that the last fetch decides; what has to be shown is that *)
(* it is for the selection, and that whatever changed the list after it    *)
(* was served will make the page fetch again.                              *)
(***************************************************************************)
EXTENDS Lists_user_proofs

\* Requests carry different numbers, and any of them have a last one.
Numbered(Q) ==
    /\ \A r \in Q : r.n \in Nat
    /\ \A q, r \in Q : q.n = r.n => q = r
    /\ \A R \in SUBSET Q : R # {} => \E r \in R : \A q \in R : q.n <= r.n
After(Q, r) == \A q \in Q : r.n < q.n
LastOf(Q, r, op) == r.op = op /\ \A q \in Q : q.op = op => q.n <= r.n

\* What the page shows when it has the answer of r: the browser takes the
\* directory, two of the tables the page number of the answer.
SelOf(u, r) == IF page = "browse" THEN r.key ELSE u.sel
PosOf(u, r) == IF page \in {"manager", "snipe_history"} THEN r.at.i ELSE u.pos

InOrder(Q) == \A q, r \in Q : q.st = "sent" /\ r.st = "done" => r.n < q.n
\* The last fetch is for the selection and brings its list, unless a later
\* request makes the page fetch again.
Fetches(u, Q) ==
    \A r \in Q : LastOf(Q, r, "load") =>
        /\ r.key = IF page \in ByServer THEN Current ELSE SelOf(u, r)
        /\ page \in Paged => r.at.i = PosOf(u, r)
        /\ r.st = "done" /\ (page \in ByServer => \A q \in Q : q.op # "list") =>
              \/ r.rows = RowsAt(SelOf(u, r), PosOf(u, r))
              \/ \E q \in Q : r.n < q.n /\ Moved(q)
\* The server's current instance is the selection, or will be.
Puts(u, Q) ==
    page \in ByServer =>
        /\ (\A r \in Q : r.op \notin {"list", "put"}) => srv.now = u.sel
        /\ \A r \in Q : LastOf(Q, r, "put") =>
              r.want = u.sel /\ (r.st = "done" => srv.now = u.sel)
Purges(u) == u.dialog # None /\ u.dialog.op = "purge" => u.dialog.rest # <<>>
Tracked(u, Q) == InOrder(Q) /\ Fetches(u, Q) /\ Puts(u, Q) /\ Purges(u)
Fresh(u, Q) == Tracked(u, Q) /\ ((\A r \in Q : ~Moved(r)) => Mirror(u))

Explained == hist.excuse \subseteq {"hasty"}
FInv == Numbered(reqs) /\ (Explained => Fresh(ui, reqs))
FNext == Numbered(reqs') /\ (Explained' => Fresh(ui, reqs)')

-----------------------------------------------------------------------------
(* Numbers.                                                                *)

LEMMA FewerNumbered ==
    ASSUME NEW Q, Numbered(Q), NEW R \in SUBSET Q
    PROVE  Numbered(R)
BY DEF Numbered

LEMMA MoreNumbered ==
    ASSUME NEW Q, Numbered(Q), NEW x, x.n \in Nat, \A q \in Q : q.n # x.n
    PROVE  Numbered(Q \cup {x})
<1>1. ASSUME NEW R \in SUBSET (Q \cup {x}), R # {}
      PROVE  \E r \in R : \A q \in R : q.n <= r.n
  <2>1. CASE R \ {x} = {}
    BY <1>1, <2>1
  <2>2. CASE R \ {x} # {}
    <3>1. PICK r \in R \ {x} : \A q \in R \ {x} : q.n <= r.n
      BY <2>2 DEF Numbered
    <3>2. r.n \in Nat /\ \A q \in R \ {x} : q.n \in Nat
      BY <3>1 DEF Numbered
    <3>3. CASE x \in R /\ r.n <= x.n
      BY <3>1, <3>2, <3>3
    <3>4. CASE x \notin R \/ ~(r.n <= x.n)
      BY <3>1, <3>2, <3>4
    <3> QED BY <3>3, <3>4
  <2> QED BY <2>1, <2>2
<1> QED BY <1>1 DEF Numbered

\* A new request comes after all others.
LEMMA NewNumber ==
    ASSUME NEW Q, Numbered(Q), NEW op, NEW key, NEW at, NEW want
    PROVE  /\ Request(Q, op, key, at, want).n \in Nat
           /\ \A q \in Q : q.n < Request(Q, op, key, at, want).n
<1> DEFINE N == {r.n : r \in Q} \cup {0}
<1>1. \E m \in N : \A n \in N : m >= n
  <2>1. CASE Q = {}
    BY <2>1
  <2>2. CASE Q # {}
    <3>1. PICK r \in Q : \A q \in Q : q.n <= r.n
      BY <2>2 DEF Numbered
    <3> QED BY <3>1 DEF Numbered
  <2> QED BY <2>1, <2>2
<1>2. N \subseteq Nat
  BY DEF Numbered
<1>3. Max(N) \in N /\ \A n \in N : Max(N) >= n
  BY <1>1 DEF Max
<1>4. Request(Q, op, key, at, want).n = 1 + Max(N)
  BY DEF Request
<1>5. \A q \in Q : q.n \in N /\ q.n \in Nat
  BY DEF Numbered
<1> DEFINE m == Max(N)
           x == Request(Q, op, key, at, want)
<1>6. m \in Nat /\ x.n = 1 + m /\ \A q \in Q : q.n <= m /\ q.n \in Nat
  BY <1>2, <1>3, <1>4, <1>5
<1> HIDE DEF m, x
<1>7. x.n \in Nat /\ \A q \in Q : q.n < x.n
  BY <1>6
<1> QED BY <1>7 DEF x

LEMMA AskNumbered ==
    ASSUME NEW Q, Numbered(Q), NEW op, NEW key, NEW at, NEW want
    PROVE  Numbered(Ask(Q, op, key, at, want))
<1> DEFINE x == Request(Q, op, key, at, want)
<1>1. x.n \in Nat /\ \A q \in Q : q.n < x.n /\ q.n \in Nat
  BY NewNumber DEF Numbered
<1> HIDE DEF x
<1>2. Numbered(Q \cup {x})
  BY <1>1, MoreNumbered
<1> QED BY <1>2 DEF Ask, x

LEMMA PurgeNumbered ==
    ASSUME NEW Q, Numbered(Q), NEW left
    PROVE  Numbered(CustomFormatsPurge(Q, left))
<1>1. CASE left = <<>>
  BY <1>1, AskNumbered DEF CustomFormatsPurge, CustomFormatsRefresh
<1>2. CASE left # <<>>
  <2> DEFINE q == Request(Q, "purge", Current, Index(Last(left).i), Last(left).want)
             x == [q EXCEPT !.rest = Front(left)]
  <2>1. x.n = q.n
    BY DEF Request
  <2>2. q.n \in Nat /\ \A r \in Q : r.n < q.n /\ r.n \in Nat
    BY NewNumber DEF Numbered
  <2>3. CustomFormatsPurge(Q, left) = Q \cup {x}
    BY <1>2 DEF CustomFormatsPurge
  <2> HIDE DEF x, q
  <2> QED BY <2>1, <2>2, <2>3, MoreNumbered
<1> QED BY <1>1, <1>2

LEMMA ChosenNumbered ==
    ASSUME NEW Q, Numbered(Q), NEW y, NEW left
    PROVE  Numbered(CustomFormatsAddNext(Q, y, left))
<1>1. CASE left = <<>>
  BY <1>1, AskNumbered DEF CustomFormatsAddNext, CustomFormatsRefresh
<1>2. CASE left # <<>>
  <2> DEFINE q == Request(Q, "chosen", Current, Nothing, y)
             x == [q EXCEPT !.rest = Tail(left)]
  <2>1. x.n = q.n
    BY DEF Request
  <2>2. q.n \in Nat /\ \A r \in Q : r.n < q.n /\ r.n \in Nat
    BY NewNumber DEF Numbered
  <2>3. CustomFormatsAddNext(Q, y, left) = Q \cup {x}
    BY <1>2 DEF CustomFormatsAddNext
  <2> HIDE DEF x, q
  <2> QED BY <2>1, <2>2, <2>3, MoreNumbered
<1> QED BY <1>1, <1>2

-----------------------------------------------------------------------------
(* What a step does to what is tracked.                                    *)

LEMMA FreshNext ==
    ASSUME page' = page, srv' = srv, Fresh(ui', reqs')
    PROVE  Fresh(ui, reqs)'
<1>1. /\ \A k, p : RowsAt(k, p)' = RowsAt(k, p)
      /\ \A u, r : SelOf(u, r)' = SelOf(u, r) /\ PosOf(u, r)' = PosOf(u, r)
      /\ \A u : Listed(u)' = Listed(u)
  BY DEF RowsAt, SelOf, PosOf, Listed
<1>2. Fetches(ui', reqs') => Fetches(ui, reqs)'
  BY <1>1 DEF Fetches
<1>3. Puts(ui', reqs') => Puts(ui, reqs)'
  BY DEF Puts
<1>4. Mirror(ui') => Mirror(ui)'
  BY <1>1 DEF Mirror
<1> HIDE DEF Fetches, Puts, Mirror
<1> QED BY <1>2, <1>3, <1>4 DEF Fresh, Tracked

LEMMA DoFresh ==
    ASSUME IInv, FInv, NEW u, NEW Q, NEW why, Do(u, Q, why), Numbered(Q),
           why \subseteq {"hasty"} /\ Fresh(ui, reqs) => Fresh(u, Q)
    PROVE  FNext
<1>1. /\ page' = page /\ srv' = srv /\ ui' = u /\ reqs' = Q
      /\ hist.excuse \cup why \subseteq hist'.excuse
  BY DEF Do, Excused, IInv
<1> QED BY <1>1, FreshNext DEF FNext, FInv, Explained

\* An answer that overtook none is that of the first request.
LEMMA HandleFresh ==
    ASSUME IInv, FInv, NEW r \in reqs, NEW u, NEW Q, NEW harm, NEW why, Handle(r, u, Q, harm, why),
           Numbered(Q),
           why \subseteq {"hasty"} /\ Fresh(ui, reqs) /\ After(reqs \ {r}, r) => Fresh(u, Q)
    PROVE  FNext
<1>1. /\ page' = page /\ srv' = srv /\ ui' = u /\ reqs' = Q
      /\ hist.excuse \cup why \subseteq hist'.excuse
      /\ Earlier(r) # {} => "reordered" \in hist'.excuse
  BY DEF Handle
<1>2. Earlier(r) = {} => After(reqs \ {r}, r)
  <2> SUFFICES ASSUME Earlier(r) = {}, NEW q \in reqs \ {r} PROVE r.n < q.n
    BY DEF After
  <2>1. r.n \in Nat /\ q.n \in Nat /\ r.n # q.n
    BY DEF FInv, Numbered
  <2>2. ~(q.n < r.n)
    BY DEF Earlier
  <2> QED BY <2>1, <2>2
<1> QED BY <1>1, <1>2, FreshNext DEF FNext, FInv, Explained

LEMMA FailedFresh ==
    ASSUME IInv, FInv, NEW r \in reqs, NEW op, NEW u, NEW Q, Failure(r, op, u, Q), Numbered(Q)
    PROVE  FNext
BY HandleFresh DEF Failure

LEMMA LessTracked ==
    ASSUME NEW u, NEW Q, Numbered(Q), Tracked(u, Q), NEW r \in Q, After(Q \ {r}, r),
           r.op \notin {"list", "put"}
    PROVE  Tracked(u, Q \ {r}) /\ Numbered(Q \ {r})
<1> DEFINE P == Q \ {r}
<1>0. (\A q \in P : r.n < q.n /\ q \in Q) /\ \A q \in Q : q.n \in Nat /\ (q = r \/ q \in P)
  BY DEF After, Numbered
<1> HIDE DEF P
<1>1. InOrder(P)
  BY <1>0 DEF Tracked, InOrder
<1>2. Fetches(u, P)
  <2> SUFFICES ASSUME NEW l \in P, LastOf(P, l, "load")
               PROVE  /\ l.key = IF page \in ByServer THEN Current ELSE SelOf(u, l)
                      /\ page \in Paged => l.at.i = PosOf(u, l)
                      /\ l.st = "done" /\ (page \in ByServer => \A q \in P : q.op # "list") =>
                            \/ l.rows = RowsAt(SelOf(u, l), PosOf(u, l))
                            \/ \E q \in P : l.n < q.n /\ Moved(q)
    BY DEF Fetches
  <2>1. LastOf(Q, l, "load")
    BY <1>0 DEF LastOf
  <2>2. (\A q \in P : q.op # "list") => \A q \in Q : q.op # "list"
    BY <1>0
  <2>3. (\E q \in Q : l.n < q.n /\ Moved(q)) => \E q \in P : l.n < q.n /\ Moved(q)
    BY <1>0
  <2>4. /\ l.key = IF page \in ByServer THEN Current ELSE SelOf(u, l)
        /\ page \in Paged => l.at.i = PosOf(u, l)
        /\ l.st = "done" /\ (page \in ByServer => \A q \in Q : q.op # "list") =>
              \/ l.rows = RowsAt(SelOf(u, l), PosOf(u, l))
              \/ \E q \in Q : l.n < q.n /\ Moved(q)
    BY <1>0, <2>1 DEF Tracked, Fetches
  <2> QED BY <2>2, <2>3, <2>4
<1>3. Puts(u, P)
  BY <1>0 DEF Tracked, Puts, LastOf
<1> QED BY <1>1, <1>2, <1>3, FewerNumbered DEF Tracked, P

\* The same selection, whatever else of the page.
LEMMA AsTracked ==
    ASSUME NEW u, NEW v, NEW Q, Tracked(u, Q), v.sel = u.sel \/ page = "browse", Purges(v),
           v.pos = u.pos \/ page \in {"manager", "snipe_history"}
    PROVE  Tracked(v, Q)
<1>1. \A r : SelOf(v, r) = SelOf(u, r) /\ PosOf(v, r) = PosOf(u, r)
  BY DEF SelOf, PosOf
<1>2. Fetches(v, Q)
  BY <1>1 DEF Tracked, Fetches
<1>3. Puts(v, Q)
  BY DEF Tracked, Puts, ByServer
<1> QED BY <1>2, <1>3 DEF Tracked

\* A request that neither fetches nor selects.
LEMMA AddTracked ==
    ASSUME NEW u, NEW Q, Numbered(Q), Tracked(u, Q), NEW x, x.n \in Nat,
           \A q \in Q : q.n < x.n, x.st = "sent", x.op \notin {"list", "put", "load"}
    PROVE  Tracked(u, Q \cup {x})
<1> DEFINE P == Q \cup {x}
<1>0. \A q \in P : q \in Q \/ q = x
  OBVIOUS
<1>1. InOrder(P)
  BY DEF Tracked, InOrder
<1>2. Fetches(u, P)
  <2> SUFFICES ASSUME NEW l \in P, LastOf(P, l, "load")
               PROVE  /\ l.key = IF page \in ByServer THEN Current ELSE SelOf(u, l)
                      /\ page \in Paged => l.at.i = PosOf(u, l)
                      /\ l.st = "done" /\ (page \in ByServer => \A q \in P : q.op # "list") =>
                            \/ l.rows = RowsAt(SelOf(u, l), PosOf(u, l))
                            \/ \E q \in P : l.n < q.n /\ Moved(q)
    BY DEF Fetches
  <2>1. l \in Q /\ LastOf(Q, l, "load")
    BY <1>0 DEF LastOf
  <2>2. /\ l.key = IF page \in ByServer THEN Current ELSE SelOf(u, l)
        /\ page \in Paged => l.at.i = PosOf(u, l)
        /\ l.st = "done" /\ (page \in ByServer => \A q \in Q : q.op # "list") =>
              \/ l.rows = RowsAt(SelOf(u, l), PosOf(u, l))
              \/ \E q \in Q : l.n < q.n /\ Moved(q)
    BY <2>1 DEF Tracked, Fetches
  <2> QED BY <2>2
<1>3. Puts(u, P)
  BY <1>0 DEF Tracked, Puts, LastOf
<1> QED BY <1>1, <1>2, <1>3 DEF Tracked

\* A fetch for the selection.
LEMMA FetchTracked ==
    ASSUME NEW u, NEW Q, Numbered(Q), InOrder(Q), Puts(u, Q), Purges(u), NEW k, NEW at, NEW want,
           k = IF page \in ByServer THEN Current ELSE u.sel, page \in Paged => at.i = u.pos
    PROVE  Fresh(u, Ask(Q, "load", k, at, want)) /\ Numbered(Ask(Q, "load", k, at, want))
<1> DEFINE x == Request(Q, "load", k, at, want)
           P == Q \cup {x}
<1>0. /\ x.op = "load" /\ x.key = k /\ x.at = at /\ x.st = "sent"
      /\ x.n \in Nat /\ \A q \in Q : q.n < x.n /\ q.n \in Nat
  BY RequestFields, NewNumber DEF Numbered
<1> HIDE DEF x
<1>1. InOrder(P)
  BY <1>0 DEF InOrder
<1>2. Fetches(u, P)
  <2>1. \A l \in P : LastOf(P, l, "load") => l = x
    BY <1>0 DEF LastOf
  <2>2. x.key = (IF page \in ByServer THEN Current ELSE SelOf(u, x)) /\ (page \in Paged => x.at.i = PosOf(u, x))
    BY <1>0 DEF SelOf, PosOf
  <2> QED BY <1>0, <2>1, <2>2 DEF Fetches
<1>3. Puts(u, P)
  BY <1>0 DEF Puts, LastOf
<1>4. Moved(x)
  BY <1>0 DEF Moved
<1> QED BY <1>1, <1>2, <1>3, <1>4, AskNumbered DEF Tracked, Fresh, Ask, x

\* The server is told the selection.
LEMMA PutTracked ==
    ASSUME page \in ByServer, NEW u, NEW Q, Numbered(Q), InOrder(Q), Purges(u), NEW k, u.sel = k,
           \A l \in Q : LastOf(Q, l, "load") => l.key = Current
    PROVE  Fresh(u, Ask(Q, "put", k, Nothing, k)) /\ Numbered(Ask(Q, "put", k, Nothing, k))
<1> DEFINE x == Request(Q, "put", k, Nothing, k)
           P == Q \cup {x}
<1>0. /\ x.op = "put" /\ x.want = k /\ x.st = "sent"
      /\ x.n \in Nat /\ \A q \in Q : q.n < x.n /\ q.n \in Nat
  BY RequestFields, NewNumber DEF Numbered
<1> HIDE DEF x
<1>1. InOrder(P)
  BY <1>0 DEF InOrder
<1>2. Moved(x)
  BY <1>0 DEF Moved
<1>3. Fetches(u, P)
  <2>1. \A l \in P : LastOf(P, l, "load") => l.n < x.n /\ l.key = Current
    BY <1>0 DEF LastOf
  <2>2. page \notin Paged
    BY DEF Paged, ByServer
  <2> QED BY <1>2, <2>1, <2>2 DEF Fetches
<1>4. Puts(u, P)
  <2>1. \A l \in P : LastOf(P, l, "put") => l = x
    BY <1>0 DEF LastOf
  <2> QED BY <1>0, <2>1 DEF Puts
<1> QED BY <1>1, <1>2, <1>3, <1>4, AskNumbered DEF Tracked, Fresh, Ask, x

-----------------------------------------------------------------------------
(* The kinds of step.                                                      *)

Looks(v) == /\ v.sel = ui.sel /\ v.pos = ui.pos /\ v.rows = ui.rows /\ v.drawing = ui.drawing
            /\ Purges(ui) => Purges(v)
\* Operations that do not make the page fetch when they are sent.
Changes == {"save", "add", "remove", "clear", "test", "linked", "open"}

LEMMA LookFresh ==
    ASSUME IInv, FInv, NEW v, Looks(v), NEW why, Do(v, reqs, why)
    PROVE  FNext
<1>1. ASSUME Fresh(ui, reqs) PROVE Fresh(v, reqs)
  <2>1. Tracked(v, reqs)
    BY <1>1, AsTracked DEF Fresh, Tracked, Looks
  <2> QED BY <1>1, <2>1 DEF Fresh, Mirror, Listed, Looks
<1> QED BY <1>1, DoFresh DEF FInv

LEMMA SentFresh ==
    ASSUME IInv, FInv, NEW v, Looks(v), NEW op \in Changes, NEW key, NEW at, NEW want, NEW why,
           Do(v, Ask(reqs, op, key, at, want), why)
    PROVE  FNext
<1> DEFINE x == Request(reqs, op, key, at, want)
<1>0. Numbered(reqs)
  BY DEF FInv
<1>1. /\ x.op = op /\ x.st = "sent" /\ x.n \in Nat /\ \A q \in reqs : q.n < x.n
  BY <1>0, RequestFields, NewNumber
<1> HIDE DEF x
<1>2. ASSUME Fresh(ui, reqs) PROVE Fresh(v, reqs \cup {x})
  <2>1. Tracked(v, reqs)
    BY <1>2, AsTracked DEF Fresh, Tracked, Looks
  <2>2. Tracked(v, reqs \cup {x})
    BY <1>0, <1>1, <2>1, AddTracked DEF Changes
  <2>3. (\A r \in reqs : ~Moved(r)) => Mirror(v)
    BY <1>2 DEF Fresh, Mirror, Listed, Looks
  <2> QED BY <2>2, <2>3 DEF Fresh
<1>3. Ask(reqs, op, key, at, want) = reqs \cup {x}
  BY DEF Ask, x
<1> QED BY <1>0, <1>2, <1>3, AskNumbered, DoFresh

\* Another selection, or another page of a table.
LEMMA TurnFresh ==
    ASSUME IInv, FInv, page \notin ByServer, NEW v, Purges(ui) => Purges(v), NEW k, k = v.sel, NEW at, NEW why,
           page \in Paged => at.i = v.pos, Do(v, Ask(reqs, "load", k, at, None), why)
    PROVE  FNext
<1>0. Numbered(reqs)
  BY DEF FInv
<1>1. ASSUME Fresh(ui, reqs) PROVE Fresh(v, Ask(reqs, "load", k, at, None))
  <2>1. InOrder(reqs) /\ Puts(v, reqs) /\ Purges(v)
    BY <1>1 DEF Fresh, Tracked, Puts
  <2> QED BY <1>0, <2>1, FetchTracked
<1> QED BY <1>0, <1>1, AskNumbered, DoFresh

LEMMA SelectFresh ==
    ASSUME IInv, FInv, page \in ByServer, NEW k \in Keys,
           Do([ui EXCEPT !.sel = k], Ask(reqs, "put", k, Nothing, k), {})
    PROVE  FNext
<1> DEFINE v == [ui EXCEPT !.sel = k]
<1>0. Numbered(reqs) /\ v.sel = k /\ v.dialog = ui.dialog /\ Do(v, Ask(reqs, "put", k, Nothing, k), {})
  BY DEF FInv, IInv, Good, GoodUI, UI
<1> HIDE DEF v
<1>1. ASSUME Fresh(ui, reqs) PROVE Fresh(v, Ask(reqs, "put", k, Nothing, k))
  <2>1. /\ InOrder(reqs) /\ Purges(v)
        /\ \A l \in reqs : LastOf(reqs, l, "load") => l.key = Current
    BY <1>0, <1>1 DEF Fresh, Tracked, Purges, Fetches
  <2> QED BY <1>0, <2>1, PutTracked
<1> QED BY <1>0, <1>1, AskNumbered, DoFresh

\* The end of a request that changed nothing.
LEMMA EndedFresh ==
    ASSUME IInv, FInv, NEW r \in reqs, ~Moved(r), NEW v, Looks(v), NEW harm, NEW why,
           Handle(r, v, reqs \ {r}, harm, why)
    PROVE  FNext
<1>0. Numbered(reqs) /\ Numbered(reqs \ {r}) /\ r.op \notin {"list", "put"}
  BY FewerNumbered DEF FInv, Moved
<1>1. ASSUME Fresh(ui, reqs), After(reqs \ {r}, r) PROVE Fresh(v, reqs \ {r})
  <2>1. Tracked(ui, reqs \ {r})
    BY <1>0, <1>1, LessTracked DEF Fresh
  <2>2. Tracked(v, reqs \ {r})
    BY <2>1, AsTracked DEF Looks, Tracked
  <2>3. (\A q \in reqs \ {r} : ~Moved(q)) => Mirror(ui)
    BY <1>1 DEF Fresh
  <2> QED BY <2>2, <2>3 DEF Fresh, Mirror, Listed, Looks
<1> QED BY <1>0, <1>1, HandleFresh

LEMMA IgnoredFresh ==
    ASSUME IInv, FInv, NEW r \in reqs, NEW op,
           (Ignored(r, op) /\ op \in {"save", "add", "remove", "open"}) \/ Dropped(r, op)
    PROVE  FNext
<1>1. CASE Dropped(r, op)
  BY <1>1, FailedFresh, FewerNumbered DEF Dropped, FInv
<1>2. CASE Ignored(r, op) /\ op \in {"save", "add", "remove", "open"}
  <2>1. Handle(r, ui, reqs \ {r}, {}, {}) /\ ~Moved(r)
    BY <1>2 DEF Ignored, Refused, Answer, Moved
  <2>2. Looks(ui)
    BY DEF Looks
  <2> QED BY <2>1, <2>2, EndedFresh
<1> QED BY <1>1, <1>2

\* The page fetches again, whatever it shows meanwhile.
LEMMA RefetchFresh ==
    ASSUME IInv, FInv, NEW r \in reqs, NEW v, Purges(ui) => Purges(v), NEW k, NEW at, NEW harm, NEW why,
           Handle(r, v, Ask(reqs \ {r}, "load", k, at, None), harm, why),
           page \in ByServer => v.sel = ui.sel /\ r.op # "list" /\ (r.op = "put" => r.st = "done"),
           k = IF page \in ByServer THEN Current ELSE v.sel, page \in Paged => at.i = v.pos
    PROVE  FNext
<1>0. Numbered(reqs) /\ Numbered(reqs \ {r})
  BY FewerNumbered DEF FInv
<1>1. ASSUME Fresh(ui, reqs), After(reqs \ {r}, r)
      PROVE  Fresh(v, Ask(reqs \ {r}, "load", k, at, None))
  <2>1. InOrder(reqs \ {r}) /\ Purges(v)
    BY <1>1 DEF Fresh, Tracked, InOrder
  <2>2. Puts(v, reqs \ {r})
    <3> SUFFICES ASSUME page \in ByServer PROVE Puts(v, reqs \ {r})
      BY DEF Puts
    <3>1. \A p \in reqs \ {r} : r.n < p.n /\ r.n \in Nat /\ p.n \in Nat
      BY <1>0, <1>1 DEF After, Numbered
    <3>2. ASSUME NEW p \in reqs \ {r}, LastOf(reqs \ {r}, p, "put") PROVE LastOf(reqs, p, "put")
      BY <3>1, <3>2 DEF LastOf
    <3>3. ASSUME \A p \in reqs \ {r} : p.op \notin {"list", "put"} PROVE srv.now = ui.sel
      <4>1. CASE r.op = "put"
        <5>1. LastOf(reqs, r, "put")
          BY <3>3, <4>1, <1>0 DEF LastOf, Numbered
        <5> QED BY <1>1, <4>1, <5>1 DEF Fresh, Tracked, Puts
      <4>2. CASE r.op # "put"
        BY <1>1, <3>3, <4>2 DEF Fresh, Tracked, Puts
      <4> QED BY <4>1, <4>2
    <3> QED BY <1>1, <3>2, <3>3 DEF Fresh, Tracked, Puts
  <2> QED BY <1>0, <2>1, <2>2, FetchTracked
<1> QED BY <1>0, <1>1, AskNumbered, HandleFresh

LEMMA PopulateFresh ==
    ASSUME IInv, FInv, page \notin Paged, NEW r \in reqs, r.op = "list", NEW k \in Keys,
           NEW op \in {"put", "load"}, NEW want, op = "put" <=> page \in ByServer, op = "put" => want = k,
           op = "load" => want = None,
           Handle(r, [ui EXCEPT !.sel = k], Ask(reqs \ {r}, op, k, Nothing, want), {}, {})
    PROVE  FNext
<1> DEFINE v == [ui EXCEPT !.sel = k]
<1>0. /\ Numbered(reqs \ {r}) /\ v.sel = k /\ v.dialog = ui.dialog
      /\ Handle(r, v, Ask(reqs \ {r}, op, k, Nothing, want), {}, {})
  BY FewerNumbered DEF FInv, IInv, Good, GoodUI, UI
<1> HIDE DEF v
<1>1. Purges(ui) => Purges(v)
  BY <1>0 DEF Purges
<1>2. CASE op = "load"
  BY <1>0, <1>1, <1>2, RefetchFresh
<1>3. CASE op = "put"
  <2>1. ASSUME Fresh(ui, reqs) PROVE Fresh(v, Ask(reqs \ {r}, op, k, Nothing, want))
    <3>1. InOrder(reqs \ {r}) /\ Purges(v)
      BY <1>1, <2>1 DEF Fresh, Tracked, InOrder
    <3>2. \A l \in reqs \ {r} : LastOf(reqs \ {r}, l, "load") => LastOf(reqs, l, "load")
      BY DEF LastOf
    <3>3. \A l \in reqs \ {r} : LastOf(reqs \ {r}, l, "load") => l.key = Current
      BY <1>3, <2>1, <3>2 DEF Fresh, Tracked, Fetches
    <3> QED BY <1>0, <1>3, <3>1, <3>3, PutTracked
  <2> QED BY <1>0, <2>1, AskNumbered, HandleFresh
<1> QED BY <1>2, <1>3

\* The rows of an answer, or the batches they will be drawn in.
LEMMA ShownFresh ==
    ASSUME IInv, FInv, NEW r \in reqs, r.op = "load", r.st = "done", NEW v, NEW harm, NEW why,
           Handle(r, v, reqs \ {r}, harm, why), v.sel = SelOf(ui, r), v.pos = PosOf(ui, r),
           Purges(ui) => Purges(v),
           why = {} => \/ v.rows = r.rows /\ v.drawing = {}
                       \/ v.rows = <<>> /\ v.drawing = {r.rows},
           why \cap {"hasty"} = {}
    PROVE  FNext
<1>0. Numbered(reqs) /\ Numbered(reqs \ {r})
  BY FewerNumbered DEF FInv
<1>1. ASSUME why = {}, Fresh(ui, reqs), After(reqs \ {r}, r) PROVE Fresh(v, reqs \ {r})
  <2>1. Tracked(ui, reqs \ {r}) /\ Purges(v)
    BY <1>0, <1>1, LessTracked DEF Fresh, Tracked
  <2>2. Tracked(v, reqs \ {r})
    BY <2>1, AsTracked DEF SelOf, PosOf
  <2>3. ASSUME \A q \in reqs \ {r} : ~Moved(q) PROVE Mirror(v)
    <3>1. \A q \in reqs \ {r} : q.op \notin {"load", "list"}
      BY <2>3 DEF Moved
    <3>2. LastOf(reqs, r, "load") /\ \A q \in reqs : q.op # "list"
      BY <1>0, <3>1 DEF LastOf, Numbered
    <3>3. ~\E q \in reqs : r.n < q.n /\ Moved(q)
      BY <1>0, <2>3 DEF Numbered
    <3>4. r.rows = RowsAt(v.sel, v.pos)
      BY <1>1, <3>2, <3>3 DEF Fresh, Tracked, Fetches
    <3> QED BY <1>1, <3>4 DEF Mirror, Listed
  <2> QED BY <2>2, <2>3 DEF Fresh
<1>2. why \subseteq {"hasty"} => why = {}
  OBVIOUS
<1> QED BY <1>0, <1>1, <1>2, HandleFresh

-----------------------------------------------------------------------------
(* The pages.                                                              *)

LEMMA DialogFresh ==
    ASSUME IInv, FInv, Confirm \/ Cancel \/ CloseForm
    PROVE  FNext
<1>0. ui \in UI
  BY DEF IInv, Good, GoodUI
<1>1. CASE Confirm
  <2> DEFINE v == [ui EXCEPT !.dialog = None]
             d == ui.dialog
  <2>1. Looks(v)
    BY <1>0 DEF UI, Looks, Purges
  <2>2. d.op \in Changes
    BY <1>0, <1>1 DEF Confirm, UI, Dialogs, Changes
  <2>3. \E key, at : Do(v, Ask(reqs, d.op, key, at, d.want), {})
    BY <1>1 DEF Confirm
  <2> HIDE DEF v, d
  <2> QED BY <2>1, <2>2, <2>3, SentFresh
<1>2. CASE Cancel \/ CloseForm
  <2>1. Looks(ui') /\ UNCHANGED <<page, srv, reqs, hist>>
    BY <1>0, <1>2 DEF Cancel, CloseForm, Closed, UI, Looks, Purges
  <2>2. ASSUME Fresh(ui, reqs) PROVE Fresh(ui', reqs)
    <3>1. Tracked(ui', reqs)
      BY <2>1, <2>2, AsTracked DEF Fresh, Tracked, Looks
    <3> QED BY <2>1, <2>2, <3>1 DEF Fresh, Mirror, Listed, Looks
  <2> QED BY <2>1, <2>2, FreshNext DEF FInv, FNext, Explained
<1> QED BY <1>1, <1>2

LEMMA SavesFresh ==
    ASSUME IInv, FInv, NEW key, Saves(key)
    PROVE  FNext
<1>1. Looks(ui)
  BY DEF Looks
<1> QED BY <1>1, SentFresh DEF Saves, Sends, Changes

LEMMA AskUserFresh ==
    ASSUME IInv, FInv, NEW op \in {"remove", "clear"}, NEW key, NEW at, NEW want,
           AskUser(op, key, at, want)
    PROVE  FNext
<1> DEFINE v == [ui EXCEPT !.dialog = Asking(op, key, at, want)]
<1>1. Looks(v) /\ Do(v, reqs, {})
  BY DEF IInv, Good, GoodUI, UI, AskUser, Looks, Purges, Asking
<1> HIDE DEF v
<1> QED BY <1>1, LookFresh

LEMMA OpenedFresh ==
    ASSUME IInv, FInv, NEW at, NEW x, Do(Opened(at, x), reqs, {})
    PROVE  FNext
<1>1. Looks(Opened(at, x))
  BY DEF IInv, Good, GoodUI, UI, Opened, Looks, Purges
<1> QED BY <1>1, LookFresh

\* The list is fetched after an answer; the browser turns to its directory.
LEMMA RefreshFresh ==
    ASSUME IInv, FInv, page \notin Paged, NEW r \in reqs, r.op \notin {"list", "put"},
           NEW v, v.dialog = ui.dialog, v.sel = SelOf(ui, r), NEW k, NEW harm, NEW why,
           k = IF page \in ByServer THEN Current ELSE v.sel,
           Handle(r, v, Ask(reqs \ {r}, "load", k, Nothing, None), harm, why)
    PROVE  FNext
<1>1. (Purges(ui) => Purges(v)) /\ (page \in ByServer => v.sel = ui.sel)
  BY DEF Purges, SelOf, ByServer
<1> QED BY <1>1, RefetchFresh

LEMMA ClosedFresh ==
    ASSUME IInv, FInv, page \notin Paged, page # "browse", NEW r \in reqs,
           NEW op \in {"save", "add", "remove"}, Success(r, op), NEW k,
           k = IF page \in ByServer THEN Current ELSE ui.sel,
           Handle(r, Closed(ui), Ask(reqs \ {r}, "load", k, Nothing, None), ClosesForm(r), {})
    PROVE  FNext
<1>1. Closed(ui).sel = ui.sel /\ Closed(ui).dialog = ui.dialog
  BY DEF IInv, Good, GoodUI, UI, Closed
<1> QED BY <1>1, RefreshFresh DEF Success, SelOf

\* The rows of an answer are shown, or none when it failed.
LEMMA RowsFresh ==
    ASSUME IInv, FInv, page \notin Paged, page # "browse", NEW r \in reqs,
           \/ Success(r, "load") /\ Answer(r, Shown(r), reqs \ {r})
           \/ Failure(r, "load", [ui EXCEPT !.rows = <<>>], reqs \ {r})
           \/ Dropped(r, "load")
    PROVE  FNext
<1>1. CASE Success(r, "load") /\ Answer(r, Shown(r), reqs \ {r})
  <2>1. /\ Shown(r).sel = SelOf(ui, r) /\ Shown(r).pos = PosOf(ui, r) /\ Shown(r).rows = r.rows
        /\ Shown(r).drawing = {} /\ Shown(r).dialog = ui.dialog
    BY DEF IInv, Good, GoodUI, UI, Shown, SelOf, PosOf, Paged
  <2>2. r.op = "load" /\ r.st = "done" /\ Handle(r, Shown(r), reqs \ {r}, {}, {})
    BY <1>1 DEF Success, Answer
  <2> QED BY <2>1, <2>2, ShownFresh DEF Purges
<1>2. CASE Failure(r, "load", [ui EXCEPT !.rows = <<>>], reqs \ {r}) \/ Dropped(r, "load")
  BY <1>2, FailedFresh, FewerNumbered DEF Dropped, FInv
<1> QED BY <1>1, <1>2

LEMMA RootFoldersFresh ==
    ASSUME IInv, FInv, page = "root_folders",
           RootFoldersClick \/ \E r \in reqs : RootFoldersAnswer(r)
    PROVE  FNext
<1>0. /\ page \notin Paged /\ page \notin ByServer /\ ui \in UI /\ \A r : SelOf(ui, r) = ui.sel
  BY DEF Paged, ByServer, SelOf, IInv, Good, GoodUI
<1>a. \A b : LET v == [ui EXCEPT !.busy = b]
             IN  Looks(v) /\ v.sel = ui.sel /\ v.dialog = ui.dialog
  BY <1>0 DEF UI, Looks, Purges
<1>b. Looks(ui)
  BY DEF Looks
<1>1. ASSUME NEW k \in Keys, RootFoldersChange(k) PROVE FNext
  <2> DEFINE v == [ui EXCEPT !.sel = k]
  <2>1. v.sel = k /\ v.dialog = ui.dialog /\ Do(v, Ask(reqs, "load", k, Nothing, None), {})
    BY <1>0, <1>1 DEF UI, RootFoldersChange, RootFoldersRefresh
  <2> HIDE DEF v
  <2> QED BY <1>0, <2>1, TurnFresh DEF Purges
<1>2. ASSUME NEW i, RootFoldersSetDefault(i) PROVE FNext
  BY <1>b, <1>2, SentFresh DEF RootFoldersSetDefault, Changes
<1>3. ASSUME NEW i, RootFoldersDelete(i) PROVE FNext
  BY <1>3, AskUserFresh DEF RootFoldersDelete
<1>4. CASE RootFoldersTest \/ RootFoldersAdd
  BY <1>a, <1>4, SentFresh DEF RootFoldersTest, RootFoldersAdd, Changes
<1>5. ASSUME NEW r \in reqs, RootFoldersPopulate(r) PROVE FNext
  BY <1>0, <1>5, PopulateFresh, IgnoredFresh DEF RootFoldersPopulate, Success, Answer, RootFoldersRefresh
<1>6. ASSUME NEW r \in reqs, RootFoldersShow(r) PROVE FNext
  BY <1>0, <1>6, RowsFresh DEF RootFoldersShow
<1>7. ASSUME NEW r \in reqs, RootFoldersTested(r) PROVE FNext
  <2>1. CASE Success(r, "test") /\ Answer(r, [ui EXCEPT !.busy = @ \ {"test"}], reqs \ {r})
    BY <1>a, <2>1, EndedFresh DEF Success, Answer, Moved
  <2> QED BY <1>7, <2>1, FailedFresh, FewerNumbered DEF RootFoldersTested, FInv
<1>8. ASSUME NEW r \in reqs, NEW b, NEW op \in {"save", "add", "remove"}, Success(r, op),
             Answer(r, [ui EXCEPT !.busy = b], RootFoldersRefresh(reqs \ {r}, ui.sel))
      PROVE  FNext
  <2> DEFINE v == [ui EXCEPT !.busy = b]
  <2>1. v.sel = ui.sel /\ v.dialog = ui.dialog
    BY <1>a
  <2>2. Handle(r, v, Ask(reqs \ {r}, "load", ui.sel, Nothing, None), {}, {}) /\ r.op = op
    BY <1>8 DEF Answer, Success, RootFoldersRefresh
  <2> HIDE DEF v
  <2> QED BY <1>0, <2>1, <2>2, RefreshFresh
<1>9. ASSUME NEW r \in reqs,
             RootFoldersDefaultSet(r) \/ RootFoldersAdded(r) \/ RootFoldersDeleted(r)
      PROVE  FNext
  <2>1. ui = [ui EXCEPT !.busy = ui.busy]
    BY <1>0 DEF UI
  <2>2. CASE RootFoldersAdded(r)
    <3>1. CASE Refused(r, "add") /\ Answer(r, [ui EXCEPT !.busy = @ \ {"add"}], reqs \ {r})
      BY <1>a, <3>1, EndedFresh DEF Refused, Answer, Moved
    <3> QED BY <1>8, <2>2, <3>1, FailedFresh, FewerNumbered DEF RootFoldersAdded, FInv
  <2>3. CASE RootFoldersDefaultSet(r)
    BY <1>8, <2>1, <2>3, IgnoredFresh DEF RootFoldersDefaultSet
  <2>4. CASE RootFoldersDeleted(r)
    BY <1>8, <2>1, <2>4, IgnoredFresh DEF RootFoldersDeleted
  <2> QED BY <1>9, <2>2, <2>3, <2>4
<1> QED BY <1>1, <1>2, <1>3, <1>4, <1>5, <1>6, <1>7, <1>9 DEF RootFoldersClick, RootFoldersAnswer

LEMMA BrowseFresh ==
    ASSUME IInv, FInv, page = "browse", BrowseClick \/ \E r \in reqs : BrowseAnswer(r)
    PROVE  FNext
<1>0. /\ page \notin Paged /\ page \notin ByServer /\ ui \in UI /\ \A r : SelOf(ui, r) = r.key
      /\ ui.drawing = {}
  BY DEF Paged, ByServer, SelOf, IInv, Good, GoodUI
<1>b. Looks(ui)
  BY DEF Looks
<1>c. \A k : [ui EXCEPT !.sel = k].sel = k /\ [ui EXCEPT !.sel = k].dialog = ui.dialog
  BY <1>0 DEF UI
<1>1. ASSUME NEW k \in Keys, BrowseGo(k) PROVE FNext
  BY <1>0, <1>1, <1>c, TurnFresh DEF BrowseGo, BrowseLoad, Purges
<1>2. ASSUME NEW i, BrowseRename(i) PROVE FNext
  BY <1>b, <1>2, SentFresh DEF BrowseRename, Changes
<1>3. ASSUME NEW i, BrowseDelete(i) PROVE FNext
  BY <1>3, AskUserFresh DEF BrowseDelete
<1>4. CASE BrowseCreate
  BY <1>b, <1>4, SentFresh DEF BrowseCreate, Changes
<1>5. ASSUME NEW r \in reqs, BrowseShow(r) PROVE FNext
  <2> DEFINE v == [ui EXCEPT !.sel = r.key, !.rows = r.rows]
  <2>1. CASE Success(r, "load") /\ Answer(r, v, reqs \ {r})
    <3>1. /\ v.sel = SelOf(ui, r) /\ v.pos = PosOf(ui, r) /\ v.rows = r.rows /\ v.drawing = {}
          /\ v.dialog = ui.dialog
      BY <1>0 DEF UI, PosOf
    <3>2. r.op = "load" /\ r.st = "done" /\ Handle(r, v, reqs \ {r}, {}, {})
      BY <2>1 DEF Success, Answer
    <3> HIDE DEF v
    <3> QED BY <3>1, <3>2, ShownFresh DEF Purges
  <2> QED BY <1>5, <2>1, FailedFresh, FewerNumbered DEF BrowseShow, FInv
<1>6. ASSUME NEW r \in reqs, BrowseChanged(r) PROVE FNext
  <2>1. ASSUME NEW op \in {"add", "save", "remove"}, Success(r, op),
               Answer(r, [ui EXCEPT !.sel = r.key], Ask(reqs \ {r}, "load", r.key, Nothing, None))
        PROVE  FNext
    BY <1>0, <1>c, <2>1, RefreshFresh DEF Success, Answer
  <2> QED BY <1>6, <2>1, IgnoredFresh DEF BrowseChanged, BrowseLoad
<1> QED BY <1>1, <1>2, <1>3, <1>4, <1>5, <1>6 DEF BrowseClick, BrowseAnswer

LEMMA RemoteMappingsFresh ==
    ASSUME IInv, FInv, page = "remote_mappings",
           RemoteMappingsClick \/ \E r \in reqs : RemoteMappingsAnswer(r)
    PROVE  FNext
<1>0. page \notin Paged /\ page \notin ByServer
  BY DEF Paged, ByServer
<1>1. ASSUME NEW i, RemoteMappingsEdit(i) PROVE FNext
  BY <1>1, OpenedFresh DEF RemoteMappingsEdit, Edits
<1>2. CASE RemoteMappingsAdd \/ RemoteMappingsSave \/ RemoteMappingsDelete
  BY <1>2, OpenedFresh, SavesFresh, AskUserFresh
     DEF RemoteMappingsAdd, RemoteMappingsSave, RemoteMappingsDelete
<1>3. ASSUME NEW r \in reqs, RemoteMappingsShow(r) PROVE FNext
  BY <1>0, <1>3, RowsFresh DEF RemoteMappingsShow
<1>4. ASSUME NEW r \in reqs, RemoteMappingsSaved(r) \/ RemoteMappingsDeleted(r) PROVE FNext
  BY <1>0, <1>4, ClosedFresh, IgnoredFresh
     DEF RemoteMappingsSaved, RemoteMappingsDeleted, RemoteMappingsRefresh
<1> QED BY <1>1, <1>2, <1>3, <1>4 DEF RemoteMappingsClick, RemoteMappingsAnswer

LEMMA ImportListsFresh ==
    ASSUME IInv, FInv, page = "import_lists",
           ImportListsClick \/ \E r \in reqs : ImportListsAnswer(r)
    PROVE  FNext
<1>0. /\ page \notin Paged /\ page \notin ByServer /\ ui \in UI /\ \A r : SelOf(ui, r) = ui.sel
  BY DEF Paged, ByServer, SelOf, IInv, Good, GoodUI
<1>b. Looks(ui)
  BY DEF Looks
<1>1. ASSUME NEW k \in Keys, ImportListsChange(k) PROVE FNext
  <2> DEFINE v == [ui EXCEPT !.sel = k]
  <2>1. v.sel = k /\ v.dialog = ui.dialog /\ Do(v, Ask(reqs, "load", k, Nothing, None), {})
    BY <1>0, <1>1 DEF UI, ImportListsChange, ImportListsRefresh
  <2> HIDE DEF v
  <2> QED BY <1>0, <2>1, TurnFresh DEF Purges
<1>2. ASSUME NEW i, ImportListsTouch(i) PROVE FNext
  BY <1>b, <1>2, SentFresh DEF ImportListsTouch, Changes
<1>3. CASE ImportListsAdd \/ ImportListsSaveNew \/ ImportListsSave \/ ImportListsDelete
  BY <1>3, OpenedFresh, SavesFresh, AskUserFresh
     DEF ImportListsAdd, ImportListsSaveNew, ImportListsSave, ImportListsDelete
<1>4. ASSUME NEW i, ImportListsEdit(i) PROVE FNext
  <2> DEFINE v == [ui EXCEPT !.target = Id(ui.rows[i])]
  <2>1. Looks(v)
    BY <1>0 DEF UI, Looks, Purges
  <2>2. Do(v, Ask(reqs, "open", ui.sel, Id(ui.rows[i]), ui.rows[i]), {})
    BY <1>4 DEF ImportListsEdit
  <2> HIDE DEF v
  <2> QED BY <2>1, <2>2, SentFresh DEF Changes
<1>5. ASSUME NEW r \in reqs, ImportListsPopulate(r) PROVE FNext
  BY <1>0, <1>5, PopulateFresh, IgnoredFresh DEF ImportListsPopulate, Success, Answer, ImportListsRefresh
<1>6. ASSUME NEW r \in reqs, ImportListsShow(r) PROVE FNext
  BY <1>0, <1>6, RowsFresh DEF ImportListsShow
<1>7. ASSUME NEW r \in reqs, ImportListsTouched(r) PROVE FNext
  <2>1. CASE Success(r, "test") /\ Answer(r, ui, ImportListsRefresh(reqs \ {r}, ui.sel))
    BY <1>0, <2>1, RefreshFresh DEF Success, Answer, ImportListsRefresh
  <2> QED BY <1>7, <2>1, IgnoredFresh DEF ImportListsTouched
<1>8. ASSUME NEW r \in reqs, ImportListsOpened(r) PROVE FNext
  <2> DEFINE v == [ui EXCEPT !.form = r.rows[1]]
  <2>1. CASE Success(r, "open") /\ Answer(r, v, reqs \ {r})
    <3>1. Looks(v)
      BY <1>0 DEF UI, Looks, Purges
    <3>2. ~Moved(r) /\ Handle(r, v, reqs \ {r}, {}, {})
      BY <2>1 DEF Success, Answer, Moved
    <3> HIDE DEF v
    <3> QED BY <3>1, <3>2, EndedFresh
  <2> QED BY <1>8, <2>1, IgnoredFresh DEF ImportListsOpened
<1>9. ASSUME NEW r \in reqs, ImportListsSaved(r) \/ ImportListsDeleted(r) PROVE FNext
  BY <1>0, <1>9, ClosedFresh, IgnoredFresh DEF ImportListsSaved, ImportListsDeleted, ImportListsRefresh
<1> QED BY <1>1, <1>2, <1>3, <1>4, <1>5, <1>6, <1>7, <1>8, <1>9 DEF ImportListsClick, ImportListsAnswer

LEMMA IndexMasterFresh ==
    ASSUME IInv, FInv, page = "index_master",
           IndexMasterClick \/ \E r \in reqs : IndexMasterAnswer(r)
    PROVE  FNext
<1>0. /\ page \notin Paged /\ page \notin ByServer /\ ui \in UI /\ \A r : SelOf(ui, r) = ui.sel
  BY DEF Paged, ByServer, SelOf, IInv, Good, GoodUI
<1>b. Looks(ui)
  BY DEF Looks
<1>1. ASSUME NEW i, IndexMasterEdit(i) PROVE FNext
  BY <1>1, OpenedFresh DEF IndexMasterEdit, Edits
<1>2. ASSUME NEW i, IndexMasterDelete(i) PROVE FNext
  BY <1>b, <1>2, SentFresh DEF IndexMasterDelete, Changes
<1>3. CASE IndexMasterAdd \/ IndexMasterSave
  BY <1>3, OpenedFresh, SavesFresh DEF IndexMasterAdd, IndexMasterSave
<1>4. ASSUME NEW r \in reqs, IndexMasterShow(r) PROVE FNext
  BY <1>0, <1>4, RowsFresh DEF IndexMasterShow
<1>5. ASSUME NEW r \in reqs, IndexMasterSaved(r) PROVE FNext
  BY <1>0, <1>5, ClosedFresh, IgnoredFresh DEF IndexMasterSaved, IndexMasterLoad
<1>6. ASSUME NEW r \in reqs, IndexMasterAskDelete(r) PROVE FNext
  <2> DEFINE v == [ui EXCEPT !.dialog = Asking("remove", ui.sel, r.at, r.want)]
  <2>1. CASE Success(r, "linked") /\ Answer(r, v, reqs \ {r})
    <3>1. Looks(v)
      BY <1>0 DEF UI, Looks, Purges, Asking
    <3>2. ~Moved(r) /\ Handle(r, v, reqs \ {r}, {}, {})
      BY <2>1 DEF Success, Answer, Moved
    <3> HIDE DEF v
    <3> QED BY <3>1, <3>2, EndedFresh
  <2> QED BY <1>6, <2>1, IgnoredFresh DEF IndexMasterAskDelete
<1>7. ASSUME NEW r \in reqs, IndexMasterDeleted(r) PROVE FNext
  <2>1. CASE Success(r, "remove") /\ Answer(r, ui, IndexMasterLoad(reqs \ {r}))
    BY <1>0, <2>1, RefreshFresh DEF Success, Answer, IndexMasterLoad
  <2> QED BY <1>7, <2>1, IgnoredFresh DEF IndexMasterDeleted
<1> QED BY <1>1, <1>2, <1>3, <1>4, <1>5, <1>6, <1>7 DEF IndexMasterClick, IndexMasterAnswer

LEMMA SetCurrentFresh ==
    ASSUME IInv, FInv, page \in ByServer, NEW r \in reqs, NEW Q,
           Q = Ask(reqs \ {r}, "load", Current, Nothing, None),
           (Success(r, "put") /\ Answer(r, ui, Q)) \/ Failure(r, "put", ui, Q)
    PROVE  FNext
<1>0. Numbered(reqs) /\ Numbered(reqs \ {r}) /\ page \notin Paged
  BY FewerNumbered DEF FInv, ByServer, Paged
<1>1. CASE Success(r, "put") /\ Answer(r, ui, Q)
  BY <1>0, <1>1, RefetchFresh DEF Success, Answer
<1>2. CASE Failure(r, "put", ui, Q)
  BY <1>0, <1>2, AskNumbered, FailedFresh
<1> QED BY <1>1, <1>2

LEMMA IndexersFresh ==
    ASSUME IInv, FInv, page = "indexers", IndexersClick \/ \E r \in reqs : IndexersAnswer(r)
    PROVE  FNext
<1>0. /\ page \notin Paged /\ page # "browse" /\ page \in ByServer /\ ui \in UI
      /\ \A r : SelOf(ui, r) = ui.sel
  BY DEF Paged, ByServer, SelOf, IInv, Good, GoodUI
<1>a. \A b : LET v == [ui EXCEPT !.busy = b]
             IN  Looks(v) /\ v.sel = ui.sel /\ v.dialog = ui.dialog
  BY <1>0 DEF UI, Looks, Purges
<1>1. ASSUME NEW k \in Keys, IndexersChange(k) PROVE FNext
  BY <1>0, <1>1, SelectFresh DEF IndexersChange
<1>2. ASSUME NEW i, IndexersDelete(i) PROVE FNext
  BY <1>2, AskUserFresh DEF IndexersDelete
<1>3. CASE IndexersImport
  BY <1>a, <1>3, SentFresh DEF IndexersImport, Changes
<1>4. ASSUME NEW r \in reqs, IndexersPopulate(r) PROVE FNext
  BY <1>0, <1>4, PopulateFresh, IgnoredFresh DEF IndexersPopulate, Success, Answer
<1>5. ASSUME NEW r \in reqs, IndexersSetCurrent(r) PROVE FNext
  BY <1>0, <1>5, SetCurrentFresh DEF IndexersSetCurrent, IndexersRefresh
<1>6. ASSUME NEW r \in reqs, IndexersShow(r) PROVE FNext
  BY <1>0, <1>6, RowsFresh DEF IndexersShow
<1>7. ASSUME NEW r \in reqs, NEW b, NEW op \in {"add", "remove"}, Success(r, op),
             Answer(r, [ui EXCEPT !.busy = b], IndexersRefresh(reqs \ {r}))
      PROVE  FNext
  <2> DEFINE v == [ui EXCEPT !.busy = b]
  <2>1. v.sel = ui.sel /\ v.dialog = ui.dialog
    BY <1>a
  <2>2. Handle(r, v, Ask(reqs \ {r}, "load", Current, Nothing, None), {}, {}) /\ r.op = op
    BY <1>7 DEF Answer, Success, IndexersRefresh
  <2> HIDE DEF v
  <2> QED BY <1>0, <2>1, <2>2, RefreshFresh
<1>8. ASSUME NEW r \in reqs, IndexersDeleted(r) PROVE FNext
  <2>1. ui = [ui EXCEPT !.busy = ui.busy]
    BY <1>0 DEF UI
  <2> QED BY <1>7, <1>8, <2>1, IgnoredFresh DEF IndexersDeleted
<1>9. ASSUME NEW r \in reqs, IndexersImported(r) PROVE FNext
  <2>1. CASE Refused(r, "add") /\ Answer(r, [ui EXCEPT !.busy = @ \ {"import"}], reqs \ {r})
    BY <1>a, <2>1, EndedFresh DEF Refused, Answer, Moved
  <2> QED BY <1>7, <1>9, <2>1, FailedFresh, FewerNumbered DEF IndexersImported, FInv
<1> QED BY <1>1, <1>2, <1>3, <1>4, <1>5, <1>6, <1>8, <1>9 DEF IndexersClick, IndexersAnswer

\* A step of a delete-all, or the fetch after it.
LEMMA PurgeFresh ==
    ASSUME NEW Q, Numbered(Q), NEW u, page \in ByServer, NEW left,
           Tracked(u, Q)
    PROVE  Fresh(u, CustomFormatsPurge(Q, left))
<1>1. CASE left = <<>>
  <2>1. page \notin Paged
    BY DEF ByServer, Paged
  <2> QED BY <1>1, <2>1, FetchTracked DEF Tracked, CustomFormatsPurge, CustomFormatsRefresh
<1>2. CASE left # <<>>
  <2> DEFINE q == Request(Q, "purge", Current, Index(Last(left).i), Last(left).want)
             x == [q EXCEPT !.rest = Front(left)]
  <2>1. x.n = q.n /\ x.op = "purge" /\ x.st = "sent"
    BY DEF Request
  <2>2. q.n \in Nat /\ \A r \in Q : r.n < q.n
    BY NewNumber
  <2>3. CustomFormatsPurge(Q, left) = Q \cup {x}
    BY <1>2 DEF CustomFormatsPurge
  <2> HIDE DEF x, q
  <2>4. Tracked(u, Q \cup {x})
    BY <2>1, <2>2, AddTracked
  <2>5. Moved(x)
    BY <2>1 DEF Moved
  <2> QED BY <2>3, <2>4, <2>5 DEF Fresh
<1> QED BY <1>1, <1>2

\* A step of adding all that was chosen, or the fetch after it.
LEMMA ChosenFresh ==
    ASSUME NEW Q, Numbered(Q), NEW u, page \in ByServer, NEW y, NEW left,
           Tracked(u, Q)
    PROVE  Fresh(u, CustomFormatsAddNext(Q, y, left))
<1>1. CASE left = <<>>
  <2>1. page \notin Paged
    BY DEF ByServer, Paged
  <2> QED BY <1>1, <2>1, FetchTracked DEF Tracked, CustomFormatsAddNext, CustomFormatsRefresh
<1>2. CASE left # <<>>
  <2> DEFINE q == Request(Q, "chosen", Current, Nothing, y)
             x == [q EXCEPT !.rest = Tail(left)]
  <2>1. x.n = q.n /\ x.op = "chosen" /\ x.st = "sent"
    BY DEF Request
  <2>2. q.n \in Nat /\ \A r \in Q : r.n < q.n
    BY NewNumber
  <2>3. CustomFormatsAddNext(Q, y, left) = Q \cup {x}
    BY <1>2 DEF CustomFormatsAddNext
  <2> HIDE DEF x, q
  <2>4. Tracked(u, Q \cup {x})
    BY <2>1, <2>2, AddTracked
  <2>5. Moved(x)
    BY <2>1 DEF Moved
  <2> QED BY <2>3, <2>4, <2>5 DEF Fresh
<1> QED BY <1>1, <1>2

LEMMA CustomFormatsFresh ==
    ASSUME IInv, FInv, page = "custom_formats",
           CustomFormatsClick \/ \E r \in reqs : CustomFormatsAnswer(r)
    PROVE  FNext
<1>0. /\ page \notin Paged /\ page # "browse" /\ page \in ByServer /\ ui \in UI
      /\ \A r : SelOf(ui, r) = ui.sel
  BY DEF Paged, ByServer, SelOf, IInv, Good, GoodUI
<1>b. Numbered(reqs)
  BY DEF FInv
<1>1. ASSUME NEW k \in Keys, CustomFormatsChange(k) PROVE FNext
  BY <1>0, <1>1, SelectFresh DEF CustomFormatsChange
<1>2. ASSUME NEW i, CustomFormatsEdit(i) PROVE FNext
  BY <1>2, OpenedFresh DEF CustomFormatsEdit, Edits
<1>3. ASSUME NEW i, CustomFormatsDelete(i) PROVE FNext
  BY <1>3, AskUserFresh DEF CustomFormatsDelete
<1>4. CASE CustomFormatsAdd \/ CustomFormatsSave
  BY <1>4, OpenedFresh, SavesFresh DEF CustomFormatsAdd, CustomFormatsSave
<1>5. CASE CustomFormatsRunDeleteAll
  <2> DEFINE v == [ui EXCEPT !.dialog = None]
             Q == CustomFormatsPurge(reqs, ui.dialog.rest)
  <2>1. Looks(v) /\ Do(v, Q, {})
    BY <1>0, <1>5 DEF UI, Looks, Purges, CustomFormatsRunDeleteAll
  <2> HIDE DEF v
  <2>2. ASSUME Fresh(ui, reqs) PROVE Fresh(v, Q)
    <3>1. Tracked(v, reqs)
      BY <2>1, <2>2, AsTracked DEF Fresh, Tracked, Looks
    <3> QED BY <1>0, <1>b, <3>1, PurgeFresh
  <2> QED BY <1>b, <2>1, <2>2, PurgeNumbered, DoFresh
<1>6. ASSUME NEW S \in SUBSET DOMAIN ui.rows, CustomFormatsDeleteAll(S) PROVE FNext
  <2>1. PICK js \in [1..Cardinality(S) -> S] :
           Do([ui EXCEPT !.dialog =
                   [Asking("purge", Current, Nothing, None) EXCEPT
                       !.rest = [n \in DOMAIN js |-> [i |-> js[n], want |-> ui.rows[js[n]]]]]],
              reqs, {})
    BY <1>6 DEF CustomFormatsDeleteAll
  <2> DEFINE marks == [n \in DOMAIN js |-> [i |-> js[n], want |-> ui.rows[js[n]]]]
             v == [ui EXCEPT !.dialog = [Asking("purge", Current, Nothing, None) EXCEPT !.rest = marks]]
  <2>2. Cardinality(S) \in Nat \ {0}
    <3>1. IsFiniteSet(DOMAIN ui.rows)
      <4>1. DOMAIN ui.rows = 1..Len(ui.rows) /\ Len(ui.rows) \in Nat
        BY <1>0, LenProperties DEF UI, Rows
      <4> QED BY <4>1, FS_Interval
    <3>2. IsFiniteSet(S)
      BY <3>1, FS_Subset
    <3> QED BY <1>6, <3>2, FS_CardinalityType, FS_EmptySet DEF CustomFormatsDeleteAll
  <2>3. marks # <<>>
    <3>1. 1 \in DOMAIN marks
      BY <2>2
    <3>2. 1 \notin DOMAIN <<>>
      OBVIOUS
    <3> HIDE DEF marks
    <3> QED BY <3>1, <3>2
  <2>4. Looks(v)
    <3> HIDE DEF marks
    <3> QED BY <1>0, <2>3 DEF UI, Looks, Purges, Asking
  <2>5. Do(v, reqs, {})
    BY <2>1
  <2> HIDE DEF v
  <2> QED BY <2>4, <2>5, LookFresh
<1>7. ASSUME NEW r \in reqs, CustomFormatsPopulate(r) PROVE FNext
  BY <1>0, <1>7, PopulateFresh, IgnoredFresh DEF CustomFormatsPopulate, Success, Answer
<1>8. ASSUME NEW r \in reqs, CustomFormatsSetCurrent(r) PROVE FNext
  BY <1>0, <1>8, SetCurrentFresh DEF CustomFormatsSetCurrent, CustomFormatsRefresh
<1>9. ASSUME NEW r \in reqs, CustomFormatsShow(r) PROVE FNext
  BY <1>0, <1>9, RowsFresh DEF CustomFormatsShow
<1>10. ASSUME NEW r \in reqs, CustomFormatsSaved(r) PROVE FNext
  BY <1>0, <1>10, ClosedFresh, IgnoredFresh DEF CustomFormatsSaved, CustomFormatsRefresh
<1>11. ASSUME NEW r \in reqs, CustomFormatsDeleted(r) PROVE FNext
  <2>1. CASE Success(r, "remove") /\ Answer(r, ui, CustomFormatsRefresh(reqs \ {r}))
    BY <1>0, <2>1, RefreshFresh DEF Success, Answer, CustomFormatsRefresh
  <2> QED BY <1>11, <2>1, IgnoredFresh DEF CustomFormatsDeleted
<1>12. ASSUME NEW r \in reqs, CustomFormatsDeleteNext(r) PROVE FNext
  <2> DEFINE Q == CustomFormatsPurge(reqs \ {r}, r.rest)
  <2>0. Numbered(reqs \ {r}) /\ Numbered(Q)
    BY <1>b, FewerNumbered, PurgeNumbered
  <2>1. CASE (Success(r, "purge") \/ Refused(r, "purge")) /\ Answer(r, ui, Q)
    <3>1. r.op = "purge" /\ Handle(r, ui, Q, {}, {})
      BY <2>1 DEF Success, Refused, Answer
    <3>2. ASSUME Fresh(ui, reqs), After(reqs \ {r}, r) PROVE Fresh(ui, Q)
      <4>1. Tracked(ui, reqs \ {r})
        BY <1>b, <3>1, <3>2, LessTracked DEF Fresh
      <4> QED BY <1>0, <2>0, <4>1, PurgeFresh
    <3> QED BY <2>0, <3>1, <3>2, HandleFresh
  <2>2. CASE Failure(r, "purge", ui, Q)
    BY <2>0, <2>2, FailedFresh
  <2> QED BY <1>12, <2>1, <2>2 DEF CustomFormatsDeleteNext
<1>13. CASE CustomFormatsSaveChosen
  <2>1. PICK left : Do(ui, CustomFormatsAddNext(reqs, ui.form, left), {})
    BY <1>13 DEF CustomFormatsSaveChosen
  <2>2. ASSUME Fresh(ui, reqs) PROVE Fresh(ui, CustomFormatsAddNext(reqs, ui.form, left))
    BY <1>0, <1>b, <2>2, ChosenFresh DEF Fresh
  <2> QED BY <1>b, <2>1, <2>2, ChosenNumbered, DoFresh
<1>14. ASSUME NEW r \in reqs, CustomFormatsAdded(r) PROVE FNext
  <2> DEFINE v    == IF r.rest = <<>> THEN Closed(ui) ELSE ui
             harm == IF r.rest = <<>> THEN ClosesForm(r) ELSE {}
             Q    == CustomFormatsAddNext(reqs \ {r}, r.want, r.rest)
  <2>0. Numbered(reqs \ {r}) /\ Numbered(Q)
    BY <1>b, FewerNumbered, ChosenNumbered
  <2>1. Looks(v)
    BY <1>0 DEF UI, Closed, Looks, Purges
  <2>2. r.op = "chosen" /\ (Handle(r, v, Q, harm, {}) \/ Handle(r, v, Q, harm, {"failed"}))
    BY <1>14 DEF CustomFormatsAdded, Success, Refused
  <2> HIDE DEF v, harm
  <2>3. ASSUME Fresh(ui, reqs), After(reqs \ {r}, r) PROVE Fresh(v, Q)
    <3>1. Tracked(ui, reqs \ {r})
      BY <1>b, <2>2, <2>3, LessTracked DEF Fresh
    <3>2. Tracked(v, reqs \ {r})
      BY <2>1, <3>1, AsTracked DEF Tracked, Looks
    <3> QED BY <1>0, <2>0, <3>2, ChosenFresh
  <2> HIDE DEF Q
  <2> QED BY <2>0, <2>2, <2>3, HandleFresh
<1> QED BY <1>1, <1>2, <1>3, <1>4, <1>5, <1>6, <1>7, <1>8, <1>9, <1>10, <1>11, <1>12, <1>13, <1>14
        DEF CustomFormatsClick, CustomFormatsAnswer

LEMMA HistoryFresh ==
    ASSUME IInv, FInv, page = "history", HistoryClick \/ \E r \in reqs : HistoryAnswer(r)
    PROVE  FNext
<1>0. /\ page \in Paged /\ page \notin ByServer /\ ui \in UI
      /\ \A r : SelOf(ui, r) = ui.sel /\ PosOf(ui, r) = ui.pos
  BY DEF Paged, ByServer, SelOf, PosOf, IInv, Good, GoodUI
<1>b. \A i : Index(i).i = i
  BY DEF Index
<1>1. ASSUME NEW v, v.dialog = ui.dialog, HistoryGo(v) PROVE FNext
  BY <1>0, <1>b, <1>1, TurnFresh DEF HistoryGo, HistoryFetch, Purges
<1>2. CASE (\E k \in Keys \ {ui.sel} : HistoryChange(k)) \/ HistoryPage
  <2>1. \A k : [ui EXCEPT !.sel = k, !.pos = 1].dialog = ui.dialog
    BY <1>0 DEF UI
  <2>2. [ui EXCEPT !.pos = @ - 1].dialog = ui.dialog /\ [ui EXCEPT !.pos = @ + 1].dialog = ui.dialog
    BY <1>0 DEF UI
  <2> QED BY <1>1, <1>2, <2>1, <2>2 DEF HistoryChange, HistoryPage
<1>3. CASE HistoryClear
  BY <1>3, AskUserFresh DEF HistoryClear
<1>4. ASSUME NEW r \in reqs, HistoryFetched(r) PROVE FNext
  <2> DEFINE v == HistoryRender(r)
             why == IF ui.drawing # {} THEN {"drawing"} ELSE {}
  <2>1. CASE Success(r, "load") /\ Handle(r, v, reqs \ {r}, {}, why)
    <3>1. v.sel = SelOf(ui, r) /\ v.pos = PosOf(ui, r) /\ v.dialog = ui.dialog
      BY <1>0 DEF UI, HistoryRender
    <3>2. v.rows = <<>> /\ v.drawing = IF r.rows = <<>> THEN ui.drawing ELSE ui.drawing \cup {r.rows}
      BY <1>0 DEF UI, HistoryRender
    <3>3. why = {} => \/ v.rows = r.rows /\ v.drawing = {}
                      \/ v.rows = <<>> /\ v.drawing = {r.rows}
      BY <3>2
    <3>4. why \cap {"hasty"} = {}
      OBVIOUS
    <3>5. r.op = "load" /\ r.st = "done" /\ Handle(r, v, reqs \ {r}, {}, why)
      BY <2>1 DEF Success
    <3> HIDE DEF v, why
    <3> QED BY <3>1, <3>3, <3>4, <3>5, ShownFresh DEF Purges
  <2> QED BY <1>4, <2>1, IgnoredFresh DEF HistoryFetched
<1>5. ASSUME NEW r \in reqs, HistoryCleared(r) PROVE FNext
  <2>1. CASE Success(r, "clear") /\ Answer(r, ui, HistoryFetch(ui, reqs \ {r}))
    BY <1>0, <1>b, <2>1, RefetchFresh DEF Success, Answer, HistoryFetch
  <2> QED BY <1>5, <2>1, IgnoredFresh DEF HistoryCleared
<1> QED BY <1>2, <1>3, <1>4, <1>5 DEF HistoryClick, HistoryAnswer

LEMMA DrawnFresh ==
    ASSUME IInv, FInv, HistoryRenderEntries
    PROVE  FNext
<1>1. PICK rows \in ui.drawing :
          /\ ui' = [ui EXCEPT !.rows = @ \o rows, !.drawing = @ \ {rows}]
          /\ UNCHANGED <<page, srv, reqs, hist, acts>>
  BY DEF HistoryRenderEntries
<1>2. ui \in UI
  BY DEF IInv, Good, GoodUI
<1>3. /\ ui'.sel = ui.sel /\ ui'.pos = ui.pos /\ ui'.dialog = ui.dialog
      /\ ui'.rows = ui.rows \o rows /\ ui'.drawing = ui.drawing \ {rows}
  BY <1>1, <1>2 DEF UI
<1>4. ASSUME Fresh(ui, reqs) PROVE Fresh(ui', reqs)
  <2>1. ASSUME Mirror(ui) PROVE Mirror(ui')
    <3>1. CASE ui.sel = None
      BY <1>3, <3>1 DEF Mirror
    <3>2. CASE ui.sel # None
      <4>1. ui.drawing = {Listed(ui)} /\ ui.rows = <<>> /\ rows = Listed(ui)
        BY <1>1, <2>1, <3>2 DEF Mirror
      <4>2. rows \in Seq(Items)
        BY <1>1, <1>2 DEF UI, Rows
      <4>3. <<>> \o rows = rows
        BY <4>2, ConcatEmptySeq
      <4> QED BY <1>3, <4>1, <4>3 DEF Listed, Mirror
    <3> QED BY <3>1, <3>2
  <2>2. Tracked(ui', reqs)
    BY <1>3, <1>4, AsTracked DEF Fresh, Tracked, Purges
  <2> QED BY <1>4, <2>1, <2>2 DEF Fresh
<1> QED BY <1>1, <1>4, FreshNext DEF FInv, FNext, Explained

LEMMA ManagerFresh ==
    ASSUME IInv, FInv, page = "manager", ManagerClick \/ \E r \in reqs : ManagerAnswer(r)
    PROVE  FNext
<1>0. /\ page \in Paged /\ page \notin ByServer /\ ui \in UI
      /\ \A r : SelOf(ui, r) = ui.sel /\ PosOf(ui, r) = r.at.i
      /\ Numbered(reqs) /\ \A r \in reqs : Numbered(reqs \ {r})
  BY FewerNumbered DEF Paged, ByServer, SelOf, PosOf, IInv, Good, GoodUI, FInv
<1>b. \A i : Index(i).i = i
  BY DEF Index
<1>1. ASSUME NEW v \in UI, v.dialog = ui.dialog, ManagerGo(v) PROVE FNext
  <2> DEFINE w == [v EXCEPT !.busy = {"load"}]
  <2>1. CASE "load" \in v.busy
    <3>1. Do(v, reqs, {"dropped"})
      BY <1>1, <2>1 DEF ManagerGo, ManagerLoad
    <3> QED BY <1>0, <3>1, DoFresh
  <2>2. CASE "load" \notin v.busy
    <3>1. w.sel = v.sel /\ w.pos = v.pos /\ w.dialog = v.dialog
      BY DEF UI
    <3>2. Do(w, Ask(reqs, "load", v.sel, Index(v.pos), None), {})
      BY <1>1, <2>2 DEF ManagerGo, ManagerLoad
    <3> HIDE DEF w
    <3> QED BY <1>0, <1>1, <1>b, <3>1, <3>2, TurnFresh DEF Purges
  <2> QED BY <2>1, <2>2
<1>2. CASE (\E k \in Keys \ {ui.sel} : ManagerChange(k)) \/ ManagerPage
  <2>1. ASSUME NEW k \in Keys PROVE [ui EXCEPT !.sel = k, !.pos = 1] \in UI
    <3>1. 1 \in Nat \ {0}
      OBVIOUS
    <3> QED BY <1>0, <3>1, Zenon DEF UI
  <2>3. \A k \in Keys : [ui EXCEPT !.sel = k, !.pos = 1].dialog = ui.dialog
    BY <1>0 DEF UI
  <2>2. /\ ui.pos > 1 => [ui EXCEPT !.pos = @ - 1] \in UI /\ [ui EXCEPT !.pos = @ - 1].dialog = ui.dialog
        /\ [ui EXCEPT !.pos = @ + 1] \in UI /\ [ui EXCEPT !.pos = @ + 1].dialog = ui.dialog
    BY <1>0 DEF UI
  <2> QED BY <1>1, <1>2, <2>1, <2>2, <2>3 DEF ManagerChange, ManagerPage
<1>3. CASE ManagerClear
  BY <1>3, AskUserFresh DEF ManagerClear
<1>4. ASSUME NEW r \in reqs, ManagerLoaded(r) PROVE FNext
  <2> DEFINE v == ManagerDisplay(r)
  <2>1. CASE Success(r, "load") /\ Answer(r, v, reqs \ {r})
    <3>1. /\ v.sel = SelOf(ui, r) /\ v.pos = PosOf(ui, r) /\ v.dialog = ui.dialog
          /\ v.rows = r.rows /\ v.drawing = ui.drawing
      BY <1>0 DEF UI, ManagerDisplay
    <3>2. ui.drawing = {}
      BY <1>0 DEF IInv, Good, GoodUI
    <3>3. r.op = "load" /\ r.st = "done" /\ Handle(r, v, reqs \ {r}, {}, {})
      BY <2>1 DEF Success, Answer
    <3> HIDE DEF v
    <3> QED BY <3>1, <3>2, <3>3, ShownFresh DEF Purges
  <2> QED BY <1>0, <1>4, <2>1, FailedFresh DEF ManagerLoaded
<1>5. ASSUME NEW r \in reqs, ManagerCleared(r) PROVE FNext
  <2> DEFINE w == [ui EXCEPT !.busy = {"load"}]
             l == ManagerLoad(ui, reqs \ {r})
  <2>1. CASE Success(r, "clear") /\ Handle(r, l[1], l[2], {}, l[3])
    <3>1. CASE "load" \in ui.busy
      <4>1. Handle(r, ui, reqs \ {r}, {}, {"dropped"})
        BY <2>1, <3>1 DEF ManagerLoad
      <4> QED BY <1>0, <4>1, HandleFresh
    <3>2. CASE "load" \notin ui.busy
      <4>1. Handle(r, w, Ask(reqs \ {r}, "load", ui.sel, Index(ui.pos), None), {}, {})
        BY <2>1, <3>2 DEF ManagerLoad
      <4>2. w.sel = ui.sel /\ w.pos = ui.pos /\ w.dialog = ui.dialog
        BY <1>0 DEF UI
      <4> HIDE DEF w
      <4> QED BY <1>0, <1>b, <2>1, <4>1, <4>2, RefetchFresh DEF Success, Purges
    <3> QED BY <3>1, <3>2
  <2> QED BY <1>5, <2>1, IgnoredFresh DEF ManagerCleared
<1> QED BY <1>2, <1>3, <1>4, <1>5 DEF ManagerClick, ManagerAnswer

LEMMA SnipeHistoryFresh ==
    ASSUME IInv, FInv, page = "snipe_history", SnipeClick \/ \E r \in reqs : SnipeAnswer(r)
    PROVE  FNext
<1>0. /\ page \in Paged /\ page \notin ByServer /\ ui \in UI
      /\ \A r : SelOf(ui, r) = ui.sel /\ PosOf(ui, r) = r.at.i
  BY DEF Paged, ByServer, SelOf, PosOf, IInv, Good, GoodUI
<1>b. \A i : Index(i).i = i
  BY DEF Index
<1>1. ASSUME NEW v, v.dialog = ui.dialog, SnipeGo(v) PROVE FNext
  BY <1>0, <1>b, <1>1, TurnFresh DEF SnipeGo, SnipeLoad, Purges
<1>2. CASE (\E k \in Keys \ {ui.sel} : SnipeFilter(k)) \/ SnipePage
  <2>1. \A k : [ui EXCEPT !.sel = k, !.pos = 1].dialog = ui.dialog
    BY <1>0 DEF UI
  <2>2. [ui EXCEPT !.pos = @ - 1].dialog = ui.dialog /\ [ui EXCEPT !.pos = @ + 1].dialog = ui.dialog
    BY <1>0 DEF UI
  <2> QED BY <1>1, <1>2, <2>1, <2>2 DEF SnipeFilter, SnipePage
<1>3. CASE SnipeClear
  BY <1>3, AskUserFresh DEF SnipeClear
<1>4. ASSUME NEW r \in reqs, SnipeShow(r) PROVE FNext
  <2> DEFINE v == [ui EXCEPT !.pages = Max({1, r.count}), !.pos = r.at.i, !.rows = r.rows]
  <2>1. CASE Success(r, "load") /\ Answer(r, v, reqs \ {r})
    <3>1. /\ v.sel = SelOf(ui, r) /\ v.pos = PosOf(ui, r) /\ v.dialog = ui.dialog
          /\ v.rows = r.rows /\ v.drawing = ui.drawing
      BY <1>0 DEF UI
    <3>2. ui.drawing = {}
      BY <1>0 DEF IInv, Good, GoodUI
    <3>3. r.op = "load" /\ r.st = "done" /\ Handle(r, v, reqs \ {r}, {}, {})
      BY <2>1 DEF Success, Answer
    <3> HIDE DEF v
    <3> QED BY <3>1, <3>2, <3>3, ShownFresh DEF Purges
  <2> QED BY <1>4, <2>1, IgnoredFresh DEF SnipeShow
<1>5. ASSUME NEW r \in reqs, SnipeCleared(r) PROVE FNext
  <2> DEFINE u == [ui EXCEPT !.pos = 1]
  <2>1. CASE Success(r, "clear") /\ Answer(r, u, SnipeLoad(u, reqs \ {r}))
    <3>1. u.dialog = ui.dialog /\ r.op = "clear"
      BY <1>0, <2>1 DEF UI, Success
    <3>2. Handle(r, u, Ask(reqs \ {r}, "load", u.sel, Index(u.pos), None), {}, {})
      BY <2>1 DEF Answer, SnipeLoad
    <3> HIDE DEF u
    <3> QED BY <1>0, <1>b, <3>1, <3>2, RefetchFresh DEF Purges
  <2> QED BY <1>5, <2>1, IgnoredFresh DEF SnipeCleared
<1> QED BY <1>2, <1>3, <1>4, <1>5 DEF SnipeClick, SnipeAnswer

-----------------------------------------------------------------------------
(* The server, and the theorem.                                            *)

\* The server handles the first request it has not handled.
LEMMA ServeFresh ==
    ASSUME IInv, FInv, NEW r \in reqs, Serve(r)
    PROVE  FNext
<1>0. srv \in Types /\ GoodRequest(r) /\ r.st \in {"sent", "done"} /\ Numbered(reqs)
  BY DEF IInv, Types, Good, GoodRequest, FInv
<1>1. PICK q : /\ reqs' = (reqs \ {r}) \cup {q}
               /\ q.n = r.n /\ q.op = r.op /\ q.key = r.key /\ q.at = r.at /\ q.want = r.want
               /\ q.st = "done"
               /\ q.ok = (r.op \in Removals \cup {"save", "open"} => Named(Key(r), r.at) # {})
               /\ r.op = "load" => q.rows = RowsAt(Key(r), r.at.i)
  BY <1>0, Served
<1>2. /\ page' = page /\ ui' = ui /\ r.st = "sent"
      /\ hist'.excuse \in {hist.excuse, hist.excuse \cup {"reordered"}}
  BY <1>0, Served
<1> DEFINE P == (reqs \ {r}) \cup {q}
<1>3. Numbered(P)
  <2>1. Numbered(reqs \ {r}) /\ q.n \in Nat /\ \A p \in reqs \ {r} : p.n # q.n
    BY <1>0, <1>1, FewerNumbered DEF Numbered
  <2> QED BY <2>1, MoreNumbered
<1> SUFFICES ASSUME Explained' PROVE Fresh(ui, reqs)'
  BY <1>1, <1>3 DEF FNext
<1>4. Fresh(ui, reqs)
  BY <1>2 DEF FInv, Explained
\* What was handled was sent before it, what was not after.
<1>5. ASSUME NEW p \in reqs \ {r}
      PROVE  /\ p.st = "done" => p.n < r.n
             /\ p.st = "sent" => r.n < p.n
             /\ p.n \in Nat /\ r.n \in Nat /\ p.n # r.n /\ p.st \in {"sent", "done"}
  <2>1. p.n \in Nat /\ r.n \in Nat /\ p.n # r.n
    BY <1>0 DEF Numbered
  <2>2. p.st \in {"sent", "done"}
    BY DEF IInv, Good, GoodRequest
  <2>3. p.st = "done" => p.n < r.n
    BY <1>2, <1>4 DEF Fresh, Tracked, InOrder
  <2>4. ~(p.st = "sent" /\ p.n < r.n)
    <3>1. hist'.excuse = hist.excuse \cup
             (IF \E x \in Earlier(r) : x.st = "sent" THEN {"reordered"} ELSE {})
      BY DEF Serve
    <3> QED BY <3>1 DEF Explained, Earlier
  <2> QED BY <2>1, <2>2, <2>3, <2>4
<1>6. srv' = srv \/ Moved(q)
  <2>1. r.op \in Removals => Key(r) \in Keys
    BY KeyOfRequest DEF Removals
  <2> QED BY <1>0, <1>1, <2>1, ServerStep DEF Moved, Removals, Adds
<1>7. /\ r.op = "put" => srv'.now = r.want
      /\ r.op # "put" => srv'.now = srv.now
      /\ r.op = "load" => srv' = srv
  BY <1>0, ServerStep DEF Removals, Adds
<1>8. Moved(r) => Moved(q)
  BY <1>1, <1>2 DEF Moved
<1>9. InOrder(P)
  BY <1>1, <1>2, <1>4, <1>5 DEF Fresh, Tracked, InOrder
\* The last request of a kind is the same, or its answer.
<1>10. ASSUME NEW op, NEW l \in P, LastOf(P, l, op)
       PROVE  IF l = q THEN LastOf(reqs, r, op) ELSE l \in reqs \ {r} /\ LastOf(reqs, l, op)
  <2>1. \A p \in reqs : p.op = op => p.n <= l.n
    BY <1>1, <1>10 DEF LastOf
  <2> QED BY <1>1, <1>10, <2>1 DEF LastOf
<1>11. Puts(ui, reqs)'
  <2> SUFFICES ASSUME page \in ByServer
               PROVE  /\ (\A p \in P : p.op \notin {"list", "put"}) => srv'.now = ui.sel
                      /\ \A l \in P : LastOf(P, l, "put") =>
                            l.want = ui.sel /\ (l.st = "done" => srv'.now = ui.sel)
    BY <1>1, <1>2 DEF Puts
  <2>0. Puts(ui, reqs)
    BY <1>4 DEF Fresh, Tracked
  <2>1. ASSUME \A p \in P : p.op \notin {"list", "put"} PROVE srv'.now = ui.sel
    <3>1. \A p \in reqs : p.op \notin {"list", "put"}
      BY <1>1, <2>1
    <3> QED BY <1>7, <2>0, <3>1 DEF Puts
  <2>2. ASSUME NEW l \in P, LastOf(P, l, "put")
        PROVE  l.want = ui.sel /\ (l.st = "done" => srv'.now = ui.sel)
    <3>1. CASE l = q
      <4>1. LastOf(reqs, r, "put")
        BY <1>10, <2>2, <3>1
      <4> QED BY <1>1, <1>7, <2>0, <3>1, <4>1 DEF Puts, LastOf
    <3>2. CASE l # q
      <4>1. l \in reqs \ {r} /\ LastOf(reqs, l, "put")
        BY <1>10, <2>2, <3>2
      <4>2. l.st = "done" => r.op # "put"
        BY <1>5, <4>1 DEF LastOf
      <4> QED BY <1>7, <2>0, <4>1, <4>2 DEF Puts
    <3> QED BY <3>1, <3>2
  <2> QED BY <2>1, <2>2
<1>12. Fetches(ui, reqs)'
  <2>a. \A x : SelOf(ui, x)' = SelOf(ui, x) /\ PosOf(ui, x)' = PosOf(ui, x)
    BY <1>2 DEF SelOf, PosOf
  <2>c. SelOf(ui, q) = SelOf(ui, r) /\ PosOf(ui, q) = PosOf(ui, r)
    BY <1>1 DEF SelOf, PosOf
  <2>d. Fetches(ui, reqs)
    BY <1>4 DEF Fresh, Tracked
  <2> SUFFICES ASSUME NEW l \in P, LastOf(P, l, "load")
               PROVE  /\ l.key = IF page \in ByServer THEN Current ELSE SelOf(ui, l)
                      /\ page \in Paged => l.at.i = PosOf(ui, l)
                      /\ l.st = "done" /\ (page \in ByServer => \A p \in P : p.op # "list") =>
                            \/ l.rows = RowsAt(SelOf(ui, l), PosOf(ui, l))'
                            \/ \E p \in P : l.n < p.n /\ Moved(p)
    <3>1. \A x : Moved(x)' = Moved(x)
      BY DEF Moved
    <3> QED BY <1>1, <1>2, <2>a, <3>1 DEF Fetches, LastOf, Moved
  <2>1. CASE l = q
    <3>1. LastOf(reqs, r, "load") /\ r.op = "load"
      BY <1>10, <2>1 DEF LastOf
    <3>2. /\ r.key = IF page \in ByServer THEN Current ELSE SelOf(ui, r)
          /\ page \in Paged => r.at.i = PosOf(ui, r)
      BY <2>d, <3>1 DEF Fetches
    <3>3. q.rows = RowsAt(Key(r), r.at.i) /\ srv' = srv
      BY <1>1, <1>7, <3>1
    <3>4. Key(r) = SelOf(ui, r) => q.rows = RowsAt(SelOf(ui, r), PosOf(ui, r))
      <4>1. page \notin Paged => \A k, i, j : RowsAt(k, i) = RowsAt(k, j)
        BY DEF RowsAt
      <4> QED BY <3>2, <3>3, <4>1
    <3>5. ASSUME page \in ByServer, \A p \in P : p.op # "list"
          PROVE  Key(r) = SelOf(ui, r) \/ \E p \in P : q.n < p.n /\ Moved(p)
      <4>1. Key(r) = srv.now /\ SelOf(ui, r) = ui.sel
        BY <3>2, <3>5 DEF Key, SelOf, ByServer
      <4>2. Puts(ui, reqs)
        BY <1>4 DEF Fresh, Tracked
      <4>3. \A p \in reqs : p.op # "list"
        BY <3>1, <3>5
      <4>4. CASE \A p \in reqs : p.op # "put"
        BY <3>5, <4>1, <4>2, <4>3, <4>4 DEF Puts
      <4>5. CASE \E p \in reqs : p.op = "put"
        <5> DEFINE R == {p \in reqs : p.op = "put"}
        <5>1. R \in SUBSET reqs /\ R # {}
          BY <4>5
        <5>2. PICK p \in R : \A x \in R : x.n <= p.n
          BY <1>0, <5>1 DEF Numbered
        <5>3. LastOf(reqs, p, "put") /\ p \in reqs \ {r} /\ p.op = "put"
          BY <3>1, <5>2 DEF LastOf
        <5>4. p.st = "done" => srv.now = ui.sel
          BY <3>5, <4>2, <5>3 DEF Puts
        <5>5. p.st = "sent" => q.n < p.n /\ Moved(p)
          BY <1>1, <1>5, <5>3 DEF Moved
        <5> QED BY <1>5, <4>1, <5>3, <5>4, <5>5
      <4> QED BY <4>4, <4>5
    <3>6. page \notin ByServer => Key(r) = SelOf(ui, r)
      <4>1. page \notin ByServer => r.key # Current
        BY <3>1, ListsAssumption DEF ListsAssumption, IInv, Good, GoodRequest, MayAsk
      <4> QED BY <3>2, <4>1 DEF Key
    <3>7. srv' = srv => RowsAt(SelOf(ui, l), PosOf(ui, l))' = RowsAt(SelOf(ui, l), PosOf(ui, l))
      BY <1>2 DEF RowsAt, SelOf, PosOf
    <3> QED BY <1>1, <2>1, <2>c, <3>2, <3>3, <3>4, <3>5, <3>6, <3>7
  <2>2. CASE l # q
    <3>1. l \in reqs \ {r} /\ LastOf(reqs, l, "load")
      BY <1>10, <2>2
    <3>2. (\A p \in P : p.op # "list") => \A p \in reqs : p.op # "list"
      BY <1>1
    <3>3. (\E p \in reqs : l.n < p.n /\ Moved(p)) => \E p \in P : l.n < p.n /\ Moved(p)
      BY <1>1, <1>8
    <3>4. l.st = "done" => srv' = srv \/ (q \in P /\ l.n < q.n /\ Moved(q))
      BY <1>1, <1>5, <1>6, <3>1
    <3>5. srv' = srv => RowsAt(SelOf(ui, l), PosOf(ui, l))' = RowsAt(SelOf(ui, l), PosOf(ui, l))
      BY <1>2 DEF RowsAt, SelOf, PosOf
    <3>6. /\ l.key = IF page \in ByServer THEN Current ELSE SelOf(ui, l)
          /\ page \in Paged => l.at.i = PosOf(ui, l)
          /\ l.st = "done" /\ (page \in ByServer => \A p \in reqs : p.op # "list") =>
                \/ l.rows = RowsAt(SelOf(ui, l), PosOf(ui, l))
                \/ \E p \in reqs : l.n < p.n /\ Moved(p)
      BY <2>d, <3>1 DEF Fetches
    <3> QED BY <3>2, <3>3, <3>4, <3>5, <3>6
  <2> QED BY <2>1, <2>2
<1>13. ((\A p \in reqs : ~Moved(p)) => Mirror(ui))'
  <2>1. \A p : Moved(p)' = Moved(p)
    BY DEF Moved
  <2>2. (\A p \in P : ~Moved(p)) => srv' = srv /\ \A p \in reqs : ~Moved(p)
    BY <1>6, <1>8
  <2>3. srv' = srv /\ Mirror(ui) => Mirror(ui)'
    BY <1>2 DEF Mirror, Listed, RowsAt
  <2> QED BY <1>1, <1>4, <2>1, <2>2, <2>3 DEF Fresh
<1> QED BY <1>1, <1>2, <1>4, <1>9, <1>11, <1>12, <1>13 DEF Fresh, Tracked, InOrder, Purges

\* The server fails: a change that it refuses leaves its list.
LEMMA FailFresh ==
    ASSUME IInv, FInv, NEW r \in reqs, Fail(r)
    PROVE  FNext
<1>0. GoodRequest(r) /\ Numbered(reqs)
  BY DEF IInv, Good, FInv
<1>1. PICK q : /\ reqs' = (reqs \ {r}) \cup {q}
               /\ q.n = r.n /\ q.op = r.op /\ q.key = r.key /\ q.want = r.want /\ q.st = "done"
  BY <1>0, FailedBy
<1>2. /\ page' = page /\ ui' = ui /\ srv' = srv /\ r.st = "sent"
      /\ r.op \in Removals \cup Adds \cup {"save", "load"}
      /\ hist.excuse \subseteq hist'.excuse
      /\ r.op = "load" => "failed" \in hist'.excuse
  BY <1>0, FailedBy
<1> DEFINE P == (reqs \ {r}) \cup {q}
<1>3. Numbered(P)
  <2>1. Numbered(reqs \ {r}) /\ q.n \in Nat /\ \A p \in reqs \ {r} : p.n # q.n
    BY <1>0, <1>1, FewerNumbered DEF Numbered
  <2> QED BY <2>1, MoreNumbered
<1> SUFFICES ASSUME Explained' PROVE Fresh(ui, reqs)'
  BY <1>1, <1>3 DEF FNext
<1>4. Fresh(ui, reqs) /\ r.op \notin {"load", "list", "put"}
  BY <1>2 DEF FInv, Explained, Removals, Adds
<1>5. ASSUME NEW p \in reqs \ {r}, p.st = "sent" PROVE r.n < p.n
  <2>1. p.n \in Nat /\ r.n \in Nat /\ p.n # r.n
    BY <1>0 DEF Numbered
  <2>2. ~(p.n < r.n)
    <3>1. (IF \E x \in Earlier(r) : x.st = "sent" THEN {"reordered"} ELSE {}) \subseteq hist'.excuse
      BY DEF Fail, Excused, IInv
    <3> QED BY <1>5, <3>1 DEF Explained, Earlier
  <2> QED BY <2>1, <2>2
<1>6. Moved(r) => Moved(q)
  BY <1>1, <1>2 DEF Moved
<1>7. InOrder(P)
  BY <1>1, <1>2, <1>4, <1>5 DEF Fresh, Tracked, InOrder
\* The last fetch, and the last choice of an instance, are the same.
<1>8. ASSUME NEW op \in {"load", "put"}, NEW l \in P, LastOf(P, l, op)
      PROVE  l \in reqs \ {r} /\ LastOf(reqs, l, op)
  BY <1>1, <1>4, <1>8 DEF LastOf
<1>9. (\A p \in P : p.op \notin {"list", "put"}) => \A p \in reqs : p.op \notin {"list", "put"}
  BY <1>1
<1>10. Puts(ui, P)
  BY <1>4, <1>8, <1>9 DEF Fresh, Tracked, Puts
<1>11. Fetches(ui, P)
  <2> SUFFICES ASSUME NEW l \in P, LastOf(P, l, "load")
               PROVE  /\ l.key = IF page \in ByServer THEN Current ELSE SelOf(ui, l)
                      /\ page \in Paged => l.at.i = PosOf(ui, l)
                      /\ l.st = "done" /\ (page \in ByServer => \A p \in P : p.op # "list") =>
                            \/ l.rows = RowsAt(SelOf(ui, l), PosOf(ui, l))
                            \/ \E p \in P : l.n < p.n /\ Moved(p)
    BY DEF Fetches
  <2>1. l \in reqs /\ LastOf(reqs, l, "load")
    BY <1>8
  <2>2. (\A p \in P : p.op # "list") => \A p \in reqs : p.op # "list"
    BY <1>1
  <2>3. (\E p \in reqs : l.n < p.n /\ Moved(p)) => \E p \in P : l.n < p.n /\ Moved(p)
    BY <1>1, <1>6
  <2>4. /\ l.key = IF page \in ByServer THEN Current ELSE SelOf(ui, l)
        /\ page \in Paged => l.at.i = PosOf(ui, l)
        /\ l.st = "done" /\ (page \in ByServer => \A p \in reqs : p.op # "list") =>
              \/ l.rows = RowsAt(SelOf(ui, l), PosOf(ui, l))
              \/ \E p \in reqs : l.n < p.n /\ Moved(p)
    BY <1>4, <2>1 DEF Fresh, Tracked, Fetches
  <2> QED BY <2>2, <2>3, <2>4
<1>12. (\A p \in P : ~Moved(p)) => Mirror(ui)
  BY <1>4, <1>6 DEF Fresh
<1>13. Fresh(ui, P)
  BY <1>4, <1>7, <1>10, <1>11, <1>12 DEF Fresh, Tracked
<1> HIDE DEF P
<1> QED BY <1>1, <1>2, <1>13, FreshNext DEF P

LEMMA FreshInit ==
    ASSUME Init
    PROVE  FInv
<1>0. Numbered({}) /\ InOrder({})
  BY DEF Numbered, InOrder
<1>1. PICK k \in Keys : Entry(page, k)
  BY DEF Init
<1>2. CASE page \in ByServer \cup {"root_folders", "import_lists"}
  <2> DEFINE x == Request({}, "list", None, Nothing, None)
  <2>1. ui = Blank(None) /\ reqs = {x} /\ reqs = Ask({}, "list", None, Nothing, None)
    BY <1>1, <1>2 DEF Entry, Ask
  <2>2. x.op = "list" /\ x.st = "sent"
    BY RequestFields
  <2> HIDE DEF x
  <2>3. InOrder(reqs) /\ Fetches(ui, reqs) /\ Puts(ui, reqs) /\ \E r \in reqs : Moved(r)
    BY <2>1, <2>2 DEF InOrder, Fetches, Puts, LastOf, Moved
  <2>4. Purges(ui)
    BY <2>1 DEF Purges, Blank
  <2> QED BY <1>0, <2>1, <2>3, <2>4, AskNumbered DEF FInv, Fresh, Tracked
<1>3. CASE page \notin ByServer \cup {"root_folders", "import_lists"}
  <2> DEFINE at == IF page \in Paged THEN Index(1) ELSE Nothing
  <2>1. reqs = Ask({}, "load", k, at, None)
    BY <1>1, <1>3 DEF Entry, Ask
  <2>2. ui.sel = k /\ ui.pos = 1 /\ ui.dialog = None
    BY <1>1, <1>3 DEF Entry, Blank
  <2>3. page \in Paged => at.i = ui.pos
    BY <2>2 DEF Index
  <2> HIDE DEF at
  <2>4. Puts(ui, {}) /\ Purges(ui)
    BY <1>3, <2>2 DEF Puts, Purges
  <2> QED BY <1>0, <1>3, <2>1, <2>2, <2>3, <2>4, FetchTracked DEF FInv
<1> QED BY <1>2, <1>3

LEMMA FreshStep ==
    ASSUME IInv, FInv, [Next]_vars
    PROVE  FInv'
<1>1. FNext => FInv'
  BY DEF FNext, FInv
<1>2. CASE Click
  BY <1>1, <1>2, CustomFormatsFresh, IndexersFresh, RootFoldersFresh, BrowseFresh, RemoteMappingsFresh,
     ImportListsFresh, IndexMasterFresh, HistoryFresh, ManagerFresh, SnipeHistoryFresh, DialogFresh
     DEF Click
<1>3. ASSUME NEW r \in reqs, Serve(r) \/ Fail(r) PROVE FInv'
  BY <1>1, <1>3, ServeFresh, FailFresh
<1>4. ASSUME NEW r \in reqs, Ends(r) PROVE FInv'
  BY <1>1, <1>4, CustomFormatsFresh, IndexersFresh, RootFoldersFresh, BrowseFresh, RemoteMappingsFresh,
     ImportListsFresh, IndexMasterFresh, HistoryFresh, ManagerFresh, SnipeHistoryFresh
     DEF Ends
<1>5. CASE HistoryRenderEntries
  BY <1>1, <1>5, DrawnFresh
<1>6. CASE OtherTab
  <2>1. reqs' = reqs /\ "other" \in hist'.excuse
    BY <1>6 DEF OtherTab, Excused, IInv
  <2> QED BY <2>1 DEF FInv, Explained
<1>7. CASE UNCHANGED vars
  <2>1. Fresh(ui, reqs) => Fresh(ui, reqs)'
    BY <1>7, FreshNext DEF vars
  <2> QED BY <1>7, <2>1 DEF vars, FInv, Explained
<1> QED BY <1>2, <1>3, <1>4, <1>5, <1>6, <1>7 DEF Next, Network

\* A page at rest shows what the server has for what is selected, on each of
\* the list pages, when nothing failed, was overtaken, dropped or overdrawn
\* and no other tab wrote; the user need not wait for any answer.
THEOREM RestShowsServer == Spec => []ShowsServer
<1>1. Init => FInv
  BY FreshInit
<1>2. IInv /\ FInv /\ [Next]_vars => FInv'
  BY FreshStep
<1>3. FInv => ShowsServer
  BY DEF FInv, Explained, ShowsServer, Quiet, Fresh, Mirror, Listed
<1>4. Spec => []IInv
  BY Invariance
<1> QED BY <1>1, <1>2, <1>3, <1>4, PTL DEF Spec

=============================================================================
