---------------------------- MODULE Lists_proofs ----------------------------
(***************************************************************************)
(* Proofs about Lists, for any keys, entries, stored lists and bounds, and *)
(* for every page: type correctness, that no button stays disabled, that   *)
(* no request is unanswered.                                               *)
(***************************************************************************)
EXTENDS Lists, SequenceTheorems, FiniteSetTheorems, TLAPS

Buttons   == {"load", "add", "test", "import"}
Ops       == {"list", "load", "put", "save", "add", "chosen", "remove", "purge",
              "test", "open", "linked", "clear"}
Excuses   == {"reordered", "other", "hasty", "failed", "drawing", "dropped"}
Addresses == [by : {"index", "id", "nothing"}, i : Nat \cup Items]
Marks     == [i : Nat, want : Items]
Targets   == Items \cup Keys \cup {None}
Dialogs   == [op : {"remove", "clear", "purge"}, key : Keys \cup {None, Current},
              at : Addresses, want : Targets, rest : Seq(Marks)]

\* The pages that wait for the selector's instances, and say them in requests.
Late == {"root_folders", "import_lists"}
\* The pages that address entries by their id only.
ById == {"index_master", "browse"}

\* What a request may be, before it is sent and until it ends.
MayAsk(op, key, at, want) ==
    /\ op \in Ops /\ key \in Keys \cup {None, Current} /\ at \in Addresses /\ want \in Targets
    /\ op # "list" => key \in Keys \/ (page \in ByServer /\ key = Current)
    /\ op = "put" => want \in Keys
    /\ op \in {"remove", "purge", "save", "open", "linked", "chosen"} => want \in Items
    /\ op = "load" /\ page \in Paged => at.i \in Nat \ {0}
    /\ op = "open" => at = Id(want)
    /\ op \in {"purge", "chosen"} => page = "custom_formats"
    /\ op \in {"remove", "purge", "save", "linked"} /\ page \in ById => at = Id(want)
GoodRequest(r) ==
    /\ r \in [n : {r.n}, op : Ops, key : Keys \cup {None, Current}, at : Addresses,
              want : Targets, st : {"sent", "done"}, ok : BOOLEAN, rows : Rows,
              count : Nat, rest : Seq(Marks)]
    /\ MayAsk(r.op, r.key, r.at, r.want)
    /\ r.op = "open" /\ r.ok => r.rows = <<r.want>>

GoodDialog(d) ==
    /\ d \in Dialogs
    /\ IF page \in ByServer THEN d.key = Current ELSE d.key \in Keys \cup {None}
    /\ d.op = "remove" => d.want \in Items
    /\ page \in ById => d.op = "remove" /\ d.at = Id(d.want)
UI == [sel : Keys \cup {None}, pos : Nat \ {0}, pages : Nat, rows : Rows,
       drawing : SUBSET Rows, dialog : Dialogs \cup {None}, target : Addresses,
       form : Items \cup {None}, busy : SUBSET Buttons]
GoodUI(u) ==
    /\ u \in UI
    /\ page \notin ByServer \cup Late => u.sel \in Keys
    /\ page # "history" => u.drawing = {}
    /\ page \in Late /\ u.sel = None => u.rows = <<>> /\ u.dialog = None /\ u.form = None
    /\ u.dialog # None => GoodDialog(u.dialog)
    /\ page \in ById /\ u.form # None /\ u.target # Nothing => u.target = Id(u.form)
    /\ u.busy \subseteq CASE page = "manager" -> {"load"}
                          [] page = "root_folders" -> {"add", "test"}
                          [] page = "indexers" -> {"import"}
                          [] OTHER -> {}
\* Behind each disabled button and each flag is a request that releases it.
Releases(b)  == IF b = "import" THEN "add" ELSE b
Backed(u, Q) == \A b \in u.busy : \E r \in Q : r.op = Releases(b)
Settled(u, Q) == page \in Late /\ u.sel = None => \A r \in Q : r.op = "list"
Good(u, Q) == GoodUI(u) /\ (\A r \in Q : GoodRequest(r)) /\ Backed(u, Q) /\ Settled(u, Q)
IInv ==
    /\ page \in Pages /\ acts \in 0..MaxActs[page]
    /\ Good(ui, reqs)
    /\ srv \in [lists : [Keys -> Rows], now : Keys]
    /\ hist \in [harm : SUBSET (Removals \cup {"save", "form"}), excuse : SUBSET Excuses]
    /\ page \in ById => hist.harm \subseteq {"form"}

-----------------------------------------------------------------------------
(* Operators.                                                              *)

LEMMA Addressing ==
    /\ Nothing \in Addresses /\ \A i \in Nat : Index(i) \in Addresses /\ Index(i) # Nothing
    /\ \A x \in Items : Id(x) \in Addresses /\ Id(x) # Nothing
    /\ \A i : Index(i).i = i /\ Index(i).by = "index"
    /\ \A x : Id(x).i = x /\ Id(x).by = "id"
BY DEF Nothing, Index, Id, Addresses

\* What Ask adds to the requests, however it is numbered.
LEMMA RequestGood ==
    ASSUME NEW Q, NEW op, NEW key, NEW at, NEW want, MayAsk(op, key, at, want)
    PROVE  GoodRequest(Request(Q, op, key, at, want))
<1> DEFINE r == Request(Q, op, key, at, want)
           m == r.n
<1>1. <<>> \in Rows /\ <<>> \in Seq(Marks)
  BY EmptySeq DEF Rows
<1>2. /\ op \in Ops /\ key \in Keys \cup {None, Current} /\ at \in Addresses
      /\ want \in Targets
  BY DEF MayAsk
<1>3. r = [n |-> m, op |-> op, key |-> key, at |-> at, want |-> want,
           st |-> "sent", ok |-> FALSE, rows |-> <<>>, count |-> 0, rest |-> <<>>]
  BY DEF Request
<1> HIDE DEF r, m
<1>4. r \in [n : {m}, op : Ops, key : Keys \cup {None, Current}, at : Addresses,
             want : Targets, st : {"sent", "done"}, ok : BOOLEAN, rows : Rows,
             count : Nat, rest : Seq(Marks)]
  BY <1>1, <1>2, <1>3
<1>5. r.n = m /\ r.op = op /\ r.key = key /\ r.at = at /\ r.want = want /\ r.ok = FALSE
  BY <1>3
<1>6. GoodRequest(r)
  BY <1>4, <1>5 DEF GoodRequest
<1> QED BY <1>6 DEF r

LEMMA AskGood ==
    ASSUME NEW Q, \A r \in Q : GoodRequest(r),
           NEW op, NEW key, NEW at, NEW want, MayAsk(op, key, at, want)
    PROVE  /\ \A r \in Ask(Q, op, key, at, want) : GoodRequest(r)
           /\ \E r \in Ask(Q, op, key, at, want) : r.op = op
           /\ Q \subseteq Ask(Q, op, key, at, want)
           /\ \A r \in Ask(Q, op, key, at, want) : r \in Q \/ r.op = op
<1>1. Request(Q, op, key, at, want).op = op
  BY DEF Request
<1>2. GoodRequest(Request(Q, op, key, at, want))
  BY RequestGood
<1> QED BY <1>1, <1>2 DEF Ask

LEMMA SeqOfSet == SetToSeq({}) = <<>> /\ \A x : SetToSeq({x}) = <<x>>
<1>1. SetToSeq({}) = <<>>
  <2>1. Cardinality({}) = 0
    BY FS_EmptySet
  <2>2. <<>> \in [1..0 -> {}] /\ IsInjective(<<>>)
    BY DEF IsInjective
  <2>3. \A f \in [1..0 -> {}] : f = <<>>
    OBVIOUS
  <2> QED BY <2>1, <2>2, <2>3 DEF SetToSeq
<1>2. ASSUME NEW x PROVE SetToSeq({x}) = <<x>>
  <2>1. Cardinality({x}) = 1
    BY FS_Singleton
  <2>2. <<x>> \in [1..1 -> {x}] /\ IsInjective(<<x>>)
    BY DEF IsInjective
  <2>3. \A f \in [1..1 -> {x}] : f = <<x>>
    OBVIOUS
  <2> QED BY <2>1, <2>2, <2>3 DEF SetToSeq
<1> QED BY <1>1, <1>2

\* An entry leaves the list and the others keep their order.
LEMMA WithoutEntry ==
    ASSUME NEW s \in Rows, NEW x
    PROVE  /\ Without(s, x) \in Rows
           /\ \/ Without(s, x) = s /\ \A i \in 1..Len(s) : s[i] \notin x
              \/ \E i \in 1..Len(s) :
                    /\ s[i] \in x /\ Len(Without(s, x)) = Len(s) - 1
                    /\ \A j \in 1..Len(s) - 1 :
                          Without(s, x)[j] = IF j < i THEN s[j] ELSE s[j + 1]
<1>1. Len(s) \in Nat /\ DOMAIN s = 1..Len(s) /\ \A i \in 1..Len(s) : s[i] \in Items
  BY LenProperties, ElementOfSeq DEF Rows
<1>2. CASE ~\E i \in DOMAIN s : s[i] \in x
  BY <1>1, <1>2 DEF Without
<1>3. CASE \E i \in DOMAIN s : s[i] \in x
  <2> DEFINE i == CHOOSE i \in DOMAIN s : s[i] \in x
             t == SubSeq(s, 1, i - 1)
             v == SubSeq(s, i + 1, Len(s))
  <2>1. i \in 1..Len(s) /\ s[i] \in x
    BY <1>1, <1>3
  <2>2. Without(s, x) = t \o v
    BY <1>3 DEF Without, RemoveAt
  <2> HIDE DEF i
  <2>3. /\ t \in Rows /\ Len(t) = i - 1 /\ \A j \in 1..i - 1 : t[j] = s[j]
    <3>1. /\ 1 \in Int /\ i - 1 \in Int /\ \A j \in 1..i - 1 : s[j] \in Items
      BY <1>1, <2>1
    <3>2. /\ t \in Seq(Items) /\ Len(t) = IF 1 <= i - 1 THEN (i - 1) - 1 + 1 ELSE 0
          /\ \A j \in 1..(i - 1) - 1 + 1 : t[j] = s[1 + j - 1]
      BY <3>1, SubSeqProperties
    <3> QED BY <2>1, <3>2 DEF Rows
  <2>4. /\ v \in Rows /\ Len(v) = Len(s) - i /\ \A j \in 1..Len(s) - i : v[j] = s[j + i]
    <3>1. /\ i + 1 \in Int /\ Len(s) \in Int /\ \A j \in i + 1..Len(s) : s[j] \in Items
      BY <1>1, <2>1
    <3>2. /\ v \in Seq(Items)
          /\ Len(v) = IF i + 1 <= Len(s) THEN Len(s) - (i + 1) + 1 ELSE 0
          /\ \A j \in 1..Len(s) - (i + 1) + 1 : v[j] = s[(i + 1) + j - 1]
      BY <3>1, SubSeqProperties
    <3>3. Len(v) = Len(s) - i
      <4>1. (IF i + 1 <= Len(s) THEN Len(s) - (i + 1) + 1 ELSE 0) = Len(s) - i
        <5>1. \A n \in Nat : \A j \in 1..n : (IF j + 1 <= n THEN n - (j + 1) + 1 ELSE 0) = n - j
          OBVIOUS
        <5>2. Len(s) \in Nat /\ i \in 1..Len(s)
          BY <1>1, <2>1
        <5> QED BY <5>1, <5>2
      <4> QED BY <3>2, <4>1
    <3>4. \A j \in 1..Len(s) - i : v[j] = s[(i + 1) + j - 1] /\ (i + 1) + j - 1 = j + i
      BY <1>1, <2>1, <3>2
    <3> QED BY <3>2, <3>3, <3>4 DEF Rows
  <2> HIDE DEF t, v
  <2>5. /\ t \o v \in Rows /\ Len(t \o v) = Len(s) - 1
        /\ \A j \in 1..Len(s) - 1 : (t \o v)[j] = IF j <= i - 1 THEN t[j] ELSE v[j - (i - 1)]
    <3>1. /\ t \o v \in Seq(Items) /\ Len(t \o v) = Len(t) + Len(v)
          /\ \A j \in 1..Len(t) + Len(v) :
                (t \o v)[j] = IF j <= Len(t) THEN t[j] ELSE v[j - Len(t)]
      BY <2>3, <2>4, ConcatProperties DEF Rows
    <3>2. Len(t) + Len(v) = Len(s) - 1
      BY <1>1, <2>1, <2>3, <2>4
    <3> QED BY <2>3, <3>1, <3>2 DEF Rows
  <2>6. \A j \in 1..Len(s) - 1 : (t \o v)[j] = IF j < i THEN s[j] ELSE s[j + 1]
    <3> SUFFICES ASSUME NEW j \in 1..Len(s) - 1
                 PROVE  (t \o v)[j] = IF j < i THEN s[j] ELSE s[j + 1]
      OBVIOUS
    <3>1. CASE j < i
      BY <1>1, <2>1, <2>3, <2>5, <3>1
    <3>2. CASE ~(j < i)
      <4>1. (t \o v)[j] = v[j - (i - 1)] /\ j - (i - 1) \in 1..Len(s) - i
        BY <1>1, <2>1, <2>5, <3>2
      <4>2. v[j - (i - 1)] = s[(j - (i - 1)) + i] /\ (j - (i - 1)) + i = j + 1
        BY <1>1, <2>1, <2>4, <4>1
      <4> QED BY <3>2, <4>1, <4>2
    <3> QED BY <3>1, <3>2
  <2> QED BY <1>1, <2>1, <2>2, <2>5, <2>6
<1> QED BY <1>2, <1>3

\* What an address names is one entry or none; an id names that entry only.
LEMMA NamedEntry ==
    ASSUME NEW k \in Keys, srv \in [lists : [Keys -> Rows], now : Keys], NEW at \in Addresses
    PROVE  /\ Named(k, at) = {} \/ \E y \in Items : Named(k, at) = {y}
           /\ at.by # "index" => Named(k, at) \subseteq {at.i}
<1>1. srv.lists[k] \in Rows
  OBVIOUS
<1>2. DOMAIN srv.lists[k] = 1..Len(srv.lists[k])
      /\ \A i \in 1..Len(srv.lists[k]) : srv.lists[k][i] \in Items
  BY <1>1, LenProperties, ElementOfSeq DEF Rows
<1>3. Range(srv.lists[k]) \subseteq Items
  BY <1>2 DEF Range
<1>4. at.by \in {"index", "id", "nothing"}
  BY DEF Addresses
<1>5. CASE at.by = "index"
  <2>1. Named(k, at) = {srv.lists[k][i] : i \in {at.i} \cap DOMAIN srv.lists[k]}
    BY <1>5 DEF Named
  <2>2. CASE at.i \in DOMAIN srv.lists[k]
    BY <1>2, <1>5, <2>1, <2>2
  <2>3. CASE at.i \notin DOMAIN srv.lists[k]
    BY <1>5, <2>1, <2>3
  <2> QED BY <2>2, <2>3
<1>6. CASE at.by = "id"
  <2>1. Named(k, at) = {at.i} \cap Range(srv.lists[k])
    BY <1>6 DEF Named
  <2> QED BY <1>3, <2>1
<1>7. CASE at.by = "nothing"
  BY <1>7 DEF Named
<1> QED BY <1>4, <1>5, <1>6, <1>7

LEMMA RowsType ==
    ASSUME NEW k \in Keys, srv \in [lists : [Keys -> Rows], now : Keys], NEW p
    PROVE  RowsAt(k, p) \in Rows
<1>1. srv.lists[k] \in Rows
  OBVIOUS
<1>2. CASE page \in Paged /\ p \in DOMAIN srv.lists[k]
  <2>1. srv.lists[k][p] \in Items
    BY <1>1, <1>2, LenProperties, ElementOfSeq DEF Rows
  <2>2. <<srv.lists[k][p]>> \in Rows
    BY <2>1 DEF Rows
  <2> QED BY <1>2, <2>2 DEF RowsAt
<1>3. <<>> \in Rows
  BY EmptySeq DEF Rows
<1> QED BY <1>1, <1>2, <1>3 DEF RowsAt

-----------------------------------------------------------------------------
(* The steps of the server and of another tab.                             *)

\* No step changes the page.
LEMMA GoodNext ==
    ASSUME page' = page, Good(ui', reqs')
    PROVE  Good(ui, reqs)'
<1>1. \A r : GoodRequest(r)' <=> GoodRequest(r)
  BY DEF GoodRequest, MayAsk
<1>2. GoodUI(ui') => GoodUI(ui)'
  <2>1. \A d : GoodDialog(d)' <=> GoodDialog(d)
    BY DEF GoodDialog
  <2> QED BY <2>1 DEF GoodUI, GoodDialog
<1> QED BY <1>1, <1>2 DEF Good, Backed, Settled

LEMMA KeyOfRequest ==
    ASSUME IInv, NEW r \in reqs, r.op # "list"
    PROVE  Key(r) \in Keys
BY DEF IInv, Good, GoodRequest, MayAsk, Key

\* A request is answered: it stays what it was.
LEMMA ServeGood ==
    ASSUME IInv, NEW r \in reqs, Serve(r)
    PROVE  IInv'
<1> DEFINE k == Key(r)
           x == Named(k, r.at)
           ok == r.op \in Removals \cup {"save", "open"} => x # {}
           rows == CASE r.op = "load" -> RowsAt(k, r.at.i)
                     [] r.op = "open" -> SetToSeq(x)
                     [] OTHER -> <<>>
           count == IF r.op = "load" THEN Len(srv.lists[k]) ELSE 0
           done == [r EXCEPT !.st = "done", !.ok = ok, !.rows = rows, !.count = count]
<1>1. /\ GoodRequest(r) /\ r.at \in Addresses /\ r.want \in Targets /\ r.op \in Ops
      /\ srv \in [lists : [Keys -> Rows], now : Keys] /\ page \in Pages
  BY DEF IInv, Good, GoodRequest, MayAsk
<1>2. /\ reqs' = (reqs \ {r}) \cup {done}
      /\ page' = page /\ ui' = ui /\ acts' = acts
  BY DEF Serve
<1>3. rows \in Rows /\ count \in Nat /\ (r.op = "open" /\ ok => rows = <<r.want>>)
  <2>0. <<>> \in Rows
    BY EmptySeq DEF Rows
  <2>1. CASE r.op = "load"
    <3>1. k \in Keys
      BY <2>1, KeyOfRequest
    <3>2. srv.lists[k] \in Rows
      BY <1>1, <3>1
    <3> HIDE DEF k
    <3>3. Len(srv.lists[k]) \in Nat /\ RowsAt(k, r.at.i) \in Rows
      BY <1>1, <3>1, <3>2, LenProperties, RowsType DEF Rows
    <3> QED BY <2>1, <3>3
  <2>2. CASE r.op = "open"
    <3>1. k \in Keys
      BY <2>2, KeyOfRequest
    <3>2. r.at = Id(r.want) /\ r.want \in Items
      BY <1>1, <2>2 DEF GoodRequest, MayAsk
    <3>3. x \subseteq {r.want}
      <4> HIDE DEF k
      <4> QED BY <1>1, <3>1, <3>2, NamedEntry DEF Id
    <3>4. rows = SetToSeq(x)
      BY <2>2
    <3>5. x = {} => rows = <<>>
      BY <3>4, SeqOfSet
    <3>6. x # {} => x = {r.want} /\ rows = <<r.want>>
      BY <3>3, <3>4, SeqOfSet
    <3>7. <<r.want>> \in Rows
      BY <3>2 DEF Rows
    <3>8. ok <=> x # {}
      BY <2>2
    <3> HIDE DEF x, ok, k
    <3>9. rows \in Rows /\ (ok => rows = <<r.want>>)
      BY <2>0, <3>5, <3>6, <3>7, <3>8
    <3> QED BY <2>2, <3>9
  <2>3. CASE r.op \notin {"load", "open"}
    BY <2>0, <2>3
  <2> QED BY <2>1, <2>2, <2>3
<1>4. /\ GoodRequest(done) /\ done.op = r.op
  <2>1. ok \in BOOLEAN
    OBVIOUS
  <2> HIDE DEF ok, rows, count
  <2> QED BY <1>1, <1>3, <2>1 DEF GoodRequest
<1>5. Good(ui, reqs)'
  <2>1. \A q \in reqs' : GoodRequest(q)
    BY <1>2, <1>4 DEF IInv, Good
  <2>2. Backed(ui, reqs')
    <3>1. \A q \in reqs : \E p \in reqs' : p.op = q.op
      BY <1>2, <1>4
    <3>2. Backed(ui, reqs)
      BY DEF IInv, Good
    <3> QED BY <3>1, <3>2 DEF Backed
  <2>3. Settled(ui, reqs')
    BY <1>2, <1>4 DEF IInv, Good, Settled
  <2> QED BY <1>2, <2>1, <2>2, <2>3, GoodNext DEF IInv, Good
<1>6. srv' \in [lists : [Keys -> Rows], now : Keys]
  <2>1. CASE srv' = srv
    BY <1>1, <2>1
  <2>2. CASE r.op = "put" /\ srv' = [srv EXCEPT !.now = r.want]
    BY <1>1, <2>2 DEF GoodRequest, MayAsk
  <2>3. CASE r.op \in Removals /\ srv' = [srv EXCEPT !.lists[k] = Without(@, x)]
    <3>1. k \in Keys
      BY <2>3, KeyOfRequest DEF Removals
    <3> HIDE DEF k, x
    <3>2. Without(srv.lists[k], x) \in Rows
      BY <1>1, <3>1, WithoutEntry
    <3> QED BY <1>1, <2>3, <3>1, <3>2
  <2>4. CASE srv' = [srv EXCEPT !.lists = [l \in Keys |->
                        IF l = k \/ page = "snipe_history" THEN <<>> ELSE @[l]]]
    <3>1. <<>> \in Rows
      BY EmptySeq DEF Rows
    <3> HIDE DEF k
    <3> QED BY <1>1, <2>4, <3>1
  <2>5. CASE r.op \in Adds /\ srv' = [srv EXCEPT !.lists[k] = Append(@, Added)]
    <3>1. k \in Keys
      BY <2>5, KeyOfRequest DEF Adds
    <3> HIDE DEF k
    <3>2. Append(srv.lists[k], Added) \in Rows
      BY <1>1, <3>1, ListsAssumption, AppendProperties DEF ListsAssumption, Rows
    <3> QED BY <1>1, <2>5, <3>1, <3>2
  <2>6. srv' = CASE r.op = "put"    -> [srv EXCEPT !.now = r.want]
                 [] r.op \in Removals -> [srv EXCEPT !.lists[k] = Without(@, x)]
                 [] r.op = "clear"  -> [srv EXCEPT !.lists = [l \in Keys |->
                                           IF l = k \/ page = "snipe_history" THEN <<>> ELSE @[l]]]
                 [] r.op \in Adds /\ ~Contains(srv.lists[k], Added)
                                    -> [srv EXCEPT !.lists[k] = Append(@, Added)]
                 [] OTHER           -> srv
    BY DEF Serve
  <2> HIDE DEF k, x
  <2> QED BY <2>1, <2>2, <2>3, <2>4, <2>5, <2>6 DEF Removals, Adds
<1>7. /\ hist' \in [harm : SUBSET (Removals \cup {"save", "form"}), excuse : SUBSET Excuses]
      /\ hist'.harm = hist.harm \/ (/\ hist'.harm = hist.harm \cup {r.op}
                                    /\ r.op \in Removals \cup {"save"}
                                    /\ ~(x \subseteq {r.want}))
  BY DEF Serve, IInv, Excuses
<1>8. page \in ById => hist'.harm \subseteq {"form"}
  <2> SUFFICES ASSUME page \in ById, r.op \in Removals \cup {"save"}
               PROVE  x \subseteq {r.want}
    BY <1>7 DEF IInv
  <2>1. r.at = Id(r.want) /\ r.op # "list"
    BY <1>1 DEF GoodRequest, MayAsk, Removals
  <2>2. k \in Keys
    BY <2>1, KeyOfRequest
  <2> HIDE DEF k
  <2> QED BY <1>1, <2>1, <2>2, NamedEntry DEF Id
<1> QED BY <1>2, <1>5, <1>6, <1>7, <1>8 DEF IInv

\* A request that the server fails stays what it was.
LEMMA FailGood ==
    ASSUME IInv, NEW r \in reqs, Fail(r)
    PROVE  IInv'
<1> DEFINE at == IF r.op = "load" /\ page \in Paged THEN Index(1) ELSE r.at
           done == [r EXCEPT !.st = "done", !.ok = r.op = "load", !.rows = <<>>, !.at = at]
<1>1. /\ reqs' = (reqs \ {r}) \cup {done} /\ r.op # "open"
      /\ page' = page /\ ui' = ui /\ srv' = srv
      /\ acts' = acts + 1 /\ acts < MaxActs[page]
  BY DEF Fail, Removals, Adds
<1>2. /\ hist' \in [harm : SUBSET (Removals \cup {"save", "form"}), excuse : SUBSET Excuses]
      /\ hist'.harm = hist.harm
  BY DEF Fail, Excused, IInv, Excuses
<1>3. acts' \in 0..MaxActs[page']
  BY <1>1, ListsAssumption DEF IInv, ListsAssumption
<1>4. GoodRequest(done) /\ done.op = r.op
  <2>1. GoodRequest(r)
    BY DEF IInv, Good
  <2>2. at \in Addresses
    BY <2>1, Addressing DEF GoodRequest, MayAsk
  <2>3. MayAsk(r.op, r.key, at, r.want)
    BY <2>1, <2>2, Addressing DEF GoodRequest, MayAsk
  <2>4. <<>> \in Rows
    BY DEF Rows
  <2> HIDE DEF at
  <2> QED BY <1>1, <2>1, <2>2, <2>3, <2>4 DEF GoodRequest
<1> HIDE DEF done
<1>5. Good(ui, reqs)'
  <2>1. \A q \in reqs' : GoodRequest(q)
    BY <1>1, <1>4 DEF IInv, Good
  <2>2. \A q \in reqs : \E p \in reqs' : p.op = q.op
    BY <1>1, <1>4
  <2>3. Backed(ui, reqs')
    BY <2>2 DEF IInv, Good, Backed
  <2>4. Settled(ui, reqs')
    BY <1>1, <1>4 DEF IInv, Good, Settled
  <2> QED BY <1>1, <2>1, <2>3, <2>4, GoodNext DEF IInv, Good
<1> QED BY <1>1, <1>2, <1>3, <1>5 DEF IInv

LEMMA OtherTabGood == IInv /\ OtherTab => IInv'
<1> SUFFICES ASSUME IInv, OtherTab PROVE IInv'
  OBVIOUS
<1>1. srv' \in [lists : [Keys -> Rows], now : Keys]
  <2>1. srv \in [lists : [Keys -> Rows], now : Keys]
    BY DEF IInv
  <2>2. ASSUME NEW k \in Keys, srv.lists[k] # <<>>, srv' = [srv EXCEPT !.lists[k] = Tail(@)]
        PROVE  srv' \in [lists : [Keys -> Rows], now : Keys]
    <3>1. Tail(srv.lists[k]) \in Rows
      BY <2>1, <2>2, HeadTailProperties DEF Rows
    <3> QED BY <2>1, <2>2, <3>1
  <2>3. ASSUME NEW k \in Keys \ {srv.now}, srv' = [srv EXCEPT !.now = k]
        PROVE  srv' \in [lists : [Keys -> Rows], now : Keys]
    BY <2>1, <2>3
  <2> QED BY <2>2, <2>3 DEF OtherTab
<1>2. /\ page' = page /\ ui' = ui /\ reqs' = reqs
      /\ acts' = acts + 1 /\ acts < MaxActs[page]
      /\ hist' = [hist EXCEPT !.excuse = @ \cup {"other"}]
  BY DEF OtherTab, Excused
<1>3. acts' \in 0..MaxActs[page']
  BY <1>2, ListsAssumption DEF IInv, ListsAssumption
<1>4. /\ hist' \in [harm : SUBSET (Removals \cup {"save", "form"}), excuse : SUBSET Excuses]
      /\ page \in ById => hist'.harm \subseteq {"form"}
  BY <1>2 DEF IInv, Excuses
<1>5. Good(ui, reqs)'
  BY <1>2, GoodNext DEF IInv
<1> QED BY <1>1, <1>2, <1>3, <1>4, <1>5 DEF IInv

-----------------------------------------------------------------------------
(* The forms of the page's own steps: the user looks around or sends one   *)
(* request; a request ends, and another one may follow.                    *)

LEMMA DoGood ==
    ASSUME IInv, NEW u, NEW Q, NEW why \in SUBSET Excuses, Do(u, Q, why), Good(u, Q)
    PROVE  IInv'
<1>1. /\ page' = page /\ srv' = srv /\ ui' = u /\ reqs' = Q
      /\ hist' = [hist EXCEPT !.excuse = @ \cup (why \cup (IF reqs # {} THEN {"hasty"} ELSE {}))]
  BY DEF Do, Excused
<1>2. acts' \in 0..MaxActs[page']
  BY <1>1, ListsAssumption DEF Do, IInv, ListsAssumption
<1>3. /\ hist' \in [harm : SUBSET (Removals \cup {"save", "form"}), excuse : SUBSET Excuses]
      /\ hist'.harm = hist.harm
  BY <1>1 DEF IInv, Excuses
<1> QED BY <1>1, <1>2, <1>3, GoodNext DEF IInv

LEMMA HandleGood ==
    ASSUME IInv, NEW r, NEW u, NEW Q, NEW harm \in SUBSET {"form"},
           NEW why \in SUBSET Excuses, Handle(r, u, Q, harm, why), Good(u, Q)
    PROVE  IInv'
<1>1. /\ page' = page /\ srv' = srv /\ ui' = u /\ reqs' = Q /\ acts' = acts
      /\ hist' = [harm |-> hist.harm \cup harm,
                  excuse |-> hist.excuse \cup why \cup
                             (IF Earlier(r) # {} THEN {"reordered"} ELSE {})]
  BY DEF Handle
<1>2. /\ hist' \in [harm : SUBSET (Removals \cup {"save", "form"}), excuse : SUBSET Excuses]
      /\ hist'.harm = hist.harm \cup harm
  BY <1>1 DEF IInv, Excuses
<1> QED BY <1>1, <1>2, GoodNext DEF IInv

\* The selection is not lost: what was settled stays so.
Selects(v) == v.sel = ui.sel \/ v.sel \in Keys

LEMMA Look ==
    ASSUME IInv, NEW v, GoodUI(v), v.busy \subseteq ui.busy, Selects(v), Do(v, reqs, {})
    PROVE  IInv'
<1>1. Good(v, reqs)
  BY ListsAssumption DEF IInv, Good, Backed, Settled, Selects, ListsAssumption
<1> QED BY <1>1, DoGood

LEMMA Sent ==
    ASSUME IInv, NEW v, GoodUI(v), NEW op, NEW key, NEW at, NEW want, NEW why \in SUBSET Excuses,
           \A b \in v.busy : b \in ui.busy \/ op = Releases(b), page \in Late => v.sel # None,
           MayAsk(op, key, at, want), Do(v, Ask(reqs, op, key, at, want), why)
    PROVE  IInv'
<1> DEFINE Q == Ask(reqs, op, key, at, want)
<1>1. (\A r \in Q : GoodRequest(r)) /\ (\E r \in Q : r.op = op) /\ reqs \subseteq Q
  BY AskGood DEF IInv, Good
<1> HIDE DEF Q
<1>2. Good(v, Q)
  BY <1>1 DEF IInv, Good, Backed, Settled
<1> QED BY <1>2, DoGood DEF Q

LEMMA Ended ==
    ASSUME IInv, NEW r \in reqs, NEW v, GoodUI(v), Selects(v),
           \A b \in v.busy : b \in ui.busy /\ r.op # Releases(b),
           NEW harm \in SUBSET {"form"}, NEW why \in SUBSET Excuses,
           Handle(r, v, reqs \ {r}, harm, why)
    PROVE  IInv'
<1> DEFINE Q == reqs \ {r}
<1>1. \A q \in reqs : q.op # r.op => q \in Q
  OBVIOUS
<1> HIDE DEF Q
<1>2. Backed(v, Q)
  BY <1>1 DEF IInv, Good, Backed
<1>3. (\A q \in Q : GoodRequest(q)) /\ Settled(v, Q)
  BY ListsAssumption DEF Q, IInv, Good, Settled, Selects, ListsAssumption
<1>4. Good(v, Q)
  BY <1>2, <1>3 DEF Good
<1> QED BY <1>4, HandleGood DEF Q

LEMMA EndedAsk ==
    ASSUME IInv, NEW r \in reqs, NEW v, GoodUI(v), page \in Late => v.sel # None,
           NEW op, NEW key, NEW at, NEW want, MayAsk(op, key, at, want),
           \A b \in v.busy : op = Releases(b) \/ (b \in ui.busy /\ r.op # Releases(b)),
           NEW harm \in SUBSET {"form"}, NEW why \in SUBSET Excuses,
           Handle(r, v, Ask(reqs \ {r}, op, key, at, want), harm, why)
    PROVE  IInv'
<1> DEFINE P == reqs \ {r}
           Q == Ask(P, op, key, at, want)
<1>1. (\A q \in reqs : q.op # r.op => q \in P) /\ \A q \in P : GoodRequest(q)
  BY DEF IInv, Good
<1> HIDE DEF P
<1>2. (\A q \in Q : GoodRequest(q)) /\ (\E q \in Q : q.op = op) /\ P \subseteq Q
  BY <1>1, AskGood
<1> HIDE DEF Q
<1>3. Backed(v, Q)
  BY <1>1, <1>2 DEF IInv, Good, Backed
<1>4. Good(v, Q)
  BY <1>2, <1>3 DEF Good, Settled
<1> QED BY <1>4, HandleGood DEF P, Q

\* A dialog or a form is opened or closed and nothing is sent.
LEMMA Aside ==
    ASSUME IInv, NEW v, GoodUI(v), v.busy = ui.busy, v.sel = ui.sel,
           ui' = v, UNCHANGED <<page, srv, reqs, hist, acts>>
    PROVE  IInv'
<1>1. Good(v, reqs)
  BY DEF IInv, Good, Backed, Settled
<1> QED BY <1>1, GoodNext DEF IInv

-----------------------------------------------------------------------------
(* What the pages do to their state, and the requests they share.          *)

LEMMA RowEntry ==
    ASSUME IInv, NEW i \in DOMAIN ui.rows
    PROVE  i \in Nat \ {0} /\ ui.rows[i] \in Items
<1>1. ui.rows \in Seq(Items)
  BY DEF IInv, Good, GoodUI, UI, Rows
<1> QED BY <1>1, LenProperties, ElementOfSeq

LEMMA RowsGood ==
    ASSUME IInv, NEW rows \in Rows, page \in Late => ui.sel # None \/ rows = <<>>
    PROVE  GoodUI([ui EXCEPT !.rows = rows])
BY DEF IInv, Good, GoodUI, UI

LEMMA SelectedGood ==
    ASSUME IInv, NEW k \in Keys
    PROVE  /\ GoodUI([ui EXCEPT !.sel = k]) /\ [ui EXCEPT !.sel = k].sel = k
           /\ [ui EXCEPT !.sel = k].busy = ui.busy /\ k # None
BY ListsAssumption DEF IInv, Good, GoodUI, UI, ListsAssumption

LEMMA AnsweredGood ==
    ASSUME IInv
    PROVE  GoodUI([ui EXCEPT !.dialog = None])
BY DEF IInv, Good, GoodUI, UI

LEMMA AskingGood ==
    ASSUME IInv, NEW d, GoodDialog(d), page \in Late => ui.sel # None
    PROVE  GoodUI([ui EXCEPT !.dialog = d])
BY DEF IInv, Good, GoodUI, UI, GoodDialog

LEMMA ClosedGood ==
    ASSUME IInv
    PROVE  GoodUI(Closed(ui)) /\ Closed(ui).sel = ui.sel /\ Closed(ui).busy = ui.busy
BY Addressing DEF Closed, IInv, Good, GoodUI, UI

LEMMA OpenedGood ==
    ASSUME IInv, NEW at \in Addresses, NEW x \in Items,
           page \in ById => at \in {Nothing, Id(x)}, page \in Late => ui.sel # None
    PROVE  /\ GoodUI(Opened(at, x))
           /\ Opened(at, x).sel = ui.sel /\ Opened(at, x).busy = ui.busy
BY DEF Opened, IInv, Good, GoodUI, UI

LEMMA ButtonsGood ==
    ASSUME IInv, NEW B \in SUBSET Buttons,
           B \subseteq CASE page = "manager" -> {"load"}
                         [] page = "root_folders" -> {"add", "test"}
                         [] page = "indexers" -> {"import"}
                         [] OTHER -> {}
    PROVE  GoodUI([ui EXCEPT !.busy = B])
BY DEF IInv, Good, GoodUI, UI

\* Only three pages have something to release.
LEMMA NoButtons ==
    ASSUME IInv, page \notin {"manager", "root_folders", "indexers"}
    PROVE  ui.busy = {}
BY DEF IInv, Good, GoodUI, UI

LEMMA Settles ==
    ASSUME IInv, page \notin ByServer, page \in Late => ui.sel # None
    PROVE  ui.sel \in Keys
BY DEF IInv, Good, GoodUI, UI

LEMMA NoSelection ==
    ASSUME IInv, page \in Late, ui.sel = None
    PROVE  /\ DOMAIN ui.rows = {} /\ ui.dialog = None /\ ui.form = None
           /\ \A r \in reqs : r.op = "list"
<1>1. ui.rows = <<>>
  BY DEF IInv, Good, GoodUI
<1> QED BY <1>1 DEF IInv, Good, GoodUI, Settled

LEMMA MayLoad ==
    ASSUME page \notin Paged, NEW k, k \in Keys \/ (page \in ByServer /\ k = Current)
    PROVE  MayAsk("load", k, Nothing, None)
BY Addressing DEF MayAsk, Ops, Targets

LEMMA MayFetch ==
    ASSUME NEW k \in Keys, NEW p \in Nat \ {0}
    PROVE  MayAsk("load", k, Index(p), None)
BY Addressing DEF MayAsk, Ops, Targets

LEMMA MayAdd ==
    ASSUME NEW k, k \in Keys \/ (page \in ByServer /\ k = Current), NEW x \in Items
    PROVE  MayAsk("add", k, Nothing, x)
BY Addressing DEF MayAsk, Ops, Targets

\* An operation on an entry.
LEMMA MayTouch ==
    ASSUME NEW k, k \in Keys \/ (page \in ByServer /\ k = Current), NEW x \in Items,
           NEW op \in {"save", "remove", "purge", "linked", "test"}, NEW at \in Addresses,
           op = "purge" => page = "custom_formats",
           page \in ById => at = Id(x)
    PROVE  MayAsk(op, k, at, x)
BY DEF MayAsk, Ops, Targets

LEMMA ConfirmGood == IInv /\ Confirm => IInv'
<1> SUFFICES ASSUME IInv, Confirm PROVE IInv'
  OBVIOUS
<1> DEFINE d == ui.dialog
           key == IF d.key = None THEN ui.sel ELSE d.key
           at == IF d.at = Nothing THEN ui.target ELSE d.at
<1>1. /\ d # None /\ d.op # "purge"
      /\ Do([ui EXCEPT !.dialog = None], Ask(reqs, d.op, key, at, d.want), {})
  BY DEF Confirm
<1>2. /\ d \in Dialogs /\ GoodDialog(d) /\ ui.target \in Addresses /\ ui.sel \in Keys \cup {None}
  BY <1>1 DEF IInv, Good, GoodUI, GoodDialog, UI
<1>3. page \in Late => ui.sel # None
  BY <1>1 DEF IInv, Good, GoodUI
<1>4. page \notin ByServer => ui.sel \in Keys
  BY <1>3, Settles
<1> HIDE DEF d
<1>5. key \in Keys \/ (page \in ByServer /\ key = Current)
  BY <1>2, <1>4, ListsAssumption DEF GoodDialog, ListsAssumption
<1>6. at \in Addresses /\ (page \in ById => at = Id(d.want))
  BY <1>2, Addressing DEF GoodDialog, Dialogs
<1>7. d.op \in {"remove", "clear"} /\ d.want \in Targets /\ (d.op = "remove" => d.want \in Items)
  BY <1>1, <1>2 DEF GoodDialog, Dialogs
<1> HIDE DEF key, at
<1>8. MayAsk(d.op, key, at, d.want)
  BY <1>5, <1>6, <1>7 DEF MayAsk, Ops
<1> DEFINE v == [ui EXCEPT !.dialog = None]
<1>9. v.busy = ui.busy /\ v.sel = ui.sel /\ GoodUI(v)
  BY AnsweredGood DEF IInv, Good, GoodUI, UI
<1>10. Do(v, Ask(reqs, d.op, key, at, d.want), {})
  BY <1>1 DEF key, at
<1> HIDE DEF v
<1> QED BY <1>3, <1>8, <1>9, <1>10, Sent

LEMMA CancelGood == IInv /\ (Cancel \/ CloseForm) => IInv'
<1> SUFFICES ASSUME IInv, Cancel \/ CloseForm PROVE IInv'
  OBVIOUS
<1>1. CASE Cancel
  <2>1. /\ [ui EXCEPT !.dialog = None].busy = ui.busy /\ [ui EXCEPT !.dialog = None].sel = ui.sel
    BY DEF IInv, Good, GoodUI, UI
  <2> QED BY <1>1, <2>1, AnsweredGood, Aside DEF Cancel
<1>2. CASE CloseForm
  BY <1>2, ClosedGood, Aside DEF CloseForm
<1> QED BY <1>1, <1>2

\* A form is sent to the entry it was opened for, or as a new one.
LEMMA SavesGood ==
    ASSUME IInv, NEW key, key \in Keys \/ (page \in ByServer /\ key = Current), Saves(key)
    PROVE  IInv'
<1>1. /\ ui.form # None /\ Do(ui, Sends(reqs, key), {})
  BY DEF Saves
<1>2. GoodUI(ui) /\ ui.form \in Items /\ ui.target \in Addresses
      /\ (page \in ById /\ ui.target # Nothing => ui.target = Id(ui.form))
      /\ (page \in Late => ui.sel # None)
  BY <1>1 DEF IInv, Good, GoodUI, UI
<1>3. CASE ui.target = Nothing
  <2>1. MayAsk("add", key, Nothing, ui.form)
    BY <1>2, MayAdd
  <2> QED BY <1>1, <1>2, <1>3, <2>1, Sent DEF Sends
<1>4. CASE ui.target # Nothing
  <2>1. MayAsk("save", key, ui.target, ui.form)
    BY <1>2, <1>4, MayTouch
  <2> QED BY <1>1, <1>2, <1>4, <2>1, Sent DEF Sends
<1> QED BY <1>3, <1>4

\* An answer or a failure that is only shown.
LEMMA IgnoredGood ==
    ASSUME IInv, NEW r \in reqs, NEW op, Ignored(r, op) \/ Dropped(r, op),
           \A b \in ui.busy : op # Releases(b)
    PROVE  IInv'
<1>1. GoodUI(ui) /\ Selects(ui)
  BY DEF IInv, Good, Selects
<1>2. CASE Ignored(r, op)
  BY <1>1, <1>2, Ended DEF Ignored, Refused, Answer
<1>3. CASE Dropped(r, op)
  BY <1>1, <1>3, Ended DEF Dropped, Failure, Excuses
<1> QED BY <1>2, <1>3

\* A question about an entry shown.
LEMMA AskUserGood ==
    ASSUME IInv, NEW op \in {"remove", "clear"}, NEW at \in Addresses, NEW want \in Targets,
           NEW key, IF page \in ByServer THEN key = Current ELSE key \in Keys \cup {None},
           op = "remove" => want \in Items, page \in ById => op = "remove" /\ at = Id(want),
           page \in Late => ui.sel # None, AskUser(op, key, at, want)
    PROVE  IInv'
<1> DEFINE d == Asking(op, key, at, want)
<1>1. <<>> \in Seq(Marks)
  BY EmptySeq
<1>2. d \in Dialogs
  BY <1>1 DEF Asking, Dialogs
<1>3. GoodDialog(d)
  BY <1>2 DEF GoodDialog, Asking
<1> HIDE DEF d
<1>4. GoodUI([ui EXCEPT !.dialog = d])
  BY <1>3, AskingGood
<1>5. [ui EXCEPT !.dialog = d].busy = ui.busy /\ [ui EXCEPT !.dialog = d].sel = ui.sel
  BY DEF IInv, Good, GoodUI, UI
<1>6. Do([ui EXCEPT !.dialog = d], reqs, {})
  BY DEF AskUser, d
<1> QED BY <1>4, <1>5, <1>6, Look DEF Selects

\* An answer with the rows of the list, or without any, or a failed fetch.
LEMMA ShownGood ==
    ASSUME IInv, NEW r \in reqs, r.op = "load", NEW rows \in {r.rows, <<>>},
           \A b \in ui.busy : "load" # Releases(b), NEW why \in SUBSET Excuses,
           Handle(r, [ui EXCEPT !.rows = rows], reqs \ {r}, {}, why)
    PROVE  IInv'
<1>1. rows \in Rows
  BY EmptySeq DEF IInv, Good, GoodRequest, Rows
<1>2. page \in Late => ui.sel # None
  BY NoSelection
<1>3. GoodUI([ui EXCEPT !.rows = rows])
  BY <1>1, <1>2, RowsGood
<1>4. [ui EXCEPT !.rows = rows].busy = ui.busy /\ [ui EXCEPT !.rows = rows].sel = ui.sel
  BY DEF IInv, Good, GoodUI, UI
<1> QED BY <1>3, <1>4, Ended DEF Selects

\* A form is opened for a row.
LEMMA EditsGood ==
    ASSUME IInv, NEW at, NEW i, i \in DOMAIN ui.rows => at \in Addresses,
           i \in DOMAIN ui.rows /\ page \in ById => at = Id(ui.rows[i]), Edits(at, i)
    PROVE  IInv'
<1>1. /\ i \in DOMAIN ui.rows /\ Do(Opened(at, ui.rows[i]), reqs, {})
  BY DEF Edits
<1>2. at \in Addresses /\ ui.rows[i] \in Items /\ (page \in Late => ui.sel # None)
  BY <1>1, RowEntry, NoSelection
<1>3. /\ GoodUI(Opened(at, ui.rows[i])) /\ Opened(at, ui.rows[i]).sel = ui.sel
      /\ Opened(at, ui.rows[i]).busy = ui.busy
  BY <1>1, <1>2, OpenedGood
<1> QED BY <1>1, <1>3, Look DEF Selects

LEMMA AddsGood ==
    ASSUME IInv, page \in Late => ui.sel # None, Do(Opened(Nothing, Added), reqs, {})
    PROVE  IInv'
<1>1. Nothing \in Addresses /\ Added \in Items
  BY Addressing, ListsAssumption DEF ListsAssumption
<1>2. /\ GoodUI(Opened(Nothing, Added)) /\ Opened(Nothing, Added).sel = ui.sel
      /\ Opened(Nothing, Added).busy = ui.busy
  BY <1>1, OpenedGood
<1> QED BY <1>2, Look DEF Selects

\* The list is fetched again when a request has ended.
LEMMA FetchesGood ==
    ASSUME IInv, NEW r \in reqs, NEW v, GoodUI(v), page \in Late => v.sel # None, page \notin Paged,
           NEW k, k \in Keys \/ (page \in ByServer /\ k = Current),
           \A b \in v.busy : b \in ui.busy /\ r.op # Releases(b),
           NEW harm \in SUBSET {"form"}, NEW why \in SUBSET Excuses,
           Handle(r, v, Ask(reqs \ {r}, "load", k, Nothing, None), harm, why)
    PROVE  IInv'
<1>1. MayAsk("load", k, Nothing, None)
  BY MayLoad
<1> QED BY <1>1, EndedAsk

\* ... from the page as it is, or with its form closed.
LEMMA RefreshGood ==
    ASSUME IInv, NEW r \in reqs, r.op # "list", page \notin Paged,
           NEW v \in {ui, Closed(ui)}, NEW k, k = ui.sel \/ (page \in ByServer /\ k = Current),
           k = ui.sel => page \notin ByServer,
           \A b \in ui.busy : r.op # Releases(b), NEW harm \in SUBSET {"form"},
           Handle(r, v, Ask(reqs \ {r}, "load", k, Nothing, None), harm, {})
    PROVE  IInv'
<1>1. GoodUI(v) /\ v.sel = ui.sel /\ v.busy = ui.busy
  BY ClosedGood DEF IInv, Good
<1>2. page \in Late => ui.sel # None
  BY NoSelection
<1>3. k \in Keys \/ (page \in ByServer /\ k = Current)
  BY <1>2, Settles
<1> HIDE DEF Closed
<1> QED BY <1>1, <1>2, <1>3, FetchesGood

\* The selector moves, and something is asked for.
LEMMA ChangeGood ==
    ASSUME IInv, NEW k \in Keys, NEW op, NEW key, NEW at, NEW want, MayAsk(op, key, at, want),
           Do([ui EXCEPT !.sel = k], Ask(reqs, op, key, at, want), {})
    PROVE  IInv'
<1> DEFINE v == [ui EXCEPT !.sel = k]
<1>1. GoodUI(v) /\ v.sel = k /\ v.busy = ui.busy /\ k # None
  BY SelectedGood
<1>2. Do(v, Ask(reqs, op, key, at, want), {})
  OBVIOUS
<1> HIDE DEF v
<1> QED BY <1>1, <1>2, Sent

LEMMA PopulateGood ==
    ASSUME IInv, NEW r \in reqs, r.op = "list", NEW k \in Keys, NEW op, NEW key, NEW at, NEW want,
           MayAsk(op, key, at, want),
           Answer(r, [ui EXCEPT !.sel = k], Ask(reqs \ {r}, op, key, at, want))
    PROVE  IInv'
<1> DEFINE v == [ui EXCEPT !.sel = k]
<1>1. GoodUI(v) /\ v.sel = k /\ v.busy = ui.busy /\ k # None
  BY SelectedGood
<1>2. \A b \in v.busy : r.op # Releases(b)
  BY <1>1 DEF Releases, Buttons, IInv, Good, GoodUI, UI
<1>3. Handle(r, v, Ask(reqs \ {r}, op, key, at, want), {}, {})
  BY DEF Answer
<1> HIDE DEF v
<1> QED BY <1>1, <1>2, <1>3, EndedAsk

LEMMA MayPut ==
    ASSUME NEW k \in Keys
    PROVE  MayAsk("put", k, Nothing, k)
BY Addressing DEF MayAsk, Ops, Targets

\* A failure of the fetch of the instances changes nothing.
LEMMA NoList ==
    ASSUME IInv
    PROVE  \A b \in ui.busy : Releases(b) \notin {"list", "put", "save", "remove", "purge", "open", "linked", "clear"}
BY DEF Releases, Buttons, IInv, Good, GoodUI, UI

-----------------------------------------------------------------------------
(* The pages.                                                              *)

LEMMA RootFoldersGood ==
    ASSUME IInv, page = "root_folders",
           RootFoldersClick \/ \E r \in reqs : RootFoldersAnswer(r)
    PROVE  IInv'
<1>0. /\ page \notin Paged /\ page \notin ByServer /\ page \in Late /\ page \notin ById
      /\ None \notin Keys /\ Added \in Items
  BY ListsAssumption DEF Paged, ByServer, Late, ById, ListsAssumption
<1>00. /\ GoodUI(ui) /\ ui.busy \subseteq {"add", "test"} /\ ui.sel \in Keys \cup {None}
       /\ \A B : [ui EXCEPT !.busy = B].busy = B /\ [ui EXCEPT !.busy = B].sel = ui.sel
  BY <1>0 DEF IInv, Good, GoodUI, UI
<1>1. ASSUME NEW k \in Keys, RootFoldersChange(k) PROVE IInv'
  <2>1. MayAsk("load", k, Nothing, None)
    BY <1>0, MayLoad
  <2> QED BY <1>1, <2>1, ChangeGood DEF RootFoldersChange, RootFoldersRefresh
<1>2. ASSUME NEW i, RootFoldersSetDefault(i) PROVE IInv'
  <2>1. /\ i \in DOMAIN ui.rows /\ ui.sel # None
        /\ Do(ui, Ask(reqs, "save", ui.sel, Index(i), ui.rows[i]), {})
    BY <1>2 DEF RootFoldersSetDefault
  <2>2. ui.rows[i] \in Items /\ Index(i) \in Addresses
    BY <2>1, RowEntry, Addressing
  <2>3. MayAsk("save", ui.sel, Index(i), ui.rows[i])
    BY <1>0, <1>00, <2>1, <2>2, MayTouch
  <2> QED BY <1>00, <2>1, <2>3, Sent
<1>3. ASSUME NEW i, RootFoldersDelete(i) PROVE IInv'
  <2>1. /\ i \in DOMAIN ui.rows /\ ui.sel # None
        /\ AskUser("remove", ui.sel, Index(i), ui.rows[i])
    BY <1>3 DEF RootFoldersDelete
  <2>2. ui.rows[i] \in Items /\ ui.rows[i] \in Targets /\ Index(i) \in Addresses
    BY <2>1, RowEntry, Addressing DEF Targets
  <2> QED BY <1>0, <1>00, <2>1, <2>2, AskUserGood
<1>4. ASSUME RootFoldersTest PROVE IInv'
  <2> DEFINE v == [ui EXCEPT !.busy = ui.busy \cup {"test"}]
  <2>1. ui.sel # None /\ Do(v, Ask(reqs, "test", ui.sel, Nothing, None), {})
    BY <1>4 DEF RootFoldersTest
  <2>2. MayAsk("test", ui.sel, Nothing, None)
    BY <1>00, <2>1, Addressing DEF MayAsk, Ops, Targets
  <2>3. GoodUI(v) /\ v.busy = ui.busy \cup {"test"} /\ v.sel = ui.sel
    BY <1>0, <1>00, ButtonsGood DEF Buttons
  <2> HIDE DEF v
  <2> QED BY <2>1, <2>2, <2>3, Sent DEF Releases
<1>5. ASSUME RootFoldersAdd PROVE IInv'
  <2> DEFINE v == [ui EXCEPT !.busy = ui.busy \cup {"add"}]
  <2>1. ui.sel # None /\ Do(v, Ask(reqs, "add", ui.sel, Nothing, Added), {})
    BY <1>5 DEF RootFoldersAdd
  <2>2. MayAsk("add", ui.sel, Nothing, Added)
    BY <1>0, <1>00, <2>1, MayAdd
  <2>3. GoodUI(v) /\ v.busy = ui.busy \cup {"add"} /\ v.sel = ui.sel
    BY <1>0, <1>00, ButtonsGood DEF Buttons
  <2> HIDE DEF v
  <2> QED BY <2>1, <2>2, <2>3, Sent DEF Releases
<1>6. ASSUME NEW r \in reqs, RootFoldersPopulate(r) PROVE IInv'
  <2>1. CASE Dropped(r, "list")
    BY <2>1, IgnoredGood, NoList
  <2>2. CASE Success(r, "list") /\ \E k \in Keys :
                Answer(r, [ui EXCEPT !.sel = k], RootFoldersRefresh(reqs \ {r}, k))
    BY <1>0, <2>2, PopulateGood, MayLoad DEF Success, RootFoldersRefresh
  <2> QED BY <1>6, <2>1, <2>2 DEF RootFoldersPopulate
<1>7. ASSUME NEW r \in reqs, RootFoldersShow(r) PROVE IInv'
  <2>1. \A b \in ui.busy : "load" # Releases(b)
    BY <1>00 DEF Releases
  <2> QED BY <1>7, <2>1, ShownGood
        DEF RootFoldersShow, Success, Answer, Failure, Shown, Excuses
<1>8. ASSUME NEW r \in reqs, RootFoldersDefaultSet(r) \/ RootFoldersDeleted(r) PROVE IInv'
  <2>1. CASE \E op \in {"save", "remove"} : Ignored(r, op) \/ Dropped(r, op)
    BY <2>1, IgnoredGood, NoList
  <2>2. CASE \E op \in {"save", "remove"} :
                Success(r, op) /\ Answer(r, ui, RootFoldersRefresh(reqs \ {r}, ui.sel))
    BY <1>0, <2>2, RefreshGood, NoList DEF Success, Answer, RootFoldersRefresh
  <2> QED BY <1>8, <2>1, <2>2 DEF RootFoldersDefaultSet, RootFoldersDeleted
<1>9. ASSUME NEW r \in reqs, RootFoldersTested(r) PROVE IInv'
  <2> DEFINE v == [ui EXCEPT !.busy = ui.busy \ {"test"}]
  <2>1. r.op = "test" /\ \E why \in SUBSET Excuses : Handle(r, v, reqs \ {r}, {}, why)
    BY <1>9 DEF RootFoldersTested, Success, Answer, Failure, Excuses
  <2>2. GoodUI(v) /\ v.busy = ui.busy \ {"test"} /\ v.sel = ui.sel
    BY <1>0, <1>00, ButtonsGood DEF Buttons
  <2> HIDE DEF v
  <2> QED BY <1>00, <2>1, <2>2, Ended DEF Releases, Selects
<1>10. ASSUME NEW r \in reqs, RootFoldersAdded(r) PROVE IInv'
  <2> DEFINE v == [ui EXCEPT !.busy = ui.busy \ {"add"}]
  <2>1. GoodUI(v) /\ v.busy = ui.busy \ {"add"} /\ v.sel = ui.sel
    BY <1>0, <1>00, ButtonsGood DEF Buttons
  <2>2. r.op = "add" /\ \/ Handle(r, v, Ask(reqs \ {r}, "load", ui.sel, Nothing, None), {}, {})
                        \/ \E why \in SUBSET Excuses : Handle(r, v, reqs \ {r}, {}, why)
    BY <1>10 DEF RootFoldersAdded, Success, Refused, Answer, Failure, RootFoldersRefresh, Excuses
  <2>3. ui.sel \in Keys /\ ui.sel # None
    BY <1>0, <1>00, <2>2, NoSelection
  <2> HIDE DEF v
  <2> QED BY <1>0, <1>00, <2>1, <2>2, <2>3, Ended, FetchesGood DEF Releases, Selects, Excuses
<1> QED
  BY <1>1, <1>2, <1>3, <1>4, <1>5, <1>6, <1>7, <1>8, <1>9, <1>10
     DEF RootFoldersClick, RootFoldersAnswer

LEMMA BrowseGood ==
    ASSUME IInv, page = "browse", BrowseClick \/ \E r \in reqs : BrowseAnswer(r)
    PROVE  IInv'
<1>0. /\ page \notin Paged /\ page \notin ByServer /\ page \notin Late /\ page \in ById
      /\ Added \in Items /\ GoodUI(ui) /\ ui.sel \in Keys /\ ui.busy = {}
  BY ListsAssumption, NoButtons, Settles
     DEF Paged, ByServer, Late, ById, ListsAssumption, IInv, Good
<1>1. ASSUME NEW k, BrowseGo(k), k \in Keys PROVE IInv'
  <2>1. MayAsk("load", k, Nothing, None)
    BY <1>0, <1>1, MayLoad
  <2>2. Do([ui EXCEPT !.sel = k], Ask(reqs, "load", k, Nothing, None), {})
    BY <1>1 DEF BrowseGo, BrowseLoad
  <2> QED BY <1>1, <2>1, <2>2, ChangeGood
<1>2. ASSUME BrowseCreate PROVE IInv'
  <2>1. MayAsk("add", ui.sel, Nothing, Added)
    BY <1>0, MayAdd
  <2> QED BY <1>0, <1>2, <2>1, Sent DEF BrowseCreate
<1>3. ASSUME NEW i, BrowseRename(i) PROVE IInv'
  <2>1. i \in DOMAIN ui.rows /\ Do(ui, Ask(reqs, "save", ui.sel, Id(ui.rows[i]), ui.rows[i]), {})
    BY <1>3 DEF BrowseRename
  <2>2. MayAsk("save", ui.sel, Id(ui.rows[i]), ui.rows[i])
    BY <1>0, <2>1, RowEntry, Addressing, MayTouch
  <2> QED BY <1>0, <2>1, <2>2, Sent
<1>4. ASSUME NEW i, BrowseDelete(i) PROVE IInv'
  <2>1. i \in DOMAIN ui.rows /\ AskUser("remove", ui.sel, Id(ui.rows[i]), ui.rows[i])
    BY <1>4 DEF BrowseDelete
  <2>2. ui.rows[i] \in Items /\ ui.rows[i] \in Targets /\ Id(ui.rows[i]) \in Addresses
    BY <2>1, RowEntry, Addressing DEF Targets
  <2> QED BY <1>0, <2>1, <2>2, AskUserGood
<1>5. ASSUME NEW r \in reqs, BrowseShow(r) PROVE IInv'
  <2>1. r.op = "load" /\ r.key \in Keys /\ r.rows \in Rows
    BY <1>0, <1>5 DEF BrowseShow, Success, Failure, IInv, Good, GoodRequest, MayAsk
  <2>2. CASE Failure(r, "load", [ui EXCEPT !.rows = <<>>], reqs \ {r})
    BY <1>0, <2>1, <2>2, ShownGood DEF Failure, Excuses
  <2>3. CASE Answer(r, [ui EXCEPT !.sel = r.key, !.rows = r.rows], reqs \ {r})
    <3> DEFINE v == [ui EXCEPT !.sel = r.key, !.rows = r.rows]
    <3>1. GoodUI(v) /\ v.sel \in Keys /\ v.busy = {}
      BY <1>0, <2>1 DEF GoodUI, UI
    <3>2. Handle(r, v, reqs \ {r}, {}, {})
      BY <2>3 DEF Answer
    <3> HIDE DEF v
    <3> QED BY <3>1, <3>2, Ended DEF Selects
  <2> QED BY <1>5, <2>2, <2>3 DEF BrowseShow
<1>6. ASSUME NEW r \in reqs, BrowseChanged(r) PROVE IInv'
  <2>1. CASE \E op : Ignored(r, op) \/ Dropped(r, op)
    BY <1>0, <2>1, IgnoredGood
  <2>2. CASE \E op \in {"add", "save", "remove"} : Success(r, op) /\
                Answer(r, [ui EXCEPT !.sel = r.key], Ask(reqs \ {r}, "load", r.key, Nothing, None))
    <3> DEFINE v == [ui EXCEPT !.sel = r.key]
    <3>1. r.key \in Keys
      BY <1>0, <2>2 DEF Success, IInv, Good, GoodRequest, MayAsk
    <3>2. GoodUI(v) /\ v.busy = {}
      BY <1>0, <3>1, SelectedGood DEF GoodUI, UI
    <3>3. Handle(r, v, Ask(reqs \ {r}, "load", r.key, Nothing, None), {}, {})
      BY <2>2 DEF Answer
    <3> HIDE DEF v
    <3> QED BY <1>0, <3>1, <3>2, <3>3, FetchesGood
  <2> QED BY <1>6, <2>1, <2>2 DEF BrowseChanged, BrowseLoad
<1> QED BY <1>1, <1>2, <1>3, <1>4, <1>5, <1>6 DEF BrowseClick, BrowseAnswer

LEMMA RemoteMappingsGood ==
    ASSUME IInv, page = "remote_mappings",
           RemoteMappingsClick \/ \E r \in reqs : RemoteMappingsAnswer(r)
    PROVE  IInv'
<1>0. /\ page \notin Paged /\ page \notin ByServer /\ page \notin Late /\ page \notin ById
      /\ GoodUI(ui) /\ ui.sel \in Keys /\ ui.busy = {}
      /\ ui.target \in Addresses /\ ui.form \in Items \cup {None}
  BY NoButtons, Settles DEF Paged, ByServer, Late, ById, IInv, Good, GoodUI, UI
<1>1. ASSUME NEW i, RemoteMappingsEdit(i) PROVE IInv'
  BY <1>0, <1>1, RowEntry, Addressing, EditsGood DEF RemoteMappingsEdit
<1>2. CASE RemoteMappingsAdd
  BY <1>0, <1>2, AddsGood DEF RemoteMappingsAdd
<1>3. CASE RemoteMappingsSave
  BY <1>0, <1>3, SavesGood DEF RemoteMappingsSave
<1>4. CASE RemoteMappingsDelete
  <2>1. /\ ui.form \in Items /\ ui.form \in Targets
        /\ AskUser("remove", ui.sel, ui.target, ui.form)
    BY <1>0, <1>4 DEF RemoteMappingsDelete, Targets
  <2> QED BY <1>0, <2>1, AskUserGood
<1>5. ASSUME NEW r \in reqs, RemoteMappingsAnswer(r) PROVE IInv'
  <2>1. CASE \E op : Ignored(r, op) \/ Dropped(r, op)
    BY <1>0, <2>1, IgnoredGood
  <2>2. CASE RemoteMappingsShow(r)
    BY <1>0, <2>2, ShownGood DEF RemoteMappingsShow, Success, Answer, Failure, Shown, Excuses
  <2>3. CASE \E op \in {"save", "add", "remove"} : Success(r, op) /\
                Handle(r, Closed(ui), RemoteMappingsRefresh(reqs \ {r}), ClosesForm(r), {})
    BY <1>0, <2>3, RefreshGood DEF Success, RemoteMappingsRefresh, ClosesForm
  <2> QED BY <1>5, <2>1, <2>2, <2>3
          DEF RemoteMappingsAnswer, RemoteMappingsSaved, RemoteMappingsDeleted
<1> QED BY <1>1, <1>2, <1>3, <1>4, <1>5 DEF RemoteMappingsClick

LEMMA ImportListsGood ==
    ASSUME IInv, page = "import_lists",
           ImportListsClick \/ \E r \in reqs : ImportListsAnswer(r)
    PROVE  IInv'
<1>0. /\ page \notin Paged /\ page \notin ByServer /\ page \in Late /\ page \notin ById
      /\ None \notin Keys /\ GoodUI(ui) /\ ui.sel \in Keys \cup {None} /\ ui.busy = {}
      /\ ui.target \in Addresses /\ ui.form \in Items \cup {None}
  BY ListsAssumption, NoButtons
     DEF ListsAssumption, Paged, ByServer, Late, ById, IInv, Good, GoodUI, UI
<1>1. ASSUME NEW k \in Keys, ImportListsChange(k) PROVE IInv'
  <2>1. MayAsk("load", k, Nothing, None)
    BY <1>0, MayLoad
  <2> QED BY <1>1, <2>1, ChangeGood DEF ImportListsChange, ImportListsRefresh
<1>2. ASSUME NEW i, ImportListsTouch(i) PROVE IInv'
  <2>1. i \in DOMAIN ui.rows /\ Do(ui, Ask(reqs, "test", ui.sel, Id(ui.rows[i]), ui.rows[i]), {})
    BY <1>2 DEF ImportListsTouch
  <2>2. ui.sel \in Keys /\ ui.sel # None
    BY <1>0, <2>1, NoSelection
  <2>3. MayAsk("test", ui.sel, Id(ui.rows[i]), ui.rows[i])
    BY <1>0, <2>1, <2>2, RowEntry, Addressing, MayTouch
  <2> QED BY <1>0, <2>1, <2>2, <2>3, Sent
<1>3. CASE ImportListsAdd
  BY <1>0, <1>3, AddsGood DEF ImportListsAdd
<1>4. CASE ImportListsSaveNew \/ ImportListsSave
  <2>1. Saves(ui.sel) /\ ui.form # None
    BY <1>4 DEF ImportListsSaveNew, ImportListsSave, Saves
  <2> QED BY <1>0, <2>1, NoSelection, SavesGood
<1>5. ASSUME NEW i, ImportListsEdit(i) PROVE IInv'
  <2> DEFINE v == [ui EXCEPT !.target = Id(ui.rows[i])]
  <2>1. i \in DOMAIN ui.rows /\ Do(v, Ask(reqs, "open", ui.sel, Id(ui.rows[i]), ui.rows[i]), {})
    BY <1>5 DEF ImportListsEdit
  <2>2. ui.sel \in Keys /\ ui.sel # None
    BY <1>0, <2>1, NoSelection
  <2>3. ui.rows[i] \in Items /\ Id(ui.rows[i]) \in Addresses
    BY <2>1, RowEntry, Addressing
  <2>4. MayAsk("open", ui.sel, Id(ui.rows[i]), ui.rows[i])
    BY <2>2, <2>3 DEF MayAsk, Ops, Targets
  <2>5. GoodUI(v) /\ v.busy = {} /\ v.sel = ui.sel
    BY <1>0, <2>3 DEF GoodUI, UI
  <2> HIDE DEF v
  <2> QED BY <2>1, <2>2, <2>4, <2>5, Sent
<1>6. CASE ImportListsDelete
  <2>1. /\ ui.form \in Items /\ ui.form \in Targets /\ ui.form # None
        /\ AskUser("remove", None, Nothing, ui.form)
    BY <1>0, <1>6 DEF ImportListsDelete, Targets
  <2>2. ui.sel # None /\ Nothing \in Addresses
    BY <1>0, <2>1, NoSelection, Addressing
  <2> QED BY <1>0, <2>1, <2>2, AskUserGood
<1>7. ASSUME NEW r \in reqs, ImportListsPopulate(r) PROVE IInv'
  <2>1. CASE Dropped(r, "list")
    BY <2>1, IgnoredGood, NoList
  <2>2. CASE Success(r, "list") /\ \E k \in Keys :
                Answer(r, [ui EXCEPT !.sel = k], ImportListsRefresh(reqs \ {r}, k))
    BY <1>0, <2>2, PopulateGood, MayLoad DEF Success, ImportListsRefresh
  <2> QED BY <1>7, <2>1, <2>2 DEF ImportListsPopulate
<1>8. ASSUME NEW r \in reqs, ImportListsShow(r) PROVE IInv'
  BY <1>0, <1>8, ShownGood DEF ImportListsShow, Success, Answer, Failure, Shown, Excuses
<1>9. ASSUME NEW r \in reqs, ImportListsOpened(r) PROVE IInv'
  <2>1. CASE Ignored(r, "open") \/ Dropped(r, "open")
    BY <1>0, <2>1, IgnoredGood
  <2>2. CASE Success(r, "open") /\ Answer(r, [ui EXCEPT !.form = r.rows[1]], reqs \ {r})
    <3> DEFINE v == [ui EXCEPT !.form = r.rows[1]]
    <3>1. r.op = "open" /\ r.rows = <<r.want>> /\ r.want \in Items
      BY <2>2 DEF Success, IInv, Good, GoodRequest, MayAsk
    <3>2. r.rows[1] \in Items
      BY <3>1
    <3>3. ui.sel # None
      BY <1>0, <3>1, NoSelection
    <3>4. GoodUI(v) /\ v.busy = {} /\ v.sel = ui.sel /\ Handle(r, v, reqs \ {r}, {}, {})
      BY <1>0, <2>2, <3>2, <3>3 DEF GoodUI, UI, Answer
    <3> HIDE DEF v
    <3> QED BY <3>4, Ended DEF Selects
  <2> QED BY <1>9, <2>1, <2>2 DEF ImportListsOpened
<1>10. ASSUME NEW r \in reqs,
              ImportListsTouched(r) \/ ImportListsSaved(r) \/ ImportListsDeleted(r)
       PROVE  IInv'
  <2>1. CASE \E op : Ignored(r, op) \/ Dropped(r, op)
    BY <1>0, <2>1, IgnoredGood
  <2>2. CASE Success(r, "test") /\ Answer(r, ui, ImportListsRefresh(reqs \ {r}, ui.sel))
    BY <1>0, <2>2, RefreshGood DEF Success, Answer, ImportListsRefresh
  <2>3. CASE \E op \in {"save", "add", "remove"} : Success(r, op) /\
                Handle(r, Closed(ui), ImportListsRefresh(reqs \ {r}, ui.sel), ClosesForm(r), {})
    BY <1>0, <2>3, RefreshGood DEF Success, ImportListsRefresh, ClosesForm
  <2> QED BY <1>10, <2>1, <2>2, <2>3 DEF ImportListsTouched, ImportListsSaved, ImportListsDeleted
<1> QED
  BY <1>1, <1>2, <1>3, <1>4, <1>5, <1>6, <1>7, <1>8, <1>9, <1>10
     DEF ImportListsClick, ImportListsAnswer

LEMMA IndexMasterGood ==
    ASSUME IInv, page = "index_master",
           IndexMasterClick \/ \E r \in reqs : IndexMasterAnswer(r)
    PROVE  IInv'
<1>0. /\ page \notin Paged /\ page \notin ByServer /\ page \notin Late /\ page \in ById
      /\ GoodUI(ui) /\ ui.sel \in Keys /\ ui.busy = {}
  BY NoButtons, Settles DEF Paged, ByServer, Late, ById, IInv, Good, GoodUI, UI
<1>1. ASSUME NEW i, IndexMasterEdit(i) PROVE IInv'
  BY <1>0, <1>1, RowEntry, Addressing, EditsGood DEF IndexMasterEdit, Edits
<1>2. CASE IndexMasterAdd
  BY <1>0, <1>2, AddsGood DEF IndexMasterAdd
<1>3. CASE IndexMasterSave
  BY <1>0, <1>3, SavesGood DEF IndexMasterSave
<1>4. ASSUME NEW i, IndexMasterDelete(i) PROVE IInv'
  <2>1. i \in DOMAIN ui.rows /\ Do(ui, Ask(reqs, "linked", ui.sel, Id(ui.rows[i]), ui.rows[i]), {})
    BY <1>4 DEF IndexMasterDelete
  <2>2. MayAsk("linked", ui.sel, Id(ui.rows[i]), ui.rows[i])
    BY <1>0, <2>1, RowEntry, Addressing, MayTouch
  <2> QED BY <1>0, <2>1, <2>2, Sent
<1>5. ASSUME NEW r \in reqs, IndexMasterAnswer(r) PROVE IInv'
  <2>1. CASE \E op : Ignored(r, op) \/ Dropped(r, op)
    BY <1>0, <2>1, IgnoredGood
  <2>2. CASE Success(r, "load") /\ Answer(r, Shown(r), reqs \ {r})
    BY <1>0, <2>2, ShownGood DEF Success, Answer, Shown
  <2>3. CASE \E op \in {"save", "add"} : Success(r, op) /\
                Handle(r, Closed(ui), IndexMasterLoad(reqs \ {r}), ClosesForm(r), {})
    BY <1>0, <2>3, RefreshGood DEF Success, IndexMasterLoad, ClosesForm
  <2>4. CASE Success(r, "remove") /\ Answer(r, ui, IndexMasterLoad(reqs \ {r}))
    BY <1>0, <2>4, RefreshGood DEF Success, IndexMasterLoad, Answer
  <2>5. CASE Success(r, "linked") /\
                Answer(r, [ui EXCEPT !.dialog = Asking("remove", ui.sel, r.at, r.want)], reqs \ {r})
    <3> DEFINE d == Asking("remove", ui.sel, r.at, r.want)
               v == [ui EXCEPT !.dialog = d]
    <3>1. r.want \in Items /\ r.at = Id(r.want) /\ r.at \in Addresses
      BY <1>0, <2>5 DEF Success, IInv, Good, GoodRequest, MayAsk
    <3>2. d \in Dialogs /\ GoodDialog(d)
      <4>1. <<>> \in Seq(Marks)
        BY EmptySeq
      <4> QED BY <1>0, <3>1, <4>1 DEF Asking, Dialogs, GoodDialog, Targets
    <3> HIDE DEF d
    <3>3. GoodUI(v) /\ v.busy = {} /\ v.sel = ui.sel
      BY <1>0, <3>2, AskingGood DEF GoodUI, UI
    <3>4. Handle(r, v, reqs \ {r}, {}, {})
      BY <2>5 DEF Answer, d
    <3> HIDE DEF v
    <3> QED BY <3>3, <3>4, Ended DEF Selects
  <2> QED BY <1>5, <2>1, <2>2, <2>3, <2>4, <2>5
          DEF IndexMasterAnswer, IndexMasterShow, IndexMasterSaved, IndexMasterAskDelete,
              IndexMasterDeleted
<1> QED BY <1>1, <1>2, <1>3, <1>4, <1>5 DEF IndexMasterClick

\* What a delete-all has left is a shorter list of marked entries.
LEMMA MarksLeft ==
    ASSUME NEW left \in Seq(Marks), left # <<>>
    PROVE  Last(left) \in Marks /\ Front(left) \in Seq(Marks)
<1>1. Len(left) \in Nat \ {0} /\ DOMAIN left = 1..Len(left)
  BY LenProperties, EmptySeq
<1>2. \A j \in 1..Len(left) : left[j] \in Marks
  BY <1>1, ElementOfSeq
<1>3. SubSeq(left, 1, Len(left) - 1) \in Seq(Marks)
  BY <1>1, <1>2, SubSeqProperties
<1> QED BY <1>1, <1>2, <1>3 DEF Last, Front

LEMMA PurgeGood ==
    ASSUME page = "custom_formats", NEW Q, \A q \in Q : GoodRequest(q), NEW left \in Seq(Marks)
    PROVE  \A q \in CustomFormatsPurge(Q, left) : GoodRequest(q)
<1>0. page \in ByServer /\ page \notin Paged /\ page \notin ById
  BY DEF ByServer, Paged, ById
<1>1. CASE left = <<>>
  BY <1>0, <1>1, MayLoad, AskGood DEF CustomFormatsPurge, CustomFormatsRefresh
<1>2. CASE left # <<>>
  <2> DEFINE x == Last(left)
             q == Request(Q, "purge", Current, Index(x.i), x.want)
             p == [q EXCEPT !.rest = Front(left)]
  <2>1. x.i \in Nat /\ x.want \in Items /\ Front(left) \in Seq(Marks)
    BY <1>2, MarksLeft DEF Marks
  <2>2. Index(x.i) \in Addresses
    BY <2>1, Addressing
  <2> HIDE DEF x
  <2>3. GoodRequest(q)
    BY <1>0, <2>1, <2>2, MayTouch, RequestGood
  <2> HIDE DEF q
  <2>4. GoodRequest(p)
    BY <2>1, <2>3 DEF GoodRequest
  <2>5. CustomFormatsPurge(Q, left) = Q \cup {p}
    BY <1>2 DEF CustomFormatsPurge, q, x
  <2> QED BY <2>4, <2>5
<1> QED BY <1>1, <1>2

\* What an addition of all that was chosen has left.
LEMMA ChosenLeft ==
    ASSUME NEW left \in Seq(Marks), left # <<>>
    PROVE  Tail(left) \in Seq(Marks)
BY HeadTailProperties

LEMMA MayChoose ==
    ASSUME page = "custom_formats", NEW x \in Items
    PROVE  MayAsk("chosen", Current, Nothing, x)
BY Addressing DEF MayAsk, Ops, Targets, ByServer

LEMMA ChosenGood ==
    ASSUME page = "custom_formats", NEW Q, \A q \in Q : GoodRequest(q), NEW x \in Items,
           NEW left \in Seq(Marks)
    PROVE  \A q \in CustomFormatsAddNext(Q, x, left) : GoodRequest(q)
<1>0. page \in ByServer /\ page \notin Paged /\ page \notin ById
  BY DEF ByServer, Paged, ById
<1>1. CASE left = <<>>
  BY <1>0, <1>1, MayLoad, AskGood DEF CustomFormatsAddNext, CustomFormatsRefresh
<1>2. CASE left # <<>>
  <2> DEFINE q == Request(Q, "chosen", Current, Nothing, x)
             p == [q EXCEPT !.rest = Tail(left)]
  <2>1. Tail(left) \in Seq(Marks)
    BY <1>2, ChosenLeft
  <2>2. GoodRequest(q)
    BY MayChoose, RequestGood
  <2> HIDE DEF q
  <2>3. GoodRequest(p)
    BY <2>1, <2>2 DEF GoodRequest
  <2>4. CustomFormatsAddNext(Q, x, left) = Q \cup {p}
    BY <1>2 DEF CustomFormatsAddNext, q
  <2> QED BY <2>3, <2>4
<1> QED BY <1>1, <1>2

\* What the user chose, in order.
LEMMA AllChosen ==
    ASSUME NEW m \in 1..MaxChosen, NEW x \in Items
    PROVE  [n \in 1..m |-> [i |-> n, want |-> x]] \in Seq(Marks)
<1> DEFINE left == [n \in 1..m |-> [i |-> n, want |-> x]]
<1>1. m \in Nat
  BY ListsAssumption DEF ListsAssumption
<1>2. left \in [1..m -> Marks]
  BY <1>1 DEF Marks
<1> QED BY <1>1, <1>2, SeqDef

LEMMA CustomFormatsGood ==
    ASSUME IInv, page = "custom_formats",
           CustomFormatsClick \/ \E r \in reqs : CustomFormatsAnswer(r)
    PROVE  IInv'
<1>0. /\ page \notin Paged /\ page \in ByServer /\ page \notin Late /\ page \notin ById
      /\ GoodUI(ui) /\ ui.busy = {} /\ Current \notin Keys
      /\ \A q \in reqs : GoodRequest(q)
  BY NoButtons, ListsAssumption DEF Paged, ByServer, Late, ById, ListsAssumption, IInv, Good
\* Nothing waits for a request or for a selection here.
<1>a. ASSUME NEW v, GoodUI(v), v.busy = {}, NEW Q, \A q \in Q : GoodRequest(q)
      PROVE  Good(v, Q)
  BY <1>0, <1>a DEF Good, Backed, Settled
<1>1. ASSUME NEW k \in Keys, CustomFormatsChange(k) PROVE IInv'
  BY <1>1, MayPut, ChangeGood DEF CustomFormatsChange
<1>2. ASSUME NEW i, CustomFormatsEdit(i) PROVE IInv'
  BY <1>0, <1>2, RowEntry, Addressing, EditsGood DEF CustomFormatsEdit
<1>3. ASSUME NEW i, CustomFormatsDelete(i) PROVE IInv'
  <2>1. i \in DOMAIN ui.rows /\ AskUser("remove", Current, Index(i), ui.rows[i])
    BY <1>3 DEF CustomFormatsDelete
  <2>2. ui.rows[i] \in Items /\ ui.rows[i] \in Targets /\ Index(i) \in Addresses
    BY <2>1, RowEntry, Addressing DEF Targets
  <2> QED BY <1>0, <2>1, <2>2, AskUserGood
<1>4. CASE CustomFormatsAdd
  BY <1>0, <1>4, AddsGood DEF CustomFormatsAdd
<1>5. CASE CustomFormatsSave
  BY <1>0, <1>5, SavesGood DEF CustomFormatsSave
<1>6. CASE CustomFormatsRunDeleteAll
  <2> DEFINE v == [ui EXCEPT !.dialog = None]
             Q == CustomFormatsPurge(reqs, ui.dialog.rest)
  <2>1. ui.dialog.rest \in Seq(Marks)
    BY <1>0, <1>6 DEF CustomFormatsRunDeleteAll, GoodUI, GoodDialog, Dialogs
  <2>2. \A q \in Q : GoodRequest(q)
    BY <1>0, <2>1, PurgeGood
  <2>3. GoodUI(v) /\ v.busy = {}
    BY <1>0, AnsweredGood DEF GoodUI, UI
  <2>4. Do(v, Q, {})
    BY <1>6 DEF CustomFormatsRunDeleteAll
  <2> HIDE DEF v, Q
  <2> QED BY <1>a, <2>2, <2>3, <2>4, DoGood
<1>7. ASSUME NEW S \in SUBSET DOMAIN ui.rows, CustomFormatsDeleteAll(S) PROVE IInv'
  <2>1. PICK js \in [1..Cardinality(S) -> S] :
            Do([ui EXCEPT !.dialog = [Asking("purge", Current, Nothing, None) EXCEPT
                   !.rest = [n \in DOMAIN js |-> [i |-> js[n], want |-> ui.rows[js[n]]]]]],
               reqs, {})
    BY <1>7 DEF CustomFormatsDeleteAll
  <2> DEFINE rest == [n \in DOMAIN js |-> [i |-> js[n], want |-> ui.rows[js[n]]]]
             d == [Asking("purge", Current, Nothing, None) EXCEPT !.rest = rest]
             v == [ui EXCEPT !.dialog = d]
  <2>2. Cardinality(S) \in Nat
    <3>1. ui.rows \in Seq(Items)
      BY <1>0 DEF GoodUI, UI, Rows
    <3>2. DOMAIN ui.rows = 1..Len(ui.rows) /\ Len(ui.rows) \in Nat
      BY <3>1, LenProperties
    <3>3. IsFiniteSet(DOMAIN ui.rows)
      BY <3>2, FS_Interval
    <3>4. IsFiniteSet(S)
      BY <3>3, FS_Subset
    <3> QED BY <3>4, FS_CardinalityType
  <2>3. \A n \in 1..Cardinality(S) : rest[n] \in Marks
    BY RowEntry DEF Marks
  <2>4. rest \in Seq(Marks)
    <3> DEFINE c == Cardinality(S)
    <3>1. DOMAIN rest = 1..c /\ c \in Nat
      BY <2>2
    <3>2. rest = [n \in 1..c |-> rest[n]]
      BY <3>1
    <3> HIDE DEF rest, c
    <3>3. [n \in 1..c |-> rest[n]] \in [1..c -> Marks]
      BY <2>3 DEF c
    <3> QED BY <3>1, <3>2, <3>3, SeqDef
  <2> HIDE DEF rest
  <2>5. d \in Dialogs /\ GoodDialog(d)
    <3>1. d = [op |-> "purge", key |-> Current, at |-> Nothing, want |-> None, rest |-> rest]
      BY DEF Asking
    <3> HIDE DEF d
    <3> QED BY <1>0, <2>4, <3>1, Addressing DEF Dialogs, GoodDialog, Targets
  <2>6. Do(v, reqs, {})
    BY <2>1 DEF rest
  <2> HIDE DEF d
  <2>7. GoodUI(v) /\ v.busy = {}
    BY <1>0, <2>5, AskingGood DEF GoodUI, UI
  <2> HIDE DEF v
  <2> QED BY <1>0, <1>a, <2>6, <2>7, DoGood
<1>8. ASSUME NEW r \in reqs, CustomFormatsPopulate(r) PROVE IInv'
  <2>1. CASE Dropped(r, "list")
    BY <2>1, IgnoredGood, NoList
  <2>2. CASE Success(r, "list") /\ \E k \in Keys :
                Answer(r, [ui EXCEPT !.sel = k], Ask(reqs \ {r}, "put", k, Nothing, k))
    BY <2>2, PopulateGood, MayPut DEF Success
  <2> QED BY <1>8, <2>1, <2>2 DEF CustomFormatsPopulate
<1>9. ASSUME NEW r \in reqs, CustomFormatsSetCurrent(r) PROVE IInv'
  <2>1. \E why \in SUBSET Excuses :
            Handle(r, ui, Ask(reqs \ {r}, "load", Current, Nothing, None), {}, why)
    BY <1>9 DEF CustomFormatsSetCurrent, CustomFormatsRefresh, Success, Answer, Failure, Excuses
  <2> QED BY <1>0, <2>1, FetchesGood
<1>10. ASSUME NEW r \in reqs, CustomFormatsShow(r) PROVE IInv'
  BY <1>0, <1>10, ShownGood DEF CustomFormatsShow, Success, Answer, Failure, Shown, Excuses
<1>11. ASSUME NEW r \in reqs, CustomFormatsSaved(r) \/ CustomFormatsDeleted(r) PROVE IInv'
  <2>1. CASE \E op : Ignored(r, op) \/ Dropped(r, op)
    BY <1>0, <2>1, IgnoredGood
  <2>2. CASE \E op \in {"save", "add"} : Success(r, op) /\
                Handle(r, Closed(ui), CustomFormatsRefresh(reqs \ {r}), ClosesForm(r), {})
    BY <1>0, <2>2, ClosedGood, FetchesGood DEF CustomFormatsRefresh, ClosesForm
  <2>3. CASE Success(r, "remove") /\ Answer(r, ui, CustomFormatsRefresh(reqs \ {r}))
    BY <1>0, <2>3, FetchesGood DEF Answer, CustomFormatsRefresh
  <2> QED BY <1>11, <2>1, <2>2, <2>3 DEF CustomFormatsSaved, CustomFormatsDeleted
<1>12. ASSUME NEW r \in reqs, CustomFormatsDeleteNext(r) PROVE IInv'
  <2> DEFINE P == reqs \ {r}
             Q == CustomFormatsPurge(P, r.rest)
  <2>1. r.rest \in Seq(Marks)
    BY <1>0 DEF GoodRequest
  <2>2. \A q \in Q : GoodRequest(q)
    BY <1>0, <2>1, PurgeGood
  <2>3. \E why \in SUBSET Excuses : Handle(r, ui, Q, {}, why)
    BY <1>12 DEF CustomFormatsDeleteNext, Answer, Failure, Excuses
  <2> HIDE DEF Q
  <2> QED BY <1>0, <1>a, <2>2, <2>3, HandleGood
<1>13. CASE CustomFormatsSaveChosen
  <2>1. PICK m \in 1..MaxChosen :
            Do(ui, CustomFormatsAddNext(reqs, ui.form, [n \in 1..m |-> [i |-> n, want |-> ui.form]]), {})
    BY <1>13 DEF CustomFormatsSaveChosen
  <2> DEFINE Q == CustomFormatsAddNext(reqs, ui.form, [n \in 1..m |-> [i |-> n, want |-> ui.form]])
  <2>2. \A q \in Q : GoodRequest(q)
    <3>1. ui.form \in Items
      BY <1>0, <1>13 DEF CustomFormatsSaveChosen, GoodUI, UI
    <3> QED BY <1>0, <3>1, AllChosen, ChosenGood
  <2> HIDE DEF Q
  <2> QED BY <1>0, <1>a, <2>1, <2>2, DoGood DEF Q
<1>14. ASSUME NEW r \in reqs, CustomFormatsAdded(r) PROVE IInv'
  <2> DEFINE P == reqs \ {r}
             Q == CustomFormatsAddNext(P, r.want, r.rest)
             v == IF r.rest = <<>> THEN Closed(ui) ELSE ui
             harm == IF r.rest = <<>> THEN ClosesForm(r) ELSE {}
  <2>1. r.rest \in Seq(Marks) /\ r.want \in Items
    BY <1>0, <1>14 DEF GoodRequest, MayAsk, CustomFormatsAdded, Success, Refused
  <2>2. \A q \in Q : GoodRequest(q)
    BY <1>0, <2>1, ChosenGood
  <2>3. GoodUI(v) /\ v.busy = {}
    BY <1>0, ClosedGood
  <2>4. harm \in SUBSET {"form"} /\ \E why \in SUBSET Excuses : Handle(r, v, Q, harm, why)
    BY <1>14 DEF CustomFormatsAdded, ClosesForm, Excuses
  <2> HIDE DEF Q, v, harm
  <2> QED BY <1>0, <1>a, <2>2, <2>3, <2>4, HandleGood
<1> QED
  BY <1>1, <1>2, <1>3, <1>4, <1>5, <1>6, <1>7, <1>8, <1>9, <1>10, <1>11, <1>12, <1>13, <1>14
     DEF CustomFormatsClick, CustomFormatsAnswer

LEMMA IndexersGood ==
    ASSUME IInv, page = "indexers", IndexersClick \/ \E r \in reqs : IndexersAnswer(r)
    PROVE  IInv'
<1>0. /\ page \notin Paged /\ page \in ByServer /\ page \notin Late /\ page \notin ById
      /\ None \notin Keys /\ Added \in Items /\ GoodUI(ui) /\ ui.sel \in Keys \cup {None}
      /\ ui.busy \subseteq {"import"}
      /\ \A B : [ui EXCEPT !.busy = B].busy = B /\ [ui EXCEPT !.busy = B].sel = ui.sel
  BY ListsAssumption DEF Paged, ByServer, Late, ById, ListsAssumption, IInv, Good, GoodUI, UI
<1>1. ASSUME NEW k \in Keys, IndexersChange(k) PROVE IInv'
  BY <1>1, MayPut, ChangeGood DEF IndexersChange
<1>2. ASSUME NEW i, IndexersDelete(i) PROVE IInv'
  <2>1. i \in DOMAIN ui.rows /\ AskUser("remove", Current, Index(i), ui.rows[i])
    BY <1>2 DEF IndexersDelete
  <2>2. ui.rows[i] \in Items /\ ui.rows[i] \in Targets /\ Index(i) \in Addresses
    BY <2>1, RowEntry, Addressing DEF Targets
  <2> QED BY <1>0, <2>1, <2>2, AskUserGood
<1>3. CASE IndexersImport
  <2> DEFINE v == [ui EXCEPT !.busy = ui.busy \cup {"import"}]
  <2>1. ui.sel # None /\ Do(v, Ask(reqs, "add", ui.sel, Nothing, Added), {})
    BY <1>3 DEF IndexersImport
  <2>2. MayAsk("add", ui.sel, Nothing, Added)
    BY <1>0, <2>1, MayAdd
  <2>3. GoodUI(v) /\ v.busy = ui.busy \cup {"import"} /\ v.sel = ui.sel
    BY <1>0, ButtonsGood DEF Buttons
  <2> HIDE DEF v
  <2> QED BY <1>0, <2>1, <2>2, <2>3, Sent DEF Releases
<1>4. ASSUME NEW r \in reqs, IndexersPopulate(r) PROVE IInv'
  <2>1. CASE Dropped(r, "list")
    BY <2>1, IgnoredGood, NoList
  <2>2. CASE Success(r, "list") /\ \E k \in Keys :
                Answer(r, [ui EXCEPT !.sel = k], Ask(reqs \ {r}, "put", k, Nothing, k))
    BY <2>2, PopulateGood, MayPut DEF Success
  <2> QED BY <1>4, <2>1, <2>2 DEF IndexersPopulate
<1>5. ASSUME NEW r \in reqs, IndexersSetCurrent(r) PROVE IInv'
  <2>1. /\ r.op = "put"
        /\ \E why \in SUBSET Excuses :
               Handle(r, ui, Ask(reqs \ {r}, "load", Current, Nothing, None), {}, why)
    BY <1>5 DEF IndexersSetCurrent, IndexersRefresh, Success, Answer, Failure, Excuses
  <2> QED BY <1>0, <2>1, FetchesGood, NoList
<1>6. ASSUME NEW r \in reqs, IndexersShow(r) PROVE IInv'
  <2>1. \A b \in ui.busy : "load" # Releases(b)
    BY <1>0 DEF Releases
  <2> QED BY <1>6, <2>1, ShownGood DEF IndexersShow, Success, Answer, Failure, Shown, Excuses
<1>7. ASSUME NEW r \in reqs, IndexersDeleted(r) PROVE IInv'
  <2>1. CASE Ignored(r, "remove") \/ Dropped(r, "remove")
    BY <2>1, IgnoredGood, NoList
  <2>2. CASE Success(r, "remove") /\ Answer(r, ui, IndexersRefresh(reqs \ {r}))
    BY <1>0, <2>2, FetchesGood, NoList DEF Success, Answer, IndexersRefresh
  <2> QED BY <1>7, <2>1, <2>2 DEF IndexersDeleted
<1>8. ASSUME NEW r \in reqs, IndexersImported(r) PROVE IInv'
  <2> DEFINE v == [ui EXCEPT !.busy = ui.busy \ {"import"}]
  <2>1. GoodUI(v) /\ v.busy = {} /\ v.sel = ui.sel
    BY <1>0, ButtonsGood DEF Buttons
  <2>2. \/ Handle(r, v, Ask(reqs \ {r}, "load", Current, Nothing, None), {}, {})
        \/ \E why \in SUBSET Excuses : Handle(r, v, reqs \ {r}, {}, why)
    BY <1>8 DEF IndexersImported, Success, Refused, Answer, Failure, IndexersRefresh, Excuses
  <2> HIDE DEF v
  <2> QED BY <1>0, <2>1, <2>2, Ended, FetchesGood DEF Selects, Excuses
<1> QED
  BY <1>1, <1>2, <1>3, <1>4, <1>5, <1>6, <1>7, <1>8 DEF IndexersClick, IndexersAnswer

\* The pages of a table: one that is turned to, of this selection or of another.
Turned(v) ==
    \/ v = ui \/ v = [ui EXCEPT !.pos = 1]
    \/ \E k \in Keys : v = [ui EXCEPT !.sel = k, !.pos = 1]
    \/ ui.pos > 1 /\ v = [ui EXCEPT !.pos = @ - 1]
    \/ ui.pos < ui.pages /\ v = [ui EXCEPT !.pos = @ + 1]

LEMMA TurnedGood ==
    ASSUME IInv, page \in Paged, NEW v, Turned(v)
    PROVE  GoodUI(v) /\ v.busy = ui.busy /\ v.sel \in Keys /\ v.pos \in Nat \ {0}
<1>1. page \notin Late \cup ByServer \cup ById
  BY DEF Paged, Late, ByServer, ById
<1>2. GoodUI(ui) /\ ui.sel \in Keys
  BY <1>1, Settles DEF IInv, Good
<1>3. ui \in UI /\ ui.pos \in Nat \ {0} /\ ui.pages \in Nat
  BY <1>2 DEF GoodUI, UI
<1>4. ASSUME NEW p \in Nat \ {0}, v = [ui EXCEPT !.pos = p]
      PROVE  GoodUI(v) /\ v.busy = ui.busy /\ v.sel \in Keys /\ v.pos \in Nat \ {0}
  BY <1>1, <1>2, <1>4 DEF GoodUI, UI
<1>5. ASSUME NEW k \in Keys, v = [ui EXCEPT !.sel = k, !.pos = 1]
      PROVE  GoodUI(v) /\ v.busy = ui.busy /\ v.sel \in Keys /\ v.pos \in Nat \ {0}
  <2> DEFINE w == [ui EXCEPT !.sel = k]
  <2>1. GoodUI(w) /\ w \in UI /\ w.sel = k /\ w.busy = ui.busy
    BY SelectedGood DEF GoodUI
  <2>2. v = [w EXCEPT !.pos = 1]
    BY <1>3, <1>5 DEF UI
  <2> HIDE DEF w
  <2> QED BY <1>1, <2>1, <2>2 DEF GoodUI, UI
<1>6. CASE v = ui
  BY <1>2, <1>3, <1>6
<1>7. CASE v = [ui EXCEPT !.pos = 1]
  BY <1>4, <1>7
<1>8. CASE ui.pos > 1 /\ v = [ui EXCEPT !.pos = @ - 1]
  <2>1. ui.pos - 1 \in Nat \ {0}
    BY <1>3, <1>8
  <2> QED BY <1>4, <1>8, <2>1
<1>9. CASE ui.pos < ui.pages /\ v = [ui EXCEPT !.pos = @ + 1]
  <2>1. ui.pos + 1 \in Nat \ {0}
    BY <1>3
  <2> QED BY <1>4, <1>9, <2>1
<1> QED BY <1>5, <1>6, <1>7, <1>8, <1>9 DEF Turned

\* "clear" is asked about with the application left open, or with it.
LEMMA ClearGood ==
    ASSUME IInv, page \in Paged, NEW key \in {None, ui.sel}, AskUser("clear", key, Nothing, ui.sel)
    PROVE  IInv'
<1>1. page \notin Late \cup ByServer \cup ById
  BY DEF Paged, Late, ByServer, ById
<1>2. ui.sel \in Keys /\ ui.sel \in Targets /\ Nothing \in Addresses
  BY <1>1, Settles, Addressing DEF Targets
<1> QED BY <1>1, <1>2, AskUserGood

\* The count of an answer as a number of pages.
LEMMA PageCount ==
    ASSUME NEW n \in Nat
    PROVE  Max({1, n}) \in Nat \ {0}
<1>1. \E x \in {1, n} : \A y \in {1, n} : x >= y
  OBVIOUS
<1>2. Max({1, n}) \in {1, n} /\ \A y \in {1, n} : Max({1, n}) >= y
  BY <1>1 DEF Max
<1> QED BY <1>2

LEMMA LoadOf ==
    ASSUME IInv, page \in Paged, NEW r \in reqs, r.op = "load"
    PROVE  r.rows \in Rows /\ r.count \in Nat /\ r.at.i \in Nat \ {0}
BY DEF IInv, Good, GoodRequest, MayAsk

LEMMA HistoryGood ==
    ASSUME IInv, page = "history", HistoryClick \/ \E r \in reqs : HistoryAnswer(r)
    PROVE  IInv'
<1>0. /\ page \in Paged /\ page \notin Late \cup ByServer \cup ById
      /\ ui.busy = {} /\ GoodUI(ui) /\ ui.sel \in Keys
  BY NoButtons, Settles DEF Paged, Late, ByServer, ById, IInv, Good
<1>1. ASSUME NEW v, HistoryGo(v), Turned(v) PROVE IInv'
  <2>1. GoodUI(v) /\ v.busy = {} /\ v.sel \in Keys /\ v.pos \in Nat \ {0}
    BY <1>0, <1>1, TurnedGood
  <2>2. MayAsk("load", v.sel, Index(v.pos), None)
    BY <2>1, MayFetch
  <2> QED BY <1>0, <1>1, <2>1, <2>2, Sent DEF HistoryGo, HistoryFetch
<1>2. ASSUME NEW k \in Keys, HistoryChange(k) PROVE IInv'
  BY <1>1, <1>2 DEF HistoryChange, Turned
<1>3. CASE HistoryPage
  BY <1>1, <1>3 DEF HistoryPage, Turned
<1>4. CASE HistoryClear
  BY <1>0, <1>4, ClearGood DEF HistoryClear
<1>5. ASSUME NEW r \in reqs, HistoryFetched(r) PROVE IInv'
  <2>1. CASE Dropped(r, "load")
    BY <1>0, <2>1, IgnoredGood
  <2>2. CASE Success(r, "load") /\ \E why \in SUBSET Excuses :
                Handle(r, HistoryRender(r), reqs \ {r}, {}, why)
    <3>1. r.op = "load" /\ r.rows \in Rows /\ r.count \in Nat /\ <<>> \in Rows
      BY <1>0, <2>2, LoadOf, EmptySeq DEF Success, Rows
    <3>2. GoodUI(HistoryRender(r)) /\ HistoryRender(r).busy = {} /\ HistoryRender(r).sel = ui.sel
      <4> DEFINE D == IF r.rows = <<>> THEN ui.drawing ELSE ui.drawing \cup {r.rows}
      <4>1. D \in SUBSET Rows
        BY <1>0, <3>1 DEF GoodUI, UI
      <4>2. HistoryRender(r) = [ui EXCEPT !.pages = r.count, !.rows = <<>>, !.drawing = D]
        BY DEF HistoryRender
      <4> HIDE DEF D
      <4> QED BY <1>0, <3>1, <4>1, <4>2 DEF GoodUI, UI
    <3> QED BY <2>2, <3>2, Ended DEF Selects
  <2> QED BY <1>5, <2>1, <2>2 DEF HistoryFetched, Excuses
<1>6. ASSUME NEW r \in reqs, HistoryCleared(r) PROVE IInv'
  <2>1. CASE Dropped(r, "clear")
    BY <1>0, <2>1, IgnoredGood
  <2>2. CASE Success(r, "clear") /\ Answer(r, ui, HistoryFetch(ui, reqs \ {r}))
    <3>1. MayAsk("load", ui.sel, Index(ui.pos), None)
      BY <1>0, MayFetch DEF GoodUI, UI
    <3> QED BY <1>0, <2>2, <3>1, EndedAsk DEF Answer, HistoryFetch
  <2> QED BY <1>6, <2>1, <2>2 DEF HistoryCleared
<1> QED BY <1>2, <1>3, <1>4, <1>5, <1>6 DEF HistoryClick, HistoryAnswer

LEMMA DrawnGood == IInv /\ HistoryRenderEntries => IInv'
<1> SUFFICES ASSUME IInv, NEW rows \in ui.drawing,
                    ui' = [ui EXCEPT !.rows = @ \o rows, !.drawing = @ \ {rows}],
                    UNCHANGED <<page, srv, reqs, hist, acts>>
             PROVE  IInv'
  BY DEF HistoryRenderEntries
<1> DEFINE v == [ui EXCEPT !.rows = ui.rows \o rows, !.drawing = ui.drawing \ {rows}]
<1>1. GoodUI(ui) /\ ui.rows \in Seq(Items) /\ rows \in Seq(Items)
  BY DEF IInv, Good, GoodUI, UI, Rows
<1>2. ui.rows \o rows \in Rows
  BY <1>1, ConcatProperties DEF Rows
<1>3. page = "history" /\ page \notin Late
  BY DEF IInv, Good, GoodUI, Late
<1>4. GoodUI(v) /\ v.busy = ui.busy /\ v.sel = ui.sel
  BY <1>1, <1>2, <1>3 DEF GoodUI, UI
<1>5. ui' = v
  OBVIOUS
<1> HIDE DEF v
<1> QED BY <1>4, <1>5, Aside

LEMMA ManagerGood ==
    ASSUME IInv, page = "manager", ManagerClick \/ \E r \in reqs : ManagerAnswer(r)
    PROVE  IInv'
<1>0. /\ page \in Paged /\ page \notin Late \cup ByServer \cup ById
      /\ ui.busy \subseteq {"load"} /\ GoodUI(ui) /\ ui.sel \in Keys
  BY Settles DEF Paged, Late, ByServer, ById, IInv, Good, GoodUI
\* The flag is set together with the request.
<1>a. ASSUME NEW v, Turned(v)
      PROVE  LET w == [v EXCEPT !.busy = {"load"}]
             IN  /\ GoodUI(v) /\ v.busy = ui.busy /\ v.sel \in Keys
                 /\ GoodUI(w) /\ w.busy = {"load"} /\ w.sel \in Keys
                 /\ MayAsk("load", v.sel, Index(v.pos), None)
  <2>1. GoodUI(v) /\ v.busy = ui.busy /\ v.sel \in Keys /\ v.pos \in Nat \ {0}
    BY <1>0, <1>a, TurnedGood
  <2>2. MayAsk("load", v.sel, Index(v.pos), None)
    BY <2>1, MayFetch
  <2> QED BY <1>0, <2>1, <2>2 DEF GoodUI, UI, Buttons
<1>1. ASSUME NEW v, ManagerGo(v), Turned(v) PROVE IInv'
  <2> DEFINE w == [v EXCEPT !.busy = {"load"}]
  <2>1. \/ /\ "load" \in v.busy /\ Do(v, reqs, {"dropped"})
        \/ Do(w, Ask(reqs, "load", v.sel, Index(v.pos), None), {})
    BY <1>1 DEF ManagerGo, ManagerLoad
  <2>2. /\ GoodUI(v) /\ v.busy = ui.busy /\ v.sel \in Keys
        /\ GoodUI(w) /\ w.busy = {"load"} /\ w.sel \in Keys
        /\ MayAsk("load", v.sel, Index(v.pos), None)
    BY <1>1, <1>a
  <2> HIDE DEF w
  <2>3. CASE Do(v, reqs, {"dropped"})
    <3>1. Good(v, reqs)
      BY <1>0, <2>2 DEF IInv, Good, Backed, Settled
    <3> QED BY <2>3, <3>1, DoGood DEF Excuses
  <2>4. CASE Do(w, Ask(reqs, "load", v.sel, Index(v.pos), None), {})
    BY <1>0, <2>2, <2>4, Sent DEF Releases
  <2> QED BY <2>1, <2>3, <2>4
<1>2. ASSUME NEW k \in Keys, ManagerChange(k) PROVE IInv'
  BY <1>1, <1>2 DEF ManagerChange, Turned
<1>3. CASE ManagerPage
  BY <1>1, <1>3 DEF ManagerPage, Turned
<1>4. CASE ManagerClear
  BY <1>0, <1>4, ClearGood DEF ManagerClear
<1>5. ASSUME NEW r \in reqs, ManagerLoaded(r) PROVE IInv'
  <2>1. r.op = "load" /\ r.rows \in Rows /\ r.count \in Nat /\ r.at.i \in Nat \ {0}
    BY <1>0, <1>5, LoadOf DEF ManagerLoaded, Success, Failure
  <2>2. Max({1, r.count}) \in Nat \ {0}
    BY <2>1, PageCount
  <2>3. /\ GoodUI(ManagerDisplay(r)) /\ ManagerDisplay(r).busy = {} /\ ManagerDisplay(r).sel = ui.sel
        /\ GoodUI([ui EXCEPT !.busy = {}]) /\ [ui EXCEPT !.busy = {}].busy = {}
        /\ [ui EXCEPT !.busy = {}].sel = ui.sel
    BY <1>0, <2>1, <2>2 DEF ManagerDisplay, GoodUI, UI
  <2> QED BY <1>5, <2>3, Ended
          DEF ManagerLoaded, Success, Answer, Failure, Selects, Excuses
<1>6. ASSUME NEW r \in reqs, ManagerCleared(r) PROVE IInv'
  <2>1. CASE Dropped(r, "clear")
    BY <2>1, IgnoredGood, NoList
  <2>2. CASE Success(r, "clear") /\
                LET l == ManagerLoad(ui, reqs \ {r}) IN Handle(r, l[1], l[2], {}, l[3])
    <3> DEFINE w == [ui EXCEPT !.busy = {"load"}]
    <3>1. \/ Handle(r, ui, reqs \ {r}, {}, {"dropped"})
          \/ Handle(r, w, Ask(reqs \ {r}, "load", ui.sel, Index(ui.pos), None), {}, {})
      BY <2>2 DEF ManagerLoad
    <3>2. /\ GoodUI(w) /\ w.busy = {"load"} /\ w.sel \in Keys
          /\ MayAsk("load", ui.sel, Index(ui.pos), None)
      BY <1>a DEF Turned
    <3>3. r.op = "clear"
      BY <2>2 DEF Success
    <3> HIDE DEF w
    <3>4. CASE Handle(r, ui, reqs \ {r}, {}, {"dropped"})
      BY <1>0, <3>3, <3>4, Ended, NoList DEF Selects, Excuses
    <3>5. CASE Handle(r, w, Ask(reqs \ {r}, "load", ui.sel, Index(ui.pos), None), {}, {})
      BY <1>0, <3>2, <3>5, EndedAsk DEF Releases
    <3> QED BY <3>1, <3>4, <3>5
  <2> QED BY <1>6, <2>1, <2>2 DEF ManagerCleared
<1> QED BY <1>2, <1>3, <1>4, <1>5, <1>6 DEF ManagerClick, ManagerAnswer

LEMMA SnipeHistoryGood ==
    ASSUME IInv, page = "snipe_history", SnipeClick \/ \E r \in reqs : SnipeAnswer(r)
    PROVE  IInv'
<1>0. /\ page \in Paged /\ page \notin Late \cup ByServer \cup ById
      /\ ui.busy = {} /\ GoodUI(ui) /\ ui.sel \in Keys
  BY NoButtons, Settles DEF Paged, Late, ByServer, ById, IInv, Good
<1>1. ASSUME NEW v, SnipeGo(v), Turned(v) PROVE IInv'
  <2>1. GoodUI(v) /\ v.busy = {} /\ v.sel \in Keys /\ v.pos \in Nat \ {0}
    BY <1>0, <1>1, TurnedGood
  <2>2. MayAsk("load", v.sel, Index(v.pos), None)
    BY <2>1, MayFetch
  <2> QED BY <1>0, <1>1, <2>1, <2>2, Sent DEF SnipeGo, SnipeLoad
<1>2. ASSUME NEW k \in Keys, SnipeFilter(k) PROVE IInv'
  BY <1>1, <1>2 DEF SnipeFilter, Turned
<1>3. CASE SnipePage
  BY <1>1, <1>3 DEF SnipePage, Turned
<1>4. CASE SnipeClear
  BY <1>0, <1>4, ClearGood DEF SnipeClear
<1>5. ASSUME NEW r \in reqs, SnipeShow(r) PROVE IInv'
  <2>1. CASE Dropped(r, "load")
    BY <1>0, <2>1, IgnoredGood
  <2>2. CASE Success(r, "load") /\
                Answer(r, [ui EXCEPT !.pages = Max({1, r.count}), !.pos = r.at.i, !.rows = r.rows],
                       reqs \ {r})
    <3> DEFINE v == [ui EXCEPT !.pages = Max({1, r.count}), !.pos = r.at.i, !.rows = r.rows]
    <3>1. r.op = "load" /\ r.rows \in Rows /\ r.count \in Nat /\ r.at.i \in Nat \ {0}
      BY <1>0, <2>2, LoadOf DEF Success
    <3>2. Max({1, r.count}) \in Nat \ {0}
      BY <3>1, PageCount
    <3>3. GoodUI(v) /\ v.busy = {} /\ v.sel = ui.sel
      BY <1>0, <3>1, <3>2 DEF GoodUI, UI
    <3>4. Handle(r, v, reqs \ {r}, {}, {})
      BY <2>2 DEF Answer
    <3> HIDE DEF v
    <3> QED BY <3>3, <3>4, Ended DEF Selects
  <2> QED BY <1>5, <2>1, <2>2 DEF SnipeShow
<1>6. ASSUME NEW r \in reqs, SnipeCleared(r) PROVE IInv'
  <2> DEFINE v == [ui EXCEPT !.pos = 1]
  <2>1. CASE Dropped(r, "clear")
    BY <1>0, <2>1, IgnoredGood
  <2>2. CASE Answer(r, v, SnipeLoad(v, reqs \ {r}))
    <3>1. GoodUI(v) /\ v.busy = {} /\ v.sel \in Keys /\ v.pos \in Nat \ {0}
      BY <1>0, TurnedGood DEF Turned
    <3>2. MayAsk("load", v.sel, Index(v.pos), None)
      BY <3>1, MayFetch
    <3> HIDE DEF v
    <3> QED BY <1>0, <2>2, <3>1, <3>2, EndedAsk DEF Answer, SnipeLoad
  <2> QED BY <1>6, <2>1, <2>2 DEF SnipeCleared
<1> QED BY <1>2, <1>3, <1>4, <1>5, <1>6 DEF SnipeClick, SnipeAnswer

-----------------------------------------------------------------------------
(* The specification.                                                      *)

LEMMA InitGood == Init => IInv
<1> SUFFICES ASSUME Init PROVE IInv
  OBVIOUS
<1>1. /\ page \in Pages /\ acts \in 0..MaxActs[page]
      /\ srv \in [lists : [Keys -> Rows], now : Keys]
      /\ hist = [harm |-> {}, excuse |-> {}]
  <2>1. Stored \in [Keys -> Rows]
    <3>1. \A k \in Keys : Stored[k] \in Seq(Items)
      <4> SUFFICES ASSUME NEW k \in Keys PROVE Stored[k] \in Seq(Items)
        OBVIOUS
      <4>1. Stored[k] \in Seq(Items \ {Added})
        BY ListsAssumption DEF ListsAssumption
      <4> QED BY <4>1, SeqDef
    <3> QED BY <3>1, ListsAssumption DEF ListsAssumption, Rows
  <2> QED BY <2>1, ListsAssumption DEF Init, ListsAssumption
<1>2. Good(ui, reqs)
  <2>0. /\ None \notin Keys \cup Items /\ <<>> \in Rows /\ Nothing \in Addresses
        /\ Index(1) \in Addresses
    BY ListsAssumption, EmptySeq, Addressing DEF ListsAssumption, Rows
  <2>1. PICK k \in Keys : Entry(page, k)
    BY DEF Init
  <2>2. CASE page \in ByServer \cup Late
    <3>1. /\ ui = Blank(None)
          /\ reqs = {Request({}, "list", None, Nothing, None)}
      BY <2>1, <2>2 DEF Entry, Late
    <3>2. MayAsk("list", None, Nothing, None)
      BY <2>0 DEF MayAsk, Ops, Targets
    <3>3. \A r \in reqs : GoodRequest(r) /\ r.op = "list"
      BY <3>1, <3>2, RequestGood DEF Request
    <3>4. GoodUI(ui) /\ ui.busy = {}
      BY <2>0, <2>2, <3>1 DEF Blank, GoodUI, UI, ByServer, Late, ById
    <3> QED BY <3>3, <3>4 DEF Good, Backed, Settled
  <2>3. CASE page \notin ByServer \cup Late
    <3> DEFINE at == IF page \in Paged THEN Index(1) ELSE Nothing
               B == IF page = "manager" THEN {"load"} ELSE {}
    <3>1. /\ ui = [Blank(k) EXCEPT !.busy = B]
          /\ reqs = {Request({}, "load", k, at, None)}
      BY <2>1, <2>3 DEF Entry, Late
    <3>2. MayAsk("load", k, at, None)
      BY MayFetch, MayLoad
    <3> HIDE DEF at
    <3>3. \A r \in reqs : GoodRequest(r) /\ r.op = "load"
      BY <3>1, <3>2, RequestGood DEF Request
    <3>4. GoodUI(ui) /\ ui.busy \subseteq {"load"} /\ ui.sel \in Keys
      BY <2>0, <2>3, <3>1 DEF Blank, GoodUI, UI, Buttons, ById
    <3> QED BY <2>3, <3>1, <3>3, <3>4 DEF Good, Backed, Settled, Releases
  <2> QED BY <2>2, <2>3
<1> QED BY <1>1, <1>2 DEF IInv

\* A behaviour is one visit; only the server's own steps and another tab change
\* the server.
LEMMA StepKeeps ==
    ASSUME [Next]_vars
    PROVE  page' = page /\ (srv' = srv \/ OtherTab \/ \E r \in reqs : Serve(r))
<1> DEFINE Kept == page' = page /\ srv' = srv
<1>1. /\ \A u, Q, why : Do(u, Q, why) => Kept
      /\ \A r, u, Q, harm, why : Handle(r, u, Q, harm, why) => Kept
  BY DEF Do, Handle
<1>2. /\ \A op, key, at, want : AskUser(op, key, at, want) => Kept
      /\ \A key : Saves(key) => Kept
      /\ \A at, i : Edits(at, i) => Kept
      /\ \A r, u, Q : Answer(r, u, Q) => Kept
      /\ \A r, op, u, Q : Failure(r, op, u, Q) => Kept
      /\ \A r, op : Ignored(r, op) \/ Dropped(r, op) => Kept
      /\ Confirm \/ Cancel \/ CloseForm => Kept
  BY <1>1 DEF AskUser, Saves, Edits, Answer, Failure, Ignored, Dropped, Confirm, Cancel, CloseForm
<1> HIDE DEF Kept
<1>3. ASSUME Click PROVE Kept
  <2>1. CustomFormatsClick => Kept
    BY <1>1, <1>2 DEF CustomFormatsClick, CustomFormatsChange, CustomFormatsEdit,
       CustomFormatsDelete, CustomFormatsAdd, CustomFormatsSave, CustomFormatsSaveChosen,
       CustomFormatsRunDeleteAll, CustomFormatsDeleteAll
  <2>2. IndexersClick \/ RootFoldersClick => Kept
    BY <1>1, <1>2 DEF IndexersClick, IndexersChange, IndexersDelete, IndexersImport,
       RootFoldersClick, RootFoldersChange, RootFoldersSetDefault, RootFoldersDelete,
       RootFoldersTest, RootFoldersAdd
  <2>3. BrowseClick \/ RemoteMappingsClick => Kept
    BY <1>1, <1>2 DEF BrowseClick, BrowseGo, BrowseRename, BrowseDelete, BrowseCreate,
       RemoteMappingsClick, RemoteMappingsEdit, RemoteMappingsAdd, RemoteMappingsSave,
       RemoteMappingsDelete
  <2>4. ImportListsClick \/ IndexMasterClick => Kept
    BY <1>1, <1>2 DEF ImportListsClick, ImportListsChange, ImportListsTouch, ImportListsEdit,
       ImportListsAdd, ImportListsSaveNew, ImportListsSave, ImportListsDelete,
       IndexMasterClick, IndexMasterEdit, IndexMasterDelete, IndexMasterAdd, IndexMasterSave
  <2>5. HistoryClick \/ ManagerClick \/ SnipeClick => Kept
    BY <1>1, <1>2 DEF HistoryClick, HistoryChange, HistoryPage, HistoryClear, HistoryGo,
       ManagerClick, ManagerChange, ManagerPage, ManagerClear, ManagerGo,
       SnipeClick, SnipeFilter, SnipePage, SnipeClear, SnipeGo
  <2> QED BY <1>2, <1>3, <2>1, <2>2, <2>3, <2>4, <2>5 DEF Click
<1>4. ASSUME NEW r, Ends(r) PROVE Kept
  <2>1. CustomFormatsAnswer(r) \/ IndexersAnswer(r) => Kept
    BY <1>1, <1>2 DEF CustomFormatsAnswer, CustomFormatsPopulate, CustomFormatsSetCurrent,
       CustomFormatsShow, CustomFormatsSaved, CustomFormatsAdded, CustomFormatsDeleted, CustomFormatsDeleteNext,
       IndexersAnswer, IndexersPopulate, IndexersSetCurrent, IndexersShow, IndexersDeleted,
       IndexersImported
  <2>2. RootFoldersAnswer(r) \/ BrowseAnswer(r) \/ RemoteMappingsAnswer(r) => Kept
    BY <1>1, <1>2 DEF RootFoldersAnswer, RootFoldersPopulate, RootFoldersShow,
       RootFoldersDefaultSet, RootFoldersTested, RootFoldersAdded, RootFoldersDeleted,
       BrowseAnswer, BrowseShow, BrowseChanged,
       RemoteMappingsAnswer, RemoteMappingsShow, RemoteMappingsSaved, RemoteMappingsDeleted
  <2>3. ImportListsAnswer(r) \/ IndexMasterAnswer(r) => Kept
    BY <1>1, <1>2 DEF ImportListsAnswer, ImportListsPopulate, ImportListsShow,
       ImportListsTouched, ImportListsOpened, ImportListsSaved, ImportListsDeleted,
       IndexMasterAnswer, IndexMasterShow, IndexMasterSaved, IndexMasterAskDelete,
       IndexMasterDeleted
  <2>4. HistoryAnswer(r) \/ ManagerAnswer(r) \/ SnipeAnswer(r) => Kept
    BY <1>1, <1>2 DEF HistoryAnswer, HistoryFetched, HistoryCleared, ManagerAnswer,
       ManagerLoaded, ManagerCleared, SnipeAnswer, SnipeShow, SnipeCleared
  <2> QED BY <1>4, <2>1, <2>2, <2>3, <2>4 DEF Ends
<1>5. HistoryRenderEntries \/ UNCHANGED vars => Kept
  BY DEF HistoryRenderEntries, vars, Kept
<1>6. (\E r : Serve(r)) \/ OtherTab => page' = page
  BY DEF Serve, OtherTab
<1>7. ASSUME NEW r, Fail(r) PROVE Kept
  BY <1>7 DEF Fail, Kept
<1> QED BY <1>3, <1>4, <1>5, <1>6, <1>7 DEF Next, Network, Kept

LEMMA StepGood == IInv /\ [Next]_vars => IInv'
<1> SUFFICES ASSUME IInv, [Next]_vars PROVE IInv'
  OBVIOUS
<1>1. CASE Click
  BY <1>1, CustomFormatsGood, IndexersGood, RootFoldersGood, BrowseGood, RemoteMappingsGood,
     ImportListsGood, IndexMasterGood, HistoryGood, ManagerGood, SnipeHistoryGood,
     ConfirmGood, CancelGood
     DEF Click
<1>2. ASSUME NEW r \in reqs, Ends(r) PROVE IInv'
  BY <1>2, CustomFormatsGood, IndexersGood, RootFoldersGood, BrowseGood, RemoteMappingsGood,
     ImportListsGood, IndexMasterGood, HistoryGood, ManagerGood, SnipeHistoryGood
     DEF Ends
<1>3. CASE Network
  BY <1>2, <1>3, ServeGood, FailGood DEF Network
<1>4. CASE HistoryRenderEntries
  BY <1>4, DrawnGood
<1>5. CASE OtherTab
  BY <1>5, OtherTabGood
<1>6. CASE UNCHANGED vars
  BY <1>6, GoodNext DEF vars, IInv
<1> QED BY <1>1, <1>3, <1>4, <1>5, <1>6 DEF Next

LEMMA Invariance == Spec => []IInv
BY InitGood, StepGood, PTL DEF Spec

\* The state of each of the ten pages, and of the server, stays well typed: a
\* page number is never 0, whatever the order of the answers
\* (hunt_manager.js and indexer-hunt-history.js take it from the answer).
THEOREM TypeCorrect == Spec => []TypeOK
<1>1. IInv => TypeOK
  BY DEF IInv, Good, GoodUI, UI, TypeOK, Buttons
<1> QED BY <1>1, Invariance, PTL

\* No button stays disabled and no flag set when nothing is unanswered: every
\* way a request ends (success, refusal, failure) releases what it held.
THEOREM ButtonsReleased == Spec => []Released
<1>1. IInv => Released
  BY DEF IInv, Good, GoodUI, UI, Backed, Released
<1> QED BY <1>1, Invariance, PTL
=============================================================================
