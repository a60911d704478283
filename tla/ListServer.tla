------------------------------ MODULE ListServer ------------------------------
(***************************************************************************)
(* The list pages of the web interface and the server they talk to: the    *)
(* requests.  A page shows a list that the server keeps for the selected   *)
(* key (an instance, an application, a filter, a directory) and offers to  *)
(* remove, edit or clear its entries.  A request is handled by the server  *)
(* at one moment and its answer reaches the page at a later one; requests  *)
(* and answers may overtake each other and may be lost.  Module Lists has  *)
(* the pages.                                                              *)
(*                                                                         *)
(* The movie and TV halves of a page run the same code over another        *)
(* address: they are two keys.  A page of a paged table holds one entry.   *)
(***************************************************************************)
EXTENDS Naturals, FiniteSets, SequencesExt

CONSTANTS Keys,      \* what the selector of the page offers
          Items,     \* entries of the lists
          Stored,    \* the lists the server starts with
          Added,     \* the entry a page may add
          None,      \* no selection, no dialog, no form
          Current,   \* the address "the current instance, as the server knows it"
          MaxActs,   \* bound of each page: operations of the user and of another tab,
                     \* failures of the server
          MaxChosen  \* bound: custom formats chosen at once from the list offered

Paged    == {"history", "manager", "snipe_history"}
Unkeyed  == {"remote_mappings", "index_master"}  \* one list, no selector
ByServer == {"custom_formats", "indexers"}       \* requests name no instance
Pages    == Paged \cup Unkeyed \cup ByServer \cup {"root_folders", "browse", "import_lists"}

ASSUME ListsAssumption ==
    /\ Stored \in [Keys -> Seq(Items \ {Added})]
    /\ \A k, l \in Keys : \A i \in DOMAIN Stored[k], j \in DOMAIN Stored[l] :
           Stored[k][i] = Stored[l][j] => k = l /\ i = j
    /\ Added \in Items /\ None \notin Keys \cup Items /\ Current \notin Keys
    /\ MaxActs \in [Pages -> Nat] /\ MaxChosen \in Nat

VARIABLES
    page,  \* the page visited: a behaviour is one visit
    ui,    \* its state
    srv,   \* the server: the lists, the current instance
    reqs,  \* requests sent and not yet answered
    hist,  \* what went wrong (harm), and what may explain it (excuse)
    acts   \* operations so far

vars == <<page, ui, srv, reqs, hist, acts>>

---------------------------------------------------------------------------
Removals == {"remove", "purge"}  \* purge: one step of a delete-all
Adds     == {"add", "chosen"}    \* chosen: one step of adding all that was chosen

\* An address: a position in the list, an id, or none.
Index(i) == [by |-> "index", i |-> i]
Id(x)    == [by |-> "id", i |-> x]
Nothing  == [by |-> "nothing", i |-> 0]

\* "want" is the entry, or key, the user means; only the properties read it
\* when it is not part of the request.  rest: what a delete-all, or an
\* addition of all that was chosen, has left.
Request(Q, op, key, at, want) ==
    [n |-> 1 + Max({r.n : r \in Q} \cup {0}),
     op |-> op, key |-> key, at |-> at, want |-> want,
     st |-> "sent", ok |-> FALSE, rows |-> <<>>, count |-> 0, rest |-> <<>>]

Ask(Q, op, key, at, want) == Q \cup {Request(Q, op, key, at, want)}

Key(r) == IF r.key = Current THEN srv.now ELSE r.key

\* The entries of list k that an address names.
Named(k, at) ==
    CASE at.by = "index"   -> {srv.lists[k][i] : i \in {at.i} \cap DOMAIN srv.lists[k]}
      [] at.by = "id"      -> {at.i} \cap Range(srv.lists[k])
      [] at.by = "nothing" -> {}

\* A list without the entry that an address named: entries are distinct.
Without(s, x) ==
    IF \E i \in DOMAIN s : s[i] \in x
    THEN RemoveAt(s, CHOOSE i \in DOMAIN s : s[i] \in x) ELSE s

RowsAt(k, p) ==
    IF page \notin Paged THEN srv.lists[k]
    ELSE IF p \in DOMAIN srv.lists[k] THEN <<srv.lists[k][p]>> ELSE <<>>

Earlier(r)   == {q \in reqs : q.n < r.n}
Excused(why) == [hist EXCEPT !.excuse = @ \cup why]

---------------------------------------------------------------------------
\* The server handles a request.  What addresses the current instance goes
\* to the one the server has at that moment.  An entry that is not there
\* refuses its request.
Serve(r) ==
    LET k == Key(r)
        x == Named(k, r.at)
    IN /\ r.st = "sent"
       /\ reqs' = (reqs \ {r}) \cup
             {[r EXCEPT !.st = "done",
                        !.ok = r.op \in Removals \cup {"save", "open"} => x # {},
                        !.rows = CASE r.op = "load" -> RowsAt(k, r.at.i)
                                   [] r.op = "open" -> SetToSeq(x)
                                   [] OTHER -> <<>>,
                        !.count = IF r.op = "load" THEN Len(srv.lists[k]) ELSE 0]}
       /\ srv' = CASE r.op = "put"    -> [srv EXCEPT !.now = r.want]
                   [] r.op \in Removals -> [srv EXCEPT !.lists[k] = Without(@, x)]
                   [] r.op = "clear"  -> [srv EXCEPT !.lists = [l \in Keys |->
                                             IF l = k \/ page = "snipe_history" THEN <<>> ELSE @[l]]]
                   [] r.op \in Adds /\ ~Contains(srv.lists[k], Added)
                                      -> [srv EXCEPT !.lists[k] = Append(@, Added)]
                   [] OTHER           -> srv
       /\ hist' = [harm   |-> hist.harm \cup
                               (IF r.op \in Removals \cup {"save"} /\ ~(x \subseteq {r.want})
                                THEN {r.op} ELSE {}),
                   excuse |-> hist.excuse \cup
                               (IF \E q \in Earlier(r) : q.st = "sent"
                                THEN {"reordered"} ELSE {})]
       /\ UNCHANGED <<page, ui, acts>>

\* The server fails (its database, the disk): it refuses a change, and answers
\* a fetch with an empty list, of a paged table the first page of none.  A
\* refused clearing ends for the page as a lost one does.
Fail(r) ==
    /\ acts < MaxActs[page] /\ acts' = acts + 1
    /\ r.st = "sent" /\ r.op \in Removals \cup Adds \cup {"save", "load"}
    /\ reqs' = (reqs \ {r}) \cup
           {[r EXCEPT !.st = "done", !.ok = r.op = "load", !.rows = <<>>,
                      !.at = IF r.op = "load" /\ page \in Paged THEN Index(1) ELSE @]}
    /\ hist' = Excused((IF r.op = "load" THEN {"failed"} ELSE {}) \cup
                       (IF \E q \in Earlier(r) : q.st = "sent" THEN {"reordered"} ELSE {}))
    /\ UNCHANGED <<page, ui, srv>>

\* Another tab removes an entry, or makes another instance the current one.
OtherTab ==
    /\ acts < MaxActs[page]
    /\ acts' = acts + 1
    /\ \/ \E k \in Keys : /\ srv.lists[k] # <<>>
                          /\ srv' = [srv EXCEPT !.lists[k] = Tail(@)]
       \/ /\ page \in ByServer
          /\ \E k \in Keys \ {srv.now} : srv' = [srv EXCEPT !.now = k]
    /\ hist' = Excused({"other"})
    /\ UNCHANGED <<page, ui, reqs>>

=============================================================================
