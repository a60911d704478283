--------------------------- MODULE Sections_proofs ---------------------------
(***************************************************************************)
(* Proofs about Sections: edits are asked about, the address follows the   *)
(* section, the log view shows what is selected, what polls belongs to the *)
(* section shown, and type correctness.                                    *)
(*                                                                         *)
(* The invariant is in three parts.  NInv: a page whose typed edits are    *)
(* flagged (until the user was asked twice) and whose address matches its  *)
(* section or is on its way there (Steady).  VInv: of the log view's       *)
(* requests at most one decides about the interval, and the rows under way *)
(* are those selected.  HInv: the home page's polls follow the section.    *)
(***************************************************************************)
EXTENDS Sections, WellFoundedInduction, TLAPS

-----------------------------------------------------------------------------
(* Induction.  The library's rule takes an operator; with a set in its     *)
(* place it follows from the order of the natural numbers.                 *)

LEMMA Least ==
    ASSUME NEW T \in SUBSET Nat, T # {}
    PROVE  \E m \in T : \A n \in T : m <= n
<1> DEFINE R == {ss \in Nat \X Nat : ss[1] < ss[2]}
<1>1. R = OpToRel(<, Nat)
  BY DEF OpToRel
<1>2. \E x \in T : \A y \in T : ~(<<y, x>> \in R)
  BY <1>1, NatLessThanWellFounded, WFMin
<1>3. \A x, y \in Nat : <<y, x>> \in R <=> y < x
  OBVIOUS
<1> HIDE DEF R
<1>4. PICK x \in T : \A y \in T : ~(<<y, x>> \in R)
  BY <1>2
<1>5. \A y \in T : ~(y < x) /\ y \in Nat /\ x \in Nat
  BY <1>3, <1>4
<1> QED BY <1>5

LEMMA Induction ==
    ASSUME NEW T \in SUBSET Nat, 0 \in T, \A n \in T : n + 1 \in T
    PROVE  T = Nat
<1> SUFFICES ASSUME Nat \ T # {} PROVE FALSE
  OBVIOUS
<1>1. PICK m \in Nat \ T : \A n \in Nat \ T : m <= n
  BY Least
<1>2. m # 0 /\ m - 1 \in Nat
  BY <1>1
<1>3. m - 1 \in T
  BY <1>1, <1>2
<1> QED BY <1>1, <1>2, <1>3

\* Escape: the page after each question is what the definition says.
LEMMA EscapedSteps ==
    ASSUME NEW n, Len(n.asks) \in Nat
    PROVE  Escaped(n) = [i \in 0..Len(n.asks) |->
                           IF i = 0 THEN n
                           ELSE IF Escaped(n)[i - 1].open
                                THEN Answering(Escaped(n)[i - 1], n.asks[i])
                                ELSE Escaped(n)[i - 1]]
<1> DEFINE Step(s, i) == IF s.open THEN Answering(s, n.asks[i]) ELSE s
           Is(m, k)   == m = [i \in 0..k |-> IF i = 0 THEN n ELSE Step(m[i - 1], i)]
           T          == {k \in Nat : \E m : Is(m, k)}
<1>1. 0 \in T
  <2> DEFINE m == [i \in 0..0 |-> n]
  <2>1. Is(m, 0)
    OBVIOUS
  <2> QED BY <2>1
<1>2. ASSUME NEW k \in T PROVE k + 1 \in T
  <2>1. PICK m : Is(m, k)
    OBVIOUS
  <2> DEFINE x == [i \in 0..(k + 1) |-> IF i <= k THEN m[i] ELSE Step(m[k], k + 1)]
  <2> HIDE DEF Step
  <2>2. k \in Nat
    OBVIOUS
  <2>3. \A i \in 0..k : x[i] = m[i]
    BY <2>2
  <2>4. \A i \in 0..k : m[i] = IF i = 0 THEN n ELSE Step(m[i - 1], i)
    BY <2>1, <2>2
  <2>5. x[k + 1] = Step(m[k], k + 1)
    BY <2>2
  <2>6. \A i \in 0..(k + 1) : x[i] = IF i = 0 THEN n ELSE Step(x[i - 1], i)
    <3> HIDE DEF x
    <3> SUFFICES ASSUME NEW i \in 0..(k + 1) PROVE x[i] = IF i = 0 THEN n ELSE Step(x[i - 1], i)
      OBVIOUS
    <3>1. CASE i = k + 1
      <4>1. i # 0 /\ i - 1 = k /\ k \in 0..k
        BY <2>2, <3>1
      <4>2. x[k] = m[k]
        BY <2>3, <4>1
      <4> QED BY <2>5, <3>1, <4>1, <4>2
    <3>2. CASE i = 0
      BY <2>2, <2>3, <2>4, <3>2
    <3>3. CASE i # k + 1 /\ i # 0
      <4>1. i \in 0..k /\ i - 1 \in 0..k
        BY <2>2, <3>3
      <4> QED BY <2>3, <2>4, <3>3, <4>1
    <3> QED BY <3>1, <3>2, <3>3
  <2>7. Is(x, k + 1)
    BY <2>6
  <2> QED BY <2>2, <2>7
<1>3. T = Nat
  <2> HIDE DEF T
  <2>1. T \subseteq Nat
    BY DEF T
  <2> QED BY <1>1, <1>2, <2>1, Induction
<1>4. \E m : Is(m, Len(n.asks))
  BY <1>3
<1>5. Escaped(n) = CHOOSE m : Is(m, Len(n.asks))
  BY DEF Escaped
<1> HIDE DEF Is
<1>6. Is(Escaped(n), Len(n.asks))
  BY <1>4, <1>5
<1> QED BY <1>6 DEF Is

\* What every answer keeps, Escape keeps.
LEMMA EscapedKeeps ==
    ASSUME NEW P, NEW n \in P, Len(n.asks) \in Nat,
           \A s \in P : \A i \in 1..Len(n.asks) : s.open => Answering(s, n.asks[i]) \in P
    PROVE  \A i \in 0..Len(n.asks) : Escaped(n)[i] \in P
<1> DEFINE T == {k \in Nat : k <= Len(n.asks) => Escaped(n)[k] \in P}
<1>1. \A i \in 0..Len(n.asks) :
         Escaped(n)[i] = IF i = 0 THEN n
                         ELSE IF Escaped(n)[i - 1].open
                              THEN Answering(Escaped(n)[i - 1], n.asks[i])
                              ELSE Escaped(n)[i - 1]
  BY EscapedSteps
<1>2. 0 \in T
  BY <1>1
<1>3. ASSUME NEW k \in T PROVE k + 1 \in T
  <2>1. CASE k + 1 <= Len(n.asks)
    <3>1. k \in Nat /\ k + 1 \in 0..Len(n.asks) /\ k + 1 \in 1..Len(n.asks) /\ k + 1 # 0 /\ (k + 1) - 1 = k
      BY <2>1
    <3>2. Escaped(n)[k] \in P
      BY <2>1, <3>1
    <3> QED BY <1>1, <2>1, <3>1, <3>2
  <2> QED BY <2>1
<1>4. T = Nat
  <2> HIDE DEF T
  <2>1. T \subseteq Nat
    BY DEF T
  <2> QED BY <1>2, <1>3, <2>1, Induction
<1> QED BY <1>4

-----------------------------------------------------------------------------
(* Names of sections.                                                      *)

Targets == (Hashes \ {"sonarr-settings"}) \cup {"instance-editor"}
Flags   == Editors \cup {"_hasUnsavedChanges"}

LEMMA SectionNames ==
    /\ Sections = {"home", "sonarr", "swaparr", "settings-profiles", "settings-media-management",
                   "logs", "elsewhere", "instance-editor", "profile-editor", "media-snipe-instances"}
    /\ Hashes = {"home", "sonarr", "swaparr", "settings-profiles", "settings-media-management",
                 "logs", "elsewhere", "media-snipe-instances", "sonarr-settings"}
    /\ Targets = {"home", "sonarr", "swaparr", "settings-profiles", "settings-media-management",
                  "logs", "elsewhere", "media-snipe-instances", "instance-editor"}
<1>1. UNION {Links[s] : s \in DOMAIN Links}
        = Links["forms"] \cup Links["logs"] \cup Links["stats"] \cup Links["home"]
  <2>1. DOMAIN Links = {"forms", "logs", "stats", "home"}
    BY DEF Links
  <2> QED BY <2>1
<1>2. UNION {Links[s] : s \in DOMAIN Links}
        = {"home", "sonarr", "swaparr", "settings-profiles", "settings-media-management", "logs", "elsewhere"}
  BY <1>1 DEF Links
<1> QED BY <1>2 DEF Sections, Hashes, Targets

LEMMA FormNames ==
    /\ Forms = {"swaparr", "instance-editor", "profile-editor", "settings-media-management"}
    /\ Editors = {"instance-editor", "profile-editor", "settings-media-management"}
    /\ Flags = {"instance-editor", "profile-editor", "settings-media-management", "_hasUnsavedChanges"}
    /\ Forms \subseteq Sections /\ Targets \subseteq Sections /\ \A s \in Forms : FlagOf(s) \in Flags
BY SectionNames DEF Forms, Editors, Flags, FlagOf

LEMMA Redirection ==
    ASSUME NEW s
    PROVE  /\ Redirect(s) \in {s, "home"} /\ Redirect(Redirect(s)) = Redirect(s)
           /\ s \notin ThirdParty \/ nav.thirdParty => Redirect(s) = s
           /\ Shown(s) \in {s, "home"} /\ (s # "elsewhere" => Shown(s) = s) /\ Shown("elsewhere") = "home"
BY DEF Redirect, ThirdParty, Shown

-----------------------------------------------------------------------------
(* Type correctness of the page.                                           *)

\* A question names where "Leave" goes.
Questions ==
    {d \in [kind : Editors \cup {"hash", "back"}, to : Hashes \cup {"instance-editor"}] :
        /\ d.kind # "hash" => d.to # "sonarr-settings"
        /\ d.kind \in {"hash", "instance-editor"} => d.to # "instance-editor"}
Changes == [old : Hashes, new : Hashes]
Records == [sec : Sections, hash : Hashes, events : Seq(Changes), open : BOOLEAN,
            asks : Seq(Questions), typed : SUBSET Forms, flags : SUBSET Flags,
            editing : BOOLEAN, thirdParty : BOOLEAN]
Pages   == {n \in Records : n.typed \subseteq {n.sec} /\ (n.open => n.asks # <<>>)}

LEMMA ShowPage ==
    ASSUME NEW n \in Pages, NEW kind, NEW to, [kind |-> kind, to |-> to] \in Questions
    PROVE  LET m == Show(n, kind, to) IN
           /\ m \in Pages
           /\ m.sec = n.sec /\ m.hash = n.hash /\ m.events = n.events /\ m.open
           /\ m.asks = Append(n.asks, [kind |-> kind, to |-> to])
           /\ m.typed = n.typed /\ m.flags = n.flags
           /\ m.editing = n.editing /\ m.thirdParty = n.thirdParty
<1> DEFINE d == [kind |-> kind, to |-> to]
<1> HIDE DEF d
<1>1. Append(n.asks, d) \in Seq(Questions) /\ Append(n.asks, d) # <<>>
  BY DEF Pages, Records, d
<1>2. Show(n, kind, to) = [n EXCEPT !.open = TRUE, !.asks = Append(@, d)]
  BY DEF Show, d
<1>3. Show(n, kind, to) \in Records
  BY <1>1, <1>2 DEF Pages, Records
<1> QED BY <1>1, <1>2, <1>3 DEF Pages, Records, d

LEMMA LoadedPage ==
    ASSUME NEW n \in Pages, NEW s \in Sections \cap Hashes
    PROVE  LET m == Loaded(n, s) IN
           /\ m \in Pages
           /\ m.sec = Shown(s) /\ m.hash = s /\ m.events = <<>> /\ ~m.open /\ m.asks = <<>>
           /\ m.typed = {} /\ m.flags = {} /\ ~m.editing /\ m.thirdParty = n.thirdParty
<1>1. Shown(s) \in Sections
  BY SectionNames, Redirection
<1>2. <<>> \in Seq(Changes) /\ <<>> \in Seq(Questions)
  OBVIOUS
<1>3. Loaded(n, s) \in Records
  BY <1>1, <1>2 DEF Pages, Records, Loaded
<1> QED BY <1>3 DEF Pages, Records, Loaded

LEMMA SwitchPage ==
    ASSUME NEW n \in Pages, NEW s,
           s \in Targets \/ (s = "profile-editor" /\ n.sec \notin Editors)
    PROVE  LET m == SwitchSection(n, s)
               t == Redirect(s)
           IN  /\ m \in Pages /\ m.thirdParty = n.thirdParty
               /\ \/ /\ n.sec # t /\ n.sec \in Editors \cap n.flags
                     /\ m = Show(n, n.sec, t) /\ [kind |-> n.sec, to |-> t] \in Questions
                  \/ /\ ~(n.sec # t /\ n.sec \in Editors \cap n.flags)
                     /\ n.sec # t /\ {n.sec, t} \cap NoRefresh = {}
                     /\ m = Loaded(n, t) /\ t \in Sections \cap Hashes
                  \/ /\ ~(n.sec # t /\ n.sec \in Editors \cap n.flags)
                     /\ m.sec = Shown(t) /\ m.typed = {} /\ m.flags = n.flags \ {t}
                     /\ m.hash = n.hash /\ m.events = n.events /\ m.open = n.open
                     /\ m.asks = n.asks /\ m.editing = n.editing
<1> DEFINE t == Redirect(s)
<1>1. t \in Targets \/ (t = "profile-editor" /\ n.sec \notin Editors)
  BY SectionNames, Redirection
<1>2. CASE Asks(n, t)
  <2>1. n.sec # t /\ n.sec \in Editors \cap n.flags
    BY <1>2 DEF Asks, Mine
  <2>2. [kind |-> n.sec, to |-> t] \in Questions
    <3>1. t \in Hashes \cup {"instance-editor"} /\ t # "sonarr-settings"
      BY <1>1, <2>1, SectionNames
    <3> HIDE DEF t
    <3>2. [kind |-> n.sec, to |-> t] \in [kind : Editors \cup {"hash", "back"}, to : Hashes \cup {"instance-editor"}]
      BY <2>1, <3>1
    <3> QED BY <2>1, <3>1, <3>2, FormNames DEF Questions
  <2>3. SwitchSection(n, s) = Show(n, n.sec, t)
    BY <1>2 DEF SwitchSection
  <2> HIDE DEF t
  <2> QED BY <2>1, <2>2, <2>3, ShowPage DEF t
<1>3. CASE ~Asks(n, t) /\ Reloads(n, t)
  <2>1. ~(n.sec # t /\ n.sec \in Editors \cap n.flags) /\ n.sec # t /\ {n.sec, t} \cap NoRefresh = {}
    BY <1>3 DEF Asks, Mine, Reloads
  <2>2. t \notin {"instance-editor", "profile-editor"}
    BY <2>1 DEF NoRefresh
  <2>3. t \in Sections \cap Hashes
    BY <1>1, <2>2, SectionNames
  <2>4. SwitchSection(n, s) = Loaded(n, t)
    BY <1>3 DEF SwitchSection
  <2> HIDE DEF t
  <2> QED BY <2>1, <2>3, <2>4, LoadedPage DEF t
<1>4. CASE ~Asks(n, t) /\ ~Reloads(n, t)
  <2>1. ~(n.sec # t /\ n.sec \in Editors \cap n.flags)
    BY <1>4 DEF Asks, Mine
  <2>2. SwitchSection(n, s) = [n EXCEPT !.sec = Shown(t), !.typed = {}, !.flags = @ \ {t}]
    BY <1>4 DEF SwitchSection
  <2>3. Shown(t) \in Sections
    BY <1>1, SectionNames, Redirection
  <2> HIDE DEF t
  <2>4. SwitchSection(n, s) \in Records
    BY <2>2, <2>3 DEF Pages, Records
  <2> QED BY <2>1, <2>2, <2>3, <2>4 DEF Pages, Records, t
<1> QED BY <1>2, <1>3, <1>4

\* A section that has no edits, or is left with them, asks or forgets.
LEMMA Switched ==
    ASSUME NEW n \in Pages, NEW s,
           s \in Targets \/ (s = "profile-editor" /\ n.sec \notin Editors)
    PROVE  LET m == SwitchSection(n, s)
               t == Redirect(s)
           IN  /\ m \in Pages /\ m.thirdParty = n.thirdParty
               /\ m.open \/ m.typed = {}
               /\ m.typed \in {n.typed, {}}
               /\ n.sec \notin n.flags => m.typed = {} /\ (~n.open => ~m.open)
               /\ n.sec # t /\ n.sec \in Editors \cap n.flags => m.typed = n.typed
               /\ n.sec = t => m.sec = Shown(t)
               /\ n.sec \notin n.flags /\ n.sec \in NoRefresh =>
                     /\ m.sec = Shown(t) /\ m.flags = n.flags \ {t} /\ m.hash = n.hash
                     /\ m.asks = n.asks /\ m.events = n.events
<1> DEFINE m == SwitchSection(n, s)
           t == Redirect(s)
           d == [kind |-> n.sec, to |-> t]
<1>1. m \in Pages /\ m.thirdParty = n.thirdParty
  BY SwitchPage
<1>2. \/ /\ n.sec # t /\ n.sec \in Editors \cap n.flags
         /\ m = Show(n, n.sec, t) /\ d \in Questions
      \/ /\ ~(n.sec # t /\ n.sec \in Editors \cap n.flags)
         /\ n.sec # t /\ {n.sec, t} \cap NoRefresh = {}
         /\ m = Loaded(n, t) /\ t \in Sections \cap Hashes
      \/ /\ ~(n.sec # t /\ n.sec \in Editors \cap n.flags)
         /\ m.sec = Shown(t) /\ m.typed = {} /\ m.flags = n.flags \ {t}
         /\ m.hash = n.hash /\ m.events = n.events /\ m.open = n.open /\ m.asks = n.asks
  BY SwitchPage
<1> HIDE DEF m, t
<1>3. m = Show(n, n.sec, t) /\ d \in Questions => m.open /\ m.typed = n.typed
  BY ShowPage
<1>4. m = Loaded(n, t) /\ t \in Sections \cap Hashes => ~m.open /\ m.typed = {}
  BY LoadedPage
<1>5. /\ m \in Pages /\ m.thirdParty = n.thirdParty
      /\ m.open \/ m.typed = {}
      /\ m.typed \in {n.typed, {}}
      /\ n.sec \notin n.flags => m.typed = {} /\ (~n.open => ~m.open)
      /\ n.sec # t /\ n.sec \in Editors \cap n.flags => m.typed = n.typed
      /\ n.sec = t => m.sec = Shown(t)
      /\ n.sec \notin n.flags /\ n.sec \in NoRefresh =>
            /\ m.sec = Shown(t) /\ m.flags = n.flags \ {t} /\ m.hash = n.hash
            /\ m.asks = n.asks /\ m.events = n.events
  <2> HIDE DEF d
  <2> QED BY <1>1, <1>2, <1>3, <1>4
<1> QED BY <1>5 DEF m, t

\* The operators built on these.
LEMMA SetHashPage ==
    ASSUME NEW n \in Pages, NEW h \in Hashes
    PROVE  LET m == SetHash(n, h) IN
           /\ m \in Pages /\ m.hash = h
           /\ m.events = IF h = n.hash THEN n.events ELSE Append(n.events, [old |-> n.hash, new |-> h])
           /\ m.sec = n.sec /\ m.open = n.open /\ m.asks = n.asks /\ m.typed = n.typed
           /\ m.flags = n.flags /\ m.editing = n.editing /\ m.thirdParty = n.thirdParty
<1>1. CASE h = n.hash
  BY <1>1 DEF SetHash
<1>2. CASE h # n.hash
  <2> DEFINE e == [old |-> n.hash, new |-> h]
  <2>1. e \in Changes /\ n.events \in Seq(Changes)
    BY DEF Pages, Records, Changes
  <2>2. SetHash(n, h) = [n EXCEPT !.hash = h, !.events = Append(@, e)]
    BY <1>2 DEF SetHash
  <2> HIDE DEF e
  <2>3. Append(n.events, e) \in Seq(Changes)
    BY <2>1
  <2>4. SetHash(n, h) \in Records
    BY <2>2, <2>3 DEF Pages, Records
  <2> QED BY <1>2, <2>2, <2>4 DEF Pages, Records, e
<1> QED BY <1>1, <1>2

LEMMA CancelToPage ==
    ASSUME NEW n \in Pages, NEW to \in Targets \ {"instance-editor"}
    PROVE  LET m == CancelTo(n, to)
               x == SwitchSection(n, to)
           IN  /\ m \in Pages /\ x \in Pages /\ m.hash = to /\ ~m.editing
               /\ m.flags = x.flags \ {"instance-editor"}
               /\ m.sec = x.sec /\ m.events = x.events /\ m.open = x.open
               /\ m.asks = x.asks /\ m.typed = x.typed /\ m.thirdParty = n.thirdParty
<1> DEFINE x == SwitchSection(n, to)
<1>1. x \in Pages /\ x.thirdParty = n.thirdParty /\ to \in Hashes
  BY SwitchPage, SectionNames
<1>2. CancelTo(n, to) = [[x EXCEPT !.editing = FALSE, !.flags = @ \ {"instance-editor"}] EXCEPT !.hash = to]
  BY DEF CancelTo, UpdateHashForSection
<1> HIDE DEF x
<1>3. CancelTo(n, to) \in Records
  BY <1>1, <1>2 DEF Pages, Records
<1> QED BY <1>1, <1>2, <1>3 DEF Pages, Records, x

\* The editor of an instance is shown, or the editor shown asks first.
LEMMA InstancePage ==
    ASSUME NEW n \in Pages
    PROVE  LET m == NavigateToInstanceEditor(n)
               x == [n EXCEPT !.editing = TRUE, !.typed = @ \ {"instance-editor"},
                              !.flags = @ \ {"instance-editor"}]
               y == SwitchSection(x, "instance-editor")
           IN  /\ m \in Pages /\ x \in Pages /\ m.hash = "sonarr-settings"
               /\ x.sec = n.sec /\ x.typed = n.typed \ {"instance-editor"}
               /\ x.flags = n.flags \ {"instance-editor"}
               /\ x.events = n.events /\ x.open = n.open /\ x.asks = n.asks
               /\ m.sec = y.sec /\ m.typed = y.typed /\ m.flags = y.flags
               /\ m.events = y.events /\ m.open = y.open /\ m.asks = y.asks
               /\ m.editing = y.editing /\ m.thirdParty = n.thirdParty
<1> DEFINE x == [n EXCEPT !.editing = TRUE, !.typed = @ \ {"instance-editor"},
                          !.flags = @ \ {"instance-editor"}]
           y == SwitchSection(x, "instance-editor")
<1>1. /\ x \in Pages
      /\ x.sec = n.sec /\ x.typed = n.typed \ {"instance-editor"}
      /\ x.flags = n.flags \ {"instance-editor"}
      /\ x.events = n.events /\ x.open = n.open /\ x.asks = n.asks /\ x.thirdParty = n.thirdParty
  <2>1. x \in Records
    BY DEF Pages, Records
  <2> QED BY <2>1 DEF Pages, Records
<1> HIDE DEF x
<1>2. y \in Pages /\ y.thirdParty = n.thirdParty /\ "sonarr-settings" \in Hashes
  BY <1>1, SwitchPage, SectionNames
<1>3. NavigateToInstanceEditor(n) = [y EXCEPT !.hash = "sonarr-settings"]
  BY DEF NavigateToInstanceEditor, x
<1> HIDE DEF y
<1>4. NavigateToInstanceEditor(n) \in Records
  BY <1>2, <1>3 DEF Pages, Records
<1> QED BY <1>1, <1>2, <1>3, <1>4 DEF Pages, Records, x, y

-----------------------------------------------------------------------------
(* What is typed is flagged, and the address follows the section.          *)

\* What is typed has raised its flag, so that leaving it asks.
Flagged(n) == n.typed # {} => FlagOf(n.sec) \in n.flags

\* The section that an address stands for.
Match(s, h) ==
    \/ s \in {h, Shown(Redirect(h))}
    \/ s = "instance-editor" /\ h = "sonarr-settings"
    \/ s = "profile-editor" /\ h = "settings-profiles"

\* A question that is open: "Go Back" to it, and "Leave", end where the
\* address says.
Pending(n, d) ==
    /\ d.kind \in {"hash", "back"} => Match(n.sec, n.hash)
    /\ d.kind \in {"profile-editor", "settings-media-management"} => Match(Shown(Redirect(d.to)), n.hash)

\* At most one change of the address is on its way, or one question is open.
Steady(n) ==
    \/ n.events = <<>> /\ ~n.open /\ n.asks = <<>> /\ Match(n.sec, n.hash)
    \/ /\ ~n.open /\ n.asks = <<>>
       /\ \E e \in Changes : n.events = <<e>> /\ e.new = n.hash /\ Match(n.sec, e.old)
    \/ /\ n.events = <<>> /\ n.open
       /\ \E d \in Questions : n.asks = <<d>> /\ Pending(n, d)

\* Where a section leads.
LEMMA Matches ==
    ASSUME NEW s
    PROVE  /\ Match(Shown(Redirect(s)), s) /\ Match(s, s)
           /\ Match(Shown(Redirect(s)), Redirect(s)) /\ Match(Shown(s), s)
           /\ Match(Shown(Redirect(Redirect(s))), s)
           /\ Match(Shown(Redirect("instance-editor")), "sonarr-settings")
<1>1. Redirect(Redirect(s)) = Redirect(s) /\ Redirect("instance-editor") = "instance-editor"
  BY Redirection DEF ThirdParty
<1>2. Shown("instance-editor") = "instance-editor"
  BY Redirection
<1>3. Match(Shown(s), s)
  <2>1. CASE s = "elsewhere"
    BY <2>1, Redirection DEF Match, ThirdParty
  <2>2. CASE s # "elsewhere"
    BY <2>2, Redirection DEF Match
  <2> QED BY <2>1, <2>2
<1> QED BY <1>1, <1>2, <1>3 DEF Match

\* Leaving loses what is typed with its flag, unless another question stops it.
LEMMA LeftPage ==
    ASSUME NEW n \in Pages, NEW d \in Questions
    PROVE  LET m == Left(n, d) IN
           /\ m \in Pages /\ m.thirdParty = n.thirdParty
           /\ ~n.open => m.open \/ (Flagged(n) => Flagged(m))
           /\ n.sec \notin n.flags /\ d.kind # "hash" => m.typed = {} /\ (~n.open => ~m.open)
<1>0. /\ d.kind \in Editors \cup {"hash", "back"} /\ d.to \in Hashes \cup {"instance-editor"}
      /\ d.kind # "hash" => d.to \in Targets
      /\ d.kind \in {"hash", "instance-editor"} => d.to # "instance-editor"
  BY DEF Questions, Targets
<1>1. CASE d.kind = "hash"
  <2> DEFINE x == [n EXCEPT !.flags = @ \ {"_hasUnsavedChanges"}, !.typed = @ \ {"swaparr"}]
  <2>1. /\ x \in Pages /\ x.sec = n.sec /\ x.typed = n.typed \ {"swaparr"}
        /\ x.flags = n.flags \ {"_hasUnsavedChanges"} /\ x.thirdParty = n.thirdParty
    <3>1. x \in Records
      BY DEF Pages, Records
    <3> QED BY <3>1 DEF Pages, Records
  <2>2. Left(n, d) = SetHash(x, d.to)
    BY <1>1 DEF Left
  <2> HIDE DEF x
  <2> DEFINE y == SetHash(x, d.to)
  <2>3. /\ y \in Pages /\ y.sec = n.sec /\ y.typed = n.typed \ {"swaparr"}
        /\ y.flags = n.flags \ {"_hasUnsavedChanges"} /\ y.thirdParty = n.thirdParty
    <3>1. d.to \in Hashes
      BY <1>0, <1>1
    <3> QED BY <2>1, <3>1, SetHashPage
  <2> HIDE DEF y
  <2>4. Flagged(n) => Flagged(y)
    <3> SUFFICES ASSUME Flagged(n), y.typed # {} PROVE FlagOf(y.sec) \in y.flags
      BY DEF Flagged
    <3>1. n.typed # {} /\ n.sec # "swaparr" /\ n.sec \in Forms
      BY <2>3 DEF Pages, Records
    <3>2. FlagOf(n.sec) = n.sec /\ n.sec \in n.flags
      BY <3>1 DEF Flagged, FlagOf
    <3> QED BY <2>3, <3>1, <3>2, FormNames
  <2> QED BY <1>1, <2>2, <2>3, <2>4 DEF y
<1>2. ASSUME NEW x \in Pages, NEW to \in Targets \ {"instance-editor"}, x.sec = n.sec, x.open = n.open,
             x.thirdParty = n.thirdParty, x.flags \subseteq n.flags
      PROVE  LET m == CancelTo(x, to) IN
             /\ m \in Pages /\ m.thirdParty = n.thirdParty
             /\ ~n.open => m.open \/ m.typed = {}
             /\ n.sec \notin n.flags => m.typed = {} /\ (~n.open => ~m.open)
  <2> DEFINE m == CancelTo(x, to)
             y == SwitchSection(x, to)
  <2>1. /\ m \in Pages /\ m.thirdParty = n.thirdParty
        /\ m.open = y.open /\ m.typed = y.typed
    BY <1>2, CancelToPage
  <2> HIDE DEF m, y
  <2>2. /\ ~n.open => y.open \/ y.typed = {}
        /\ n.sec \notin n.flags => y.typed = {} /\ (~n.open => ~y.open)
    BY <1>2, Switched DEF y
  <2> QED BY <2>1, <2>2 DEF m
<1>3. CASE d.kind = "back"
  <2>1. "sonarr" \in Targets \ {"instance-editor"}
    BY SectionNames
  <2>2. CASE n.editing
    <3> DEFINE x == [n EXCEPT !.flags = @ \ {"instance-editor"}]
    <3>1. /\ x \in Pages /\ x.sec = n.sec /\ x.open = n.open
          /\ x.thirdParty = n.thirdParty /\ x.flags \subseteq n.flags
      BY DEF Pages, Records
    <3>2. Left(n, d) = CancelTo(x, "sonarr")
      BY <1>3, <2>2 DEF Left, CancelInstanceEditor
    <3> HIDE DEF x
    <3> QED BY <1>2, <2>1, <3>1, <3>2 DEF Flagged
  <2>3. CASE ~n.editing
    <3>1. Left(n, d) = CancelTo(n, "sonarr")
      BY <1>3, <2>3 DEF Left, CancelInstanceEditor
    <3> QED BY <1>2, <2>1, <3>1 DEF Flagged
  <2> QED BY <2>2, <2>3
<1>4. CASE d.kind = "instance-editor"
  <2>1. Left(n, d) = CancelTo(n, d.to)
    BY <1>4 DEF Left
  <2> QED BY <1>0, <1>2, <1>4, <2>1 DEF Flagged
<1>5. CASE d.kind \notin {"hash", "back", "instance-editor"}
  <2> DEFINE x == [n EXCEPT !.flags = @ \ {d.kind}]
  <2>1. /\ x \in Pages /\ x.sec = n.sec /\ x.open = n.open /\ x.typed = n.typed
        /\ x.thirdParty = n.thirdParty /\ x.flags \subseteq n.flags
    BY DEF Pages, Records
  <2>2. Left(n, d) = SwitchSection(x, d.to)
    BY <1>5 DEF Left
  <2> HIDE DEF x
  <2> DEFINE y == SwitchSection(x, d.to)
  <2>3. d.to \in Targets
    BY <1>0, <1>5
  <2>4. /\ y \in Pages /\ y.thirdParty = n.thirdParty
        /\ y.open \/ y.typed = {}
        /\ n.sec \notin n.flags => y.typed = {} /\ (~n.open => ~y.open)
    BY <2>1, <2>3, Switched
  <2> QED BY <1>5, <2>2, <2>4 DEF Flagged
<1> QED BY <1>1, <1>3, <1>4, <1>5

-----------------------------------------------------------------------------
(* Answers to questions.                                                   *)

LEMMA Removed ==
    ASSUME NEW S, NEW s \in Seq(S), NEW e
    PROVE  /\ RemoveFirst(s, e) \in Seq(S)
           /\ s = <<e>> => RemoveFirst(s, e) = <<>>
<1> DEFINE I == {i \in 1..Len(s) : s[i] = e}
<1>1. CASE I = {}
  BY <1>1 DEF RemoveFirst
<1>2. CASE I # {}
  <2>1. SelectInSeq(s, LAMBDA v : v = e) = Min(I)
    BY <1>2 DEF SelectInSeq
  <2>2. Min(I) \in I
    <3>1. I \in SUBSET Nat
      OBVIOUS
    <3> HIDE DEF I
    <3>2. \E m \in I : \A n \in I : m <= n
      BY <1>2, <3>1, Least
    <3> QED BY <3>2 DEF Min
  <2> DEFINE k == Min(I)
  <2>3. k \in 1..Len(s)
    BY <2>2
  <2> HIDE DEF k
  <2>4. RemoveFirst(s, e) = SubSeq(s, 1, k - 1) \o SubSeq(s, k + 1, Len(s))
    BY <1>2, <2>1 DEF RemoveFirst, RemoveAt, k
  <2>5. SubSeq(s, 1, k - 1) \in Seq(S) /\ SubSeq(s, k + 1, Len(s)) \in Seq(S)
    BY <2>3
  <2>6. ASSUME s = <<e>> PROVE SubSeq(s, 1, k - 1) = <<>> /\ SubSeq(s, k + 1, Len(s)) = <<>>
    <3>1. Len(s) = 1 /\ k = 1
      BY <2>3, <2>6
    <3> QED BY <3>1
  <2> QED BY <2>4, <2>5, <2>6
<1> QED BY <1>1, <1>2

LEMMA AnsweringPage ==
    ASSUME NEW n \in Pages, NEW d \in Questions
    PROVE  LET m == Answering(n, d) IN
           /\ m \in Pages /\ m.thirdParty = n.thirdParty
           /\ m.open \/ (Flagged(n) => Flagged(m))
<1> DEFINE x == [n EXCEPT !.open = FALSE, !.asks = RemoveFirst(@, d)]
<1>1. RemoveFirst(n.asks, d) \in Seq(Questions)
  BY Removed DEF Pages, Records
<1>2. /\ x \in Pages /\ ~x.open /\ x.thirdParty = n.thirdParty
      /\ x.typed = n.typed /\ x.sec = n.sec /\ x.flags = n.flags
  <2>1. x \in Records
    BY <1>1 DEF Pages, Records
  <2> QED BY <2>1 DEF Pages, Records
<1>3. Answering(n, d) = Left(x, d)
  BY DEF Answering
<1> HIDE DEF x
<1>4. Flagged(n) => Flagged(x)
  BY <1>2 DEF Flagged
<1> QED BY <1>2, <1>3, <1>4, LeftPage

\* After Escape, what is typed is flagged unless a question was asked again.
LEMMA EscapedPage ==
    ASSUME NEW n \in Pages, n.open
    PROVE  LET m == Escaped(n)
               k == Len(n.asks)
           IN  /\ k \in Nat \ {0} /\ m[k] \in Pages /\ m[k].thirdParty = n.thirdParty
               /\ \/ \E i \in 1..k : m[i].open
                  \/ Flagged(n) => Flagged(m[k])
<1> DEFINE m == Escaped(n)
           k == Len(n.asks)
<1>1. k \in Nat \ {0} /\ \A i \in 1..k : n.asks[i] \in Questions
  <2>1. n.asks \in Seq(Questions) /\ n.asks # <<>>
    BY DEF Pages, Records
  <2> QED BY <2>1
<1>2. \A i \in 0..k : m[i] \in Pages /\ m[i].thirdParty = n.thirdParty
  <2> DEFINE P == {s \in Pages : s.thirdParty = n.thirdParty}
  <2>1. \A s \in P : \A i \in 1..k : s.open => Answering(s, n.asks[i]) \in P
    BY <1>1, AnsweringPage
  <2>2. n \in P
    OBVIOUS
  <2> HIDE DEF P
  <2>3. \A i \in 0..k : m[i] \in P
    BY <1>1, <2>1, <2>2, EscapedKeeps
  <2> QED BY <2>3 DEF P
<1>3. ASSUME \A i \in 1..k : ~m[i].open, Flagged(n)
      PROVE  Flagged(m[k])
  <2> DEFINE T == {j \in Nat : j <= k => Flagged(m[j])}
  <2>1. \A j \in 0..k :
           m[j] = IF j = 0 THEN n
                  ELSE IF m[j - 1].open THEN Answering(m[j - 1], n.asks[j]) ELSE m[j - 1]
    BY <1>1, EscapedSteps
  <2>2. 0 \in T
    BY <1>1, <1>3, <2>1
  <2>3. ASSUME NEW j \in T PROVE j + 1 \in T
    <3>1. CASE j + 1 <= k
      <4> HIDE DEF m
      <4>1. j \in Nat /\ j \in 0..k /\ j + 1 \in 1..k /\ j + 1 \in 0..k /\ (j + 1) - 1 = j /\ j + 1 # 0
        BY <1>1, <3>1
      <4>2. Flagged(m[j]) /\ m[j] \in Pages /\ ~m[j + 1].open
        BY <1>2, <1>3, <3>1, <4>1
      <4>3. m[j + 1] = IF m[j].open THEN Answering(m[j], n.asks[j + 1]) ELSE m[j]
        BY <2>1, <4>1
      <4>4. CASE m[j].open
        BY <1>1, <4>1, <4>2, <4>3, <4>4, AnsweringPage
      <4>5. CASE ~m[j].open
        BY <4>1, <4>2, <4>3, <4>5
      <4> QED BY <4>4, <4>5
    <3>2. CASE ~(j + 1 <= k)
      BY <3>2
    <3> QED BY <3>1, <3>2
  <2>4. T = Nat
    <3> HIDE DEF T
    <3>1. T \subseteq Nat
      BY DEF T
    <3> QED BY <2>2, <2>3, <3>1, Induction
  <2> QED BY <1>1, <2>4
<1>4. m[k] \in Pages /\ m[k].thirdParty = n.thirdParty
  BY <1>1, <1>2
<1>5. (\E i \in 1..k : m[i].open) \/ (Flagged(n) => Flagged(m[k]))
  BY <1>3
<1> QED BY <1>1, <1>4, <1>5

-----------------------------------------------------------------------------
(* The address follows the section.                                        *)

\* Nothing is on its way and no question open, or ever replaced.
AtRest(n) == n.events = <<>> /\ ~n.open /\ n.asks = <<>>

LEMMA SwitchSteady ==
    ASSUME NEW n \in Pages, AtRest(n), NEW s,
           s \in Targets \/ (s = "profile-editor" /\ n.sec \notin Editors)
    PROVE  LET m == SwitchSection(n, s)
               t == Redirect(s)
               d == [kind |-> n.sec, to |-> t]
           IN  \/ /\ n.sec \in Editors \cap n.flags /\ d \in Questions
                  /\ m.events = <<>> /\ m.open /\ m.asks = <<d>>
                  /\ m.hash = n.hash /\ m.sec = n.sec
               \/ AtRest(m) /\ m.sec = Shown(t) /\ m.hash \in {n.hash, t}
<1> DEFINE m == SwitchSection(n, s)
           t == Redirect(s)
           d == [kind |-> n.sec, to |-> t]
<1>1. CASE n.sec \in Editors \cap n.flags /\ m = Show(n, n.sec, t) /\ d \in Questions
  <2>1. /\ m.events = n.events /\ m.open /\ m.asks = Append(n.asks, d)
        /\ m.hash = n.hash /\ m.sec = n.sec
    <3> HIDE DEF m, t
    <3> QED BY <1>1, ShowPage
  <2>2. n.events = <<>> /\ n.asks = <<>>
    BY DEF AtRest
  <2> HIDE DEF m, d
  <2>3. Append(<<>>, d) = <<d>>
    OBVIOUS
  <2> QED BY <1>1, <2>1, <2>2, <2>3 DEF m, d
<1>2. CASE m = Loaded(n, t) /\ t \in Sections \cap Hashes
  <2>1. m.events = <<>> /\ ~m.open /\ m.asks = <<>> /\ m.hash = t /\ m.sec = Shown(t)
    <3> HIDE DEF m, t
    <3> QED BY <1>2, LoadedPage
  <2> QED BY <2>1 DEF AtRest
<1>3. CASE /\ m.sec = Shown(t) /\ m.hash = n.hash /\ m.events = n.events /\ m.open = n.open
           /\ m.asks = n.asks
  BY <1>3 DEF AtRest
<1> QED BY <1>1, <1>2, <1>3, SwitchPage

LEMMA LeftSteady ==
    ASSUME NEW n \in Pages, AtRest(n), NEW d \in Questions, Pending(n, d)
    PROVE  Left(n, d).open \/ Steady(Left(n, d))
<1>0. /\ d.kind \in Editors \cup {"hash", "back"} /\ d.to \in Hashes \cup {"instance-editor"}
      /\ d.kind # "hash" => d.to \in Targets
      /\ d.kind \in {"hash", "instance-editor"} => d.to # "instance-editor"
  BY DEF Questions, Targets
<1>1. CASE d.kind = "hash"
  <2> DEFINE x == [n EXCEPT !.flags = @ \ {"_hasUnsavedChanges"}, !.typed = @ \ {"swaparr"}]
             y == SetHash(x, d.to)
             e == [old |-> n.hash, new |-> d.to]
  <2>1. /\ x \in Pages /\ x.sec = n.sec /\ x.hash = n.hash
        /\ x.events = <<>> /\ ~x.open /\ x.asks = <<>>
    <3>1. x \in Records
      BY DEF Pages, Records
    <3> QED BY <3>1 DEF Pages, Records, AtRest
  <2>2. Left(n, d) = y
    BY <1>1 DEF Left
  <2>3. d.to \in Hashes /\ n.hash \in Hashes /\ Match(n.sec, n.hash)
    BY <1>0, <1>1 DEF Pages, Records, Pending
  <2> HIDE DEF x
  <2>4. /\ y.hash = d.to /\ y.sec = n.sec /\ ~y.open /\ y.asks = <<>>
        /\ y.events = IF d.to = n.hash THEN <<>> ELSE Append(<<>>, e)
    <3>1. /\ y.hash = d.to /\ y.sec = x.sec /\ y.open = x.open /\ y.asks = x.asks
          /\ y.events = IF d.to = x.hash THEN x.events
                        ELSE Append(x.events, [old |-> x.hash, new |-> d.to])
      <4>1. x \in Pages
        BY <2>1
      <4>2. d.to \in Hashes
        BY <2>3
      <4> QED BY <4>1, <4>2, SetHashPage
    <3> HIDE DEF y
    <3> QED BY <2>1, <3>1
  <2> HIDE DEF y
  <2>5. e \in Changes /\ e.old = n.hash /\ e.new = d.to
    BY <2>3 DEF Changes
  <2> HIDE DEF e
  <2>6. Append(<<>>, e) = <<e>>
    OBVIOUS
  <2>7. Steady(y)
    BY <2>3, <2>4, <2>5, <2>6 DEF Steady
  <2> QED BY <2>2, <2>7
<1>2. ASSUME NEW x \in Pages, AtRest(x), NEW to \in Targets \ {"instance-editor"}
      PROVE  CancelTo(x, to).open \/ Steady(CancelTo(x, to))
  <2> DEFINE m == CancelTo(x, to)
             y == SwitchSection(x, to)
  <2>1. /\ m.hash = to /\ m.sec = y.sec /\ m.events = y.events /\ m.open = y.open /\ m.asks = y.asks
    BY <1>2, CancelToPage
  <2>2. y.open \/ (AtRest(y) /\ y.sec = Shown(Redirect(to)))
    BY <1>2, SwitchSteady
  <2> HIDE DEF m, y
  <2>3. m.open \/ Steady(m)
    BY <2>1, <2>2, Matches DEF Steady, AtRest
  <2> QED BY <2>3 DEF m
<1>3. CASE d.kind = "back"
  <2>1. "sonarr" \in Targets \ {"instance-editor"}
    BY SectionNames
  <2>2. CASE n.editing
    <3> DEFINE x == [n EXCEPT !.flags = @ \ {"instance-editor"}]
    <3>1. x \in Pages /\ AtRest(x)
      BY DEF Pages, Records, AtRest
    <3>2. Left(n, d) = CancelTo(x, "sonarr")
      BY <1>3, <2>2 DEF Left, CancelInstanceEditor
    <3> HIDE DEF x
    <3> QED BY <1>2, <2>1, <3>1, <3>2
  <2>3. CASE ~n.editing
    <3>1. Left(n, d) = CancelTo(n, "sonarr")
      BY <1>3, <2>3 DEF Left, CancelInstanceEditor
    <3> QED BY <1>2, <2>1, <3>1
  <2> QED BY <2>2, <2>3
<1>4. CASE d.kind = "instance-editor"
  <2>1. Left(n, d) = CancelTo(n, d.to)
    BY <1>4 DEF Left
  <2> QED BY <1>0, <1>2, <1>4, <2>1
<1>5. CASE d.kind \notin {"hash", "back", "instance-editor"}
  <2> DEFINE x == [n EXCEPT !.flags = @ \ {d.kind}]
             y == SwitchSection(x, d.to)
  <2>1. x \in Pages /\ AtRest(x) /\ x.hash = n.hash
    BY DEF Pages, Records, AtRest
  <2>2. Left(n, d) = y
    BY <1>5 DEF Left
  <2> HIDE DEF x
  <2>3. d.to \in Targets
    BY <1>0, <1>5
  <2>4. y.open \/ (AtRest(y) /\ y.sec = Shown(Redirect(d.to)) /\ y.hash \in {n.hash, Redirect(d.to)})
    BY <2>1, <2>3, SwitchSteady
  <2>5. Match(Shown(Redirect(d.to)), n.hash)
    BY <1>0, <1>5, FormNames DEF Pending
  <2> HIDE DEF y
  <2>6. y.open \/ Steady(y)
    BY <2>4, <2>5, Matches DEF Steady, AtRest
  <2> QED BY <2>2, <2>6
<1> QED BY <1>1, <1>3, <1>4, <1>5

-----------------------------------------------------------------------------
(* The invariant of the page.                                              *)

\* Only the visits of the forms leave the two or three sections they watch.
Plain(n) ==
    /\ n.flags = {} /\ n.typed = {} /\ n.asks = <<>> /\ n.thirdParty
    /\ n.sec \in Links[scene] \ {"elsewhere"} /\ n.hash \in Links[scene]
Unsettling == {"stayed", "twice", "hasty"}
NInv ==
    /\ scene \in Scenes /\ hist \subseteq Excuses
    /\ nav \in Pages
    /\ scene # "forms" => Plain(nav)
    /\ "twice" \notin hist => Flagged(nav)
    /\ hist \cap Unsettling = {} => Steady(nav)

LEMMA PageInit == Init => NInv
<1> SUFFICES ASSUME Init PROVE NInv
  OBVIOUS
<1>1. PICK s \in {"home"} \cup (IF scene = "logs" THEN {"logs"} ELSE {}), b \in BOOLEAN :
         /\ scene # "forms" => b
         /\ nav = [sec |-> s, hash |-> s, events |-> <<>>, open |-> FALSE, asks |-> <<>>,
                   typed |-> {}, flags |-> {}, editing |-> FALSE, thirdParty |-> b]
         /\ hist = IF s = "logs" THEN {"opened"} ELSE {}
  BY DEF Init
<1>2. s \in Sections \cap Hashes
  BY SectionNames
<1>3. nav \in Pages
  <2>1. <<>> \in Seq(Changes) /\ <<>> \in Seq(Questions)
    OBVIOUS
  <2> QED BY <1>1, <1>2, <2>1 DEF Pages, Records
<1>4. scene \in Scenes
  BY DEF Init
<1>5. scene # "forms" => Plain(nav)
  <2>1. scene \in {"forms", "logs", "stats", "home"}
    BY <1>4, SectionsAssumption DEF SectionsAssumption
  <2> QED BY <1>1, <2>1 DEF Plain, Links
<1>6. Flagged(nav) /\ Steady(nav)
  BY <1>1, Matches DEF Flagged, Steady
<1>7. hist \subseteq Excuses
  BY <1>1 DEF Excuses
<1> QED BY <1>3, <1>4, <1>5, <1>6, <1>7 DEF NInv

\* The page becomes n.
LEMMA PageBecomes ==
    ASSUME NInv, NEW n \in Pages, n.thirdParty = nav.thirdParty,
           NEW s, NEW why \in SUBSET Excuses, Becomes(n, s, why),
           scene # "forms" => Plain(n),
           "twice" \notin why /\ Flagged(nav) => Flagged(n),
           why \cap Unsettling = {} /\ Steady(nav) => Steady(n)
    PROVE  NInv'
<1>1. /\ nav' = n /\ scene' = scene
      /\ hist' = (IF s = None THEN hist ELSE hist \ {"late"}) \cup why
  BY DEF Becomes
<1>2. /\ hist' \subseteq Excuses /\ why \subseteq hist'
      /\ "twice" \notin hist' => "twice" \notin hist
      /\ hist' \cap Unsettling = {} => hist \cap Unsettling = {}
  BY <1>1 DEF NInv, Unsettling
<1>3. Steady(n) => Steady(nav)'
  BY <1>1 DEF Steady, Match, Pending, Redirect, Shown
<1>4. Flagged(n) => Flagged(nav)'
  BY <1>1 DEF Flagged, FlagOf
<1>5. Plain(n) => Plain(nav)'
  BY <1>1 DEF Plain
<1> QED BY <1>1, <1>2, <1>3, <1>4, <1>5 DEF NInv

\* What is typed is still there, or its loss is explained.
Kept == nav.typed \subseteq nav'.typed \/ hist' \cap {"twice", "reopened"} # {}

LEMMA SwitchFlagged ==
    ASSUME NEW n \in Pages, Flagged(n), NEW s,
           s \in Targets \/ (s = "profile-editor" /\ n.sec \notin Editors)
    PROVE  Flagged(SwitchSection(n, s))
<1> DEFINE m == SwitchSection(n, s)
           t == Redirect(s)
           d == [kind |-> n.sec, to |-> t]
<1>1. CASE m = Show(n, n.sec, t) /\ d \in Questions
  <2>1. m.typed = n.typed /\ m.flags = n.flags /\ m.sec = n.sec
    <3> HIDE DEF m, t
    <3> QED BY <1>1, ShowPage
  <2> QED BY <2>1 DEF Flagged
<1>2. CASE m = Loaded(n, t) /\ t \in Sections \cap Hashes
  <2>1. m.typed = {}
    <3> HIDE DEF m, t
    <3> QED BY <1>2, LoadedPage
  <2> QED BY <2>1 DEF Flagged
<1>3. CASE m.typed = {}
  BY <1>3 DEF Flagged
<1> QED BY <1>1, <1>2, <1>3, SwitchPage

LEMMA InstanceFlagged ==
    ASSUME NEW n \in Pages, Flagged(n)
    PROVE  Flagged(NavigateToInstanceEditor(n))
<1> DEFINE x == [n EXCEPT !.editing = TRUE, !.typed = @ \ {"instance-editor"},
                          !.flags = @ \ {"instance-editor"}]
           y == SwitchSection(x, "instance-editor")
           m == NavigateToInstanceEditor(n)
<1>1. /\ x \in Pages /\ x.sec = n.sec /\ x.typed = n.typed \ {"instance-editor"}
      /\ x.flags = n.flags \ {"instance-editor"}
      /\ m.sec = y.sec /\ m.typed = y.typed /\ m.flags = y.flags
  BY InstancePage
<1> HIDE DEF x, m
<1>2. Flagged(x)
  <2> SUFFICES ASSUME x.typed # {} PROVE FlagOf(x.sec) \in x.flags
    BY DEF Flagged
  <2>1. n.typed # {} /\ n.sec # "instance-editor" /\ n.typed \subseteq {n.sec}
    BY <1>1 DEF Pages
  <2>2. FlagOf(n.sec) \in n.flags /\ FlagOf(n.sec) # "instance-editor"
    BY <2>1 DEF Flagged, FlagOf
  <2> QED BY <1>1, <2>2
<1>3. Flagged(y)
  BY <1>1, <1>2, SwitchFlagged, SectionNames
<1> HIDE DEF y
<1> QED BY <1>1, <1>3 DEF Flagged, m

LEMMA NavigateGood ==
    ASSUME NInv, NEW h \in Hashes, Navigate(h)
    PROVE  NInv' /\ Kept
<1> DEFINE n == SetHash(nav, h)
           why == IF nav.events = <<>> /\ ~nav.open /\ log.reqs = {} THEN {} ELSE {"hasty"}
           e == [old |-> nav.hash, new |-> h]
<1>1. /\ Becomes(n, None, why) /\ h # nav.hash
      /\ scene # "forms" => h \in Links[scene]
  BY DEF Navigate
<1>2. nav \in Pages
  BY DEF NInv
<1>3. /\ n \in Pages /\ n.hash = h /\ n.events = Append(nav.events, e)
      /\ n.sec = nav.sec /\ n.open = nav.open /\ n.asks = nav.asks /\ n.typed = nav.typed
      /\ n.flags = nav.flags /\ n.thirdParty = nav.thirdParty
  BY <1>1, <1>2, SetHashPage
<1>4. why \in SUBSET Excuses /\ "twice" \notin why /\ nav' = n
  BY <1>1 DEF Excuses, Becomes
<1>5. ASSUME why \cap Unsettling = {}, Steady(nav) PROVE Steady(n)
  <2>1. nav.events = <<>> /\ ~nav.open
    BY <1>5 DEF Unsettling
  <2>2. nav.asks = <<>> /\ Match(nav.sec, nav.hash)
    BY <1>5, <2>1 DEF Steady
  <2>3. e \in Changes /\ e.old = nav.hash /\ e.new = h
    BY <1>2 DEF Pages, Records, Changes
  <2> HIDE DEF e, n
  <2>4. Append(<<>>, e) = <<e>>
    OBVIOUS
  <2> QED BY <1>3, <2>1, <2>2, <2>3, <2>4 DEF Steady
<1> HIDE DEF n, why
<1>6. scene # "forms" => Plain(n)
  BY <1>1, <1>3 DEF NInv, Plain
<1>7. Flagged(nav) => Flagged(n)
  BY <1>3 DEF Flagged
<1> QED BY <1>1, <1>3, <1>4, <1>5, <1>6, <1>7, PageBecomes DEF Kept

\* The event at the head of the queue, taken off it.
LEMMA Taken ==
    ASSUME NEW n \in Pages, n.events # <<>>, NEW h \in Hashes
    PROVE  LET x == [n EXCEPT !.events = Tail(@), !.hash = h] IN
           /\ x \in Pages /\ x.events = Tail(n.events) /\ x.hash = h
           /\ x.sec = n.sec /\ x.open = n.open /\ x.asks = n.asks /\ x.typed = n.typed
           /\ x.flags = n.flags /\ x.thirdParty = n.thirdParty
           /\ Head(n.events) \in Changes
<1>1. Tail(n.events) \in Seq(Changes) /\ Head(n.events) \in Changes
  BY DEF Pages, Records
<1>2. [n EXCEPT !.events = Tail(@), !.hash = h] \in Records
  BY <1>1 DEF Pages, Records
<1> QED BY <1>1, <1>2 DEF Pages, Records

LEMMA OneEvent ==
    ASSUME NEW n, Steady(n), n.events # <<>>
    PROVE  /\ Tail(n.events) = <<>> /\ ~n.open /\ n.asks = <<>>
           /\ Head(n.events).new = n.hash /\ Match(n.sec, Head(n.events).old)
<1>1. PICK e \in Changes : /\ n.events = <<e>> /\ e.new = n.hash /\ Match(n.sec, e.old)
                           /\ ~n.open /\ n.asks = <<>>
  BY DEF Steady
<1>2. Tail(<<e>>) = <<>> /\ Head(<<e>>) = e
  OBVIOUS
<1> QED BY <1>1, <1>2

LEMMA GuardedGood ==
    ASSUME NInv, HashGuarded
    PROVE  NInv' /\ Kept
<1> DEFINE e == Head(nav.events)
           x == [nav EXCEPT !.events = Tail(@), !.hash = e.old]
           d == [kind |-> "hash", to |-> e.new]
           n == Show(x, "hash", e.new)
<1>1. Becomes(n, None, {}) /\ nav.events # <<>> /\ "_hasUnsavedChanges" \in nav.flags
  BY DEF HashGuarded
<1>2. nav \in Pages /\ e \in Changes
  BY <1>1 DEF NInv, Pages, Records
<1>3. e.old \in Hashes /\ e.new \in Hashes
  BY <1>2 DEF Changes
<1>4. /\ x \in Pages /\ x.events = Tail(nav.events) /\ x.hash = e.old
      /\ x.sec = nav.sec /\ x.open = nav.open /\ x.asks = nav.asks /\ x.typed = nav.typed
      /\ x.flags = nav.flags /\ x.thirdParty = nav.thirdParty
  <2> HIDE DEF e
  <2> QED BY <1>1, <1>2, <1>3, Taken
<1>5. d \in Questions /\ d.kind = "hash"
  BY <1>3, SectionNames, FormNames DEF Questions
<1> HIDE DEF e, x
<1>6. /\ n \in Pages /\ n.sec = x.sec /\ n.hash = x.hash /\ n.events = x.events /\ n.open
      /\ n.asks = Append(x.asks, d) /\ n.typed = x.typed /\ n.flags = x.flags
      /\ n.thirdParty = x.thirdParty
  BY <1>4, <1>5, ShowPage
<1>7. nav' = n
  BY <1>1 DEF Becomes
<1> HIDE DEF n, d
<1>8. ASSUME Steady(nav) PROVE Steady(n)
  <2>1. Tail(nav.events) = <<>> /\ nav.asks = <<>> /\ Match(nav.sec, e.old)
    BY <1>1, <1>8, OneEvent DEF e
  <2>2. Append(<<>>, d) = <<d>>
    OBVIOUS
  <2>3. Pending(n, d)
    BY <1>4, <1>5, <1>6, <2>1 DEF Pending
  <2> QED BY <1>4, <1>5, <1>6, <2>1, <2>2, <2>3 DEF Steady
<1>9. scene = "forms"
  BY <1>1 DEF NInv, Plain
<1>10. Flagged(nav) => Flagged(n)
  BY <1>4, <1>6 DEF Flagged
<1> QED BY <1>1, <1>4, <1>6, <1>7, <1>8, <1>9, <1>10, PageBecomes DEF Kept

\* The section of the address is switched to.
HandledElse == [nav EXCEPT !.events = Tail(@)]

LEMMA TakenPage ==
    ASSUME nav \in Pages, nav.events # <<>>
    PROVE  LET x == HandledElse IN
           /\ x \in Pages /\ x.events = Tail(nav.events) /\ x.hash = nav.hash
           /\ x.sec = nav.sec /\ x.open = nav.open /\ x.asks = nav.asks /\ x.typed = nav.typed
           /\ x.flags = nav.flags /\ x.thirdParty = nav.thirdParty
<1>1. Tail(nav.events) \in Seq(Changes)
  BY DEF Pages, Records
<1>2. HandledElse \in Records
  BY <1>1 DEF HandledElse, Pages, Records
<1> QED BY <1>1, <1>2 DEF HandledElse, Pages, Records

\* What is flagged is asked about, unless the section is shown again.
LEMMA SwitchKeeps ==
    ASSUME NEW n \in Pages, Flagged(n), "_hasUnsavedChanges" \notin n.flags, NEW s \in Targets
    PROVE  LET m == SwitchSection(n, s) IN m.typed = n.typed \/ m.sec = n.sec
<1> DEFINE m == SwitchSection(n, s)
           t == Redirect(s)
<1>1. /\ m.typed \in {n.typed, {}}
      /\ n.sec # t /\ n.sec \in Editors \cap n.flags => m.typed = n.typed
      /\ n.sec = t => m.sec = Shown(t)
  BY Switched
<1>2. t # "elsewhere" => Shown(t) = t
  BY Redirection
<1> HIDE DEF m, t
<1>3. CASE n.typed = {}
  BY <1>1, <1>3 DEF m
<1>4. CASE n.typed # {}
  <2>1. FlagOf(n.sec) \in n.flags /\ n.sec \in Forms
    BY <1>4 DEF Flagged, Pages, Records
  <2>2. n.sec \in Editors \cap n.flags /\ n.sec # "elsewhere"
    BY <2>1, FormNames DEF FlagOf
  <2>3. m.typed = n.typed \/ m.sec = n.sec
    BY <1>1, <1>2, <2>2
  <2> QED BY <2>3 DEF m
<1> QED BY <1>3, <1>4

LEMMA InstanceKeeps ==
    ASSUME NEW n \in Pages, Flagged(n)
    PROVE  LET m == NavigateToInstanceEditor(n) IN
           "_hasUnsavedChanges" \in n.flags \/ m.typed = n.typed \/ m.sec = n.sec
<1> DEFINE x == [n EXCEPT !.editing = TRUE, !.typed = @ \ {"instance-editor"},
                          !.flags = @ \ {"instance-editor"}]
           y == SwitchSection(x, "instance-editor")
           m == NavigateToInstanceEditor(n)
<1>1. /\ x \in Pages /\ x.sec = n.sec /\ x.typed = n.typed \ {"instance-editor"}
      /\ x.flags = n.flags \ {"instance-editor"}
      /\ m.sec = y.sec /\ m.typed = y.typed
  BY InstancePage
<1> HIDE DEF x, m
<1>2. "instance-editor" \in Targets
  BY SectionNames
<1>3. Redirect("instance-editor") = "instance-editor" /\ Shown("instance-editor") = "instance-editor"
  BY Redirection DEF ThirdParty
<1>4. CASE n.sec = "instance-editor"
  <2>1. y.sec = "instance-editor"
    BY <1>1, <1>2, <1>3, <1>4, Switched
  <2>2. m.sec = n.sec
    BY <1>1, <1>4, <2>1
  <2> QED BY <2>2 DEF m
<1>5. CASE n.sec # "instance-editor"
  <2>1. n.typed \subseteq {n.sec}
    BY DEF Pages
  <2>2. x.typed = n.typed
    BY <1>1, <1>5, <2>1
  <2>3. Flagged(x)
    <3> SUFFICES ASSUME x.typed # {} PROVE FlagOf(x.sec) \in x.flags
      BY DEF Flagged
    <3>1. FlagOf(n.sec) \in n.flags /\ FlagOf(n.sec) # "instance-editor"
      BY <1>5, <2>2 DEF Flagged, FlagOf
    <3> QED BY <1>1, <3>1
  <2>4. "_hasUnsavedChanges" \in n.flags \/ y.typed = x.typed \/ y.sec = x.sec
    <3>1. CASE "_hasUnsavedChanges" \in x.flags
      BY <1>1, <3>1
    <3>2. CASE "_hasUnsavedChanges" \notin x.flags
      BY <1>1, <1>2, <2>3, <3>2, SwitchKeeps
    <3> QED BY <3>1, <3>2
  <2>5. "_hasUnsavedChanges" \in n.flags \/ m.typed = n.typed \/ m.sec = n.sec
    BY <1>1, <2>2, <2>4
  <2> QED BY <2>5 DEF m
<1> QED BY <1>4, <1>5

LEMMA HandledGood ==
    ASSUME NInv, HashHandled
    PROVE  NInv' /\ Kept
<1> DEFINE x   == HandledElse
           n   == HandleHash(x)
           why == IF n.sec = nav.sec /\ n.typed # nav.typed THEN {"reopened"} ELSE {}
           s   == IF scene = "forms" THEN None ELSE Redirect(nav.hash)
<1>1. Becomes(n, s, why) /\ nav.events # <<>> /\ "_hasUnsavedChanges" \notin nav.flags
  BY DEF HashHandled, HandledElse
<1>2. nav \in Pages
  BY DEF NInv
<1>3. /\ x \in Pages /\ x.events = Tail(nav.events) /\ x.hash = nav.hash
      /\ x.sec = nav.sec /\ x.open = nav.open /\ x.asks = nav.asks /\ x.typed = nav.typed
      /\ x.flags = nav.flags /\ x.thirdParty = nav.thirdParty
  BY <1>1, <1>2, TakenPage
<1>4. why \in SUBSET Excuses /\ "twice" \notin why /\ nav' = n /\ why \subseteq hist'
  BY <1>1 DEF Excuses, Becomes
<1> HIDE DEF x, why
<1>5. ASSUME Steady(nav)
      PROVE  AtRest(x)
  BY <1>1, <1>3, <1>5, OneEvent DEF AtRest
<1>6. Flagged(nav) => Flagged(x)
  BY <1>3 DEF Flagged
<1>7. CASE nav.hash = "sonarr-settings"
  <2> DEFINE z == [x EXCEPT !.editing = TRUE, !.typed = @ \ {"instance-editor"},
                            !.flags = @ \ {"instance-editor"}]
             y == SwitchSection(z, "instance-editor")
             d == [kind |-> z.sec, to |-> Redirect("instance-editor")]
  <2>1. n = NavigateToInstanceEditor(x)
    BY <1>3, <1>7 DEF HandleHash
  <2>2. /\ n \in Pages /\ z \in Pages /\ n.hash = "sonarr-settings"
        /\ z.events = x.events /\ z.open = x.open /\ z.asks = x.asks
        /\ n.sec = y.sec /\ n.events = y.events /\ n.open = y.open /\ n.asks = y.asks
        /\ n.thirdParty = x.thirdParty
    BY <1>3, <2>1, InstancePage
  <2>3. Flagged(nav) => Flagged(n)
    BY <1>3, <1>6, <2>1, InstanceFlagged
  <2>4. Flagged(nav) => n.typed = nav.typed \/ n.sec = nav.sec
    BY <1>1, <1>3, <1>6, <2>1, InstanceKeeps
  <2> HIDE DEF n, z
  <2>5. ASSUME Steady(nav) PROVE Steady(n)
    <3>1. AtRest(z) /\ "instance-editor" \in Targets
      BY <1>5, <2>2, <2>5, SectionNames DEF AtRest
    <3>2. \/ /\ d \in Questions /\ y.events = <<>> /\ y.open /\ y.asks = <<d>>
          \/ AtRest(y) /\ y.sec = Shown(Redirect("instance-editor"))
      BY <2>2, <3>1, SwitchSteady
    <3>3. Match(Shown(Redirect(Redirect("instance-editor"))), "sonarr-settings")
          /\ Match(Shown(Redirect("instance-editor")), "sonarr-settings")
      BY Matches, Redirection
    <3> HIDE DEF y
    <3>4. CASE d \in Questions /\ y.events = <<>> /\ y.open /\ y.asks = <<d>>
      <4>1. d.to = Redirect("instance-editor") /\ d.kind \in Editors \cup {"hash", "back"}
            /\ d.kind = z.sec /\ z.sec \in Sections
        BY <2>2, <3>4 DEF Questions, Pages, Records
      <4>2. d.kind \notin {"hash", "back"}
        BY <4>1, SectionNames
      <4>3. Pending(n, d)
        BY <2>2, <3>3, <4>1, <4>2 DEF Pending
      <4> HIDE DEF d
      <4> QED BY <2>2, <3>4, <4>3 DEF Steady
    <3>5. CASE AtRest(y) /\ y.sec = Shown(Redirect("instance-editor"))
      BY <2>2, <3>3, <3>5 DEF Steady, AtRest
    <3> QED BY <3>2, <3>4, <3>5
  <2>6. scene = "forms"
    <3>1. scene \in {"forms", "logs", "stats", "home"}
      BY SectionsAssumption DEF SectionsAssumption, NInv
    <3> QED BY <1>7, <3>1 DEF NInv, Plain, Links
  <2>7. NInv'
    BY <1>1, <1>3, <1>4, <2>2, <2>3, <2>5, <2>6, PageBecomes
  <2>8. Kept
    <3>1. CASE "twice" \in hist
      BY <1>1, <3>1 DEF Becomes, Kept
    <3>2. CASE Flagged(nav)
      BY <1>4, <2>4, <3>2 DEF Kept, why
    <3> QED BY <3>1, <3>2 DEF NInv
  <2> QED BY <2>7, <2>8
<1>8. CASE nav.hash # "sonarr-settings"
  <2> DEFINE h == nav.hash
             t == Redirect(h)
             d == [kind |-> x.sec, to |-> t]
  <2>1. n = SwitchSection(x, h)
    BY <1>3, <1>8 DEF HandleHash
  <2>2. h \in Targets
    BY <1>2, <1>8 DEF Pages, Records, Targets
  <2>3. n \in Pages /\ n.thirdParty = x.thirdParty
    BY <1>3, <2>1, <2>2, Switched
  <2>4. Flagged(nav) => Flagged(n)
    BY <1>3, <1>6, <2>1, <2>2, SwitchFlagged
  <2>5. Flagged(nav) => n.typed = nav.typed \/ n.sec = nav.sec
    BY <1>1, <1>3, <1>6, <2>1, <2>2, SwitchKeeps
  <2>6. ASSUME Steady(nav) PROVE Steady(n)
    <3>1. \/ /\ d \in Questions /\ n.events = <<>> /\ n.open /\ n.asks = <<d>>
             /\ n.hash = h
          \/ AtRest(n) /\ n.sec = Shown(t) /\ n.hash \in {h, t}
      BY <1>3, <1>5, <2>1, <2>2, <2>6, SwitchSteady
    <3>2. Match(Shown(t), h) /\ Match(Shown(t), t) /\ Match(Shown(Redirect(t)), h)
      BY Matches
    <3> HIDE DEF n, h, t
    <3>3. CASE d \in Questions /\ n.events = <<>> /\ n.open /\ n.asks = <<d>> /\ n.hash = h
      <4>1. d.to = t /\ d.kind = x.sec /\ x.sec \in Sections
        BY <1>3, <3>3 DEF Pages, Records
      <4>2. d.kind \notin {"hash", "back"}
        BY <4>1, SectionNames
      <4>3. Pending(n, d)
        BY <3>2, <3>3, <4>1, <4>2 DEF Pending
      <4> HIDE DEF d
      <4> QED BY <3>3, <4>3 DEF Steady
    <3>4. CASE AtRest(n) /\ n.sec = Shown(t) /\ n.hash \in {h, t}
      BY <3>2, <3>4 DEF Steady, AtRest
    <3> QED BY <3>1, <3>3, <3>4
  <2>7. scene # "forms" => Plain(n)
    <3> SUFFICES ASSUME scene # "forms" PROVE Plain(n)
      OBVIOUS
    <3>1. /\ nav.flags = {} /\ nav.typed = {} /\ nav.asks = <<>> /\ nav.thirdParty
          /\ nav.sec \in Links[scene] \ {"elsewhere"} /\ h \in Links[scene]
          /\ scene \in {"logs", "stats", "home"}
      BY SectionsAssumption DEF SectionsAssumption, NInv, Plain
    <3>2. t = h /\ nav.sec \in NoRefresh /\ Shown(h) \in Links[scene] \ {"elsewhere"}
      BY <3>1, Redirection DEF Links, NoRefresh, Shown
    <3>3. /\ n.sec = Shown(t) /\ n.typed = {} /\ n.flags = x.flags \ {t} /\ n.hash = x.hash
          /\ n.asks = x.asks
      <4> HIDE DEF n, t, h
      <4>1. x.sec \notin x.flags /\ x.sec \in NoRefresh
        BY <1>3, <3>1, <3>2
      <4> QED BY <1>3, <2>1, <2>2, <4>1, Switched DEF t
    <3> QED BY <1>3, <2>3, <3>1, <3>2, <3>3 DEF Plain
  <2> HIDE DEF n
  <2>8. NInv'
    BY <1>1, <1>3, <1>4, <2>3, <2>4, <2>6, <2>7, PageBecomes
  <2>9. Kept
    <3>1. CASE "twice" \in hist
      BY <1>1, <3>1 DEF Becomes, Kept
    <3>2. CASE Flagged(nav)
      BY <1>4, <2>5, <3>2 DEF Kept, why
    <3> QED BY <3>1, <3>2 DEF NInv
  <2> QED BY <2>8, <2>9
<1> QED BY <1>7, <1>8

\* A click finds the page at rest.
LEMMA Clicked ==
    ASSUME NEW n, Steady(n), ~n.open, n.events = <<>>
    PROVE  AtRest(n) /\ Match(n.sec, n.hash)
BY DEF Steady, AtRest

LEMMA PlainSection ==
    ASSUME NInv, scene # "forms"
    PROVE  nav.sec \in {"home", "logs", "swaparr"} /\ nav.typed = {} /\ ~nav.open
BY SectionsAssumption DEF SectionsAssumption, NInv, Plain, Links, Pages

\* The typed edits are gone only from a section without any.
LEMMA NoneTyped ==
    ASSUME NEW n \in Pages, n.sec \notin Forms
    PROVE  n.typed = {}
BY DEF Pages, Records

LEMMA OpenInstanceGood ==
    ASSUME NInv, OpenInstance
    PROVE  NInv' /\ Kept
<1> DEFINE n == NavigateToInstanceEditor(nav)
           z == [nav EXCEPT !.editing = TRUE, !.typed = @ \ {"instance-editor"},
                            !.flags = @ \ {"instance-editor"}]
           y == SwitchSection(z, "instance-editor")
<1>1. Becomes(n, None, {}) /\ nav.sec = "sonarr" /\ ~nav.open /\ nav.events = <<>>
  BY DEF OpenInstance, Click
<1>2. nav \in Pages
  BY DEF NInv
<1>3. /\ n \in Pages /\ z \in Pages /\ n.hash = "sonarr-settings"
      /\ z.events = nav.events /\ z.open = nav.open /\ z.asks = nav.asks /\ z.sec = nav.sec
      /\ n.sec = y.sec /\ n.events = y.events /\ n.open = y.open /\ n.asks = y.asks
      /\ n.thirdParty = nav.thirdParty
  BY <1>2, InstancePage
<1>4. Flagged(nav) => Flagged(n)
  BY <1>2, InstanceFlagged
<1>5. nav.typed = {}
  BY <1>1, <1>2, NoneTyped DEF Forms
<1> HIDE DEF n, z
<1>6. ASSUME Steady(nav) PROVE Steady(n)
  <2>1. AtRest(z)
    BY <1>1, <1>3, <1>6, Clicked DEF AtRest
  <2>2. "instance-editor" \in Targets
    BY SectionNames
  <2>3. z.sec \notin Editors
    BY <1>1, <1>3, FormNames
  <2>4. AtRest(y) /\ y.sec = Shown(Redirect("instance-editor"))
    BY <1>3, <2>1, <2>2, <2>3, SwitchSteady
  <2> HIDE DEF y
  <2> QED BY <1>3, <2>4, Matches DEF Steady, AtRest
<1>7. scene = "forms"
  BY <1>1, PlainSection
<1>8. NInv'
  BY <1>1, <1>3, <1>4, <1>6, <1>7, PageBecomes
<1> QED BY <1>5, <1>8 DEF Kept

LEMMA OpenProfileGood ==
    ASSUME NInv, OpenProfile
    PROVE  NInv' /\ Kept
<1> DEFINE z == [nav EXCEPT !.flags = @ \ {"profile-editor"}]
           n == SwitchSection(z, "profile-editor")
<1>1. Becomes(n, None, {}) /\ nav.sec = "settings-profiles" /\ ~nav.open /\ nav.events = <<>>
  BY DEF OpenProfile, Click
<1>2. nav \in Pages /\ nav.typed = {}
  BY <1>1, NoneTyped DEF NInv, Forms
<1>3. /\ z \in Pages /\ z.sec = nav.sec /\ z.events = nav.events /\ z.open = nav.open
      /\ z.asks = nav.asks /\ z.hash = nav.hash /\ z.thirdParty = nav.thirdParty /\ z.typed = {}
  BY <1>2 DEF Pages, Records
<1> HIDE DEF z
<1>4. z.sec \notin Editors
  BY <1>1, <1>3, FormNames
<1>5. n \in Pages /\ n.thirdParty = nav.thirdParty /\ n.typed = {}
  BY <1>3, <1>4, Switched
<1>6. ASSUME Steady(nav) PROVE Steady(n)
  <2>1. AtRest(z) /\ Match(nav.sec, nav.hash)
    BY <1>1, <1>3, <1>6, Clicked DEF AtRest
  <2>2. Redirect("profile-editor") = "profile-editor" /\ Shown("profile-editor") = "profile-editor"
    BY Redirection DEF ThirdParty
  <2>3. AtRest(n) /\ n.sec = "profile-editor" /\ n.hash \in {nav.hash, "profile-editor"}
    BY <1>3, <1>4, <2>1, <2>2, SwitchSteady
  <2>4. nav.hash = "settings-profiles"
    BY <1>1, <2>1 DEF Match, Shown, Redirect
  <2>5. n.hash # "profile-editor"
    BY <1>5, SectionNames DEF Pages, Records
  <2> HIDE DEF n
  <2> QED BY <2>3, <2>4, <2>5 DEF Steady, AtRest, Match
<1>7. scene = "forms"
  BY <1>1, PlainSection
<1>8. Flagged(n)
  BY <1>5 DEF Flagged
<1>9. NInv'
  <2> HIDE DEF n
  <2> QED BY <1>1, <1>5, <1>6, <1>7, <1>8, PageBecomes
<1> QED BY <1>2, <1>9 DEF Kept

LEMMA EditGood ==
    ASSUME NInv, Edit
    PROVE  NInv' /\ Kept
<1> DEFINE n == [nav EXCEPT !.typed = @ \cup {nav.sec}, !.flags = @ \cup {FlagOf(nav.sec)}]
<1>1. Becomes(n, None, {}) /\ nav.sec \in Forms /\ scene = "forms"
  BY DEF Edit
<1>2. nav \in Pages /\ FlagOf(nav.sec) \in Flags
  BY <1>1, FormNames DEF NInv
<1>3. /\ n \in Pages /\ n.sec = nav.sec /\ n.hash = nav.hash /\ n.events = nav.events
      /\ n.open = nav.open /\ n.asks = nav.asks /\ n.thirdParty = nav.thirdParty
      /\ nav.typed \subseteq n.typed /\ FlagOf(n.sec) \in n.flags
  <2>1. n \in Records
    BY <1>1, <1>2 DEF Pages, Records
  <2> QED BY <2>1, <1>1, <1>2 DEF Pages, Records
<1> HIDE DEF n
<1>4. Steady(nav) => Steady(n)
  BY <1>3 DEF Steady, Pending
<1>5. Flagged(n)
  BY <1>3 DEF Flagged
<1>6. nav' = n
  BY <1>1 DEF Becomes
<1> QED BY <1>1, <1>3, <1>4, <1>5, <1>6, PageBecomes DEF Kept

\* Save takes away what is typed, so only the invariant is kept.
LEMMA SaveGood ==
    ASSUME NInv, Save
    PROVE  NInv'
<1> DEFINE x == [nav EXCEPT !.typed = @ \ {nav.sec}, !.flags = @ \ {FlagOf(nav.sec)}]
           y == SwitchSection(x, "media-snipe-instances")
           n == IF nav.sec = "settings-media-management" THEN y ELSE x
<1>1. Becomes(n, None, {}) /\ nav.sec \in nav.typed /\ ~nav.open /\ nav.events = <<>>
  BY DEF Save, Click
<1>2. nav \in Pages
  BY DEF NInv
<1>3. /\ x \in Pages /\ x.sec = nav.sec /\ x.hash = nav.hash /\ x.events = nav.events
      /\ x.open = nav.open /\ x.asks = nav.asks /\ x.thirdParty = nav.thirdParty
      /\ x.typed = {} /\ x.flags = nav.flags \ {FlagOf(nav.sec)}
  <2>1. x \in Records
    BY <1>1, <1>2 DEF Pages, Records
  <2> QED BY <2>1, <1>1, <1>2 DEF Pages, Records
<1> HIDE DEF x
<1>4. y \in Pages /\ y.thirdParty = nav.thirdParty /\ y.typed = {}
  BY <1>3, Switched, SectionNames
<1>5. ASSUME Steady(nav) PROVE Steady(n)
  <2>1. AtRest(x) /\ Match(x.sec, x.hash)
    BY <1>1, <1>3, <1>5, Clicked DEF AtRest
  <2>2. CASE nav.sec = "settings-media-management"
    <3>1. x.sec \notin x.flags /\ "media-snipe-instances" \in Targets /\ x.sec = nav.sec
      BY <1>3, <2>2, SectionNames DEF FlagOf
    <3>2. Redirect("media-snipe-instances") = "media-snipe-instances"
          /\ Shown("media-snipe-instances") = "media-snipe-instances"
      BY Redirection DEF ThirdParty
    <3>3. y = Loaded(x, "media-snipe-instances") /\ "media-snipe-instances" \in Sections \cap Hashes
      BY <2>2, <3>1, <3>2, SectionNames DEF SwitchSection, Asks, Mine, Reloads, NoRefresh
    <3> HIDE DEF y
    <3>4. AtRest(y) /\ y.hash = y.sec
      BY <1>3, <3>2, <3>3, LoadedPage DEF AtRest
    <3> QED BY <2>2, <3>4 DEF Steady, AtRest, Match
  <2>3. CASE nav.sec # "settings-media-management"
    BY <2>1, <2>3 DEF Steady, AtRest
  <2> QED BY <2>2, <2>3
<1>6. scene = "forms"
  BY <1>1, PlainSection
<1>7. n \in Pages /\ n.thirdParty = nav.thirdParty /\ Flagged(n)
  BY <1>3, <1>4 DEF Flagged
<1> HIDE DEF n
<1> QED BY <1>1, <1>5, <1>6, <1>7, PageBecomes

LEMMA BackGood ==
    ASSUME NInv, BackButton
    PROVE  NInv' /\ Kept
<1> DEFINE kind == IF nav.sec = "instance-editor" THEN "back" ELSE nav.sec
           to   == IF nav.sec = "instance-editor" THEN "sonarr" ELSE "settings-profiles"
           d    == [kind |-> kind, to |-> to]
           n    == IF nav.sec \in nav.flags THEN Show(nav, kind, to) ELSE Left(nav, d)
<1>1. /\ Becomes(n, None, {}) /\ ~nav.open /\ nav.events = <<>>
      /\ nav.sec \in {"instance-editor", "profile-editor"}
  BY DEF BackButton, Click
<1>2. nav \in Pages
  BY DEF NInv
<1>3. d \in Questions /\ d.kind = kind /\ d.to = to
  BY <1>1, SectionNames, FormNames DEF Questions
<1>4. ASSUME Steady(nav) PROVE AtRest(nav) /\ Match(nav.sec, nav.hash) /\ Pending(nav, d)
  <2>1. AtRest(nav) /\ Match(nav.sec, nav.hash)
    BY <1>1, <1>4, Clicked
  <2>2. CASE nav.sec = "instance-editor"
    BY <1>3, <2>1, <2>2 DEF Pending
  <2>3. CASE nav.sec = "profile-editor"
    <3>1. Redirect("settings-profiles") = "settings-profiles"
          /\ Shown("settings-profiles") = "settings-profiles"
      BY Redirection DEF ThirdParty
    <3>2. nav.hash # "profile-editor"
      BY <1>2, SectionNames DEF Pages, Records
    <3>3. nav.hash = "settings-profiles"
      BY <2>1, <2>3, <3>2, Redirection DEF Match, ThirdParty, Redirect, Shown
    <3> QED BY <1>3, <2>1, <2>3, <3>1, <3>3 DEF Pending, Match
  <2> QED BY <1>1, <2>1, <2>2, <2>3
<1>5. scene = "forms"
  BY <1>1, PlainSection
<1> HIDE DEF d
<1>6. CASE nav.sec \in nav.flags
  <2>1. /\ n \in Pages /\ n.sec = nav.sec /\ n.hash = nav.hash /\ n.events = nav.events /\ n.open
        /\ n.asks = Append(nav.asks, d)
        /\ n.typed = nav.typed /\ n.flags = nav.flags /\ n.thirdParty = nav.thirdParty
    BY <1>2, <1>3, <1>6, ShowPage DEF d
  <2>2. nav' = n
    BY <1>1 DEF Becomes
  <2> HIDE DEF n
  <2>3. ASSUME Steady(nav) PROVE Steady(n)
    <3>1. Append(<<>>, d) = <<d>>
      OBVIOUS
    <3>2. nav.events = <<>> /\ nav.asks = <<>> /\ Pending(n, d)
      BY <1>4, <2>1, <2>3 DEF AtRest, Pending
    <3> QED BY <1>3, <2>1, <3>1, <3>2 DEF Steady
  <2>4. Flagged(nav) => Flagged(n)
    BY <2>1 DEF Flagged
  <2>5. NInv'
    BY <1>1, <1>5, <2>1, <2>3, <2>4, PageBecomes
  <2> QED BY <2>1, <2>2, <2>5 DEF Kept
<1>7. CASE nav.sec \notin nav.flags
  <2>1. n = Left(nav, d)
    BY <1>7
  <2>2. d.kind # "hash"
    BY <1>1, <1>3
  <2>3. n \in Pages /\ n.thirdParty = nav.thirdParty /\ n.typed = {} /\ ~n.open
    BY <1>1, <1>2, <1>3, <1>7, <2>1, <2>2, LeftPage
  <2>4. ASSUME Steady(nav) PROVE Steady(n)
    BY <1>2, <1>3, <1>4, <2>1, <2>3, <2>4, LeftSteady
  <2> HIDE DEF n
  <2>5. Flagged(n)
    BY <2>3 DEF Flagged
  <2>6. NInv'
    BY <1>1, <1>5, <2>3, <2>4, <2>5, PageBecomes
  <2>7. Kept
    <3>1. CASE "twice" \in hist
      BY <1>1, <3>1 DEF Becomes, Kept
    <3>2. CASE Flagged(nav)
      <4>1. nav.typed = {}
        BY <1>1, <1>7, <3>2 DEF Flagged, FlagOf
      <4> QED BY <4>1 DEF Kept
    <3> QED BY <3>1, <3>2 DEF NInv
  <2> QED BY <2>6, <2>7
<1> QED BY <1>6, <1>7

\* A question that is open is asked of a page at rest.
LEMMA Asked ==
    ASSUME NEW n \in Pages, n.open
    PROVE  /\ Len(n.asks) \in Nat \ {0} /\ n.asks[Len(n.asks)] \in Questions
           /\ Front(n.asks) \in Seq(Questions)
           /\ Steady(n) => /\ n.events = <<>> /\ Len(n.asks) = 1 /\ Front(n.asks) = <<>>
                           /\ n.asks = <<n.asks[1]>> /\ Pending(n, n.asks[1])
<1>1. n.asks \in Seq(Questions) /\ n.asks # <<>>
  BY DEF Pages, Records
<1>2. Len(n.asks) \in Nat \ {0}
  BY <1>1
<1>3. n.asks[Len(n.asks)] \in Questions
  BY <1>1, <1>2
<1>4. Front(n.asks) \in Seq(Questions)
  BY <1>1, <1>2 DEF Front
<1>5. ASSUME Steady(n)
      PROVE  /\ n.events = <<>> /\ Len(n.asks) = 1 /\ Front(n.asks) = <<>>
             /\ n.asks = <<n.asks[1]>> /\ Pending(n, n.asks[1])
  <2>1. PICK d \in Questions : n.events = <<>> /\ n.asks = <<d>> /\ Pending(n, d)
    BY <1>5 DEF Steady
  <2>2. Len(<<d>>) = 1 /\ <<d>>[1] = d /\ SubSeq(<<d>>, 1, 0) = <<>>
    OBVIOUS
  <2>3. Front(n.asks) = SubSeq(<<d>>, 1, 0)
    BY <2>1, <2>2 DEF Front
  <2> QED BY <2>1, <2>2, <2>3
<1> QED BY <1>2, <1>3, <1>4, <1>5

LEMMA LeaveGood ==
    ASSUME NInv, Leave
    PROVE  NInv'
<1> DEFINE d == Last(nav.asks)
           x == [nav EXCEPT !.open = FALSE, !.asks = Front(@)]
           n == Left(x, d)
<1>1. Becomes(n, None, AskedAgain(n)) /\ nav.open
  BY DEF Leave
<1>2. nav \in Pages
  BY DEF NInv
<1>3. d \in Questions /\ Front(nav.asks) \in Seq(Questions)
  BY <1>1, <1>2, Asked DEF Last
<1> HIDE DEF d
<1>4. /\ x \in Pages /\ ~x.open /\ x.asks = Front(nav.asks) /\ x.sec = nav.sec /\ x.hash = nav.hash
      /\ x.events = nav.events /\ x.typed = nav.typed /\ x.flags = nav.flags
      /\ x.thirdParty = nav.thirdParty
  <2>1. x \in Records
    BY <1>2, <1>3 DEF Pages, Records
  <2> QED BY <2>1, <1>2, <1>3 DEF Pages, Records
<1> HIDE DEF x
<1>5. n \in Pages /\ n.thirdParty = nav.thirdParty /\ (n.open \/ (Flagged(x) => Flagged(n)))
  BY <1>3, <1>4, LeftPage
<1>6. ASSUME Steady(nav) PROVE n.open \/ Steady(n)
  <2>1. nav.events = <<>> /\ Front(nav.asks) = <<>> /\ Pending(nav, d)
    BY <1>1, <1>2, <1>6, Asked DEF d, Last
  <2>2. AtRest(x) /\ Pending(x, d)
    BY <1>4, <2>1 DEF AtRest, Pending
  <2> QED BY <1>3, <1>4, <2>2, LeftSteady
<1>7. AskedAgain(n) \in SUBSET Excuses /\ (n.open => "twice" \in AskedAgain(n))
  BY DEF AskedAgain, Excuses
<1>8. scene = "forms"
  BY <1>1, PlainSection
<1>9. Flagged(nav) => Flagged(x)
  BY <1>4 DEF Flagged
<1> HIDE DEF n
<1>10. "twice" \notin AskedAgain(n) /\ Flagged(nav) => Flagged(n)
  BY <1>5, <1>7, <1>9
<1>11. AskedAgain(n) \cap Unsettling = {} /\ Steady(nav) => Steady(n)
  BY <1>6, <1>7 DEF Unsettling
<1> QED BY <1>1, <1>5, <1>7, <1>8, <1>10, <1>11, PageBecomes

LEMMA GoBackGood ==
    ASSUME NInv, GoBack
    PROVE  NInv' /\ Kept
<1> DEFINE d   == Last(nav.asks)
           n   == [nav EXCEPT !.open = FALSE, !.asks = Front(@)]
           why == IF d.kind \in Editors THEN {"stayed"} ELSE {}
<1>1. Becomes(n, None, why) /\ nav.open
  BY DEF GoBack
<1>2. nav \in Pages
  BY DEF NInv
<1>3. d \in Questions /\ Front(nav.asks) \in Seq(Questions)
  BY <1>1, <1>2, Asked DEF Last
<1>4. why \in SUBSET Excuses /\ "twice" \notin why /\ nav' = n
  BY <1>1 DEF Excuses, Becomes
<1> HIDE DEF d
<1>5. /\ n \in Pages /\ ~n.open /\ n.asks = Front(nav.asks) /\ n.sec = nav.sec /\ n.hash = nav.hash
      /\ n.events = nav.events /\ n.typed = nav.typed /\ n.flags = nav.flags
      /\ n.thirdParty = nav.thirdParty
  <2>1. n \in Records
    BY <1>2, <1>3 DEF Pages, Records
  <2> QED BY <2>1, <1>2, <1>3 DEF Pages, Records
<1> HIDE DEF n
<1>6. ASSUME Steady(nav), why \cap Unsettling = {} PROVE Steady(n)
  <2>1. nav.events = <<>> /\ Front(nav.asks) = <<>> /\ Pending(nav, d)
    BY <1>1, <1>2, <1>6, Asked DEF d, Last
  <2>2. d.kind \in {"hash", "back"}
    BY <1>3, <1>6 DEF Questions, Unsettling
  <2> QED BY <1>5, <2>1, <2>2 DEF Steady, Pending
<1> HIDE DEF why
<1>7. scene = "forms"
  BY <1>1, PlainSection
<1>8. Flagged(nav) => Flagged(n)
  BY <1>5 DEF Flagged
<1> QED BY <1>1, <1>4, <1>5, <1>6, <1>7, <1>8, PageBecomes DEF Kept

LEMMA EscapeGood ==
    ASSUME NInv, Escape
    PROVE  NInv'
<1> DEFINE m   == Escaped(nav)
           k   == Len(nav.asks)
           n   == m[k]
           why == UNION {AskedAgain(m[i]) : i \in 1..k}
<1>1. Becomes(n, None, why) /\ nav.open
  BY DEF Escape
<1>2. nav \in Pages
  BY DEF NInv
<1>3. /\ k \in Nat \ {0} /\ n \in Pages /\ n.thirdParty = nav.thirdParty
      /\ (\E i \in 1..k : m[i].open) \/ (Flagged(nav) => Flagged(n))
  BY <1>1, <1>2, EscapedPage
<1> HIDE DEF m
<1>4. why \subseteq {"twice"} /\ \A i \in 1..k : m[i].open => "twice" \in why
  BY DEF AskedAgain
<1>5. ASSUME Steady(nav), \A i \in 1..k : ~m[i].open
      PROVE  Steady(n)
  <2> DEFINE d == nav.asks[1]
             x == [nav EXCEPT !.open = FALSE, !.asks = RemoveFirst(@, d)]
  <2>1. nav.events = <<>> /\ k = 1 /\ nav.asks = <<d>> /\ Pending(nav, d) /\ d \in Questions
    BY <1>1, <1>2, <1>5, Asked
  <2>2. n = Answering(nav, d)
    <3>1. 1 \in 0..k /\ 0 \in 0..k
      BY <2>1
    <3>2. \A i \in 0..k :
           m[i] = IF i = 0 THEN nav
                  ELSE IF m[i - 1].open THEN Answering(m[i - 1], nav.asks[i]) ELSE m[i - 1]
      BY <1>3, EscapedSteps DEF m
    <3>3. m[0] = nav
      BY <3>1, <3>2
    <3> QED BY <1>1, <2>1, <3>1, <3>2, <3>3
  <2>3. Answering(nav, d) = Left(x, d)
    BY DEF Answering
  <2>4. RemoveFirst(nav.asks, d) = <<>>
    <3>1. nav.asks \in Seq(Questions)
      BY <1>2 DEF Pages, Records
    <3> HIDE DEF d
    <3> QED BY <2>1, <3>1, Removed
  <2> HIDE DEF d
  <2>5. /\ x \in Pages /\ ~x.open /\ x.asks = <<>> /\ x.sec = nav.sec /\ x.hash = nav.hash
        /\ x.events = nav.events
    <3>1. <<>> \in Seq(Questions)
      OBVIOUS
    <3>2. x \in Records
      BY <1>2, <2>4, <3>1 DEF Pages, Records
    <3> QED BY <3>2, <1>2, <2>4 DEF Pages, Records
  <2> HIDE DEF x
  <2>6. AtRest(x) /\ Pending(x, d)
    BY <2>1, <2>5 DEF AtRest, Pending
  <2>7. ~n.open
    BY <1>3, <1>5
  <2> QED BY <2>1, <2>2, <2>3, <2>5, <2>6, <2>7, LeftSteady
<1>6. scene = "forms"
  BY <1>1, PlainSection
<1> HIDE DEF n, why
<1>7. why \in SUBSET Excuses
  BY <1>4 DEF Excuses
<1>8. "twice" \notin why /\ Flagged(nav) => Flagged(n)
  BY <1>3, <1>4
<1>9. why \cap Unsettling = {} /\ Steady(nav) => Steady(n)
  BY <1>4, <1>5 DEF Unsettling
<1> QED BY <1>1, <1>3, <1>6, <1>7, <1>8, <1>9, PageBecomes

LEMMA ReloadGood ==
    ASSUME NInv, Reload
    PROVE  NInv'
<1> DEFINE s == IF nav.hash = "sonarr-settings" THEN "sonarr" ELSE nav.hash
           n == Loaded(nav, s)
<1>1. Becomes(n, None, {}) /\ scene = "forms"
  BY DEF Reload
<1>2. nav \in Pages /\ s \in Sections \cap Hashes
  BY SectionNames DEF NInv, Pages, Records
<1> HIDE DEF s
<1>3. /\ n \in Pages /\ n.sec = Shown(s) /\ n.hash = s /\ n.events = <<>> /\ ~n.open /\ n.asks = <<>>
      /\ n.typed = {} /\ n.thirdParty = nav.thirdParty
  BY <1>2, LoadedPage
<1> HIDE DEF n
<1>4. Steady(n) /\ Flagged(n)
  BY <1>3, Matches DEF Steady, Flagged
<1> QED BY <1>1, <1>3, <1>4, PageBecomes

\* What the log view and the home page do leaves the page alone.
LEMMA AsideGood ==
    ASSUME NInv, nav' = nav, scene' = scene, NEW why \in SUBSET Excuses, hist' = hist \cup why
    PROVE  NInv' /\ Kept
<1>1. Steady(nav) => Steady(nav)'
  BY DEF Steady, Match, Pending, Redirect, Shown
<1>2. Flagged(nav) => Flagged(nav)'
  BY DEF Flagged, FlagOf
<1>3. Plain(nav) => Plain(nav)'
  BY DEF Plain
<1> QED BY <1>1, <1>2, <1>3 DEF NInv, Unsettling, Kept

LEMMA LogAside ==
    ASSUME LogNext
    PROVE  /\ nav' = nav /\ scene' = scene /\ UNCHANGED <<cd, stats, srv>>
           /\ \E why \in SUBSET Excuses : hist' = hist \cup why
<1>1. ASSUME NEW l, LogUser(l)
      PROVE  /\ nav' = nav /\ scene' = scene /\ UNCHANGED <<cd, stats, srv>>
             /\ \E why \in SUBSET Excuses : hist' = hist \cup why
  BY <1>1 DEF LogUser, Excused, Excuses
<1>2. ASSUME NEW r, NEW l, NEW why \in SUBSET {"late", "failed"}, LogEnds(r, l, why)
      PROVE  /\ nav' = nav /\ scene' = scene /\ UNCHANGED <<cd, stats, srv>>
             /\ \E w \in SUBSET Excuses : hist' = hist \cup w
  BY <1>2 DEF LogEnds, Excused, Excuses
<1>3. ASSUME NEW a, LogPoll(a)
      PROVE  /\ nav' = nav /\ scene' = scene /\ UNCHANGED <<cd, stats, srv>>
             /\ \E why \in SUBSET Excuses : hist' = hist \cup why
  <2>1. hist' = hist \cup {} /\ {} \in SUBSET Excuses
    BY <1>3 DEF LogPoll
  <2> QED BY <1>3, <2>1 DEF LogPoll
<1>4. ASSUME NEW a, LogSelect(a)
      PROVE  \E l : LogUser(l)
  BY <1>4 DEF LogSelect
<1>5. ASSUME NEW p, LogTurn(p)
      PROVE  \E l : LogUser(l)
  BY <1>5 DEF LogTurn
<1>6. ASSUME LogFilter \/ LogClear
      PROVE  \E l : LogUser(l)
  BY <1>6 DEF LogFilter, LogClear
<1>7. ASSUME NEW r, \/ LogLoaded(r) \/ LogPolled(r) \/ LogPollSetUp(r) \/ LogCleared(r)
                    \/ LogReconnect(r) \/ LogFails(r)
      PROVE  \E l : \E why \in SUBSET {"late", "failed"} : LogEnds(r, l, why)
  BY <1>7 DEF LogLoaded, LogPolled, LogPollSetUp, LogCleared, LogReconnect, LogFails
<1> QED BY <1>1, <1>2, <1>3, <1>4, <1>5, <1>6, <1>7 DEF LogNext

LEMMA HomeAside ==
    ASSUME HomeNext
    PROVE  /\ nav' = nav /\ scene' = scene /\ log' = log
           /\ \E why \in SUBSET Excuses : hist' = hist \cup why
<1>1. ASSUME NEW c, HomeStep(c)
      PROVE  /\ nav' = nav /\ scene' = scene /\ log' = log
             /\ \E why \in SUBSET Excuses : hist' = hist \cup why
  <2>1. hist' = hist \cup {} /\ {} \in SUBSET Excuses
    BY <1>1 DEF HomeStep
  <2> QED BY <1>1, <2>1 DEF HomeStep
<1>2. ASSUME NEW s, NEW visible, StatsEnd(s, visible)
      PROVE  /\ nav' = nav /\ scene' = scene /\ log' = log
             /\ \E why \in SUBSET Excuses : hist' = hist \cup why
  BY <1>2 DEF StatsEnd, Excused, Excuses
<1>3. ASSUME \/ StatsPoll \/ StatsAnswered \/ StatsFailed \/ NzbHuntHomeStatsFailed
             \/ \E v \in BOOLEAN : FetchNzbHuntHomeStats(v)
      PROVE  \E s, visible : StatsEnd(s, visible)
  BY <1>3 DEF StatsPoll, StatsAnswered, StatsFailed, NzbHuntHomeStatsFailed, FetchNzbHuntHomeStats
<1>4. ASSUME \/ StatsDrawn \/ Tick \/ RefreshFires \/ SoonFires \/ ResetFires \/ StartingFires
             \/ FetchServed \/ FetchAnswered
      PROVE  \E c : HomeStep(c)
  BY <1>4 DEF StatsDrawn, Tick, RefreshFires, SoonFires, ResetFires, StartingFires,
              FetchServed, FetchAnswered, Timer
<1>5. ASSUME \/ FetchFailed \/ ResetClick \/ ResetServed \/ ResetAnswered \/ ResetFailed
             \/ ServerChanges \/ TimePasses
      PROVE  \E c : HomeStep(c)
  BY <1>5 DEF FetchFailed, ResetClick, ResetServed, ResetAnswered, ResetFailed,
              ServerChanges, TimePasses
<1> QED BY <1>1, <1>2, <1>3, <1>4, <1>5 DEF HomeNext

\* Every step keeps the invariant, and what is typed, but for a save, a
\* "Leave" and a reload.
LEMMA PageStep ==
    ASSUME NInv, [Next]_vars
    PROVE  NInv' /\ (Kept \/ Save \/ Leave \/ Escape \/ Reload)
<1>1. CASE LogNext
  BY <1>1, LogAside, AsideGood
<1>2. CASE HomeNext
  BY <1>2, HomeAside, AsideGood
<1>3. CASE UNCHANGED vars
  <2>1. nav' = nav /\ scene' = scene /\ hist' = hist \cup {} /\ {} \in SUBSET Excuses
    BY <1>3 DEF vars
  <2> QED BY <2>1, AsideGood
<1>4. CASE \E h \in Hashes : Navigate(h)
  BY <1>4, NavigateGood
<1>5. CASE HashGuarded
  BY <1>5, GuardedGood
<1>6. CASE HashHandled
  BY <1>6, HandledGood
<1>7. CASE OpenInstance
  BY <1>7, OpenInstanceGood
<1>8. CASE OpenProfile
  BY <1>8, OpenProfileGood
<1>9. CASE Edit
  BY <1>9, EditGood
<1>10. CASE Save
  BY <1>10, SaveGood
<1>11. CASE BackButton
  BY <1>11, BackGood
<1>12. CASE Leave
  BY <1>12, LeaveGood
<1>13. CASE GoBack
  BY <1>13, GoBackGood
<1>14. CASE Escape
  BY <1>14, EscapeGood
<1>15. CASE Reload
  BY <1>15, ReloadGood
<1> QED BY <1>1, <1>2, <1>3, <1>4, <1>5, <1>6, <1>7, <1>8, <1>9, <1>10, <1>11, <1>12, <1>13,
           <1>14, <1>15 DEF Next, NavNext

LEMMA PageAlways == Spec => []NInv
BY PageInit, PageStep, PTL DEF Spec

\* What is typed leaves the screen only when it is saved, or the user was asked
\* and left, or reloaded: each way out of a section with edits, in any order
\* and behind any dialog, asks (switchSection, the hashchange handler and the
\* Back buttons).  Where cancelInstanceEditor has asked twice, and where a form
\* is drawn again under the user, nothing is claimed.
THEOREM EditsAreAsked == Spec => EditsAsked
<1>1. NInv /\ [Next]_vars =>
        [\/ nav.typed \subseteq nav'.typed
         \/ Save \/ Leave \/ Escape \/ Reload
         \/ hist' \cap {"twice", "reopened"} # {}]_vars
  BY PageStep DEF Kept
<1> QED BY <1>1, PageAlways, PTL DEF Spec, EditsAsked

\* At rest the address names the section shown: after any order of links, the
\* browser's buttons, editors, redirections and questions (switchSection,
\* handleHashNavigation, cancelInstanceEditor), unless "Go Back" was chosen in an
\* editor or the user was faster than the page.
THEOREM AddressFollows == Spec => []HashNamesSection
<1>1. NInv => HashNamesSection
  <2> SUFFICES ASSUME NInv, ~nav.open, nav.events = <<>>, hist \cap Unsettling = {}
               PROVE  Match(nav.sec, nav.hash)
    BY DEF HashNamesSection, Unsettling, Match
  <2> QED BY Clicked DEF NInv
<1> QED BY <1>1, PageAlways, PTL

-----------------------------------------------------------------------------
(* Visits of the log view and of the home page: only the address moves.    *)

LEMMA OnlyAddress ==
    ASSUME NInv, scene # "forms", NavNext
    PROVE  (\E h \in Hashes : Navigate(h)) \/ HashHandled
<1>1. /\ nav.sec \in {"home", "logs", "swaparr"} /\ nav.typed = {} /\ ~nav.open
      /\ nav.flags = {}
  BY PlainSection DEF NInv, Plain
<1>2. /\ ~HashGuarded /\ ~OpenInstance /\ ~OpenProfile /\ ~Edit /\ ~Save /\ ~BackButton
      /\ ~Leave /\ ~GoBack /\ ~Escape /\ ~Reload
  BY <1>1 DEF HashGuarded, OpenInstance, OpenProfile, Edit, Save, BackButton, Leave, GoBack,
              Escape, Reload
<1> QED BY <1>2 DEF NavNext

LEMMA AddressMoves ==
    ASSUME NInv, NEW h \in Hashes, Navigate(h)
    PROVE  /\ h # nav.hash /\ scene' = scene /\ UNCHANGED <<log, cd, stats, srv>>
           /\ nav'.hash = h /\ nav'.sec = nav.sec
           /\ nav'.events = Append(nav.events, [old |-> nav.hash, new |-> h]) /\ nav'.events # <<>>
           /\ hist \subseteq hist' /\ hist' \subseteq hist \cup {"hasty"}
           /\ "hasty" \notin hist' => nav.events = <<>> /\ log.reqs = {}
<1>1. nav \in Pages
  BY DEF NInv
<1>2. nav' = SetHash(nav, h) /\ h # nav.hash
  BY DEF Navigate, Becomes
<1>3. /\ nav'.hash = h /\ nav'.sec = nav.sec
      /\ nav'.events = Append(nav.events, [old |-> nav.hash, new |-> h])
  BY <1>1, <1>2, SetHashPage
<1>4. nav'.events # <<>>
  <2>1. nav.events \in Seq(Changes)
    BY <1>1 DEF Pages, Records
  <2> HIDE <1>2
  <2> QED BY <1>3, <2>1
<1> QED BY <1>2, <1>3, <1>4 DEF Navigate, Becomes

LEMMA AddressHandled ==
    ASSUME NInv, scene # "forms", HashHandled
    PROVE  /\ scene' = scene /\ srv' = srv /\ nav.events # <<>> /\ nav.hash \in Links[scene]
           /\ nav'.sec = Shown(nav.hash) /\ nav'.hash = nav.hash /\ nav'.events = Tail(nav.events)
           /\ hist \ {"late"} \subseteq hist' /\ hist' \subseteq (hist \ {"late"}) \cup {"reopened"}
           /\ log'   = IF scene = "logs" THEN LogSwitched(log, nav.hash) ELSE log
           /\ stats' = IF scene = "stats" THEN StatsSwitched(stats, nav.hash) ELSE stats
           /\ cd'    = IF scene = "home" THEN CountdownSwitched(cd, nav.sec, nav.hash) ELSE cd
<1> DEFINE x   == HandledElse
           n   == HandleHash(x)
           h   == nav.hash
           why == IF n.sec = nav.sec /\ n.typed # nav.typed THEN {"reopened"} ELSE {}
<1>1. /\ nav \in Pages /\ nav.flags = {} /\ nav.thirdParty
      /\ nav.sec \in Links[scene] \ {"elsewhere"} /\ h \in Links[scene]
      /\ scene \in {"logs", "stats", "home"}
  BY SectionsAssumption DEF SectionsAssumption, NInv, Plain
<1>2. /\ Redirect(h) = h /\ h # "sonarr-settings" /\ h \in Targets /\ h # None
      /\ nav.sec \in NoRefresh
  BY <1>1, Redirection, NoneAssumption, SectionNames DEF Links, NoRefresh, Targets
<1>3. Becomes(n, h, why) /\ nav.events # <<>>
  BY <1>2 DEF HashHandled, HandledElse
<1>4. /\ x \in Pages /\ x.events = Tail(nav.events) /\ x.hash = h
      /\ x.sec = nav.sec /\ x.flags = {}
  BY <1>1, <1>3, TakenPage
<1>5. n = SwitchSection(x, h)
  BY <1>2, <1>4 DEF HandleHash
<1> HIDE DEF x, h
<1>6. n.sec = Shown(h) /\ n.hash = h /\ n.events = Tail(nav.events)
  <2> HIDE DEF n
  <2> QED BY <1>1, <1>2, <1>4, <1>5, Switched
<1>7. why \subseteq {"reopened"}
  OBVIOUS
<1> HIDE DEF n, why
<1> QED BY <1>1, <1>2, <1>3, <1>6, <1>7 DEF Becomes, h

-----------------------------------------------------------------------------
(* The log view.                                                           *)

Control(r) == r.op \in {"settings", "clear", "reconnect"}
Requests == [op : {"load", "poll", "settings", "clear", "reconnect"}, app : Apps, page : 1..2, n : 1..2]
Logs == [app : Apps, page : 1..2, rows : SUBSET (Apps \X (1..2)), poll : Apps \cup {None},
         orphans : SUBSET Apps, reqs : SUBSET Requests]

\* At most one request decides about the interval; until the settings are
\* there nothing polls, and then the app selected does, in the section.
Polls(l, sec, H) ==
    /\ \A q, r \in l.reqs : Control(q) /\ Control(r) => q = r
    /\ \A r \in l.reqs : r.op = "settings" => r.app = l.app /\ l.poll = None
    /\ l.orphans = {} /\ l.poll \in {None, l.app}
    /\ (\A r \in l.reqs : r.op # "settings") =>
          /\ sec = "logs" => l.poll = l.app
          /\ sec # "logs" /\ "late" \notin H => l.poll = None

\* Every page of rows on its way is the one selected; other rows are shown
\* only while it is.
Rows(l) ==
    /\ \A r \in l.reqs : r.op \in {"load", "poll"} => r.app = l.app /\ r.page = l.page
    /\ l.rows \subseteq {<<l.app, l.page>>} \/ \E r \in l.reqs : r.op = "load"

\* At most one change of the address is on its way; to the logs, not while a
\* request decides about the interval.
Address(n, Q) ==
    /\ n.events = <<>> => n.hash = n.sec
    /\ n.events # <<>> => /\ Tail(n.events) = <<>> /\ n.hash # n.sec
                          /\ n.sec # "logs" => \A r \in Q : ~Control(r)
Viewed(n, l, H) == Address(n, l.reqs) /\ Polls(l, n.sec, H) /\ ("failed" \notin H => Rows(l))

VInv ==
    /\ log \in Logs
    /\ scene # "logs" => log.rows = {} /\ log.reqs = {}
    /\ scene = "logs" /\ hist \cap {"hasty", "opened"} = {} => Viewed(nav, log, hist)

LEMMA LoadedLog ==
    ASSUME NEW l \in Logs
    PROVE  LET k == LoadLogsFromAPI(l) IN
           /\ k \in Logs /\ k.app = l.app /\ k.page = l.page /\ k.rows = l.rows
           /\ k.poll = l.poll /\ k.orphans = l.orphans
           /\ \E q : /\ q.op = "load" /\ q.app = l.app /\ q.page = l.page
                     /\ k.reqs = l.reqs \cup {q}
<1> DEFINE q == [op |-> "load", app |-> l.app, page |-> l.page, n |-> 1]
<1>1. LoadLogsFromAPI(l) = [l EXCEPT !.reqs = @ \cup {q}]
  BY DEF LoadLogsFromAPI, LogRequest
<1>2. q \in Requests /\ q.op = "load" /\ q.app = l.app /\ q.page = l.page
  BY DEF Requests, Logs
<1> HIDE DEF q
<1>3. [l EXCEPT !.reqs = @ \cup {q}] \in Logs
  BY <1>2 DEF Logs
<1> QED BY <1>1, <1>2, <1>3 DEF Logs

LEMMA PollingLog ==
    ASSUME NEW l \in Logs
    PROVE  LET k == SetupLogPolling(l) IN
           /\ k \in Logs /\ k.app = l.app /\ k.page = l.page /\ k.rows = l.rows
           /\ k.poll = l.poll /\ k.orphans = l.orphans
           /\ \E q : q.op = "settings" /\ q.app = l.app /\ k.reqs = l.reqs \cup {q}
<1> DEFINE r1 == [op |-> "settings", app |-> l.app, page |-> 1, n |-> 1]
           r2 == [r1 EXCEPT !.n = 2]
           q  == IF r1 \in l.reqs THEN r2 ELSE r1
<1>1. SetupLogPolling(l) = [l EXCEPT !.reqs = @ \cup {q}]
  BY DEF SetupLogPolling
<1>2. q \in Requests /\ q.op = "settings" /\ q.app = l.app
  BY DEF Requests, Logs
<1> HIDE DEF q
<1>3. [l EXCEPT !.reqs = @ \cup {q}] \in Logs
  BY <1>2 DEF Logs
<1> QED BY <1>1, <1>2, <1>3 DEF Logs

\* The rows and the interval are asked for anew.
LEMMA ConnectedLog ==
    ASSUME NEW l \in Logs
    PROVE  LET k == ConnectToLogs(l) IN
           /\ k \in Logs /\ k.app = l.app /\ k.page = l.page /\ k.rows = l.rows
           /\ k.poll = None /\ k.orphans = l.orphans
           /\ \E q, s : /\ q.op = "load" /\ q.app = l.app /\ q.page = l.page
                        /\ s.op = "settings" /\ s.app = l.app
                        /\ k.reqs = l.reqs \cup {q, s}
<1> DEFINE d == DisconnectAllEventSources(l)
           e == [d EXCEPT !.poll = None]
           f == LoadLogsFromAPI(e)
           k == SetupLogPolling(f)
<1>1. /\ e \in Logs /\ e.app = l.app /\ e.page = l.page /\ e.rows = l.rows
      /\ e.poll = None /\ e.orphans = l.orphans /\ e.reqs = l.reqs
  BY DEF DisconnectAllEventSources, Logs
<1>2. ConnectToLogs(l) = k
  BY DEF ConnectToLogs, ConnectEventSource
<1> HIDE DEF e
<1>3. /\ f \in Logs /\ f.app = e.app /\ f.page = e.page /\ f.rows = e.rows
      /\ f.poll = e.poll /\ f.orphans = e.orphans
  BY <1>1, LoadedLog
<1>4. PICK q : q.op = "load" /\ q.app = e.app /\ q.page = e.page /\ f.reqs = e.reqs \cup {q}
  BY <1>1, LoadedLog
<1> HIDE DEF f
<1>5. /\ k \in Logs /\ k.app = f.app /\ k.page = f.page /\ k.rows = f.rows
      /\ k.poll = f.poll /\ k.orphans = f.orphans
  BY <1>3, PollingLog
<1>6. PICK s : s.op = "settings" /\ s.app = f.app /\ k.reqs = f.reqs \cup {s}
  BY <1>3, PollingLog
<1> HIDE DEF k
<1>7. k.reqs = l.reqs \cup {q, s}
  BY <1>1, <1>4, <1>6
<1> QED BY <1>1, <1>2, <1>3, <1>4, <1>5, <1>6, <1>7

LEMMA SwitchedLog ==
    ASSUME NEW l \in Logs, NEW s
    PROVE  /\ LogSwitched(l, s) \in Logs
           /\ s # "logs" => LogSwitched(l, s) = [l EXCEPT !.poll = None]
           /\ s = "logs" => LogSwitched(l, s) = ConnectToLogs(l)
<1>1. [l EXCEPT !.poll = None] \in Logs
  BY DEF Logs
<1> QED BY <1>1, ConnectedLog DEF LogSwitched, DisconnectAllEventSources

\* The page is opened at home, where what was asked before is left to end, or
\* at the logs, which are then asked for twice ("opened").
LEMMA LogInit == Init => VInv
<1> SUFFICES ASSUME Init PROVE VInv
  OBVIOUS
<1>1. PICK s \in {"home"} \cup (IF scene = "logs" THEN {"logs"} ELSE {}), b \in BOOLEAN, a \in Apps :
         /\ nav = [sec |-> s, hash |-> s, events |-> <<>>, open |-> FALSE, asks |-> <<>>,
                   typed |-> {}, flags |-> {}, editing |-> FALSE, thirdParty |-> b]
         /\ LET l == [app |-> a, page |-> 1, rows |-> {}, poll |-> None, orphans |-> {}, reqs |-> {}]
            IN log = IF scene # "logs" THEN l ELSE LogSwitched(SetupLogPolling(LoadLogsFromAPI(l)), s)
         /\ hist = IF s = "logs" THEN {"opened"} ELSE {}
  BY DEF Init
<1> DEFINE l == [app |-> a, page |-> 1, rows |-> {}, poll |-> None, orphans |-> {}, reqs |-> {}]
           m == LoadLogsFromAPI(l)
           k == SetupLogPolling(m)
<1>2. /\ l \in Logs /\ l.app = a /\ l.page = 1 /\ l.rows = {} /\ l.reqs = {}
      /\ l.poll = None /\ l.orphans = {}
  BY DEF Logs
<1>3. log = IF scene # "logs" THEN l ELSE LogSwitched(k, s)
  BY <1>1
<1>4. /\ nav.events = <<>> /\ nav.sec = s /\ nav.hash = s
      /\ hist = IF s = "logs" THEN {"opened"} ELSE {}
  BY <1>1
<1> HIDE <1>1
<1> HIDE DEF l
<1>5. m \in Logs /\ m.app = l.app /\ m.page = l.page /\ m.rows = {} /\ m.orphans = {}
  BY <1>2, LoadedLog
<1>6. PICK q : q.op = "load" /\ q.app = l.app /\ q.page = l.page /\ m.reqs = {q}
  BY <1>2, LoadedLog
<1> HIDE DEF m
<1>7. k \in Logs /\ k.app = l.app /\ k.page = l.page /\ k.rows = {} /\ k.orphans = {}
  BY <1>5, PollingLog
<1>8. PICK r : r.op = "settings" /\ r.app = l.app /\ k.reqs = {q, r}
  BY <1>5, <1>6, PollingLog
<1> HIDE DEF k
<1>9. CASE scene # "logs"
  BY <1>2, <1>3, <1>9 DEF VInv
<1>10. CASE scene = "logs"
  <2>1. log \in Logs
    BY <1>3, <1>7, <1>10, SwitchedLog
  <2>2. ASSUME s # "logs" PROVE Viewed(nav, log, hist)
    <3>1. log = [k EXCEPT !.poll = None]
      BY <1>3, <1>7, <1>10, <2>2, SwitchedLog
    <3>2. /\ log.app = l.app /\ log.page = l.page /\ log.rows = {} /\ log.orphans = {}
          /\ log.reqs = {q, r} /\ log.poll = None
      BY <1>7, <1>8, <3>1 DEF Logs
    <3>3. Polls(log, nav.sec, hist)
      BY <1>6, <1>8, <3>2 DEF Polls, Control
    <3>4. Rows(log)
      BY <1>6, <1>8, <3>2 DEF Rows
    <3>5. Address(nav, log.reqs)
      BY <1>4 DEF Address
    <3> QED BY <3>3, <3>4, <3>5 DEF Viewed
  <2> QED BY <1>4, <1>10, <2>1, <2>2 DEF VInv
<1> QED BY <1>9, <1>10

\* What the user does in the section: nothing else is under way, or the user
\* was hasty.
LEMMA LogUserGood ==
    ASSUME NInv, VInv, NEW l \in Logs, LogUser(l),
           log.reqs = {} /\ Polls(log, "logs", hist) =>
               Polls(l, "logs", hist) /\ (Rows(log) => Rows(l))
    PROVE  VInv'
<1>1. /\ scene = "logs" /\ nav.sec = "logs" /\ log' = l /\ nav' = nav /\ scene' = scene
      /\ hist' = hist \cup (IF log.reqs = {} THEN {} ELSE {"hasty"})
  BY DEF LogUser, Excused
<1>2. ASSUME hist' \cap {"hasty", "opened"} = {}
      PROVE  Viewed(nav', log', hist')
  <2>1. log.reqs = {} /\ hist' = hist /\ Viewed(nav, log, hist)
    BY <1>1, <1>2 DEF VInv
  <2>2. Polls(l, "logs", hist) /\ (Rows(log) => Rows(l))
    BY <1>1, <2>1 DEF Viewed
  <2>3. Address(nav, l.reqs)
    BY <1>1, <2>1 DEF Viewed, Address
  <2> QED BY <1>1, <2>1, <2>2, <2>3 DEF Viewed
<1> QED BY <1>1, <1>2 DEF VInv

LEMMA LogSelectGood ==
    ASSUME NInv, VInv, NEW a \in Apps, LogSelect(a)
    PROVE  VInv'
<1> DEFINE x == [log EXCEPT !.app = a, !.page = 1, !.rows = {}]
           l == ConnectToLogs(x)
<1>1. LogUser(l)
  BY DEF LogSelect
<1>2. /\ x \in Logs /\ x.app = a /\ x.page = 1 /\ x.rows = {} /\ x.orphans = log.orphans
      /\ x.reqs = log.reqs
  <2>1. 1 \in 1..2 /\ {} \subseteq Apps \X (1..2) /\ log \in Logs
    BY DEF VInv
  <2> DEFINE P == Apps \X (1..2)
  <2> HIDE DEF P
  <2> QED BY <2>1 DEF Logs, P
<1> HIDE DEF x
<1>3. l \in Logs /\ l.app = a /\ l.page = 1 /\ l.rows = {} /\ l.poll = None /\ l.orphans = log.orphans
  BY <1>2, ConnectedLog
<1>4. PICK q, s : /\ q.op = "load" /\ q.app = a /\ q.page = 1
                  /\ s.op = "settings" /\ s.app = a /\ l.reqs = log.reqs \cup {q, s}
  BY <1>2, ConnectedLog
<1> HIDE DEF l
<1>5. ASSUME log.reqs = {}, Polls(log, "logs", hist)
      PROVE  Polls(l, "logs", hist) /\ Rows(l)
  BY <1>3, <1>4, <1>5 DEF Polls, Rows, Control
<1> QED BY <1>1, <1>3, <1>5, LogUserGood

\* Another page, another filter, another text: the same app, so the interval
\* stays.
LEMMA LogTurnGood ==
    ASSUME NInv, VInv, NEW p \in 1..2, LogUser(LoadLogsFromAPI([log EXCEPT !.page = p]))
    PROVE  VInv'
<1> DEFINE x == [log EXCEPT !.page = p]
           l == LoadLogsFromAPI(x)
<1>1. /\ x \in Logs /\ x.app = log.app /\ x.page = p /\ x.orphans = log.orphans
      /\ x.poll = log.poll /\ x.reqs = log.reqs
  BY DEF VInv, Logs
<1>2. LogUser(l)
  OBVIOUS
<1> HIDE DEF x
<1>3. l \in Logs /\ l.app = log.app /\ l.page = p /\ l.poll = log.poll /\ l.orphans = log.orphans
  BY <1>1, LoadedLog
<1>4. PICK q : q.op = "load" /\ q.app = log.app /\ q.page = p /\ l.reqs = log.reqs \cup {q}
  BY <1>1, LoadedLog
<1> HIDE DEF l
<1>5. ASSUME log.reqs = {}, Polls(log, "logs", hist)
      PROVE  Polls(l, "logs", hist) /\ Rows(l)
  BY <1>3, <1>4, <1>5 DEF Polls, Rows, Control
<1> QED BY <1>2, <1>3, <1>5, LogUserGood

LEMMA LogClearGood ==
    ASSUME NInv, VInv, LogClear
    PROVE  VInv'
<1> DEFINE q == [op |-> "clear", app |-> log.app, page |-> 1, n |-> 1]
           l == [log EXCEPT !.reqs = @ \cup {q}]
<1>1. LogUser(l)
  BY DEF LogClear, LogRequest
<1>2. q \in Requests /\ q.op = "clear"
  BY DEF VInv, Logs, Requests
<1> HIDE DEF q
<1>3. /\ l \in Logs /\ l.app = log.app /\ l.page = log.page /\ l.poll = log.poll
      /\ l.orphans = log.orphans /\ l.rows = log.rows /\ l.reqs = log.reqs \cup {q}
  BY <1>2 DEF VInv, Logs
<1> HIDE DEF l
<1>4. ASSUME log.reqs = {}, Polls(log, "logs", hist)
      PROVE  Polls(l, "logs", hist) /\ (Rows(log) => Rows(l))
  BY <1>2, <1>3, <1>4 DEF Polls, Rows, Control
<1> QED BY <1>1, <1>3, <1>4, LogUserGood

\* The end of a request, and a poll: the page stays as it is.
LEMMA LogEndsGood ==
    ASSUME NInv, VInv, NEW l \in Logs, NEW why, nav' = nav, scene' = scene, log' = l,
           scene = "logs" \/ l = log, hist' = hist \cup why,
           scene = "logs" /\ Viewed(nav, log, hist) => Viewed(nav, l, hist')
    PROVE  VInv'
<1>1. ASSUME scene = "logs", hist' \cap {"hasty", "opened"} = {}
      PROVE  Viewed(nav, l, hist')
  <2>1. hist \cap {"hasty", "opened"} = {}
    BY <1>1
  <2> QED BY <1>1, <2>1 DEF VInv
<1> QED BY <1>1 DEF VInv

LEMMA LogLoadedGood ==
    ASSUME NInv, VInv, NEW r, LogLoaded(r)
    PROVE  VInv'
<1> DEFINE R == {<<r.app, r.page>>}
           l == [log EXCEPT !.rows = R, !.reqs = @ \ {r}]
<1>1. /\ r \in log.reqs /\ r.op = "load" /\ nav' = nav /\ scene' = scene /\ hist' = hist \cup {}
      /\ log' = [[log EXCEPT !.rows = {<<r.app, r.page>>}] EXCEPT !.reqs = @ \ {r}]
  BY DEF LogLoaded, LogEnds, Excused
<1>2. log \in Logs /\ R \subseteq Apps \X (1..2)
  BY <1>1 DEF VInv, Logs, Requests
<1>3. log' = l
  BY <1>1
<1> HIDE DEF R
<1>4. /\ l \in Logs /\ l.app = log.app /\ l.page = log.page /\ l.poll = log.poll
      /\ l.orphans = log.orphans /\ l.rows = R /\ l.reqs = log.reqs \ {r}
  BY <1>2 DEF Logs
<1>5. scene = "logs"
  BY <1>1 DEF VInv
<1> HIDE DEF l
<1>6. ASSUME Viewed(nav, log, hist) PROVE Viewed(nav, l, hist)
  <2>1. Polls(l, nav.sec, hist)
    BY <1>1, <1>4, <1>6 DEF Viewed, Polls, Control
  <2>2. Rows(log) => Rows(l)
    BY <1>1, <1>4 DEF Rows, R
  <2>3. Address(nav, l.reqs)
    BY <1>4, <1>6 DEF Viewed, Address
  <2> QED BY <1>6, <2>1, <2>2, <2>3 DEF Viewed
<1> QED BY <1>1, <1>3, <1>4, <1>5, <1>6, LogEndsGood

LEMMA LogPolledGood ==
    ASSUME NInv, VInv, NEW r, LogPolled(r)
    PROVE  VInv'
<1> DEFINE R == {<<r.app, r.page>>}
           l == [log EXCEPT !.rows = @ \cup R, !.reqs = @ \ {r}]
<1>1. /\ r \in log.reqs /\ r.op = "poll" /\ nav' = nav /\ scene' = scene /\ hist' = hist \cup {}
      /\ log' = [[log EXCEPT !.rows = @ \cup {<<r.app, r.page>>}] EXCEPT !.reqs = @ \ {r}]
  BY DEF LogPolled, LogEnds, Excused
<1>2. log \in Logs /\ R \subseteq Apps \X (1..2)
  BY <1>1 DEF VInv, Logs, Requests
<1>3. log' = l
  BY <1>1
<1> HIDE DEF R
<1>4. /\ l \in Logs /\ l.app = log.app /\ l.page = log.page /\ l.poll = log.poll
      /\ l.orphans = log.orphans /\ l.rows = log.rows \cup R /\ l.reqs = log.reqs \ {r}
  BY <1>2 DEF Logs
<1>5. scene = "logs"
  BY <1>1 DEF VInv
<1> HIDE DEF l
<1>6. ASSUME Viewed(nav, log, hist) PROVE Viewed(nav, l, hist)
  <2>1. Polls(l, nav.sec, hist)
    BY <1>1, <1>4, <1>6 DEF Viewed, Polls, Control
  <2>2. ASSUME Rows(log) PROVE Rows(l)
    <3>1. r.app = log.app /\ r.page = log.page
      BY <1>1, <2>2 DEF Rows
    <3>2. (\E q \in log.reqs : q.op = "load") => \E q \in l.reqs : q.op = "load"
      BY <1>1, <1>4
    <3> QED BY <1>4, <2>2, <3>1, <3>2 DEF Rows, R
  <2>3. Address(nav, l.reqs)
    BY <1>4, <1>6 DEF Viewed, Address
  <2> QED BY <1>6, <2>1, <2>2, <2>3 DEF Viewed
<1> QED BY <1>1, <1>3, <1>4, <1>5, <1>6, LogEndsGood

\* The interval starts: it is the only one, or starts in a section without it.
LEMMA LogPollSetUpGood ==
    ASSUME NInv, VInv, NEW r, LogPollSetUp(r)
    PROVE  VInv'
<1> DEFINE o   == log.orphans \cup ({log.poll} \ {None})
           l   == [log EXCEPT !.poll = r.app, !.orphans = o, !.reqs = @ \ {r}]
           why == IF nav.sec = "logs" THEN {} ELSE {"late"}
<1>1. /\ r \in log.reqs /\ r.op = "settings" /\ nav' = nav /\ scene' = scene /\ hist' = hist \cup why
      /\ log' = [[log EXCEPT !.poll = r.app, !.orphans = @ \cup ({log.poll} \ {None})] EXCEPT !.reqs = @ \ {r}]
  BY DEF LogPollSetUp, LogEnds, Excused
<1>2. log \in Logs /\ r.app \in Apps /\ o \subseteq Apps
  BY <1>1 DEF VInv, Logs, Requests
<1>3. log' = l
  BY <1>1, <1>2 DEF Logs
<1>4. /\ l \in Logs /\ l.app = log.app /\ l.page = log.page /\ l.poll = r.app
      /\ l.orphans = o /\ l.rows = log.rows /\ l.reqs = log.reqs \ {r}
  BY <1>2 DEF Logs
<1>5. scene = "logs"
  BY <1>1 DEF VInv
<1> HIDE DEF l
<1>6. ASSUME Viewed(nav, log, hist) PROVE Viewed(nav, l, hist')
  <2>1. r.app = log.app /\ o = {}
    BY <1>1, <1>6 DEF Viewed, Polls
  <2>2. \A q \in l.reqs : ~Control(q)
    BY <1>1, <1>4, <1>6 DEF Viewed, Polls, Control
  <2>3. nav.sec # "logs" => "late" \in hist'
    BY <1>1
  <2>4. Polls(l, nav.sec, hist')
    BY <1>4, <2>1, <2>2, <2>3 DEF Polls, Control
  <2>5. Rows(log) => Rows(l)
    BY <1>1, <1>4 DEF Rows
  <2>6. Address(nav, l.reqs)
    BY <1>4, <1>6 DEF Viewed, Address
  <2>7. "failed" \notin hist' => Rows(log)
    BY <1>1, <1>6 DEF Viewed
  <2> QED BY <2>4, <2>5, <2>6, <2>7 DEF Viewed
<1> HIDE DEF why
<1> QED BY <1>1, <1>3, <1>4, <1>5, <1>6, LogEndsGood

LEMMA LogClearedGood ==
    ASSUME NInv, VInv, NEW r, LogCleared(r)
    PROVE  VInv'
<1> DEFINE q == [op |-> "reconnect", app |-> log.app, page |-> 1, n |-> 1]
           l == [log EXCEPT !.rows = {}, !.reqs = (@ \cup {q}) \ {r}]
<1>1. /\ r \in log.reqs /\ r.op = "clear" /\ nav' = nav /\ scene' = scene /\ hist' = hist \cup {}
      /\ log' = [[log EXCEPT !.rows = {}, !.reqs = @ \cup {q}] EXCEPT !.reqs = @ \ {r}]
  BY DEF LogCleared, LogEnds, Excused, LogRequest
<1>2. log \in Logs /\ q \in Requests /\ q.op = "reconnect" /\ q # r
  BY <1>1 DEF VInv, Logs, Requests
<1> HIDE DEF q
<1>3. log' = l
  BY <1>1, <1>2 DEF Logs
<1>4. /\ l \in Logs /\ l.app = log.app /\ l.page = log.page /\ l.poll = log.poll
      /\ l.orphans = log.orphans /\ l.rows = {} /\ l.reqs = (log.reqs \cup {q}) \ {r}
  BY <1>2 DEF Logs
<1>5. scene = "logs"
  BY <1>1 DEF VInv
<1> HIDE DEF l
<1>6. ASSUME Viewed(nav, log, hist) PROVE Viewed(nav, l, hist)
  <2>1. \A s \in log.reqs : Control(s) => s = r
    BY <1>1, <1>6 DEF Viewed, Polls, Control
  <2>2. \A s \in log.reqs : s.op # "settings"
    BY <1>1, <2>1 DEF Control
  <2>3. \A s \in l.reqs : s.op # "settings" /\ (Control(s) => s = q)
    BY <1>2, <1>4, <2>1, <2>2
  <2>4. Polls(l, nav.sec, hist)
    BY <1>4, <1>6, <2>2, <2>3 DEF Viewed, Polls
  <2>5. Rows(log) => Rows(l)
    BY <1>2, <1>4 DEF Rows
  <2>6. Address(nav, l.reqs)
    BY <1>1, <1>4, <1>6 DEF Viewed, Address, Control
  <2> QED BY <1>6, <2>4, <2>5, <2>6 DEF Viewed
<1> QED BY <1>1, <1>3, <1>4, <1>5, <1>6, LogEndsGood

LEMMA LogReconnectGood ==
    ASSUME NInv, VInv, NEW r, LogReconnect(r)
    PROVE  VInv'
<1> DEFINE k == ConnectToLogs(log)
           l == [k EXCEPT !.reqs = @ \ {r}]
<1>1. /\ r \in log.reqs /\ r.op = "reconnect" /\ nav' = nav /\ scene' = scene /\ hist' = hist \cup {}
      /\ log' = l
  BY DEF LogReconnect, LogEnds, Excused
<1>2. log \in Logs
  BY DEF VInv
<1>3. /\ k \in Logs /\ k.app = log.app /\ k.page = log.page /\ k.rows = log.rows
      /\ k.poll = None /\ k.orphans = log.orphans
  BY <1>2, ConnectedLog
<1>4. PICK q, s : /\ q.op = "load" /\ q.app = log.app /\ q.page = log.page
                  /\ s.op = "settings" /\ s.app = log.app /\ k.reqs = log.reqs \cup {q, s}
  BY <1>2, ConnectedLog
<1> HIDE DEF k
<1>5. /\ l \in Logs /\ l.app = log.app /\ l.page = log.page /\ l.poll = None
      /\ l.orphans = log.orphans /\ l.rows = log.rows /\ l.reqs = (log.reqs \cup {q, s}) \ {r}
  BY <1>3, <1>4 DEF Logs
<1>6. scene = "logs"
  BY <1>1 DEF VInv
<1> HIDE DEF l
<1>7. ASSUME Viewed(nav, log, hist) PROVE Viewed(nav, l, hist)
  <2>1. \A t \in log.reqs : Control(t) => t = r
    BY <1>1, <1>7 DEF Viewed, Polls, Control
  <2>2. \A t \in l.reqs : Control(t) => t = s
    BY <1>4, <1>5, <2>1 DEF Control
  <2>3. q \in l.reqs /\ s \in l.reqs
    BY <1>1, <1>4, <1>5
  <2>4. Polls(l, nav.sec, hist)
    BY <1>4, <1>5, <1>7, <2>2, <2>3 DEF Viewed, Polls, Control
  <2>5. Rows(log) => Rows(l)
    BY <1>4, <1>5, <2>3 DEF Rows
  <2>6. Address(nav, l.reqs)
    BY <1>1, <1>7 DEF Viewed, Address, Control
  <2> QED BY <1>7, <2>4, <2>5, <2>6 DEF Viewed
<1> QED BY <1>1, <1>5, <1>6, <1>7, LogEndsGood

LEMMA LogFailsGood ==
    ASSUME NInv, VInv, NEW r, LogFails(r)
    PROVE  VInv'
<1> DEFINE l == [log EXCEPT !.reqs = @ \ {r}]
<1>1. /\ r \in log.reqs /\ r.op \in {"load", "poll", "clear"} /\ nav' = nav /\ scene' = scene
      /\ hist' = hist \cup {"failed"} /\ log' = l
  BY DEF LogFails, LogEnds, Excused
<1>2. /\ l \in Logs /\ l.app = log.app /\ l.poll = log.poll
      /\ l.orphans = log.orphans /\ l.reqs = log.reqs \ {r}
  BY DEF VInv, Logs
<1>3. scene = "logs"
  BY <1>1 DEF VInv
<1> HIDE DEF l
<1>4. ASSUME Viewed(nav, log, hist) PROVE Viewed(nav, l, hist')
  <2>1. (\A q \in l.reqs : q.op # "settings") => \A q \in log.reqs : q.op # "settings"
    BY <1>1, <1>2
  <2>2. Polls(l, nav.sec, hist')
    BY <1>1, <1>2, <1>4, <2>1 DEF Viewed, Polls
  <2>3. Address(nav, l.reqs)
    BY <1>2, <1>4 DEF Viewed, Address
  <2> QED BY <1>1, <2>2, <2>3 DEF Viewed
<1> QED BY <1>1, <1>2, <1>3, <1>4, LogEndsGood

LEMMA LogPollGood ==
    ASSUME NInv, VInv, NEW a \in Apps, LogPoll(a)
    PROVE  VInv'
<1> DEFINE q == [op |-> "poll", app |-> a, page |-> 1, n |-> 1]
           l == [log EXCEPT !.reqs = @ \cup {q}]
<1>1. /\ scene = "logs" /\ a \in (log.orphans \cup {log.poll}) \ {None} /\ log.page = 1
      /\ log' = l /\ nav' = nav /\ scene' = scene /\ hist' = hist \cup {}
  BY DEF LogPoll, LogRequest
<1>2. q \in Requests /\ q.op = "poll" /\ q.app = a /\ q.page = 1
  BY DEF Requests
<1> HIDE DEF q
<1>3. /\ l \in Logs /\ l.app = log.app /\ l.page = log.page /\ l.poll = log.poll
      /\ l.orphans = log.orphans /\ l.rows = log.rows /\ l.reqs = log.reqs \cup {q}
  BY <1>2 DEF VInv, Logs
<1> HIDE DEF l
<1>4. ASSUME Viewed(nav, log, hist) PROVE Viewed(nav, l, hist)
  <2>1. a = log.app
    BY <1>1, <1>4 DEF Viewed, Polls
  <2>2. ~Control(q) /\ q.op # "settings"
    BY <1>2 DEF Control
  <2>3. Polls(l, nav.sec, hist)
    BY <1>3, <1>4, <2>2 DEF Viewed, Polls
  <2>4. Rows(log) => Rows(l)
    BY <1>1, <1>2, <1>3, <2>1 DEF Rows
  <2>5. Address(nav, l.reqs)
    BY <1>3, <1>4, <2>2 DEF Viewed, Address
  <2> QED BY <1>4, <2>3, <2>4, <2>5 DEF Viewed
<1> QED BY <1>1, <1>3, <1>4, LogEndsGood

\* A change of the address: none was on its way, or the user was hasty.
LEMMA LogNavigateGood ==
    ASSUME NInv, VInv, scene = "logs", NEW h \in Hashes, Navigate(h)
    PROVE  VInv'
<1>1. /\ h # nav.hash /\ scene' = scene /\ log' = log
      /\ nav'.hash = h /\ nav'.sec = nav.sec
      /\ nav'.events = Append(nav.events, [old |-> nav.hash, new |-> h]) /\ nav'.events # <<>>
      /\ hist \subseteq hist' /\ hist' \subseteq hist \cup {"hasty"}
      /\ "hasty" \notin hist' => nav.events = <<>> /\ log.reqs = {}
  BY AddressMoves
<1>2. ASSUME hist' \cap {"hasty", "opened"} = {}
      PROVE  Viewed(nav', log', hist')
  <2>1. /\ hist' = hist /\ nav.events = <<>> /\ log.reqs = {} /\ Viewed(nav, log, hist)
    BY <1>1, <1>2 DEF VInv
  <2>2. nav.hash = nav.sec
    BY <2>1 DEF Viewed, Address
  <2>3. Tail(nav'.events) = <<>>
    <3>1. nav'.events = <<[old |-> nav.hash, new |-> h]>>
      BY <1>1, <2>1
    <3> QED BY <3>1
  <2>4. Address(nav', log.reqs)
    BY <1>1, <2>1, <2>2, <2>3 DEF Address
  <2> QED BY <1>1, <2>1, <2>4 DEF Viewed
<1> QED BY <1>1, <1>2 DEF VInv

\* The section is switched: the interval ends, or starts with the answer.
LEMMA LogHandledGood ==
    ASSUME NInv, VInv, scene = "logs", HashHandled
    PROVE  VInv'
<1> DEFINE h == nav.hash
<1>1. /\ scene' = scene /\ h \in {"home", "logs"} /\ nav.events # <<>>
      /\ nav'.sec = h /\ nav'.hash = h /\ nav'.events = Tail(nav.events)
      /\ hist \ {"late"} \subseteq hist' /\ hist' \subseteq (hist \ {"late"}) \cup {"reopened"}
      /\ log' = LogSwitched(log, h)
  BY AddressHandled, Redirection DEF Links
<1>2. log \in Logs
  BY DEF VInv
<1> HIDE DEF h
<1>3. log' \in Logs
  BY <1>1, <1>2, SwitchedLog
<1>4. ASSUME hist' \cap {"hasty", "opened"} = {}
      PROVE  Viewed(nav', log', hist')
  <2>1. Viewed(nav, log, hist) /\ ("failed" \notin hist' => Rows(log))
    BY <1>1, <1>4 DEF VInv, Viewed
  <2>2. /\ Tail(nav.events) = <<>> /\ h # nav.sec
        /\ nav.sec # "logs" => \A r \in log.reqs : ~Control(r)
    BY <1>1, <2>1 DEF Viewed, Address, h
  <2>3. Address(nav', log'.reqs)
    BY <1>1, <2>2 DEF Address
  <2>4. CASE h = "home"
    <3>1. log' = [log EXCEPT !.poll = None]
      BY <1>1, <1>2, <2>4, SwitchedLog
    <3>2. /\ log'.app = log.app /\ log'.page = log.page /\ log'.rows = log.rows
          /\ log'.orphans = log.orphans /\ log'.reqs = log.reqs /\ log'.poll = None
      BY <1>2, <3>1 DEF Logs
    <3>3. Polls(log', nav'.sec, hist')
      BY <1>1, <2>1, <2>4, <3>2 DEF Viewed, Polls
    <3>4. Rows(log) => Rows(log')
      BY <3>2 DEF Rows
    <3> QED BY <2>1, <2>3, <3>3, <3>4 DEF Viewed
  <2>5. CASE h = "logs"
    <3>1. /\ log'.app = log.app /\ log'.page = log.page /\ log'.rows = log.rows
          /\ log'.orphans = log.orphans /\ log'.poll = None
      BY <1>1, <1>2, <2>5, SwitchedLog, ConnectedLog
    <3>2. PICK q, s : /\ q.op = "load" /\ q.app = log.app /\ q.page = log.page
                      /\ s.op = "settings" /\ s.app = log.app /\ log'.reqs = log.reqs \cup {q, s}
      BY <1>1, <1>2, <2>5, SwitchedLog, ConnectedLog
    <3>3. \A r \in log'.reqs : Control(r) => r = s
      <4>1. \A r \in log.reqs : ~Control(r)
        BY <2>2, <2>5
      <4> QED BY <3>2, <4>1 DEF Control
    <3>4. Polls(log', nav'.sec, hist')
      BY <2>1, <3>1, <3>2, <3>3 DEF Viewed, Polls, Control
    <3>5. Rows(log) => Rows(log')
      BY <3>1, <3>2 DEF Rows
    <3> QED BY <2>1, <2>3, <3>4, <3>5 DEF Viewed
  <2> QED BY <1>1, <2>4, <2>5
<1> QED BY <1>1, <1>3, <1>4 DEF VInv

\* Elsewhere than in its own visit the log view is left alone.
LEMMA LogUntouched ==
    ASSUME NInv, NavNext, scene # "logs"
    PROVE  log' = log /\ scene' = scene
<1>1. ASSUME NEW n, NEW s, NEW why, Becomes(n, s, why)
      PROVE  log' = log /\ scene' = scene
  BY <1>1 DEF Becomes
<1>2. ASSUME NEW h, Navigate(h)
      PROVE  \E n, s, why : Becomes(n, s, why)
  BY <1>2 DEF Navigate
<1>3. ASSUME \/ HashGuarded \/ HashHandled \/ OpenInstance \/ OpenProfile \/ Edit \/ Save
             \/ BackButton \/ Leave \/ GoBack \/ Escape \/ Reload
      PROVE  \E n, s, why : Becomes(n, s, why)
  BY <1>3 DEF HashGuarded, HashHandled, OpenInstance, OpenProfile, Edit, Save,
              BackButton, Leave, GoBack, Escape, Reload
<1> QED BY <1>1, <1>2, <1>3 DEF NavNext

LEMMA LogStep ==
    ASSUME NInv, VInv, [Next]_vars
    PROVE  VInv'
<1>1. ASSUME log' = log, nav' = nav, scene' = scene, NEW why, hist' = hist \cup why
      PROVE  VInv'
  <2>1. Viewed(nav, log, hist) => Viewed(nav, log, hist')
    BY <1>1 DEF Viewed, Polls
  <2> QED BY <1>1, <2>1, LogEndsGood DEF VInv
<1>2. CASE LogNext
  <2>1. CASE \E a \in Apps : LogSelect(a) \/ LogPoll(a)
    BY <2>1, LogSelectGood, LogPollGood
  <2>2. CASE \E p \in 1..2 : LogTurn(p)
    BY <2>2, LogTurnGood DEF LogTurn
  <2>3. CASE LogFilter
    <3>1. 1 \in 1..2
      OBVIOUS
    <3> QED BY <2>3, <3>1, LogTurnGood DEF LogFilter
  <2>4. CASE LogClear
    BY <2>4, LogClearGood
  <2>5. CASE \E r \in log.reqs : \/ LogLoaded(r) \/ LogPolled(r) \/ LogPollSetUp(r) \/ LogCleared(r)
                                 \/ LogReconnect(r) \/ LogFails(r)
    BY <2>5, LogLoadedGood, LogPolledGood, LogPollSetUpGood, LogClearedGood, LogReconnectGood,
       LogFailsGood
  <2> QED BY <1>2, <2>1, <2>2, <2>3, <2>4, <2>5 DEF LogNext
<1>3. CASE HomeNext
  BY <1>1, <1>3, HomeAside
<1>4. CASE NavNext /\ scene = "logs"
  BY <1>4, OnlyAddress, LogNavigateGood, LogHandledGood
<1>5. CASE NavNext /\ scene # "logs"
  BY <1>5, LogUntouched DEF VInv
<1>6. CASE UNCHANGED vars
  <2>1. log' = log /\ nav' = nav /\ scene' = scene /\ hist' = hist \cup {}
    BY <1>6 DEF vars
  <2> QED BY <1>1, <2>1
<1> QED BY <1>2, <1>3, <1>4, <1>5, <1>6 DEF Next

LEMMA LogAlways == Spec => []VInv
<1>1. NInv /\ VInv /\ [Next]_vars => VInv'
  BY LogStep
<1> QED BY <1>1, LogInit, PageAlways, PTL DEF Spec

\* With nothing in flight the log view shows the page selected and nothing
\* else: rows of another app or page are shown only while the request that
\* replaces them is under way (loadLogsFromAPI, the poll's answer), as long as
\* the user waits for it, and no request fails.
THEOREM SelectedIsShown == Spec => []ShowsSelected
<1>1. VInv => ShowsSelected
  <2> SUFFICES ASSUME VInv, log.reqs = {}, hist \cap {"hasty", "opened", "failed"} = {}
               PROVE  log.rows \subseteq {<<log.app, log.page>>}
    BY DEF ShowsSelected
  <2> QED BY DEF VInv, Viewed, Rows
<1> QED BY <1>1, LogAlways, PTL

-----------------------------------------------------------------------------
(* The home page: the countdown, the polls of its statistics.              *)

Cycles     == [next : Nat, running : BOOLEAN, pending : BOOLEAN]
Fetches    == [answer : {None} \cup Cycles, waiting : SUBSET {"start", "refresh"}, poll : Nat]
Starts     == [id : {"none", "set", "fired"}, orphans : Nat, tries : 0..MaxStarting]
Runs       == UNION {[D -> 0..MaxResetPolls] : D \in SUBSET Nat}
Resets     == [clicks : Nat, handle : Nat, runs : Runs]
Countdowns == [next : Nat, running : BOOLEAN, pending : BOOLEAN, shown : Texts,
               ticking : BOOLEAN, refresh : BOOLEAN, fetch : {None} \cup Fetches,
               start : Starts, reset : Resets, soon : BOOLEAN]
Servers    == [next : Nat, now : Nat, running : BOOLEAN, pending : BOOLEAN,
               post : {"none", "sent", "served"}]
Intervals  == {[held |-> FALSE, runs |-> 0], [held |-> TRUE, runs |-> 1]}
HomePolls  == [poll : Intervals, loading : BOOLEAN, nzb : Intervals, home : BOOLEAN, cached : BOOLEAN]

\* The statistics poll while the address is at rest on the home page, and in
\* no other section; the card's poll only where its answer came late.
Homely(n, s, H) ==
    /\ n.hash = "home" /\ n.events = <<>> => s.poll.held
    /\ n.sec # "home" => ~s.poll.held
    /\ n.sec # "home" /\ s.nzb.held => "late" \in H

HInv ==
    /\ cd \in Countdowns /\ srv \in Servers /\ stats \in HomePolls
    /\ scene = "home" => cd.refresh
    /\ scene = "stats" => Homely(nav, stats, hist)

LEMMA IdleTyped == Idle \in Countdowns /\ MaxStarting \in Nat /\ MaxResetPolls \in Nat
<1>1. MaxStarting \in Nat /\ MaxResetPolls \in Nat
  BY TimersAssumption DEF TimersAssumption
<1>2. [id |-> "none", orphans |-> 0, tries |-> 0] \in Starts
  BY <1>1 DEF Starts
<1>3. << >> \in Runs
  <2>1. << >> \in [{} -> 0..MaxResetPolls]
    OBVIOUS
  <2> QED BY <2>1 DEF Runs
<1>4. [clicks |-> 0, handle |-> 0, runs |-> << >>] \in Resets
  BY <1>3 DEF Resets
<1> QED BY <1>1, <1>2, <1>4 DEF Idle, Countdowns, Texts

LEMMA DrawnTyped ==
    ASSUME NEW c \in Countdowns, NEW now \in Nat
    PROVE  Drawn(c, now) \in Countdowns /\ Drawn(c, now).refresh = c.refresh
<1>1. Text(c.next, c.running, c.pending, now) \in Texts
  BY DEF Text, Texts
<1>2. c.next \in Nat /\ 0 \in Nat
  BY DEF Countdowns
<1>3. Drawn(c, now) = [c EXCEPT !.shown = Text(c.next, c.running, c.pending, now),
                               !.next  = IF c.next > now THEN c.next ELSE 0]
  BY DEF Drawn, Countdowns
<1> QED BY <1>1, <1>2, <1>3 DEF Countdowns

LEMMA FetchingTyped ==
    ASSUME NEW c \in Countdowns, NEW W \in SUBSET {"start", "refresh"}
    PROVE  Fetching(c, W) \in Countdowns /\ Fetching(c, W).refresh = c.refresh
<1>1. [answer |-> None, waiting |-> W, poll |-> 0] \in Fetches
  BY DEF Fetches
<1> QED BY <1>1 DEF Fetching, Countdowns

LEMMA StartTyped ==
    ASSUME NEW c \in Countdowns, NEW st \in Starts
    PROVE  [c EXCEPT !.start = st] \in Countdowns /\ [c EXCEPT !.start = st].refresh = c.refresh
BY DEF Countdowns

\* The handle of the starting poll is set or dropped.
LEMMA HandleTyped ==
    ASSUME NEW c \in Countdowns
    PROVE  /\ Scheduled(c) \in Countdowns /\ Scheduled(c).refresh = c.refresh
           /\ Ended(c) \in Countdowns /\ Ended(c).refresh = c.refresh
<1>1. Orphaned(c) \in Nat /\ c.start \in Starts
  BY DEF Orphaned, Countdowns, Starts
<1>2. ASSUME NEW id \in {"none", "set"}
      PROVE  [c.start EXCEPT !.id = id, !.orphans = Orphaned(c)] \in Starts
  BY <1>1 DEF Starts
<1> QED BY <1>2, StartTyped DEF Scheduled, Ended

LEMMA TriesTyped ==
    ASSUME NEW c \in Countdowns, NEW t \in 0..MaxStarting
    PROVE  [c EXCEPT !.start.tries = t] \in Countdowns /\ [c EXCEPT !.start.tries = t].refresh = c.refresh
<1>1. [c.start EXCEPT !.tries = t] \in Starts
  BY DEF Countdowns, Starts
<1> HIDE DEF Starts
<1>2. [c EXCEPT !.start = [c.start EXCEPT !.tries = t]] \in Countdowns
  BY <1>1, StartTyped
<1> QED BY <1>2 DEF Countdowns

LEMMA StartPollTyped ==
    ASSUME NEW c \in Countdowns
    PROVE  /\ StartStartingCyclePolling(c) \in Countdowns
           /\ StartStartingCyclePolling(c).refresh = c.refresh
<1>1. Scheduled(c) \in Countdowns /\ Scheduled(c).refresh = c.refresh /\ 0 \in 0..MaxStarting
  BY HandleTyped, IdleTyped
<1> QED BY <1>1, TriesTyped DEF StartStartingCyclePolling

LEMMA StartingPollTyped ==
    ASSUME NEW c \in Countdowns
    PROVE  StartingPoll(c) \in Countdowns /\ StartingPoll(c).refresh = c.refresh
<1> DEFINE d == [c EXCEPT !.start.tries = @ + 1]
<1>0. StartingPoll(c) =
        CASE d.start.tries > MaxStarting -> [Ended(d) EXCEPT !.start.tries = MaxStarting]
          [] d.start.tries <= MaxStarting /\ d.fetch # None -> Scheduled(d)
          [] OTHER -> Fetching(d, {"start"})
  BY DEF StartingPoll
<1>1. /\ d.start.tries = c.start.tries + 1 /\ d.start.id = c.start.id /\ d.start.orphans = c.start.orphans
      /\ c.start \in Starts /\ c.start.tries \in 0..MaxStarting
  BY DEF Countdowns, Starts
<1>2. CASE d.start.tries > MaxStarting
  <2> DEFINE Loose == [id : {"none", "set", "fired"}, orphans : Nat, tries : Nat]
             s1    == [c.start EXCEPT !.tries = @ + 1]
             s2    == [s1 EXCEPT !.id = "none", !.orphans = Orphaned(c)]
             s3    == [s2 EXCEPT !.tries = MaxStarting]
  <2>1. s1 \in Loose /\ Orphaned(c) \in Nat
    BY <1>1 DEF Starts, Orphaned
  <2>2. Orphaned(d) = Orphaned(c)
    BY <1>1 DEF Orphaned
  <2>3. d = [c EXCEPT !.start = s1]
    BY DEF Countdowns
  <2> HIDE DEF s1
  <2>4. Ended(d) = [c EXCEPT !.start = s2]
    BY <2>2, <2>3 DEF Ended, Countdowns
  <2>5. s2 \in Loose
    BY <2>1
  <2> HIDE DEF s2
  <2>6. s3 \in Starts
    BY <2>5, IdleTyped DEF Starts
  <2>7. [Ended(d) EXCEPT !.start.tries = MaxStarting] = [c EXCEPT !.start = s3]
    BY <2>4 DEF Countdowns
  <2> HIDE DEF d, s3
  <2>8. StartingPoll(c) = [Ended(d) EXCEPT !.start.tries = MaxStarting]
    BY <1>0, <1>1, <1>2, IdleTyped
  <2> QED BY <2>6, <2>7, <2>8, StartTyped
<1>3. CASE ~(d.start.tries > MaxStarting)
  <2>1. c.start.tries + 1 \in 0..MaxStarting
    BY <1>1, <1>3, IdleTyped
  <2>2. d \in Countdowns /\ d.refresh = c.refresh
    BY <2>1, TriesTyped
  <2>3. d.start.tries <= MaxStarting
    BY <1>1, <2>1
  <2> HIDE DEF d
  <2>4. StartingPoll(c) = IF d.fetch # None THEN Scheduled(d) ELSE Fetching(d, {"start"})
    BY <1>0, <1>3, <2>3
  <2> QED BY <2>2, <2>4, HandleTyped, FetchingTyped
<1> QED BY <1>2, <1>3

LEMMA ResetTyped ==
    ASSUME NEW c \in Countdowns, NEW r \in Resets
    PROVE  [c EXCEPT !.reset = r] \in Countdowns /\ [c EXCEPT !.reset = r].refresh = c.refresh
BY DEF Countdowns

LEMMA RunsTyped ==
    ASSUME NEW R \in Runs
    PROVE  /\ \A p \in DOMAIN R : p \in Nat /\ R[p] \in 0..MaxResetPolls
           /\ \A S \in SUBSET DOMAIN R : Restrict(R, S) \in Runs
           /\ \A p \in Nat, n \in 0..MaxResetPolls :
                [q \in DOMAIN R \cup {p} |-> IF q = p THEN n ELSE R[q]] \in Runs
<1>1. PICK D \in SUBSET Nat : R \in [D -> 0..MaxResetPolls]
  BY DEF Runs
<1>2. ASSUME NEW S \in SUBSET D
      PROVE  Restrict(R, S) \in Runs
  <2>1. Restrict(R, S) \in [S -> 0..MaxResetPolls] /\ S \in SUBSET Nat
    BY <1>1 DEF Restrict
  <2> QED BY <2>1 DEF Runs
<1>3. ASSUME NEW p \in Nat, NEW n \in 0..MaxResetPolls
      PROVE  [q \in D \cup {p} |-> IF q = p THEN n ELSE R[q]] \in Runs
  <2> DEFINE T == [q \in D \cup {p} |-> IF q = p THEN n ELSE R[q]]
  <2>1. T \in [D \cup {p} -> 0..MaxResetPolls] /\ D \cup {p} \in SUBSET Nat
    BY <1>1
  <2> HIDE DEF T
  <2>2. T \in Runs
    BY <2>1 DEF Runs
  <2> QED BY <2>2 DEF T
<1>4. DOMAIN R = D
  BY <1>1
<1> QED BY <1>1, <1>2, <1>3, <1>4

LEMMA ResetEndedTyped ==
    ASSUME NEW c \in Countdowns, NEW p
    PROVE  ResetEnded(c, p) \in Countdowns /\ ResetEnded(c, p).refresh = c.refresh
<1> DEFINE r == [c.reset EXCEPT !.handle = 0, !.runs = Restrict(c.reset.runs, DOMAIN c.reset.runs \ {p})]
<1>1. c.reset \in Resets /\ c.reset.runs \in Runs
  BY DEF Countdowns, Resets
<1>2. Restrict(c.reset.runs, DOMAIN c.reset.runs \ {p}) \in Runs
  BY <1>1, RunsTyped
<1>3. r \in Resets
  BY <1>1, <1>2 DEF Resets
<1>4. ResetEnded(c, p) = [c EXCEPT !.reset = r]
  BY DEF ResetEnded, Countdowns
<1> HIDE DEF r
<1> QED BY <1>3, <1>4, ResetTyped

LEMMA ResetCheckedTyped ==
    ASSUME NEW c \in Countdowns, NEW p, NEW now \in Nat
    PROVE  ResetChecked(c, p, now) \in Countdowns /\ ResetChecked(c, p, now).refresh = c.refresh
BY ResetEndedTyped, DrawnTyped DEF ResetChecked

LEMMA ResetClickedTyped ==
    ASSUME NEW c \in Countdowns, NEW now \in Nat
    PROVE  ResetClicked(c, now) \in Countdowns /\ ResetClicked(c, now).refresh = c.refresh
<1> DEFINE d == IF c.reset.handle = 0 THEN c ELSE ResetEnded(c, c.reset.handle)
           e == [d EXCEPT !.pending = TRUE]
           x == Drawn(e, now)
           y == [x EXCEPT !.soon = TRUE]
           r == ResetStarted(x.reset)
<1>1. d \in Countdowns /\ d.refresh = c.refresh
  BY ResetEndedTyped
<1> HIDE DEF d
<1>2. e \in Countdowns /\ e.refresh = c.refresh
  BY <1>1 DEF Countdowns
<1> HIDE DEF e
<1>3. x \in Countdowns /\ x.refresh = c.refresh
  BY <1>2, DrawnTyped
<1>4. ResetClicked(c, now) = [x EXCEPT !.soon = TRUE, !.reset = ResetStarted(@)]
  BY DEF ResetClicked, d, e
<1> HIDE DEF x
<1>5. y \in Countdowns /\ y.refresh = c.refresh /\ x.reset \in Resets
  BY <1>3 DEF Countdowns
<1>6. r \in Resets
  <2> DEFINE o == x.reset
  <2> HIDE DEF o
  <2>1. o \in Resets /\ o.clicks + 1 \in Nat /\ o.runs \in Runs /\ 0 \in 0..MaxResetPolls
    BY <1>5, IdleTyped DEF Resets, o
  <2>2. [q \in DOMAIN o.runs \cup {o.clicks + 1} |->
           IF q = o.clicks + 1 THEN 0 ELSE o.runs[q]] \in Runs
    BY <2>1, RunsTyped
  <2>3. ResetStarted(o) \in Resets
    BY <2>1, <2>2 DEF ResetStarted, Resets
  <2> QED BY <2>3 DEF o
<1>7. ResetClicked(c, now) = [y EXCEPT !.reset = r]
  BY <1>3, <1>4 DEF Countdowns
<1> HIDE DEF y, r
<1> QED BY <1>5, <1>6, <1>7, ResetTyped

LEMMA ResetPollTyped ==
    ASSUME NEW c \in Countdowns, NEW p \in DOMAIN c.reset.runs, NEW now \in Nat
    PROVE  ResetPoll(c, p, now) \in Countdowns /\ ResetPoll(c, p, now).refresh = c.refresh
<1> DEFINE n    == c.reset.runs[p] + 1
           r    == [c.reset EXCEPT !.runs = [@ EXCEPT ![p] = n]]
           e    == [ResetEnded(c, p) EXCEPT !.pending = FALSE]
           last == IF n < MaxResetPolls THEN [c EXCEPT !.reset = r] ELSE Drawn(e, now)
           g    == Fetching(last, {})
<1>1. c.reset \in Resets /\ c.reset.runs \in Runs
  BY DEF Countdowns, Resets
<1>2. p \in Nat /\ c.reset.runs[p] \in 0..MaxResetPolls
  BY <1>1, RunsTyped
<1>3. last \in Countdowns /\ last.refresh = c.refresh
  <2>1. CASE n < MaxResetPolls
    <3>1. n \in 0..MaxResetPolls
      BY <1>2, <2>1, IdleTyped
    <3> HIDE DEF n
    <3>2. [c.reset.runs EXCEPT ![p] = n] =
            [q \in DOMAIN c.reset.runs \cup {p} |-> IF q = p THEN n ELSE c.reset.runs[q]]
      OBVIOUS
    <3>3. [q \in DOMAIN c.reset.runs \cup {p} |-> IF q = p THEN n ELSE c.reset.runs[q]] \in Runs
      BY <1>1, <1>2, <3>1, RunsTyped
    <3>5. [c.reset.runs EXCEPT ![p] = n] \in Runs
      BY <3>2, <3>3, Zenon
    <3>4. r \in Resets
      BY <1>1, <3>5 DEF Resets
    <3> HIDE DEF r
    <3> QED BY <2>1, <3>4, ResetTyped
  <2>2. CASE ~(n < MaxResetPolls)
    <3>1. ResetEnded(c, p) \in Countdowns /\ ResetEnded(c, p).refresh = c.refresh
      BY ResetEndedTyped
    <3>2. e \in Countdowns /\ e.refresh = c.refresh
      BY <3>1 DEF Countdowns
    <3> HIDE DEF e
    <3> QED BY <2>2, <3>2, DrawnTyped
  <2> QED BY <2>1, <2>2
<1>4. ResetPoll(c, p, now) = IF c.fetch = None THEN [g EXCEPT !.fetch.poll = p]
                             ELSE ResetChecked(last, p, now)
  BY DEF ResetPoll, Countdowns
<1>5. ASSUME c.fetch = None
      PROVE  [g EXCEPT !.fetch.poll = p] \in Countdowns /\ [g EXCEPT !.fetch.poll = p].refresh = c.refresh
  <2>1. last.fetch = None
    BY <1>5 DEF Drawn, ResetEnded, Countdowns
  <2> DEFINE f == [answer |-> None, waiting |-> {}, poll |-> p]
  <2> HIDE DEF last
  <2> DEFINE f0 == [answer |-> None, waiting |-> {}, poll |-> 0]
  <2>4. g = [last EXCEPT !.fetch = f0] /\ f = [f0 EXCEPT !.poll = p]
    BY <2>1 DEF Fetching
  <2> HIDE DEF f, f0, g
  <2>2. [g EXCEPT !.fetch.poll = p] = [last EXCEPT !.fetch = f]
    BY <1>3, <2>4 DEF Countdowns
  <2>3. f \in Fetches
    BY <1>2 DEF Fetches, f
  <2> QED BY <1>3, <2>2, <2>3 DEF Countdowns
<1> HIDE DEF last, g
<1> QED BY <1>3, <1>4, <1>5, ResetCheckedTyped

LEMMA ResolvedTyped ==
    ASSUME NEW c, NEW d \in Countdowns, NEW starting \in BOOLEAN, NEW now \in Nat
    PROVE  /\ Resolved(c, d, starting, now) \in Countdowns
           /\ Resolved(c, d, starting, now).refresh = d.refresh
<1> DEFINE W == c.fetch.waiting
           p == c.fetch.poll
           e == IF "start" \in W THEN AfterStartingPoll(d, starting) ELSE d
           f == IF "refresh" \in W THEN [e EXCEPT !.soon = TRUE] ELSE e
<1>1. e \in Countdowns /\ e.refresh = d.refresh
  BY HandleTyped DEF AfterStartingPoll
<1>2. Resolved(c, d, starting, now) = IF p = 0 THEN f ELSE ResetChecked(f, p, now)
  BY DEF Resolved
<1> HIDE DEF W, e, p
<1>3. f \in Countdowns /\ f.refresh = d.refresh
  BY <1>1 DEF Countdowns
<1> HIDE DEF f
<1> QED BY <1>2, <1>3, ResetCheckedTyped

LEMMA AnsweredTyped ==
    ASSUME NEW c \in Countdowns, NEW a \in Cycles, NEW now \in Nat
    PROVE  Answered(c, a, now) \in Countdowns /\ Answered(c, a, now).refresh = c.refresh
<1> DEFINE b == [c EXCEPT !.fetch = None, !.running = a.running, !.pending = a.pending,
                          !.next = IF a.next = 0 THEN @ ELSE a.next]
           x == Drawn(b, now)
           d == [x EXCEPT !.ticking = TRUE]
           e == IF Starting(a) THEN StartStartingCyclePolling(d) ELSE d
<1>1. /\ a.next \in Nat /\ a.running \in BOOLEAN /\ a.pending \in BOOLEAN /\ c.next \in Nat
      /\ Starting(a) \in BOOLEAN
  BY DEF Cycles, Countdowns, Starting
<1>2. b \in Countdowns /\ b.refresh = c.refresh
  BY <1>1 DEF Countdowns
<1> HIDE DEF b
<1>3. x \in Countdowns /\ x.refresh = c.refresh
  BY <1>2, DrawnTyped
<1>4. Answered(c, a, now) = Resolved(c, e, Starting(a), now)
  BY DEF Answered, b
<1> HIDE DEF x
<1>5. d \in Countdowns /\ d.refresh = c.refresh
  BY <1>3 DEF Countdowns
<1> HIDE DEF d
<1>6. e \in Countdowns /\ e.refresh = c.refresh
  BY <1>5, StartPollTyped
<1> HIDE DEF e
<1> QED BY <1>1, <1>4, <1>6, ResolvedTyped

LEMMA FailedTyped ==
    ASSUME NEW c \in Countdowns, NEW now \in Nat
    PROVE  Failed(c, now) \in Countdowns /\ Failed(c, now).refresh = c.refresh
<1> DEFINE d == [c EXCEPT !.fetch = None]
           e == IF "start" \in c.fetch.waiting THEN Scheduled(d) ELSE d
<1>1. d \in Countdowns /\ d.refresh = c.refresh
  BY DEF Countdowns
<1>2. Failed(c, now) = IF c.next # 0 THEN Resolved(c, d, TRUE, now)
                       ELSE [e EXCEPT !.shown = IF @ = "Starting Cycle" THEN "Waiting for Cycle" ELSE @]
  BY DEF Failed
<1> HIDE DEF d
<1>3. e \in Countdowns /\ e.refresh = c.refresh
  BY <1>1, HandleTyped
<1> HIDE DEF e
<1>4. /\ [e EXCEPT !.shown = IF @ = "Starting Cycle" THEN "Waiting for Cycle" ELSE @] \in Countdowns
      /\ [e EXCEPT !.shown = IF @ = "Starting Cycle" THEN "Waiting for Cycle" ELSE @].refresh = e.refresh
  BY <1>3 DEF Countdowns, Texts
<1>5. Resolved(c, d, TRUE, now) \in Countdowns /\ Resolved(c, d, TRUE, now).refresh = d.refresh
  BY <1>1, ResolvedTyped
<1> QED BY <1>1, <1>2, <1>3, <1>4, <1>5

LEMMA InitializeTyped ==
    ASSUME NEW c \in Countdowns
    PROVE  Initialize(c) \in Countdowns /\ Initialize(c).refresh
<1> DEFINE d == [c EXCEPT !.running = FALSE, !.pending = FALSE]
           x == Fetching(d, {})
<1>1. d \in Countdowns
  BY DEF Countdowns
<1> HIDE DEF d
<1>2. x \in Countdowns
  BY <1>1, FetchingTyped
<1>3. Initialize(c) = [x EXCEPT !.refresh = TRUE]
  BY DEF Initialize, d
<1> HIDE DEF x
<1> QED BY <1>2, <1>3 DEF Countdowns

\* Whatever is switched to, the observer of the section initializes the
\* countdown again.
LEMMA CountdownSwitchedTyped ==
    ASSUME NEW c \in Countdowns, NEW from, NEW t
    PROVE  CountdownSwitched(c, from, t) \in Countdowns /\ CountdownSwitched(c, from, t).refresh
<1>1. Cleanup(c) \in Countdowns
  <2>1. [c.start EXCEPT !.id = "none"] \in Starts
    BY DEF Countdowns, Starts
  <2>2. Cleanup(c) = [c EXCEPT !.ticking = FALSE, !.refresh = FALSE, !.start = [c.start EXCEPT !.id = "none"]]
    BY DEF Cleanup, Countdowns
  <2> QED BY <2>1, <2>2 DEF Countdowns
<1> QED BY <1>1, InitializeTyped DEF CountdownSwitched

LEMMA RefreshTyped ==
    ASSUME NEW c \in Countdowns
    PROVE  RefreshAllData(c) \in Countdowns /\ RefreshAllData(c).refresh = c.refresh
<1>1. [c EXCEPT !.soon = TRUE] \in Countdowns /\ [c EXCEPT !.soon = TRUE].refresh = c.refresh
  BY DEF Countdowns
<1> QED BY <1>1, FetchingTyped DEF RefreshAllData

\* An interval whose handle is kept: started when it does not run, or stopped.
LEMMA IntervalTyped ==
    ASSUME NEW i \in Intervals
    PROVE  /\ ClearInterval(i) \in Intervals /\ ~ClearInterval(i).held
           /\ (~i.held => SetInterval(i) \in Intervals /\ SetInterval(i).held)
           /\ i.held \in BOOLEAN /\ i.runs = IF i.held THEN 1 ELSE 0
<1> DEFINE off == [held |-> FALSE, runs |-> 0]
           on  == [held |-> TRUE, runs |-> 1]
<1>1. /\ off.held = FALSE /\ off.runs = 0 /\ off \in Intervals
      /\ on.held = TRUE /\ on.runs = 1 /\ on \in Intervals
  BY DEF Intervals
<1>2. i = off \/ i = on
  BY DEF Intervals
<1>3. CASE i = off
  <2>1. ClearInterval(i) = off /\ SetInterval(i) = on
    BY <1>3 DEF ClearInterval, SetInterval
  <2> HIDE DEF off, on
  <2> QED BY <1>1, <1>3, <2>1
<1>4. CASE i = on
  <2>1. ClearInterval(i) = off
    BY <1>4 DEF ClearInterval
  <2> HIDE DEF off, on
  <2> QED BY <1>1, <1>4, <2>1
<1> QED BY <1>2, <1>3, <1>4

LEMMA PollTyped ==
    ASSUME NEW s \in HomePolls, NEW i \in Intervals
    PROVE  /\ [s EXCEPT !.poll = i] \in HomePolls /\ [s EXCEPT !.nzb = i] \in HomePolls
           /\ [s EXCEPT !.poll = i].poll = i /\ [s EXCEPT !.poll = i].nzb = s.nzb
           /\ [s EXCEPT !.nzb = i].nzb = i /\ [s EXCEPT !.nzb = i].poll = s.poll
BY DEF HomePolls

LEMMA StoppedTyped ==
    ASSUME NEW s \in HomePolls
    PROVE  /\ StopPolling(s) \in HomePolls /\ ~StopPolling(s).poll.held /\ ~StopPolling(s).nzb.held
           /\ StopNzbHomePoll(s) \in HomePolls /\ StopNzbHomePoll(s).poll = s.poll
           /\ ~StopNzbHomePoll(s).nzb.held
           /\ StartNzbHomePoll(s) \in HomePolls /\ StartNzbHomePoll(s).poll = s.poll
<1> DEFINE t == [s EXCEPT !.poll = ClearInterval(s.poll)]
<1>1. s.poll \in Intervals /\ s.nzb \in Intervals
  BY DEF HomePolls
<1>2. t \in HomePolls /\ ~t.poll.held /\ t.nzb = s.nzb
  <2>1. ClearInterval(s.poll) \in Intervals /\ ~ClearInterval(s.poll).held
    BY <1>1, IntervalTyped
  <2>2. t \in HomePolls /\ t.poll = ClearInterval(s.poll) /\ t.nzb = s.nzb
    BY <2>1, PollTyped
  <2> HIDE DEF t
  <2> QED BY <2>1, <2>2
<1>3. StopNzbHomePoll(s) = [s EXCEPT !.nzb = ClearInterval(s.nzb)]
  BY DEF StopNzbHomePoll, HomePolls
<1>4. StopPolling(s) = [t EXCEPT !.nzb = ClearInterval(t.nzb)]
  BY <1>2 DEF StopPolling, StopNzbHomePoll, HomePolls
<1>5. StartNzbHomePoll(s) = IF s.nzb.held THEN s ELSE [s EXCEPT !.nzb = SetInterval(s.nzb)]
  BY DEF StartNzbHomePoll, HomePolls
<1> HIDE DEF t
<1>6. ASSUME NEW u \in HomePolls
      PROVE  LET v == [u EXCEPT !.nzb = ClearInterval(u.nzb)] IN
             v \in HomePolls /\ v.poll = u.poll /\ ~v.nzb.held
  <2> DEFINE v == [u EXCEPT !.nzb = ClearInterval(u.nzb)]
  <2>1. ClearInterval(u.nzb) \in Intervals /\ ~ClearInterval(u.nzb).held
    BY IntervalTyped DEF HomePolls
  <2>2. v \in HomePolls /\ v.nzb = ClearInterval(u.nzb) /\ v.poll = u.poll
    BY <2>1, PollTyped
  <2> HIDE DEF v
  <2>3. v \in HomePolls /\ v.poll = u.poll /\ ~v.nzb.held
    BY <2>1, <2>2
  <2> QED BY <2>3 DEF v
<1>7. StartNzbHomePoll(s) \in HomePolls /\ StartNzbHomePoll(s).poll = s.poll
  <2>1. ~s.nzb.held => SetInterval(s.nzb) \in Intervals
    BY <1>1, IntervalTyped
  <2>2. CASE s.nzb.held
    BY <1>5, <2>2
  <2>3. CASE ~s.nzb.held
    <3> DEFINE v == [s EXCEPT !.nzb = SetInterval(s.nzb)]
    <3>1. v \in HomePolls /\ v.poll = s.poll
      BY <2>1, <2>3, PollTyped
    <3> HIDE DEF v
    <3>2. StartNzbHomePoll(s) = v
      BY <1>5, <2>3 DEF v
    <3> QED BY <3>1, <3>2
  <2> QED BY <2>2, <2>3
<1>8. StopNzbHomePoll(s) \in HomePolls /\ StopNzbHomePoll(s).poll = s.poll /\ ~StopNzbHomePoll(s).nzb.held
  BY <1>3, <1>6
<1>9. StopPolling(s) \in HomePolls /\ StopPolling(s).poll = t.poll /\ ~StopPolling(s).nzb.held
  BY <1>2, <1>4, <1>6
<1> QED BY <1>2, <1>7, <1>8, <1>9

LEMMA SwitchedTyped ==
    ASSUME NEW s \in HomePolls, NEW t
    PROVE  /\ StatsSwitched(s, t) \in HomePolls /\ ~StatsSwitched(s, t).nzb.held
           /\ (StatsSwitched(s, t).poll.held <=> t = "home")
<1> DEFINE x == StopPolling(s)
           y == LoadMediaStats(x)
           z == StopPolling(y)
<1>1. x \in HomePolls /\ ~x.poll.held /\ ~x.nzb.held
  BY StoppedTyped
<1> HIDE DEF x
<1>2. y \in HomePolls
  BY <1>1 DEF LoadMediaStats, HomePolls
<1> HIDE DEF y
<1>3. z \in HomePolls /\ ~z.poll.held /\ ~z.nzb.held /\ z.poll \in Intervals
  BY <1>2, StoppedTyped DEF HomePolls
<1>4. StatsSwitched(s, t) = IF t = "home" THEN [z EXCEPT !.poll = SetInterval(z.poll)] ELSE x
  BY <1>3 DEF StatsSwitched, StartPolling, HomePolls, x, y
<1> HIDE DEF z
<1>5. SetInterval(z.poll) \in Intervals /\ SetInterval(z.poll).held
  BY <1>3, IntervalTyped
<1> DEFINE w == [z EXCEPT !.poll = SetInterval(z.poll)]
<1>6. w \in HomePolls /\ w.poll = SetInterval(z.poll) /\ w.nzb = z.nzb
  BY <1>3, <1>5, PollTyped
<1>7. w \in HomePolls /\ w.poll.held /\ ~w.nzb.held
  BY <1>3, <1>5, <1>6
<1> HIDE DEF w
<1>8. CASE t = "home"
  <2>1. StatsSwitched(s, t) = w
    BY <1>4, <1>8 DEF w
  <2> QED BY <1>7, <1>8, <2>1
<1>9. CASE t # "home"
  <2>1. StatsSwitched(s, t) = x
    BY <1>4, <1>9
  <2> QED BY <1>1, <1>9, <2>1
<1> QED BY <1>8, <1>9

LEMMA HomeInit == Init => HInv
<1> SUFFICES ASSUME Init PROVE HInv
  OBVIOUS
<1> DEFINE s == [poll |-> Off, loading |-> FALSE, nzb |-> Off, home |-> FALSE, cached |-> FALSE]
<1>1. cd \in Countdowns /\ (scene = "home" => cd.refresh)
  BY IdleTyped, InitializeTyped DEF Init
<1>2. srv \in Servers
  BY DEF Init, Servers
<1>3. s \in HomePolls
  BY DEF HomePolls, Intervals, Off
<1> HIDE DEF s
<1>4. stats = IF scene = "stats" THEN StatsSwitched(s, "home") ELSE s
  BY DEF Init, s
<1>5. stats \in HomePolls /\ (scene = "stats" => stats.poll.held /\ ~stats.nzb.held)
  BY <1>3, <1>4, SwitchedTyped
<1>6. scene = "stats" => nav.sec = "home"
  BY DEF Init
<1> QED BY <1>1, <1>2, <1>5, <1>6 DEF HInv, Homely

LEMMA HomeUntouched ==
    ASSUME HInv, UNCHANGED <<scene, nav, cd, stats, srv>>, NEW why, hist' = hist \cup why
    PROVE  HInv'
<1>1. Homely(nav, stats, hist) => Homely(nav, stats, hist')
  BY DEF Homely
<1> QED BY <1>1 DEF HInv

\* The polls of the page's statistics.
LEMMA StatsGood ==
    ASSUME HInv, NEW s \in HomePolls, NEW visible, StatsEnd(s, visible),
           s.poll = stats.poll, s.nzb.held => stats.nzb.held \/ visible
    PROVE  HInv'
<1>1. /\ stats' = s /\ UNCHANGED <<scene, nav, cd, srv>>
      /\ hist' = hist \cup (IF visible /\ nav.sec # "home" THEN {"late"} ELSE {})
  BY DEF StatsEnd, Excused
<1>2. Homely(nav, stats, hist) => Homely(nav, s, hist')
  BY <1>1 DEF Homely
<1> QED BY <1>1, <1>2 DEF HInv

LEMMA CountdownGood ==
    ASSUME HInv, NEW c \in Countdowns, HomeStep(c), c.refresh = cd.refresh, srv' \in Servers
    PROVE  HInv'
BY DEF HInv, HomeStep, Homely

LEMMA HomeNextGood ==
    ASSUME HInv, HomeNext
    PROVE  HInv'
<1> USE DEF HInv
<1>1. srv.now \in Nat /\ srv \in Servers /\ cd \in Countdowns /\ stats \in HomePolls
  BY DEF Servers
<1>2. CASE StatsPoll \/ StatsAnswered \/ StatsFailed
  <2>1. ASSUME NEW s \in HomePolls, s.poll = stats.poll, s.nzb = stats.nzb, StatsEnd(s, FALSE)
        PROVE  HInv'
    BY <2>1, StatsGood
  <2>2. LET s == LoadMediaStats(stats) IN
        s \in HomePolls /\ s.poll = stats.poll /\ s.nzb = stats.nzb
    BY <1>1 DEF LoadMediaStats, HomePolls
  <2>3. LET s == [stats EXCEPT !.loading = FALSE, !.cached = TRUE] IN
        s \in HomePolls /\ s.poll = stats.poll /\ s.nzb = stats.nzb
    BY <1>1 DEF HomePolls
  <2>4. LET s == [stats EXCEPT !.loading = FALSE] IN
        s \in HomePolls /\ s.poll = stats.poll /\ s.nzb = stats.nzb
    BY <1>1 DEF HomePolls
  <2>5. CASE StatsPoll
    BY <2>1, <2>2, <2>5 DEF StatsPoll
  <2>6. CASE StatsAnswered
    BY <2>1, <2>3, <2>6 DEF StatsAnswered
  <2>7. CASE StatsFailed
    BY <2>1, <2>4, <2>7 DEF StatsFailed
  <2> QED BY <1>2, <2>5, <2>6, <2>7
<1>3. CASE NzbHuntHomeStatsFailed \/ \E v \in BOOLEAN : FetchNzbHuntHomeStats(v)
  <2> DEFINE s == [stats EXCEPT !.home = FALSE]
  <2>1. s \in HomePolls /\ s.poll = stats.poll /\ s.nzb = stats.nzb
    BY <1>1 DEF HomePolls
  <2>2. NzbHuntHomeStatsFailed => StatsEnd(s, FALSE)
    BY DEF NzbHuntHomeStatsFailed
  <2>3. \A v \in BOOLEAN : FetchNzbHuntHomeStats(v) =>
          StatsEnd(IF v THEN StartNzbHomePoll(s) ELSE StopNzbHomePoll(s), v)
    BY DEF FetchNzbHuntHomeStats
  <2> HIDE DEF s
  <2>4. CASE NzbHuntHomeStatsFailed
    BY <2>1, <2>2, <2>4, StatsGood
  <2>5. ASSUME NEW v \in BOOLEAN, FetchNzbHuntHomeStats(v)
        PROVE  HInv'
    <3>1. /\ StopNzbHomePoll(s) \in HomePolls /\ StopNzbHomePoll(s).poll = stats.poll
          /\ ~StopNzbHomePoll(s).nzb.held
          /\ StartNzbHomePoll(s) \in HomePolls /\ StartNzbHomePoll(s).poll = stats.poll
      BY <2>1, StoppedTyped
    <3>2. StatsEnd(IF v THEN StartNzbHomePoll(s) ELSE StopNzbHomePoll(s), v)
      BY <2>3, <2>5
    <3> HIDE DEF HInv
    <3>3. CASE v
      <4>1. StatsEnd(StartNzbHomePoll(s), v)
        BY <3>2, <3>3
      <4> QED BY <3>1, <3>3, <4>1, StatsGood DEF HInv
    <3>4. CASE ~v
      <4>1. StatsEnd(StopNzbHomePoll(s), v)
        BY <3>2, <3>4
      <4> QED BY <3>1, <4>1, StatsGood DEF HInv
    <3> QED BY <3>3, <3>4
  <2> QED BY <1>3, <2>4, <2>5
<1>4. ASSUME NEW c \in Countdowns, NEW on, Timer(on, c), c.refresh = cd.refresh
      PROVE  HInv'
  BY <1>1, <1>4, CountdownGood DEF Timer
<1>5. CASE StatsDrawn
  BY <1>1, <1>4, <1>5, RefreshTyped DEF StatsDrawn
<1>6. CASE Tick
  BY <1>1, <1>4, <1>6, DrawnTyped DEF Tick
<1>7. CASE RefreshFires
  BY <1>1, <1>4, <1>7, FetchingTyped DEF RefreshFires
<1>8. CASE SoonFires
  <2>1. [cd EXCEPT !.soon = FALSE] \in Countdowns /\ [cd EXCEPT !.soon = FALSE].refresh = cd.refresh
    BY <1>1 DEF Countdowns
  <2>2. LET c == Fetching([cd EXCEPT !.soon = FALSE], {}) IN
        c \in Countdowns /\ c.refresh = cd.refresh
    BY <2>1, FetchingTyped
  <2> QED BY <1>4, <1>8, <2>2 DEF SoonFires
<1>9. CASE ResetFires
  <2>1. PICK p \in DOMAIN cd.reset.runs : Timer(TRUE, ResetPoll(cd, p, srv.now))
    BY <1>9 DEF ResetFires
  <2> QED BY <1>1, <1>4, <2>1, ResetPollTyped
<1>10. CASE StartingFires
  <2> DEFINE x == [cd EXCEPT !.start.id = "fired"]
             y == [cd EXCEPT !.start.orphans = @ - 1]
  <2>1. x \in Countdowns /\ x.refresh = cd.refresh
    <3>1. [cd.start EXCEPT !.id = "fired"] \in Starts
      BY <1>1 DEF Countdowns, Starts
    <3>2. x = [cd EXCEPT !.start = [cd.start EXCEPT !.id = "fired"]]
      BY <1>1 DEF Countdowns
    <3> QED BY <1>1, <3>1, <3>2, StartTyped
  <2>2. ASSUME cd.start.orphans > 0
        PROVE  y \in Countdowns /\ y.refresh = cd.refresh
    <3>1. [cd.start EXCEPT !.orphans = @ - 1] \in Starts
      BY <1>1, <2>2 DEF Countdowns, Starts
    <3>2. y = [cd EXCEPT !.start = [cd.start EXCEPT !.orphans = @ - 1]]
      BY <1>1 DEF Countdowns
    <3> QED BY <1>1, <3>1, <3>2, StartTyped
  <2>3. CASE Timer(cd.start.id = "set", StartingPoll(x))
    <3> HIDE DEF x
    <3> QED BY <1>4, <2>1, <2>3, StartingPollTyped
  <2>4. CASE Timer(cd.start.orphans > 0, StartingPoll(y))
    <3>1. cd.start.orphans > 0
      BY <2>4 DEF Timer
    <3> HIDE DEF y
    <3> QED BY <1>4, <2>2, <2>4, <3>1, StartingPollTyped
  <2> QED BY <1>10, <2>3, <2>4 DEF StartingFires
<1>11. CASE FetchServed
  <2> DEFINE f == [cd.fetch EXCEPT !.answer = Cycle]
             c == [cd EXCEPT !.fetch.answer = Cycle]
  <2>1. cd.fetch \in Fetches /\ Cycle \in Cycles
    BY <1>1, <1>11 DEF FetchServed, Countdowns, Cycle, Cycles, Servers
  <2>2. f \in Fetches
    BY <2>1 DEF Fetches
  <2>3. c = [cd EXCEPT !.fetch = f]
    BY <1>1 DEF Countdowns
  <2> HIDE DEF f
  <2>4. c \in Countdowns /\ c.refresh = cd.refresh
    BY <1>1, <2>2, <2>3 DEF Countdowns
  <2>5. Timer(cd.fetch.answer = None, c)
    BY <1>11 DEF FetchServed
  <2> HIDE DEF c
  <2> QED BY <1>4, <2>4, <2>5
<1>12. CASE FetchAnswered
  <2>1. cd.fetch.answer \in Cycles
    BY <1>1, <1>12 DEF FetchAnswered, Timer, Countdowns, Fetches
  <2> QED BY <1>1, <1>4, <1>12, <2>1, AnsweredTyped DEF FetchAnswered
<1>13. CASE FetchFailed
  BY <1>1, <1>13, FailedTyped, CountdownGood DEF FetchFailed
<1>14. CASE ResetClick
  <2>1. srv' \in Servers
    BY <1>1, <1>14 DEF ResetClick, Servers
  <2> QED BY <1>1, <1>14, <2>1, ResetClickedTyped, CountdownGood DEF ResetClick
<1>15. CASE ResetServed \/ ResetAnswered \/ ResetFailed \/ ServerChanges \/ TimePasses
  <2>1. srv' \in Servers
    <3>1. CASE ResetServed
      BY <1>1, <3>1 DEF ResetServed, Servers
    <3>2. CASE ResetAnswered \/ ResetFailed
      BY <1>1, <3>2 DEF ResetAnswered, ResetFailed, Servers
    <3>3. CASE ServerChanges
      <4>1. CycleStarts \/ CycleEnds \/ ResetTaken
        BY <3>3 DEF ServerChanges
      <4>2. CASE CycleStarts
        BY <1>1, <4>2 DEF CycleStarts, Servers
      <4>3. CASE CycleEnds
        <5>1. srv.now + 1 \in Nat
          BY <1>1
        <5>2. srv' = [srv EXCEPT !.running = FALSE, !.next = srv.now + 1]
          BY <4>3 DEF CycleEnds
        <5> QED BY <1>1, <5>1, <5>2 DEF Servers
      <4>4. CASE ResetTaken
        BY <1>1, <4>4 DEF ResetTaken, Servers
      <4> QED BY <4>1, <4>2, <4>3, <4>4
    <3>4. CASE TimePasses
      BY <1>1, <3>4 DEF TimePasses, Servers
    <3> QED BY <1>15, <3>1, <3>2, <3>3, <3>4
  <2>2. HomeStep(cd)
    BY <1>15 DEF ResetServed, ResetAnswered, ResetFailed, ServerChanges, TimePasses
  <2> QED BY <1>1, <2>1, <2>2, CountdownGood
<1> HIDE DEF HInv
<1> QED BY <1>2, <1>3, <1>5, <1>6, <1>7, <1>8, <1>9, <1>10, <1>11, <1>12, <1>13, <1>14, <1>15 DEF HomeNext

\* The section is switched: the polls follow it.
LEMMA HomeBecomes ==
    ASSUME NInv, HInv, NEW n, NEW s, NEW why, Becomes(n, s, why), scene # "stats"
    PROVE  HInv'
<1>1. /\ scene' = scene /\ srv' = srv /\ stats' = stats
      /\ cd' = IF scene = "home" /\ s # None THEN CountdownSwitched(cd, nav.sec, s) ELSE cd
  BY DEF Becomes
<1> QED BY <1>1, CountdownSwitchedTyped DEF HInv

LEMMA StatsNavGood ==
    ASSUME NInv, HInv, scene = "stats", NavNext
    PROVE  HInv'
<1>1. stats \in HomePolls /\ Homely(nav, stats, hist)
  BY DEF HInv
<1>2. CASE \E h \in Hashes : Navigate(h)
  <2>1. /\ scene' = scene /\ UNCHANGED <<cd, stats, srv>> /\ nav'.sec = nav.sec /\ nav'.events # <<>>
        /\ hist \subseteq hist'
    BY <1>2, AddressMoves
  <2>2. Homely(nav', stats, hist')
    BY <1>1, <2>1 DEF Homely
  <2> QED BY <2>1, <2>2 DEF HInv
<1>3. CASE HashHandled
  <2>1. /\ scene' = scene /\ srv' = srv /\ nav'.sec = Shown(nav.hash) /\ nav'.hash = nav.hash
        /\ stats' = StatsSwitched(stats, nav.hash) /\ cd' = cd
    BY <1>3, AddressHandled
  <2>2. /\ stats' \in HomePolls /\ ~stats'.nzb.held /\ (stats'.poll.held <=> nav.hash = "home")
    BY <1>1, <2>1, SwitchedTyped
  <2>3. Homely(nav', stats', hist')
    BY <2>1, <2>2, Redirection DEF Homely
  <2> QED BY <2>1, <2>2, <2>3 DEF HInv
<1> QED BY <1>2, <1>3, OnlyAddress

LEMMA HomeGood ==
    ASSUME NInv, HInv, [Next]_vars
    PROVE  HInv'
<1>1. CASE LogNext
  <2>1. nav' = nav /\ scene' = scene /\ UNCHANGED <<cd, stats, srv>> /\ \E why : hist' = hist \cup why
    BY <1>1, LogAside
  <2> QED BY <2>1, HomeUntouched
<1>2. CASE HomeNext
  BY <1>2, HomeNextGood
<1>3. CASE NavNext /\ scene = "stats"
  BY <1>3, StatsNavGood
<1>4. CASE NavNext /\ scene # "stats"
  <2>1. ASSUME NEW h, Navigate(h)
        PROVE  \E n, s, why : Becomes(n, s, why)
    BY <2>1 DEF Navigate
  <2>2. ASSUME \/ HashGuarded \/ HashHandled \/ OpenInstance \/ OpenProfile \/ Edit \/ Save
               \/ BackButton \/ Leave \/ GoBack \/ Escape \/ Reload
        PROVE  \E n, s, why : Becomes(n, s, why)
    BY <2>2 DEF HashGuarded, HashHandled, OpenInstance, OpenProfile, Edit, Save,
                BackButton, Leave, GoBack, Escape, Reload
  <2>3. \E n, s, why : Becomes(n, s, why)
    BY <1>4, <2>1, <2>2 DEF NavNext
  <2> QED BY <1>4, <2>3, HomeBecomes
<1>5. CASE UNCHANGED vars
  <2>1. UNCHANGED <<scene, nav, cd, stats, srv>> /\ hist' = hist \cup {}
    BY <1>5 DEF vars
  <2> QED BY <2>1, HomeUntouched
<1> QED BY <1>1, <1>2, <1>3, <1>4, <1>5 DEF Next

LEMMA HomeAlways == Spec => []HInv
<1>1. NInv /\ HInv /\ [Next]_vars => HInv'
  BY HomeGood
<1> QED BY <1>1, HomeInit, PageAlways, PTL DEF Spec

\* With nothing in flight, what polls is what the section shown wants: one
\* interval for the app of the log view, in its section and in no other; the
\* home page's statistics at home only, and its countdown always
\* (ConnectToLogs, logs-main.js's handles, switchSection's stops and starts).
\* An interval set up by an answer that comes after its section was left is the
\* exception ("late").
THEOREM PollsFollow == Spec => []PollsBelong
<1>1. VInv /\ HInv => PollsBelong
  <2> SUFFICES ASSUME VInv, HInv PROVE PollsBelong
    OBVIOUS
  <2>1. ASSUME scene = "logs", log.reqs = {}, hist \cap {"hasty", "opened", "late"} = {}
        PROVE  log.orphans = {} /\ log.poll = IF nav.sec = "logs" THEN log.app ELSE None
    <3>1. Polls(log, nav.sec, hist)
      BY <2>1 DEF VInv, Viewed
    <3> QED BY <2>1, <3>1 DEF Polls
  <2>2. /\ scene = "stats" => Homely(nav, stats, hist)
        /\ stats.poll.held \in BOOLEAN /\ stats.poll.runs = IF stats.poll.held THEN 1 ELSE 0
        /\ stats.nzb.held \in BOOLEAN /\ stats.nzb.runs = IF stats.nzb.held THEN 1 ELSE 0
    BY IntervalTyped DEF HInv, HomePolls
  <2>3. scene = "home" => cd.refresh
    BY DEF HInv
  <2> QED BY <2>1, <2>2, <2>3 DEF PollsBelong, Homely
<1> QED BY <1>1, LogAlways, HomeAlways, PTL

\* Every variable keeps its type: what is typed belongs to the section shown,
\* each question names where it goes, and the tries of the countdown's polls
\* never pass their bounds.
THEOREM TypeCorrect == Spec => []TypeOK
<1>1. NInv /\ VInv /\ HInv => TypeOK
  <2> SUFFICES ASSUME NInv, VInv, HInv PROVE TypeOK
    OBVIOUS
  <2>1. /\ nav.sec \in Sections /\ nav.hash \in Hashes /\ nav.open \in BOOLEAN
        /\ nav.asks \in Seq(Questions) /\ nav.typed \subseteq {nav.sec} \cap Forms
        /\ nav.flags \subseteq Flags
    BY DEF NInv, Pages, Records
  <2>2. \A d \in ToSet(nav.asks) : d.kind \in Forms \cup {"hash", "back"} /\ d.to \in Hashes \cup Editors
    <3>1. ToSet(nav.asks) \subseteq Questions
      BY <2>1 DEF ToSet
    <3>2. \A d \in Questions : d.kind \in Editors \cup {"hash", "back"} /\ d.to \in Hashes \cup {"instance-editor"}
      BY DEF Questions
    <3> QED BY <3>1, <3>2, FormNames
  <2>3. /\ log.poll \in Apps \cup {None} /\ log.orphans \subseteq Apps
        /\ log.rows \subseteq Apps \X (1..2)
    BY DEF VInv, Logs
  <2>4. /\ cd.shown \in Texts /\ cd.start \in Starts
        /\ \A p \in DOMAIN cd.reset.runs : cd.reset.runs[p] \in 0..MaxResetPolls
    BY RunsTyped DEF HInv, Countdowns, Resets
  <2>5. cd.start.tries \in 0..MaxStarting
    BY <2>4 DEF Starts
  <2>6. scene \in Scenes /\ hist \subseteq Excuses
    BY DEF NInv
  <2> QED BY <2>1, <2>2, <2>3, <2>4, <2>5, <2>6 DEF TypeOK, Flags
<1> QED BY <1>1, PageAlways, LogAlways, HomeAlways, PTL

=============================================================================
