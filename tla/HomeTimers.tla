----------------------------- MODULE HomeTimers -----------------------------
(***************************************************************************)
(* The countdown to the next cycle on the home page (cycle-countdown.js),  *)
(* for one instance, as operators on the record of its state:              *)
(*                                                                         *)
(*   next, running, pending   what the last answers said: the time of the  *)
(*                            next cycle (0: none), the flags              *)
(*   shown                    the text on the page                         *)
(*   ticking, refresh         the intervals of 1 s and of 15 s             *)
(*   fetch                    the request in flight, at most one: the      *)
(*                            server's answer, once it is there, who waits *)
(*                            for it, and the poll after a reset that does *)
(*   start                    the poll after a "Starting Cycle" answer:    *)
(*                            its handle, the timeouts no handle holds,    *)
(*                            the attempts                                 *)
(*   reset                    the polls after a click on Reset: the        *)
(*                            clicks so far, the poll that the handle      *)
(*                            holds, and the attempts of each that runs    *)
(*   soon                     the timeout of 500 ms before a fetch         *)
(*                                                                         *)
(* A time is the number of a moment, and now the last moment that passed.  *)
(* Such a poll has the number of its click; 0 is none.                     *)
(***************************************************************************)
EXTENDS Naturals, Functions

CONSTANTS None,          \* no request, no answer
          MaxStarting,   \* STARTING_CYCLE_POLL_MAX_ATTEMPTS
          MaxResetPolls  \* maxPollAttempts

ASSUME TimersAssumption == MaxStarting \in Nat /\ MaxResetPolls \in Nat

Texts == {"Starting Cycle", "Waiting for Cycle", "Running Cycle", "Pending Reset", "countdown"}

Idle == [next |-> 0, running |-> FALSE, pending |-> FALSE, shown |-> "Starting Cycle",
         ticking |-> FALSE, refresh |-> FALSE, fetch |-> None,
         start |-> [id |-> "none", orphans |-> 0, tries |-> 0],
         reset |-> [clicks |-> 0, handle |-> 0, runs |-> << >>], soon |-> FALSE]

\* What the page has to show of a state of the server.
Text(next, running, pending, now) ==
    CASE pending -> "Pending Reset"
      [] ~pending /\ running -> "Running Cycle"
      [] ~pending /\ ~running /\ next > now -> "countdown"
      [] OTHER -> "Starting Cycle"

\* updateTimerDisplay; a time that passed is dropped.
Drawn(c, now) ==
    [c EXCEPT !.shown = Text(c.next, c.running, c.pending, now),
              !.next  = IF @ > now THEN @ ELSE 0]

\* fetchAllCycleData, for nobody or for those who wait; not while one is in
\* flight.
Fetching(c, waiting) ==
    IF c.fetch # None THEN c
    ELSE [c EXCEPT !.fetch = [answer |-> None, waiting |-> waiting, poll |-> 0]]

---------------------------------------------------------------------------
(* The poll while a cycle starts: every 2 s, MaxStarting times.  The       *)
(* handle of a timeout that fired is kept until the poll ends.             *)

\* The handle is overwritten: a timeout it held runs on without one.
Orphaned(c)  == IF c.start.id = "set" THEN c.start.orphans + 1 ELSE c.start.orphans
Scheduled(c) == [c EXCEPT !.start = [@ EXCEPT !.id = "set", !.orphans = Orphaned(c)]]
Ended(c)     == [c EXCEPT !.start = [@ EXCEPT !.id = "none", !.orphans = Orphaned(c)]]

StartStartingCyclePolling(c) ==
    IF c.start.id = "none" THEN [Scheduled(c) EXCEPT !.start.tries = 0] ELSE c

\* Mutant of StartingPoll: it never gives up.
StartingPollForever(c) ==
    LET d == [c EXCEPT !.start.tries = @ + 1] IN
    IF d.fetch # None THEN Scheduled(d) ELSE Fetching(d, {"start"})

StartingPoll(c) ==
    LET d == [c EXCEPT !.start.tries = @ + 1] IN
    CASE d.start.tries > MaxStarting -> [Ended(d) EXCEPT !.start.tries = MaxStarting]
      [] d.start.tries <= MaxStarting /\ d.fetch # None -> Scheduled(d)
      [] OTHER -> Fetching(d, {"start"})

AfterStartingPoll(c, starting) ==
    IF starting /\ c.start.tries < MaxStarting THEN Scheduled(c) ELSE Ended(c)

---------------------------------------------------------------------------
(* A poll after a reset: every 2 s, until the reset shows as done.         *)

\* Poll p ends, and with it the handle, whichever poll it holds.
ResetEnded(c, p) == [c EXCEPT !.reset.handle = 0, !.reset.runs = Restrict(@, DOMAIN @ \ {p})]

\* What follows p's request: p may have ended meanwhile.
ResetChecked(c, p, now) ==
    IF ~c.pending /\ (c.next # 0 \/ c.running) THEN Drawn(ResetEnded(c, p), now) ELSE c

\* The click: the page shows the reset before the server knows of it, the
\* poll that the handle holds ends, and another starts.  (Each initialize adds
\* a listener of the click; all run at once, each in place of the one before.)
ResetStarted(r) ==
    LET p == r.clicks + 1 IN
    [clicks |-> p, handle |-> p,
     runs |-> [q \in DOMAIN r.runs \cup {p} |-> IF q = p THEN 0 ELSE r.runs[q]]]
ResetClicked(c, now) ==
    LET d == IF c.reset.handle = 0 THEN c ELSE ResetEnded(c, c.reset.handle)
    IN [Drawn([d EXCEPT !.pending = TRUE], now) EXCEPT !.soon = TRUE, !.reset = ResetStarted(@)]

\* The interval of p fires.  While another request is in flight the check
\* follows at once, on what the page has.
ResetPoll(c, p, now) ==
    LET n    == c.reset.runs[p] + 1
        last == IF n < MaxResetPolls THEN [c EXCEPT !.reset.runs[p] = n]
                ELSE Drawn([ResetEnded(c, p) EXCEPT !.pending = FALSE], now)
    IN IF c.fetch = None THEN [Fetching(last, {}) EXCEPT !.fetch.poll = p]
       ELSE ResetChecked(last, p, now)

---------------------------------------------------------------------------
(* The end of a request, and the page's calls.                             *)

Starting(a) == a.next = 0 /\ ~a.running

\* An answer as the polls see it.
Resolved(c, d, starting, now) ==
    LET W == c.fetch.waiting
        e == IF "start" \in W THEN AfterStartingPoll(d, starting) ELSE d
        f == IF "refresh" \in W THEN [e EXCEPT !.soon = TRUE] ELSE e
    IN IF c.fetch.poll = 0 THEN f ELSE ResetChecked(f, c.fetch.poll, now)

\* An answer overwrites what the page has, the flag of a click included; the
\* time only when it names one.
Answered(c, a, now) ==
    LET d == [Drawn([c EXCEPT !.fetch = None, !.running = a.running, !.pending = a.pending,
                              !.next = IF a.next = 0 THEN @ ELSE a.next], now)
                EXCEPT !.ticking = TRUE]
    IN Resolved(c, IF Starting(a) THEN StartStartingCyclePolling(d) ELSE d, Starting(a), now)

\* A failure counts as an answer while a time is known, and the starting poll
\* takes the times for an answer that says "starting".
Failed(c, now) ==
    LET d == [c EXCEPT !.fetch = None] IN
    IF c.next # 0 THEN Resolved(c, d, TRUE, now)
    ELSE [(IF "start" \in c.fetch.waiting THEN Scheduled(d) ELSE d)
            EXCEPT !.shown = IF @ = "Starting Cycle" THEN "Waiting for Cycle" ELSE @]

\* Mutant of Initialize: the refresh every 15 s is not started.
InitializeUnrefreshed(c) == Fetching([c EXCEPT !.running = FALSE, !.pending = FALSE], {})

Initialize(c) ==
    [Fetching([c EXCEPT !.running = FALSE, !.pending = FALSE], {}) EXCEPT !.refresh = TRUE]

\* cleanup leaves the polls after a reset and the requests alone.
Cleanup(c) == [c EXCEPT !.ticking = FALSE, !.refresh = FALSE, !.start.id = "none"]

\* refreshAllData: now, and once more 500 ms after.
RefreshAllData(c) == IF c.fetch = None THEN Fetching(c, {"refresh"}) ELSE [c EXCEPT !.soon = TRUE]
=============================================================================
