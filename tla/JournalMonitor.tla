---------------------------- MODULE JournalMonitor ----------------------------
(***************************************************************************)
(* How the service monitor follows the logs of the other services          *)
(* (journal_monitor.py, and _on_service_logged_err of zmw_servicemon.py).  *)
(* One thread follows the journal.  A newly discovered unit starts a       *)
(* timer, whose thread stops the one that follows and starts another; a    *)
(* timer that is running by then cannot be cancelled, so that two of these *)
(* restarts can overlap.  Nothing but the list of recent errors has a lock.*)
(*                                                                         *)
(* Every unit is discovered once, so that a timer, and the follower it     *)
(* starts, are named by the unit that caused them.                         *)
(***************************************************************************)
EXTENDS Naturals, Sequences

CONSTANTS
    Units,       \* the systemd units of the services
    Self,        \* the monitor's own unit
    None,        \* no unit
    HistoryLen,  \* max_errors
    MaxLogs,     \* bound: errors the services log in a behaviour
    MaxClears    \* bound: times a user clears the errors in a behaviour

ASSUME JournalMonitorAssumption ==
    /\ Self \in Units
    /\ None \notin Units
    /\ HistoryLen \in Nat \ {0}
    /\ MaxLogs \in Nat
    /\ MaxClears \in Nat

VARIABLES
    monitored,  \* _monitored_services
    timer,      \* _journal_restart_timer
    restart,    \* where the thread of each timer is
    joins,      \* the follower that thread waits for
    follower,   \* where each follower is
    filter,     \* the units it follows, none once it has left
    inbox,      \* the entries it has yet to read
    current,    \* _journal_thread
    stop,       \* _journal_stop_event
    killed,     \* the process has killed itself
    stranded,   \* history: a restart broke off with the event set, and no other
                \* has cleared it since
    history,    \* _recent_errors: how many are older than the window, and younger
    throttled,  \* _rate_limiting_active
    pauses,     \* history: times the limit was reached since the errors were cleared
    reported,   \* _recent_messages
    logs,       \* bound: errors so far
    clears      \* bound: times cleared so far

restarts  == <<monitored, timer, restart, joins>>
followers == <<follower, filter, inbox>>
thread    == <<current, stop, killed>>
errors    == <<history, throttled, pauses, reported>>
bounds    == <<logs, clears>>

journalVars == <<restarts, followers, thread, stranded, errors, bounds>>

RestartStage == {"none", "waits", "sets", "finds", "joins", "checks", "clears", "assigns",
                 "starts", "gone"}

\* The state, and: the list of recent errors is bounded, however pauses and clearing
\* fall.  Each pause adds one entry to it for good, and nothing else does.
JournalTypeOK ==
    /\ monitored \in SUBSET Units
    /\ timer \in Units \cup {None}
    /\ restart \in [Units -> RestartStage]
    /\ joins \in [Units -> Units \cup {None}]
    /\ follower \in [Units -> {"none", "new", "filters", "follows", "failed", "gone"}]
    /\ filter \in [Units -> SUBSET Units]
    /\ inbox \in [Units -> Seq(Units)]
    /\ current \in Units \cup {None}
    /\ {stop, killed, stranded, throttled} \subseteq BOOLEAN
    /\ pauses \in Nat
    /\ history \in [old : 0 .. HistoryLen + pauses, young : 0 .. HistoryLen + pauses]
    /\ history.old + history.young <= HistoryLen + pauses
    /\ reported \in SUBSET Units
    /\ logs \in 0 .. MaxLogs
    /\ clears \in 0 .. MaxClears

JournalInit ==
    /\ monitored = {}
    /\ timer = None
    /\ restart = [u \in Units |-> "none"]
    /\ joins = [u \in Units |-> None]
    /\ follower = [u \in Units |-> "none"]
    /\ filter = [u \in Units |-> {}]
    /\ inbox = [u \in Units |-> <<>>]
    /\ current = None
    /\ stop = FALSE
    /\ killed = FALSE
    /\ stranded = FALSE
    /\ history = [old |-> 0, young |-> 0]
    /\ throttled = FALSE
    /\ pauses = 0
    /\ reported = {}
    /\ logs = 0
    /\ clears = 0

-----------------------------------------------------------------------------
(* Restarts *)

\* Thread.is_alive
Alive(f) == f # None /\ follower[f] \in {"new", "filters", "follows"}

Goes(u, from, to) ==
    /\ ~killed
    /\ restart[u] = from
    /\ restart' = [restart EXCEPT ![u] = to]

\* monitor_unit: cancel the timer, if it is still one, and set a new one.
MonitorUnit(u) ==
    /\ ~killed
    /\ u \notin monitored
    /\ monitored' = monitored \cup {u}
    /\ timer' = u
    /\ restart' = [v \in Units |->
                     IF v = u THEN "waits"
                     ELSE IF v = timer /\ restart[v] = "waits" THEN "gone"
                     ELSE restart[v]]
    /\ UNCHANGED <<joins, followers, thread, stranded, errors, bounds>>

\* _restart_monitor: is there a follower that is alive?
Look(u) ==
    /\ Goes(u, "waits", IF Alive(current) THEN "sets" ELSE "clears")
    /\ UNCHANGED <<monitored, timer, joins, followers, thread, stranded, errors, bounds>>

\* Tell followers to stop ...
SetStop(u) ==
    /\ Goes(u, "sets", "finds")
    /\ stop' = TRUE
    /\ UNCHANGED <<monitored, timer, joins, followers, current, killed, stranded, errors, bounds>>

\* ... and wait for the one that by now is there, which raises if it was not started.
FindThread(u) ==
    /\ \/ /\ Goes(u, "finds", "joins")
          /\ follower[current] # "none"
          /\ joins' = [joins EXCEPT ![u] = current]
          /\ UNCHANGED stranded
       \/ /\ Goes(u, "finds", "gone")
          /\ follower[current] = "none"
          /\ stranded' = stop
          /\ UNCHANGED joins
    /\ UNCHANGED <<monitored, timer, followers, thread, errors, bounds>>

\* It has left, or does not in time: nobody tells it to any more.
Join(u) ==
    /\ Goes(u, "joins", "checks")
    /\ Alive(joins[u]) => ~stop
    /\ UNCHANGED <<monitored, timer, joins, followers, thread, stranded, errors, bounds>>

\* Look again whether the follower, by now perhaps another one, is alive, and end
\* the process if it is.
Check(u) ==
    /\ Goes(u, "checks", "clears")
    /\ killed' = Alive(current)
    /\ joins' = [joins EXCEPT ![u] = None]
    /\ UNCHANGED <<monitored, timer, followers, current, stop, stranded, errors, bounds>>

ClearKeepsStop(u) ==
    /\ Goes(u, "clears", "assigns")
    /\ stranded' = FALSE
    /\ UNCHANGED <<monitored, timer, joins, followers, thread, errors, bounds>>

ClearStop(u) ==
    /\ Goes(u, "clears", "assigns")
    /\ stop' = FALSE
    /\ stranded' = FALSE
    /\ UNCHANGED <<monitored, timer, joins, followers, current, killed, errors, bounds>>

\* Make a new one ...
Assign(u) ==
    /\ Goes(u, "assigns", "starts")
    /\ current' = u
    /\ UNCHANGED <<monitored, timer, joins, followers, stop, killed, stranded, errors, bounds>>

\* ... and start it, or whatever another restart has put in its place; a thread
\* that was started before raises.
Start(u) ==
    /\ Goes(u, "starts", "gone")
    /\ follower' = IF follower[current] # "none" THEN follower
                   ELSE [follower EXCEPT ![current] = "new"]
    /\ UNCHANGED <<monitored, timer, joins, filter, inbox, thread, stranded, errors, bounds>>

-----------------------------------------------------------------------------
(* Followers: _monitor_journal_loop *)

Follows(f, from, to) ==
    /\ ~killed
    /\ follower[f] = from
    /\ follower' = [follower EXCEPT ![f] = to]

\* The journal cannot be read, and nobody tries again.
NoJournal(f) ==
    /\ Follows(f, "new", "failed")
    /\ UNCHANGED <<restarts, filter, inbox, thread, stranded, errors, bounds>>

\* It loops over the set of units ...
AddMatches(f) ==
    /\ Follows(f, "new", "filters")
    /\ filter' = [filter EXCEPT ![f] = monitored]
    /\ UNCHANGED <<restarts, inbox, thread, stranded, errors, bounds>>

\* ... and raises when the set grows meanwhile.
SeekTail(f) ==
    /\ \/ /\ Follows(f, "filters", "follows")
          /\ filter[f] = monitored
          /\ UNCHANGED filter
       \/ /\ Follows(f, "filters", "gone")
          /\ filter[f] # monitored
          /\ filter' = [filter EXCEPT ![f] = {}]
    /\ UNCHANGED <<restarts, inbox, thread, stranded, errors, bounds>>

\* It has read what there was, and sees the event.
Leave(f) ==
    /\ Follows(f, "follows", "gone")
    /\ stop
    /\ inbox[f] = <<>>
    /\ filter' = [filter EXCEPT ![f] = {}]
    /\ UNCHANGED <<restarts, inbox, thread, stranded, errors, bounds>>

Reads(f, u) == follower[f] = "follows" /\ u \in filter[f]

Logged(boxes, u) == [f \in Units |-> IF Reads(f, u) THEN Append(boxes[f], u) ELSE boxes[f]]

\* A service logs an error.
LogError(u) ==
    /\ ~killed
    /\ logs < MaxLogs
    /\ logs' = logs + 1
    /\ inbox' = Logged(inbox, u)
    /\ UNCHANGED <<restarts, follower, filter, thread, stranded, errors, clears>>

Entries == history.old + history.young

Take(f) ==
    /\ ~killed
    /\ follower[f] = "follows"
    /\ inbox[f] # <<>>

Rest(f) == [inbox EXCEPT ![f] = Tail(@)]

\* _on_service_logged_err remembers the message, then calls a method that does not
\* exist; _handle_log logs the exception, as an error of the monitor itself.
Report(f, u) ==
    IF u = Self \/ u \in reported
    THEN inbox' = Rest(f) /\ UNCHANGED reported
    ELSE inbox' = Logged(Rest(f), Self) /\ reported' = reported \cup {u}

\* _handle_log, while errors are not captured.
Discard(f) ==
    /\ Take(f)
    /\ throttled
    /\ inbox' = Rest(f)
    /\ UNCHANGED <<restarts, follower, filter, thread, stranded, errors, bounds>>

\* There is room for the error, or the oldest one makes room.
Record(f) ==
    /\ Take(f)
    /\ ~throttled
    /\ \/ /\ Entries < HistoryLen
          /\ history' = [history EXCEPT !.young = @ + 1]
       \/ /\ Entries >= HistoryLen
          /\ history.old > 0
          /\ history' = [old |-> history.old - 1, young |-> history.young + 1]
    /\ Report(f, Head(inbox[f]))
    /\ UNCHANGED <<restarts, follower, filter, thread, stranded, throttled, pauses, bounds>>

ThrottleForgets(f) ==
    /\ Take(f)
    /\ ~throttled
    /\ Entries >= HistoryLen
    /\ history.old = 0
    /\ history' = [history EXCEPT !.young = @ + 1]
    /\ inbox' = Logged(Rest(f), Self)
    /\ pauses' = pauses
    /\ throttled' = TRUE
    /\ UNCHANGED <<restarts, follower, filter, thread, stranded, reported, bounds>>

\* The oldest one is younger than the window: it goes, the error stays, and so does
\* one about the pause that begins, which is logged as an error of the monitor, too.
Throttle(f) ==
    /\ Take(f)
    /\ ~throttled
    /\ Entries >= HistoryLen
    /\ history.old = 0
    /\ history' = [history EXCEPT !.young = @ + 1]
    /\ inbox' = Logged(Rest(f), Self)
    /\ pauses' = pauses + 1
    /\ throttled' = TRUE
    /\ UNCHANGED <<restarts, follower, filter, thread, stranded, reported, bounds>>

\* _unthrottle_errors, one window later: all entries are older than that, unless the
\* errors were cleared meanwhile, and what was logged at its beginning has been read.
Unthrottle ==
    /\ ~killed
    /\ throttled
    /\ \A f \in Units : inbox[f] = <<>>
    /\ history.young <= IF pauses = 0 THEN 1 ELSE 0
    /\ throttled' = FALSE
    /\ UNCHANGED <<restarts, followers, thread, stranded, history, pauses, reported, bounds>>

\* Time passes: the oldest error becomes older than the window.
Age ==
    /\ history.young > 0
    /\ history' = [old |-> history.old + 1, young |-> history.young - 1]
    /\ UNCHANGED <<restarts, followers, thread, stranded, throttled, pauses, reported, bounds>>

\* clear_recent_errors leaves an entry that says so.
Clear ==
    /\ ~killed
    /\ clears < MaxClears
    /\ clears' = clears + 1
    /\ history' = [old |-> 0, young |-> 1]
    /\ pauses' = 0
    /\ UNCHANGED <<restarts, followers, thread, stranded, throttled, reported, logs>>

-----------------------------------------------------------------------------

RestartStep(u) ==
    \/ Look(u)
    \/ SetStop(u)
    \/ FindThread(u)
    \/ Join(u)
    \/ Check(u)
    \/ ClearStop(u)
    \/ Assign(u)
    \/ Start(u)

FollowerStep(f) ==
    \/ NoJournal(f)
    \/ AddMatches(f)
    \/ SeekTail(f)
    \/ Leave(f)
    \/ Discard(f)
    \/ Record(f)
    \/ Throttle(f)

JournalNext ==
    \/ \E u \in Units : MonitorUnit(u) \/ RestartStep(u) \/ FollowerStep(u) \/ LogError(u)
    \/ Unthrottle
    \/ Age
    \/ Clear

\* Timers and threads run; nobody has to log an error.
JournalFairness ==
    /\ \A u \in Units : WF_journalVars(RestartStep(u)) /\ WF_journalVars(FollowerStep(u))
    /\ WF_journalVars(Unthrottle)
    /\ WF_journalVars(Age)

JournalSpec == JournalInit /\ [][JournalNext]_journalVars /\ JournalFairness

-----------------------------------------------------------------------------
(* Properties *)

Watched(u) == \E f \in Units : Reads(f, u)

\* Whatever restarts overlap, are cancelled, or break off because the set of units
\* changed, all units the monitor was asked for are followed in the end, and stay so,
\* unless the journal could not be read, a restart killed the process, or the last one
\* to set the event broke off, when it found a follower that was not started yet.
KnownIsWatched ==
    <>[](killed \/ stranded \/ \A u \in monitored : Watched(u) \/ \E f \in Units : follower[f] = "failed")

\* The follower f reads all units known, or is about to, or could not.
FollowsAll(f) ==
    \/ follower[f] \in {"new", "failed"}
    \/ follower[f] \in {"filters", "follows"} /\ filter[f] = monitored

\* Once no restart is under way, nobody is told to stop, and the units the monitor was
\* asked for are followed, or about to be: no follower broke off, or left, with no
\* restart to replace it, whichever restart assigned, and started, the last one; but
\* for the restart that breaks off with the event set.
SettledIsFollowed ==
    monitored # {} /\ ~killed /\ ~stranded /\ (\A u \in Units : restart[u] \in {"none", "gone"})
        => ~stop /\ \E f \in Units : FollowsAll(f)

\* Nobody follows the journal twice.
OneFollower == \A f, g \in Units : follower[f] = "follows" /\ follower[g] = "follows" => f = g

\* "Journal monitor thread did not stop within timeout. Killing process": a restart
\* kills the process only when the follower it told to stop does not.
KilledForGood == [][killed' /\ ~killed => \E u \in Units : restart[u] = "checks" /\ Alive(joins[u])]_journalVars

\* "Maximum number of recent errors to store"
HistoryBounded == Entries <= HistoryLen

=============================================================================
