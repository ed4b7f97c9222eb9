----------------------------- MODULE ContactMon -----------------------------
(***************************************************************************)
(* The contact sensor monitor: which reports of a sensor count as a        *)
(* transition (z2m_sensor_debouncer.py), the timers that watch what stays  *)
(* open (timeout_mon.py), the notifications they send, and the requests    *)
(* that silence announcements for a while (zmw_contactmon.py,              *)
(* transition_executor.py).                                                *)
(*                                                                         *)
(* The MQTT loop handles one report at a time; timers expire and run on    *)
(* the threads of the scheduler, between any two of its steps, and pages   *)
(* are served on threads of their own.  There is                           *)
(* no clock: a timer may expire at any time after it was started, and      *)
(* openings are numbered so that a timer can be told from an older one.    *)
(***************************************************************************)
EXTENDS Naturals, FiniteSets

CONSTANTS
    Sensors,
    Acts,         \* the actions configured for each sensor
    Announced,    \* those of them that only make an announcement
    Timed,        \* the sensors with a timeout_secs
    Loop,         \* the MQTT loop as a thread that handles requests about chimes
    Callers,      \* all threads that do, but those of timers
    MaxReports,   \* bound: reports in a behaviour
    MaxChimes,    \* bound: requests about chimes
    MaxOutages,   \* bound: times the notification services go down
    MaxRestarts,  \* bound: restarts of the service
    MaxEvents     \* bound: all of these together

Action == {"open", "close", "timeout", "curfew"}

\* validate_cfg_actions: a timeout action needs a timeout_secs.
ValidConfig ==
    /\ Acts \in [Sensors -> SUBSET Action]
    /\ Announced \in [Sensors -> SUBSET Action]
    /\ Timed \subseteq Sensors
    /\ \A s \in Sensors : "timeout" \in Acts[s] => s \in Timed

ASSUME ConstantsAssumption ==
    /\ IsFiniteSet(Sensors)
    /\ ValidConfig
    /\ Loop \in Callers
    /\ MaxChimes \in Nat
    /\ MaxReports \in Nat
    /\ MaxOutages \in Nat
    /\ MaxRestarts \in Nat
    /\ MaxEvents \in Nat

VARIABLES
    prev,        \* monitoring_prev_state, and the last state in history
    handling,    \* the transitions whose handler has not reached notify_change
    entry,       \* _timeout_jobs: whether there is an entry, and its job
    jobs,        \* the timers the scheduler holds
    firing,      \* expired timers whose callback has not finished
    notifierUp,  \* message_svc would not raise
    opening,     \* history: the number of the last opening of each sensor
    alerted,     \* history: what was sent about the last opening of each sensor
    failed,      \* history: sensors of which a notification failed, until one that
                 \* they closed does not
    reports, outages, restarts,
    skipping,    \* _skipping_chime
    skipJob,     \* _chime_skip_job, 0 for none
    skipTimers,  \* the jobs the scheduler holds to enable chimes again
    asked,       \* requests about chimes being handled: what each is about to do
    raced,       \* history: chimes were skipped and enabled by two threads at a time
    chimes       \* bound: requests about chimes

contactVars == <<prev, handling, entry, jobs, firing, notifierUp, opening, alerted,
                 failed, reports, outages, restarts>>

chimeVars == <<skipping, skipJob, skipTimers, asked, raced, chimes>>

vars == <<contactVars, chimeVars>>

-----------------------------------------------------------------------------

\* What a sensor reports, relative to its normal_state; unknown until the first
\* report that has a contact in it.
Contact == {"open", "closed", "unknown"}

Openings == 0 .. MaxReports

\* A timer is named after the sensor and the opening it was started for.
Timer == [sensor : Sensors, opening : Openings]

\* The callback of an expired timer, before or after it marks the entry.
Callback == [sensor : Sensors, opening : Openings, marked : BOOLEAN]

\* job is the opening the timer was started for, 0 once the timer has expired.
NoEntry == [on |-> FALSE, job |-> 0]

\* The handler of a report of this sensor has still to reach notify_change.
InHandler(s) == \E h \in handling : h.sensor = s

\* _tts_announce and _sound_asset_announce say nothing while chimes are skipped.
Muted(s, action) == skipping /\ action \in Announced[s]

\* on_transition: something is sent for the action ...
Sends(s, action) == action \in Acts[s] /\ ~Muted(s, action)

\* ... and raises when the service it is for is down.
NotifyFails(s, action) == Sends(s, action) /\ ~notifierUp

\* The loop handles one message at a time.
LoopIdle == handling = {} /\ \A a \in asked : a.by # Loop

Init ==
    /\ prev = [s \in Sensors |-> "unknown"]
    /\ handling = {}
    /\ entry = [s \in Sensors |-> NoEntry]
    /\ jobs = {}
    /\ firing = {}
    /\ notifierUp = TRUE
    /\ opening = [s \in Sensors |-> 0]
    /\ alerted = [s \in Sensors |-> {}]
    /\ failed = {}
    /\ reports = 0
    /\ outages = 0
    /\ restarts = 0
    /\ skipping = FALSE
    /\ skipJob = 0
    /\ skipTimers = {}
    /\ asked = {}
    /\ raced = FALSE
    /\ chimes = 0

-----------------------------------------------------------------------------
(* The MQTT loop *)

ActionOf(contact) == IF contact = "open" THEN "open" ELSE "close"

IsTransitionIfKnown(s, contact) ==
    /\ contact # "unknown"
    /\ {ActionOf(contact), "timeout"} \cap Acts[s] # {}
    /\ contact # prev[s]
    /\ prev[s] # "unknown"

\* _on_contact_change: nothing to do for an unknown state, for a sensor with no
\* action for it, for a repeated report, and for a first report of closed; a
\* first report of open counts as an opening.
IsTransition(s, contact) ==
    /\ contact # "unknown"
    /\ {ActionOf(contact), "timeout"} \cap Acts[s] # {}
    /\ contact # prev[s]
    /\ prev[s] = "unknown" => contact = "open"

RecordRaw(s, contact) == [prev EXCEPT ![s] = IF contact = "unknown" THEN "none" ELSE contact]

\* monitoring_prev_state, written before anything is decided.
Record(s, contact) == [prev EXCEPT ![s] = contact]

\* The report of a sensor, up to on_transition in _on_sensor_change.  If sending
\* raises, the rest of the handler does not run.
Report(s, contact) ==
    /\ LoopIdle
    /\ contact = "unknown" => prev[s] = "unknown"
    /\ reports < MaxReports
    /\ reports' = reports + 1
    /\ prev' = Record(s, contact)
    /\ IF contact = "open" /\ prev[s] # "open"
       THEN /\ opening' = [opening EXCEPT ![s] = @ + 1]
            /\ alerted' = [alerted EXCEPT ![s] = {}]
       ELSE UNCHANGED <<opening, alerted>>
    /\ IF ~IsTransition(s, contact)
       THEN UNCHANGED <<handling, failed>>
       ELSE IF NotifyFails(s, ActionOf(contact))
       THEN failed' = failed \cup {s} /\ UNCHANGED handling
       ELSE handling' = {[sensor |-> s, opens |-> contact = "open"]} /\ UNCHANGED failed
    /\ UNCHANGED <<entry, jobs, firing, notifierUp, outages, restarts, chimeVars>>

StartTimer(s) ==
    /\ jobs' = jobs \cup {[sensor |-> s, opening |-> opening[s]]}
    /\ entry' = [entry EXCEPT ![s] = [on |-> TRUE, job |-> opening[s]]]

CancelJobOnly(s) ==
    /\ jobs' = jobs \ {[sensor |-> s, opening |-> entry[s].job]}
    /\ UNCHANGED entry

\* _cancel_timeout: removing a job that has expired does nothing.
CancelTimeout(s) ==
    /\ jobs' = jobs \ {[sensor |-> s, opening |-> entry[s].job]}
    /\ entry' = [entry EXCEPT ![s] = NoEntry]

\* notify_change, the end of _on_sensor_change.
NotifyChange(s, opens) ==
    /\ [sensor |-> s, opens |-> opens] \in handling
    /\ handling' = {}
    /\ IF s \in Timed /\ opens /\ ~entry[s].on THEN StartTimer(s)
       ELSE IF s \in Timed /\ ~opens /\ entry[s].on THEN CancelTimeout(s)
       ELSE UNCHANGED <<entry, jobs>>
    /\ failed' = IF opens THEN failed ELSE failed \ {s}
    /\ UNCHANGED <<prev, firing, notifierUp, opening, alerted, reports, outages, restarts,
                   chimeVars>>

-----------------------------------------------------------------------------
(* The scheduler *)

\* The timer is due: the scheduler forgets the job and hands its callback to a
\* thread, which may run it as late as it likes.
Expire(j) ==
    /\ j \in jobs
    /\ jobs' = jobs \ {j}
    /\ firing' = firing \cup {[sensor |-> j.sensor, opening |-> j.opening, marked |-> FALSE]}
    /\ UNCHANGED <<prev, handling, entry, notifierUp, opening, alerted, failed,
                   reports, outages, restarts, chimeVars>>

\* _on_sensor_non_normal_timeout marks the entry as expired, the next opening's if
\* that is the one it finds; it fails if it finds none.
MarkExpired(f) ==
    /\ f \in firing
    /\ ~f.marked
    /\ IF entry[f.sensor].on
       THEN /\ entry' = [entry EXCEPT ![f.sensor].job = 0]
            /\ firing' = (firing \ {f}) \cup {[f EXCEPT !.marked = TRUE]}
       ELSE /\ firing' = firing \ {f}
            /\ UNCHANGED entry
    /\ UNCHANGED <<prev, handling, jobs, notifierUp, opening, alerted, failed,
                   reports, outages, restarts, chimeVars>>

\* ... and runs the timeout action.  There is no second attempt.
TimeoutAction(f) ==
    /\ f \in firing
    /\ f.marked
    /\ firing' = firing \ {f}
    /\ alerted' = IF Sends(f.sensor, "timeout") /\ notifierUp
                  THEN [alerted EXCEPT ![f.sensor] = @ \cup {"timeout"}] ELSE alerted
    /\ UNCHANGED <<prev, handling, entry, jobs, notifierUp, opening, failed,
                   reports, outages, restarts, chimeVars>>

\* _curfew, once a day: a notification that fails ends it, and so does an open
\* sensor with no configuration, which may come before some of the others.
Curfew ==
    \E told \in SUBSET {s \in Sensors : prev[s] = "open" /\ Sends(s, "curfew")} :
        /\ notifierUp
        /\ alerted' = [s \in Sensors |-> IF s \in told THEN alerted[s] \cup {"curfew"}
                                         ELSE alerted[s]]
        /\ UNCHANGED <<prev, handling, entry, jobs, firing, notifierUp, opening,
                       failed, reports, outages, restarts, chimeVars>>

-----------------------------------------------------------------------------
(* Skipping chimes: skip_chimes_with_timeout and enable_chimes, from the MQTT loop,
   from pages and, to enable them, from a timer, with no lock.  job is the one that
   _skip_chime_job_cancel has found. *)

\* Timers are numbered; the callback of one is by no caller.
Timers == 1 .. MaxChimes
NoCaller == "timer"

AskStep == {"find", "remove", "forget", "add", "raise", "lower"}

At(by, does, at, job) == [by |-> by, does |-> does, at |-> at, job |-> job]

Go(a, at, job) == asked' = (asked \ {a}) \cup {At(a.by, a.does, at, job)}

\* Somebody does the opposite at the same time.
Opposes(does) == \E a \in asked : a.does # does

Start(by, does, at) ==
    /\ \A a \in asked : a.by # by
    /\ by = Loop => handling = {}
    /\ chimes < MaxChimes
    /\ chimes' = chimes + 1
    /\ asked' = asked \cup {At(by, does, at, 0)}
    /\ raced' = (raced \/ Opposes(does))
    /\ UNCHANGED <<contactVars, skipping, skipJob, skipTimers>>

\* A duration out of range ends the request at once.
SkipChimes(by) == Start(by, "skip", "find")

EnableChimes(by) == Start(by, "enable", "lower")

\* _skip_chime_job_cancel: is there a job ...
FindJob(a) ==
    /\ a.at = "find"
    /\ IF skipJob # 0 THEN Go(a, "remove", skipJob) ELSE Go(a, "forget", 0)
    /\ UNCHANGED <<contactVars, skipping, skipJob, skipTimers, raced, chimes>>

\* ... the scheduler forgets it, if it still has it ...
RemoveJob(a) ==
    /\ a.at = "remove"
    /\ skipTimers' = skipTimers \ {a.job}
    /\ Go(a, "forget", 0)
    /\ UNCHANGED <<contactVars, skipping, skipJob, raced, chimes>>

\* ... and so does the service.  That is all there is to enabling.
ForgetJob(a) ==
    /\ a.at = "forget"
    /\ skipJob' = 0
    /\ IF a.does = "skip" THEN Go(a, "add", 0) ELSE asked' = asked \ {a}
    /\ UNCHANGED <<contactVars, skipping, skipTimers, raced, chimes>>

\* The timer that ends the skipping: it is seconds away.
AddJob(a) ==
    /\ a.at = "add"
    /\ LET j == CHOOSE j \in 1 .. Cardinality(skipTimers) + 1 : j \notin skipTimers
       IN  /\ skipTimers' = skipTimers \cup {j}
           /\ skipJob' = j
    /\ Go(a, "raise", 0)
    /\ UNCHANGED <<contactVars, skipping, raced, chimes>>

RaiseFlag(a) ==
    /\ a.at = "raise"
    /\ skipping' = TRUE
    /\ asked' = asked \ {a}
    /\ UNCHANGED <<contactVars, skipJob, skipTimers, raced, chimes>>

LowerFlag(a) ==
    /\ a.at = "lower"
    /\ skipping' = FALSE
    /\ Go(a, "find", 0)
    /\ UNCHANGED <<contactVars, skipJob, skipTimers, raced, chimes>>

SkipOnlyCancelled(j) ==
    /\ j \in skipTimers
    /\ \A a \in asked : a.at # "raise" /\ a.by # NoCaller
    /\ skipTimers' = skipTimers \ {j}
    /\ asked' = asked \cup {At(NoCaller, "enable", "find", 0)}
    /\ raced' = (raced \/ Opposes("enable"))
    /\ UNCHANGED <<contactVars, skipping, skipJob, chimes>>

\* The scheduler runs enable_chimes; the timer outlasts the request that set it.
SkipEnds(j) ==
    /\ j \in skipTimers
    /\ \A a \in asked : a.at # "raise" /\ a.by # NoCaller
    /\ skipTimers' = skipTimers \ {j}
    /\ asked' = asked \cup {At(NoCaller, "enable", "lower", 0)}
    /\ raced' = (raced \/ Opposes("enable"))
    /\ UNCHANGED <<contactVars, skipping, skipJob, chimes>>

ChimeStep ==
    \/ \E a \in asked : \/ FindJob(a) \/ RemoveJob(a) \/ ForgetJob(a)
                         \/ AddJob(a) \/ RaiseFlag(a) \/ LowerFlag(a)
    \/ \E j \in skipTimers : SkipEnds(j)

-----------------------------------------------------------------------------
(* The environment *)

NotifierDown ==
    /\ notifierUp
    /\ outages < MaxOutages
    /\ outages' = outages + 1
    /\ notifierUp' = FALSE
    /\ UNCHANGED <<prev, handling, entry, jobs, firing, opening, alerted, failed,
                   reports, restarts, chimeVars>>

NotifierUp ==
    /\ ~notifierUp
    /\ notifierUp' = TRUE
    /\ UNCHANGED <<prev, handling, entry, jobs, firing, opening, alerted, failed,
                   reports, outages, restarts, chimeVars>>

\* Nothing is persisted: the service starts again as if it had seen no report.
Restart ==
    /\ restarts < MaxRestarts
    /\ restarts' = restarts + 1
    /\ prev' = [s \in Sensors |-> "unknown"]
    /\ handling' = {}
    /\ entry' = [s \in Sensors |-> NoEntry]
    /\ jobs' = {}
    /\ firing' = {}
    /\ failed' = {}
    /\ skipping' = FALSE
    /\ skipJob' = 0
    /\ skipTimers' = {}
    /\ asked' = {}
    /\ raced' = FALSE
    /\ UNCHANGED <<notifierUp, opening, alerted, reports, outages, chimes>>

-----------------------------------------------------------------------------

Next ==
    \/ /\ reports + chimes + outages + restarts < MaxEvents
       /\ \/ \E s \in Sensors, contact \in Contact : Report(s, contact)
          \/ \E by \in Callers : SkipChimes(by) \/ EnableChimes(by)
          \/ NotifierDown
          \/ Restart
    \/ \E s \in Sensors, opens \in BOOLEAN : NotifyChange(s, opens)
    \/ \E j \in jobs : Expire(j)
    \/ \E f \in firing : MarkExpired(f) \/ TimeoutAction(f)
    \/ Curfew
    \/ ChimeStep
    \/ NotifierUp

\* Handlers and callbacks run to their end, and every timer expires unless it is
\* cancelled.  Sensors owe no report.
Fairness ==
    /\ WF_vars(\E s \in Sensors, opens \in BOOLEAN : NotifyChange(s, opens))
    /\ WF_vars(\E j \in jobs : Expire(j))
    /\ WF_vars(\E f \in firing : MarkExpired(f) \/ TimeoutAction(f))
    /\ WF_vars(ChimeStep)

Spec == Init /\ [][Next]_vars /\ Fairness

-----------------------------------------------------------------------------
(* Properties *)

\* The state; what is recorded of a sensor is open or closed, never a raw report.
TypeOK ==
    /\ prev \in [Sensors -> Contact]
    /\ handling \subseteq [sensor : Sensors, opens : BOOLEAN]
    /\ Cardinality(handling) <= 1
    /\ entry \in [Sensors -> [on : BOOLEAN, job : Openings]]
    /\ jobs \subseteq Timer
    /\ firing \subseteq Callback
    /\ notifierUp \in BOOLEAN
    /\ opening \in [Sensors -> Openings]
    /\ alerted \in [Sensors -> SUBSET {"timeout", "curfew"}]
    /\ failed \subseteq Sensors
    /\ reports \in 0 .. MaxReports
    /\ outages \in 0 .. MaxOutages
    /\ restarts \in 0 .. MaxRestarts
    /\ skipping \in BOOLEAN
    /\ skipJob \in 0 .. MaxChimes
    /\ skipTimers \subseteq Timers
    /\ asked \subseteq [by : Callers \cup {NoCaller}, does : {"skip", "enable"},
                        at : AskStep, job : 0 .. MaxChimes]

\* A sensor whose configuration makes both its transitions count.
Watched(s) == s \in Timed /\ ("timeout" \in Acts[s] \/ {"open", "close"} \subseteq Acts[s])

\* Between reports there is a timeout entry for exactly the watched sensors that
\* are open, whichever way timers, closings and restarts interleave, as long as
\* no notification failed.
EntryIffOpen ==
    \A s \in Sensors : Watched(s) /\ ~InHandler(s) /\ s \notin failed =>
        (entry[s].on <=> prev[s] = "open")

\* As long as the notification services have not gone down, nobody forgets an open
\* sensor that has to be reported: a timer of it is still held, or its callback is
\* under way, or it was reported, whichever way openings, closings and callbacks of
\* earlier timers interleave.
OpenIsTimed ==
    outages = 0 =>
        \A s \in Sensors :
            "timeout" \in Acts[s] \ Announced[s] /\ prev[s] = "open" /\ ~InHandler(s) =>
                \/ \E t \in jobs \cup firing : t.sensor = s
                \/ "timeout" \in alerted[s]

\* Chimes are not skipped for good: when the requests have been handled there is a
\* timer to end the skipping, and it is the one the service would cancel, unless two
\* threads skipped and enabled chimes at a time.
SkippingHasTimer == skipping /\ asked = {} /\ ~raced => skipJob \in skipTimers

\* README "Trigger actions when a sensor has been left open for too long": if the
\* notification services never go down, what stays open is reported, unless it is
\* announced only.
LeftOpenIsReported ==
    \A s \in Sensors : "timeout" \in Acts[s] \ Announced[s] =>
        ([]notifierUp /\ <>[](prev[s] = "open") => <>[]("timeout" \in alerted[s]))

\* Chimes are skipped for a while only: they come back with no further request, unless
\* two threads skipped and enabled them at a time (transition_executor.py:68, "Disable
\* chimes for specified duration").
ChimesComeBack == []<>(~skipping \/ raced)

\* The same README line, whatever happens to those services while the sensor
\* opens: it is being watched.
OpenIsWatched ==
    \A s \in Sensors : Watched(s) /\ ~InHandler(s) /\ prev[s] = "open" => entry[s].on

=============================================================================
