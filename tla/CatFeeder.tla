------------------------------ MODULE CatFeeder ------------------------------
(***************************************************************************)
(* The cat feeder service: requests to feed now and their acknowledgement  *)
(* (history.py, dispense_tracking.py), and the watch over the feeding      *)
(* schedule the unit follows by itself (schedule.py).                      *)
(*                                                                         *)
(* Web requests, the MQTT loop and the timers run on threads of their own  *)
(* and share the history without a lock.  They are interleaved where they  *)
(* save it to disk.  One slot a day is scheduled, away from midnight; time *)
(* is only where it stands to that slot.  The unit is external: it feeds   *)
(* on its schedule or not, obeys a request or not, and its reports can be  *)
(* late or lost.                                                           *)
(***************************************************************************)
EXTENDS Integers, Sequences, FiniteSets

CONSTANTS
    HistoryLen,   \* history_len; 10 in the code
    NumIds,       \* ids are compared for equality only, and taken modulo this
    MaxRequests   \* bound: requests of users in a behaviour

\* A new request never gets the id of one that is still in the history.
ASSUME ConstantsAssumption ==
    /\ HistoryLen \in Nat \ {0}
    /\ NumIds \in Nat
    /\ NumIds > HistoryLen + 1
    /\ MaxRequests \in Nat

VARIABLES
    phase,       \* the time of day: far from the slot, within tolerance before
                 \* it, or within tolerance after it
    slot,        \* _pending_check_timers of the slot: none, fulfilled, or timer
    check,       \* the fulfillment check: idle, due, armed, or expired
    entries,     \* _feed_history
    lastId,      \* _last_dispense_request_id
    pending,     \* _pending_dispense_timeout_job
    armed,       \* acknowledgement timers that are running
    failing,     \* those that have marked their entry and not yet notified
    adding,      \* threads that have passed the check of register_request
    known,       \* _cat_feeder is not None
    synced,      \* DispenseTracking has the counters of the unit
    telegramUp,  \* message_svc("ZmwTelegram") would not raise
    unit,        \* the unit: what it has to obey, has served, has reset
    report,      \* the report of the unit that is on its way
    outcome,     \* history: what the service made of today's slot
    forced,      \* history: it tried to feed in its place
    restarted,   \* history: it was restarted since the slot came near, or holds
                 \* a mark of a day when it was
    requests     \* bound: requests of users so far

scheduleVars == <<phase, slot, check, outcome, forced, restarted>>
historyVars  == <<entries, lastId, pending, armed, failing, adding>>
worldVars    == <<known, synced, telegramUp, unit, report>>
vars         == <<scheduleVars, historyVars, worldVars, requests>>

-----------------------------------------------------------------------------

\* Who asks for food: a user, on the web or over Telegram, or the check that
\* found that the unit missed its slot.
Requester == {"user", "check"}

Ids == 0 .. NumIds - 1

NoId == NumIds

\* An entry that can still be acknowledged is its dispense_event_id, None if it is
\* not a request the unit was sent.  All others, acknowledged or too old, are
\* closed: nothing but their place in the history matters.
Closed == NumIds + 1

Entry == Ids \cup {NoId, Closed}

\* A running timer knows the event it is for; requests that overlap may create
\* two for the same one.
Timer == [by : Requester, event : Ids]

NoTimer == [by |-> "nobody", event |-> NoId]

\* What the unit says it dispensed for, if anything.
Feeding == [source : {"schedule", "remote", "button"}, event : Ids \cup {NoId}]

Status   == [source |-> "status", event |-> NoId]
NoReport == [source |-> "none", event |-> NoId]

\* _history_add, to a deque of bounded length.
HistoryAdd(history, entry) ==
    IF Len(history) = HistoryLen THEN Append(Tail(history), entry)
    ELSE Append(history, entry)

Init ==
    /\ phase = "far"
    /\ slot = "none"
    /\ check = "idle"
    /\ entries = <<>>
    /\ lastId = 0
    /\ pending = NoTimer
    /\ armed = {}
    /\ failing = {}
    /\ adding = {}
    /\ known = FALSE
    /\ synced = FALSE
    /\ telegramUp = TRUE
    /\ unit = [obeys |-> {}, served |-> FALSE, reset |-> FALSE]
    /\ report = NoReport
    /\ outcome = {"none"}
    /\ forced = FALSE
    /\ restarted = TRUE
    /\ requests = 0

-----------------------------------------------------------------------------
(* Requests to feed *)

\* register_request up to the save in it, after request_feed_now has found the
\* unit.  A request that is refused leaves an entry with an error.
Ask(r) ==
    IF known /\ pending = NoTimer
    THEN /\ lastId' = (lastId + 1) % NumIds
         /\ entries' = HistoryAdd(entries, lastId')
         /\ adding' = adding \cup {r}
    ELSE /\ entries' = HistoryAdd(entries, NoId)
         /\ UNCHANGED <<lastId, adding>>

\* feed_now, from the web or from the Telegram command.
UserAsks ==
    /\ "user" \notin adding
    /\ requests < MaxRequests
    /\ requests' = requests + 1
    /\ Ask("user")
    /\ UNCHANGED <<scheduleVars, pending, armed, failing, worldVars>>

StartWith(r, event) ==
    /\ r \in adding
    /\ adding' = adding \ {r}
    /\ pending' = [by |-> r, event |-> event]
    /\ armed' = armed \cup {pending'}
    /\ unit' = [unit EXCEPT !.obeys = @ \cup {event}]
    /\ UNCHANGED <<scheduleVars, entries, lastId, failing, known, synced, telegramUp,
                   report, requests>>

StartFirst(r) ==
    \E i \in DOMAIN entries : entries[i] \in Ids /\ StartWith(r, entries[i])

\* The rest of register_request, then START: the timer is for the last id there
\* is by now.
Start(r) == StartWith(r, lastId)

\* _on_dispense_timeout, up to its save: the entry gets an error, and can still be
\* acknowledged.
AckTimeout(t) ==
    /\ t \in armed
    /\ armed' = armed \ {t}
    /\ failing' = IF t.event = lastId THEN failing \cup {t} ELSE failing
    /\ UNCHANGED <<scheduleVars, entries, lastId, pending, adding, worldVars, requests>>

\* ... and the rest of it, whatever is pending by now.
AckFailed(t) ==
    /\ t \in failing
    /\ failing' = failing \ {t}
    /\ pending' = NoTimer
    /\ UNCHANGED <<scheduleVars, entries, lastId, armed, adding, worldVars, requests>>

\* Entries get too old to be acknowledged in the order they were made, and long
\* after their timers expired.
GrowOld ==
    \E i \in DOMAIN entries :
        /\ entries[i] # Closed
        /\ \A j \in 1 .. i - 1 : entries[j] = Closed
        /\ adding = {}
        /\ \A t \in armed \cup failing : t.event # entries[i]
        /\ entries' = [entries EXCEPT ![i] = Closed]
        /\ UNCHANGED <<scheduleVars, lastId, pending, armed, failing, adding,
                       worldVars, requests>>

-----------------------------------------------------------------------------
(* Reports of the unit, in the MQTT loop *)

\* The entries register_zigbee_dispense may acknowledge: it takes the last.
Open == {i \in DOMAIN entries : entries[i] # Closed}

\* register_zigbee_dispense
RegisterRemote ==
    LET last == CHOOSE i \in Open : \A j \in Open : j <= i
    IN  /\ pending' = NoTimer
        /\ armed' = armed \ {pending}
        /\ entries' = IF Open = {} THEN HistoryAdd(entries, Closed)
                      ELSE [entries EXCEPT ![last] = Closed]
        /\ UNCHANGED <<scheduleVars, lastId, failing, adding>>

\* A dispense in nobody's schedule: the button, or a time that does not match.
RegisterOther ==
    /\ entries' = HistoryAdd(entries, Closed)
    /\ UNCHANGED <<scheduleVars, lastId, pending, armed, failing, adding>>

RegisterScheduledNoMark ==
    IF phase = "far"
    THEN RegisterOther
    ELSE /\ slot' = "none"
         /\ check' = IF slot = "timer" THEN "idle" ELSE check
         /\ outcome' = outcome \cup {"on time"}
         /\ entries' = HistoryAdd(entries, Closed)
         /\ UNCHANGED <<phase, forced, restarted, lastId, pending, armed, failing, adding>>

\* register_schedule_triggered: cancels the check of the slot, or leaves a mark
\* for the check that is to start.
RegisterScheduled ==
    IF phase = "far"
    THEN RegisterOther
    ELSE /\ slot' = IF slot = "none" THEN "fulfilled" ELSE "none"
         /\ check' = IF slot = "timer" THEN "idle" ELSE check
         /\ outcome' = outcome \cup {"on time"}
         /\ entries' = HistoryAdd(entries, Closed)
         /\ UNCHANGED <<phase, forced, restarted, lastId, pending, armed, failing, adding>>

\* check_dispensing tells a feeding from the counters of the unit.  The first
\* report only sets them; so does a feeding after the unit has reset them, unless
\* it exceeds what they were.
HandleReport ==
    /\ report # NoReport
    /\ report' = NoReport
    /\ synced' = (synced \/ known)
    /\ unit' = [unit EXCEPT !.reset = @ /\ ~known]
    /\ \/ /\ \/ ~known \/ ~synced \/ unit.reset \/ report = Status
          /\ UNCHANGED <<scheduleVars, historyVars>>
       \/ /\ known /\ synced /\ report # Status
          /\ CASE report.source = "remote"   -> RegisterRemote
               [] report.source = "schedule" -> RegisterScheduled
               [] report.source = "button"   -> RegisterOther
    /\ UNCHANGED <<known, telegramUp, requests>>

-----------------------------------------------------------------------------
(* The schedule *)

StartCheckKeepMark ==
    /\ check = "due"
    /\ IF slot = "fulfilled"
       THEN check' = "idle" /\ UNCHANGED slot
       ELSE check' = "armed" /\ slot' = "timer"
    /\ UNCHANGED <<phase, outcome, forced, restarted, historyVars, worldVars, requests>>

\* _start_fulfillment_check, at the time of the slot.
StartCheck ==
    /\ check = "due"
    /\ IF slot = "fulfilled"
       THEN check' = "idle" /\ slot' = "none"
       ELSE check' = "armed" /\ slot' = "timer"
    /\ UNCHANGED <<phase, outcome, forced, restarted, historyVars, worldVars, requests>>

\* _ensure_dispense_registered, a tolerance after the slot, up to the save of the
\* missed feeding.
CheckExpires ==
    /\ check = "armed"
    /\ phase = "far"
    /\ check' = "expired"
    /\ slot' = "none"
    /\ outcome' = outcome \cup {"missed"}
    /\ entries' = HistoryAdd(entries, NoId)
    /\ UNCHANGED <<phase, forced, restarted, lastId, pending, armed, failing, adding,
                   worldVars, requests>>

\* Telling Telegram of it raises when ZmwTelegram is down, which ends the thread
\* before it asks the unit for an emergency feeding.
CheckForces ==
    /\ check = "expired"
    /\ check' = "idle"
    /\ IF telegramUp
       THEN "check" \notin adding /\ forced' = TRUE /\ Ask("check")
       ELSE UNCHANGED <<forced, lastId, entries, adding>>
    /\ UNCHANGED <<phase, slot, outcome, restarted, pending, armed, failing,
                   worldVars, requests>>

-----------------------------------------------------------------------------
(* The environment *)

\* The slot comes near, with the business of the day before long done.  The unit
\* has reset its counters since, perhaps without a report of it.
SlotNears ==
    /\ phase = "far"
    /\ check = "idle"
    /\ report.source # "schedule"
    /\ armed \cup failing = {}
    /\ adding = {}
    /\ unit.obeys = {}
    /\ phase' = "before"
    /\ \E reset \in {TRUE, unit.reset} :
          unit' = [unit EXCEPT !.served = FALSE, !.reset = reset]
    /\ outcome' = {}
    /\ forced' = FALSE
    /\ restarted' = (restarted /\ slot = "fulfilled")
    /\ entries' = [i \in DOMAIN entries |-> Closed]
    /\ UNCHANGED <<slot, check, lastId, pending, armed, failing, adding,
                   known, synced, telegramUp, report, requests>>

SlotTime ==
    /\ phase = "before"
    /\ phase' = "after"
    /\ check' = "due"
    /\ UNCHANGED <<slot, outcome, forced, restarted, historyVars, worldVars, requests>>

\* The scheduler lags behind by far less than the tolerance.
SlotPasses ==
    /\ phase = "after"
    /\ check # "due"
    /\ phase' = "far"
    /\ UNCHANGED <<slot, check, outcome, forced, restarted, historyVars, worldVars, requests>>

\* What the unit reports is delivered later, or lost.
Reports(feeding) ==
    report' \in IF report = NoReport THEN {NoReport, feeding} ELSE {report}

\* The clock of the unit is within tolerance of ours.
UnitServes ==
    /\ phase # "far"
    /\ ~unit.served
    /\ unit' = [unit EXCEPT !.served = TRUE]
    /\ Reports([source |-> "schedule", event |-> NoId])
    /\ UNCHANGED <<scheduleVars, historyVars, known, synced, telegramUp, requests>>

\* START reaches the unit, or not.
UnitObeys(event) ==
    /\ event \in unit.obeys
    /\ unit' = [unit EXCEPT !.obeys = @ \ {event}]
    /\ Reports([source |-> "remote", event |-> event])
    /\ UNCHANGED <<scheduleVars, historyVars, known, synced, telegramUp, requests>>

UnitReports ==
    /\ \/ Reports([source |-> "button", event |-> NoId])
       \/ Reports(Status)
    /\ UNCHANGED <<scheduleVars, historyVars, known, synced, telegramUp, unit, requests>>

\* _on_z2m_network_discovery
Discover ==
    /\ ~known
    /\ known' = TRUE
    /\ UNCHANGED <<scheduleVars, historyVars, synced, telegramUp, unit, report, requests>>

TelegramUpDown ==
    /\ telegramUp' = ~telegramUp
    /\ UNCHANGED <<scheduleVars, historyVars, known, synced, unit, report, requests>>

\* The history and the last id come back from the cache, unless the service died
\* while writing it.  Timers and checks do not come back.
Restart ==
    /\ \/ UNCHANGED <<entries, lastId>>
       \/ entries' = <<>> /\ lastId' = 0
    /\ slot' = "none"
    /\ check' = "idle"
    /\ pending' = NoTimer
    /\ armed' = {}
    /\ failing' = {}
    /\ adding' = {}
    /\ known' = FALSE
    /\ synced' = FALSE
    /\ restarted' = TRUE
    /\ UNCHANGED <<phase, outcome, forced, telegramUp, unit, report, requests>>

-----------------------------------------------------------------------------

Timeout ==
    \/ \E t \in armed : AckTimeout(t)
    \/ \E t \in failing : AckFailed(t)

Clock == SlotNears \/ SlotTime \/ SlotPasses

Next ==
    \/ UserAsks
    \/ \E r \in Requester : Start(r)
    \/ Timeout
    \/ GrowOld
    \/ HandleReport
    \/ StartCheck
    \/ CheckExpires
    \/ CheckForces
    \/ Clock
    \/ UnitServes
    \/ \E event \in Ids : UnitObeys(event)
    \/ UnitReports
    \/ Discover
    \/ TelegramUpDown
    \/ Restart

\* Time passes, threads and timers run, reports and requests arrive or are lost.
\* The unit, users and Telegram owe nothing.
Fairness ==
    /\ WF_vars(Clock)
    /\ WF_vars(Timeout)
    /\ \A r \in Requester : WF_vars(Start(r))
    /\ WF_vars(HandleReport)
    /\ WF_vars(StartCheck)
    /\ WF_vars(CheckExpires)
    /\ WF_vars(CheckForces)
    /\ WF_vars(\E event \in Ids : UnitObeys(event))

Spec == Init /\ [][Next]_vars /\ Fairness

-----------------------------------------------------------------------------
(* Properties *)

ScheduleTypeOK ==
    /\ phase \in {"far", "before", "after"}
    /\ slot \in {"none", "fulfilled", "timer"}
    /\ check \in {"idle", "due", "armed", "expired"}
    /\ outcome \subseteq {"none", "on time", "missed"}
    /\ forced \in BOOLEAN
    /\ restarted \in BOOLEAN

HistoryTypeOK ==
    /\ entries \in Seq(Entry)
    /\ Len(entries) <= HistoryLen
    /\ lastId \in Ids
    /\ pending \in Timer \cup {NoTimer}
    /\ armed \subseteq Timer
    /\ failing \subseteq Timer
    /\ adding \subseteq Requester

WorldTypeOK ==
    /\ known \in BOOLEAN
    /\ synced \in BOOLEAN
    /\ telegramUp \in BOOLEAN
    /\ unit \in [obeys : SUBSET Ids, served : BOOLEAN, reset : BOOLEAN]
    /\ report \in Feeding \cup {Status, NoReport}

\* The state; the history never holds more entries than its bound.
TypeOK ==
    /\ ScheduleTypeOK
    /\ HistoryTypeOK
    /\ WorldTypeOK
    /\ requests \in 0 .. MaxRequests

\* A service that no restart disturbs makes one thing of every slot, fed on time or
\* missed: never both, however the report of the unit and the check of the slot
\* are ordered, and always one of them once the check is over.
OneOutcome ==
    ~restarted => /\ Cardinality(outcome) <= 1
                  /\ phase = "far" /\ check = "idle" => outcome # {}

\* Whatever threads overlap in register_request, an acknowledgement that is waited
\* for has a timer that will end the wait: nothing leaves the service refusing
\* every request as "Unacknowledged dispensing in progress".
PendingCanExpire ==
    pending # NoTimer => /\ pending.event = lastId
                         /\ pending \in armed \cup failing

\* A unit that stops feeding on its schedule is told to feed time and again, as
\* long as the service and Telegram are up.
UnservedIsFed ==
    <>[](known /\ telegramUp /\ "on time" \notin outcome) => []<>(unit.obeys # {})

\* DispensingSchedule: "If the dispense event fails to trigger, a timeout will
\* expire on this service, and we will try to force a dispense event".
MissedIsForced ==
    "missed" \in outcome /\ check = "idle" /\ ~restarted => forced

\* register_schedule_triggered: "No timer yet - event triggered before scheduled
\* time".  A mark left at any other time hides the next missed slot.
MarkIsEarly ==
    slot = "fulfilled" => phase = "before" \/ check = "due"

\* register_zigbee_dispense: "If this service triggered the request, it should be
\* pending in the history, and we'll mark it as ACKd".
AnsweredIsAcked ==
    [][report.source = "remote" /\ report' = NoReport /\ RegisterRemote =>
          \A i \in Open : entries[i] = report.event => entries'[i] = Closed]_vars

=============================================================================
