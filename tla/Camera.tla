------------------------------- MODULE Camera -------------------------------
(***************************************************************************)
(* One camera of the camera service (reolink.py): the connection to the    *)
(* camera and its subscription to events, the webhooks the camera calls,   *)
(* and the watchdog of a motion that never ends.  Its recordings are those *)
(* Recorder promises, its pictures those Snapshots keeps.                  *)
(*                                                                         *)
(* A webhook runs under _announce_lock and is one action; so are the jobs  *)
(* of the scheduler.  All of them wait for coroutines that one asyncio     *)
(* loop runs, and block for good when that loop does.                      *)
(***************************************************************************)
EXTENDS Naturals, FiniteSets

CONSTANTS
    Zones,          \* motion keys of an event other than PeopleDetect
    MaxRecordings,  \* bound: recordings in a behaviour
    MaxJobs,        \* bound: watchdog jobs in the scheduler
    MaxEvents,      \* bound: webhooks, records and snapshots in a behaviour
    MaxOutages,     \* bound: lapses of the subscription, and restarts
    SnapHistory,    \* as in Snapshots
    MaxSnaps

Motions == Zones \cup {"PeopleDetect"}
Keys    == Motions \cup {"Visitor"}
JobIds  == 1 .. MaxJobs

ASSUME CameraAssumption ==
    /\ Zones # {}
    /\ Zones \subseteq {"Motion", "MotionAlarm"}
    /\ MaxRecordings \in Nat
    /\ MaxJobs \in Nat
    /\ MaxEvents \in Nat
    /\ MaxOutages \in Nat
    /\ SnapHistory \in Nat \ {0}
    /\ MaxSnaps \in Nat

VARIABLES
    conn,     \* of connect_bg: "connecting", "failed" or "up" (_cam is set)
    sub,      \* the camera will call the webhook
    loop,     \* the asyncio loop: "free", or "stuck" in a call that waits for it
    blocked,  \* threads that wait for the loop for good
    level,    \* _motion_evt_lvl
    mjob,     \* _motion_evt_job; 0 is None
    jobs,     \* the interval jobs of _motion_check_active in the scheduler
    recent,   \* keys that were true within debounce_timeout_sec
    phase, made, current, owed, told,   \* the recordings, as in Recorder
    files, last, second, saving,        \* the pictures, as in Snapshots
    said,     \* history: the last motion event announced over MQTT
    events,   \* bound: events so far
    outages   \* bound: outages so far

link   == <<conn, sub, loop>>
motion == <<level, mjob, jobs>>

Recorder == INSTANCE Recorder
Snaps    == INSTANCE Snapshots

rec   == <<phase, made, current, owed, told>>
snaps == <<files, last, second, saving>>

vars == <<link, blocked, motion, recent, rec, snaps, said, events, outages>>

\* The state, and: the job the service remembers is one of the scheduler's, whatever
\* the order of webhooks and watchdogs; Job.remove raises for any other, and the
\* exception would drop the webhook in the middle.
TypeOK ==
    /\ conn \in {"connecting", "failed", "up"}
    /\ sub \in BOOLEAN
    /\ loop \in {"free", "stuck"}
    /\ blocked \in SUBSET {"webhook", "mqtt", "web", "watchdog", "check"}
    /\ level \in 0 .. Cardinality(Motions)
    /\ jobs \in SUBSET JobIds
    /\ mjob \in {0} \cup jobs
    /\ recent \in SUBSET Keys
    /\ Recorder!TypeOK
    /\ said \in {"none", "detected", "cleared", "timeout"}
    /\ events \in 0 .. MaxEvents
    /\ outages \in 0 .. MaxOutages

Init ==
    /\ conn = "connecting"
    /\ sub \in BOOLEAN
    /\ loop = "free"
    /\ blocked = {}
    /\ level = 0
    /\ mjob = 0
    /\ jobs = {}
    /\ recent = {}
    /\ Recorder!Init
    /\ Snaps!Init
    /\ said = "none"
    /\ events = 0
    /\ outages = 0

-----------------------------------------------------------------------------
(* The connection *)

\* _connect_to_cam, then on_done.  It fails before or after it has subscribed:
\* after, when the camera has no RTSP stream to offer.
Connect ==
    /\ conn = "connecting"
    /\ \/ conn' = "up" /\ sub' = TRUE
       \/ conn' = "failed" /\ sub' \in {sub, FALSE, TRUE}
    /\ UNCHANGED <<loop, blocked, motion, recent, rec, snaps, said, events, outages>>

\* The camera restarts, or drops the subscription.
Lapse ==
    /\ sub
    /\ outages < MaxOutages
    /\ outages' = outages + 1
    /\ sub' = FALSE
    /\ UNCHANGED <<conn, loop, blocked, motion, recent, rec, snaps, said, events>>

\* The interval job _check_cam_subscription.
CanCheck == conn = "up" /\ "check" \notin blocked /\ loop = "free"

\* The renewal fails, but a new subscription does not.
Resubscribe ==
    /\ CanCheck
    /\ ~sub
    /\ sub' = TRUE
    /\ UNCHANGED <<conn, loop, blocked, motion, recent, rec, snaps, said, events, outages>>

\* Both fail: _reconnect, which runs on the loop, waits for a coroutine that only
\* this loop could run.  The camera may hold a subscription all the same: one whose
\* answer got lost, and which the unsubscribe that cleans up did not reach.
Reconnect ==
    /\ CanCheck
    /\ ~sub
    /\ loop' = "stuck"
    /\ sub' \in BOOLEAN
    /\ blocked' = blocked \cup {"check"}
    /\ UNCHANGED <<conn, motion, recent, rec, snaps, said, events, outages>>

\* The process ends, whether disconnect was called or not, and systemd starts it
\* again; a recording in progress ends with it, untold.
Restart ==
    /\ outages < MaxOutages
    /\ outages' = outages + 1
    /\ conn' = "connecting"
    /\ sub' \in {sub, FALSE}
    /\ loop' = "free"
    /\ blocked' = {}
    /\ level' = 0
    /\ mjob' = 0
    /\ jobs' = {}
    /\ recent' = {}
    /\ phase' = "idle"
    /\ current' = 0
    /\ owed' = {}
    /\ said' = "none"
    /\ Snaps!Restart
    /\ UNCHANGED <<made, told, events>>

-----------------------------------------------------------------------------
(* Recordings *)

RecorderStep ==
    /\ \/ Recorder!TimeUp
       \/ Recorder!Finish
       \/ \E id \in Recorder!Recordings : Recorder!Tell(id)
    /\ UNCHANGED <<link, blocked, motion, recent, snaps, said, events, outages>>

\* start_recording: a new recording, or more time for the one in progress; one
\* that is ending can have neither.
StartRecording ==
    IF conn = "up" /\ phase = "idle" /\ made < MaxRecordings
    THEN Recorder!Start \/ Recorder!StartFails
    ELSE UNCHANGED rec

Event ==
    /\ events < MaxEvents
    /\ events' = events + 1

\* The MQTT command and the web request to record.
Record ==
    /\ Event
    /\ "mqtt" \notin blocked
    /\ saving["mqtt"] = 0
    /\ StartRecording
    /\ UNCHANGED <<link, blocked, motion, recent, snaps, said, outages>>

\* The MQTT command and the web request to take a snapshot.
Snap(s) ==
    /\ Event
    /\ conn = "up"
    /\ s \notin blocked
    /\ IF loop = "free"
       THEN Snaps!Write(s) /\ UNCHANGED blocked
       ELSE blocked' = blocked \cup {s} /\ UNCHANGED snaps
    /\ UNCHANGED <<link, motion, recent, rec, said, outages>>

SnapSaved(s) ==
    /\ Snaps!Finish(s)
    /\ UNCHANGED <<link, blocked, motion, recent, rec, said, events, outages>>

-----------------------------------------------------------------------------
(* Webhooks *)

Webhook ==
    /\ Event
    /\ sub
    /\ "webhook" \notin blocked

\* Keys that are true now, and were not within the debounce time.
Fresh(active) == active \ recent

Hears(active) == recent' = recent \cup active

\* The debounce time of a key passes with the key not true.
Settle(key) ==
    /\ key \in recent
    /\ recent' = recent \ {key}
    /\ UNCHANGED <<link, blocked, motion, rec, snaps, said, events, outages>>

\* get_snapshot asks the camera through the loop.
SnapBlocks == conn = "up" /\ loop = "stuck"

\* The pictures of a webhook: of who rang, and of the first sign of a motion.
Photos(active, motions) ==
    IF conn = "up" /\ loop = "free"
    THEN Snaps!Photograph(Cardinality(Fresh(active) \cap {"Visitor"}) + motions)
    ELSE UNCHANGED snaps

PetNeverRaises(active) == FALSE

\* pet_timer raises when the recording is ending; on_cam_webhook drops the event.
PetRaises(active) == active # {} /\ conn = "up" /\ phase = "ending"

\* People outside of the alarm zone.
Ignored(active) == "PeopleDetect" \in active /\ active \cap Zones = {}

NewJob(used) == CHOOSE j \in JobIds : j \notin used

RescheduleOnly(used) ==
    /\ mjob' = mjob
    /\ jobs' = used

Reschedule(used) ==
    /\ used # JobIds
    /\ mjob' = NewJob(used)
    /\ jobs' = used \cup {NewJob(used)}

\* A webhook whose thread never returns, and never gives _announce_lock back.
WebhookBlocks(active) ==
    /\ Webhook
    /\ SnapBlocks
    /\ "Visitor" \in Fresh(active)
    /\ Hears({"Visitor"})
    /\ blocked' = blocked \cup {"webhook"}
    /\ UNCHANGED <<link, motion, rec, snaps, said, outages>>

WebhookForgets(active) ==
    /\ Webhook
    /\ ~(SnapBlocks /\ "Visitor" \in Fresh(active))
    /\ PetRaises(active) \/ Ignored(active)
    /\ Hears(active \cap {"Visitor"})
    /\ Photos(active, 0)
    /\ level' = 0
    /\ UNCHANGED <<link, blocked, mjob, jobs, rec, said, outages>>

\* A webhook that goes no further than the doorbell button and the recording.
WebhookIgnored(active) ==
    /\ Webhook
    /\ ~(SnapBlocks /\ "Visitor" \in Fresh(active))
    /\ PetRaises(active) \/ Ignored(active)
    /\ Hears(active \cap {"Visitor"})
    /\ Photos(active, 0)
    /\ UNCHANGED <<link, blocked, motion, rec, said, outages>>

Level(active) == Cardinality(Fresh(active) \cap Motions)

WebhookMotion(active) ==
    /\ Webhook
    /\ ~(SnapBlocks /\ "Visitor" \in Fresh(active))
    /\ ~PetRaises(active)
    /\ ~Ignored(active)
    /\ Hears(active)
    /\ level' = Level(active)

\* The first sign of a motion: watch it, take a snapshot, record and announce it.
MotionBegins(active) ==
    /\ WebhookMotion(active)
    /\ level = 0
    /\ level' > 0
    /\ Reschedule(jobs)
    /\ Photos(active, 1)
    /\ IF SnapBlocks
       THEN /\ blocked' = blocked \cup {"webhook"}
            /\ UNCHANGED <<rec, said>>
       ELSE /\ StartRecording
            /\ said' = "detected"
            /\ UNCHANGED blocked
    /\ UNCHANGED <<link, outages>>

\* The motion goes on: the watchdog starts over.
MotionGoesOn(active) ==
    /\ WebhookMotion(active)
    /\ level > 0
    /\ level' > 0
    /\ Reschedule(jobs \ {mjob})
    /\ Photos(active, 0)
    /\ UNCHANGED <<link, blocked, rec, said, outages>>

MotionClears(active) ==
    /\ WebhookMotion(active)
    /\ level > 0
    /\ level' = 0
    /\ jobs' = jobs \ {mjob}
    /\ mjob' = 0
    /\ said' = "cleared"
    /\ Photos(active, 0)
    /\ UNCHANGED <<link, blocked, rec, outages>>

NoMotion(active) ==
    /\ WebhookMotion(active)
    /\ level = 0
    /\ level' = 0
    /\ Photos(active, 0)
    /\ UNCHANGED <<link, blocked, mjob, jobs, rec, said, outages>>

CamEvent ==
    \E active \in SUBSET Keys :
        \/ WebhookBlocks(active)
        \/ WebhookIgnored(active)
        \/ MotionBegins(active)
        \/ MotionGoesOn(active)
        \/ MotionClears(active)
        \/ NoMotion(active)

-----------------------------------------------------------------------------
(* The watchdog: _motion_check_active, an interval job that is never removed   *)
(* by itself.                                                                  *)

Watchdog(j) == j \in jobs /\ conn = "up" /\ "watchdog" \notin blocked

\* The camera still sees motion: one more job.
WatchdogWaits(j) ==
    /\ Watchdog(j)
    /\ loop = "free"
    /\ Reschedule(jobs)
    /\ UNCHANGED <<link, blocked, level, recent, rec, snaps, said, events, outages>>

WatchdogOnce(j) ==
    /\ Watchdog(j)
    /\ loop = "free"
    /\ mjob' = mjob
    /\ jobs' = jobs \ {j}
    /\ said' = "timeout"
    /\ UNCHANGED <<link, blocked, level, recent, rec, snaps, events, outages>>

\* No motion any more, or no answer.
WatchdogEnds(j) ==
    /\ Watchdog(j)
    /\ loop = "free"
    /\ mjob' = 0
    /\ said' = "timeout"
    /\ UNCHANGED <<link, blocked, level, jobs, recent, rec, snaps, events, outages>>

WatchdogBlocks(j) ==
    /\ Watchdog(j)
    /\ loop = "stuck"
    /\ blocked' = blocked \cup {"watchdog"}
    /\ UNCHANGED <<link, motion, recent, rec, snaps, said, events, outages>>

-----------------------------------------------------------------------------

Next ==
    \/ Connect
    \/ Lapse
    \/ Resubscribe
    \/ Reconnect
    \/ Restart
    \/ RecorderStep
    \/ Record
    \/ \E s \in Snaps!Savers : Snap(s) \/ SnapSaved(s)
    \/ CamEvent
    \/ \E key \in Keys : Settle(key)
    \/ \E j \in JobIds : WatchdogWaits(j) \/ WatchdogEnds(j) \/ WatchdogBlocks(j)

\* The scheduler runs its interval jobs, calls to the camera return, and a motion
\* the camera sees ends at last.  The camera owes no webhook.
Fairness ==
    /\ WF_vars(Connect)
    /\ WF_vars(Resubscribe \/ Reconnect)
    /\ \A j \in JobIds : WF_vars(WatchdogEnds(j))

Spec == Init /\ [][Next]_vars /\ Fairness

-----------------------------------------------------------------------------
(* Properties *)

\* The last thing MQTT clients heard agrees with what the service believes: no
\* motion it announced is forgotten without a word, and none goes on unannounced,
\* unless the announcement itself is what blocks.
NoSilentMotion ==
    /\ level = 0 => said # "detected"
    /\ level > 0 /\ "webhook" \notin blocked => said \in {"detected", "timeout"}

\* "It will just start recording once the camera reports motion": a motion is not
\* announced by a connected camera without a recording that is running, or that
\* was tried and failed; in particular not while the last one is being ended.
DetectedIsRecorded ==
    [][said' = "detected" /\ level = 0 /\ level' > 0 /\ conn = "up"
         => phase' = "recording" \/ made' > made \/ made = MaxRecordings]_vars

\* A motion whose end the camera never reports is announced as ended all the
\* same, if the camera is connected, no restart intervenes and the loop is not stuck.
MotionEnds ==
    said = "detected" /\ conn = "up" ~> said # "detected" \/ loop = "stuck"

\* "Motion event timed out without camera reporting clear": no timeout is announced
\* for a motion that was announced as cleared.
TimeoutNotAfterClear == [][said = "cleared" => said' # "timeout"]_vars

LastSnapIsKept == Snaps!LastSnapIsKept

\* "Failed to reconnect to cam, will retry later": a subscription that a connected
\* camera dropped is restored, or the service learns that it is not connected.
SubscriptionIsRestored == conn = "up" /\ ~sub ~> sub \/ conn # "up"

=============================================================================
