------------------------------- MODULE Doorman -------------------------------
(***************************************************************************)
(* The door service: the handlers of zmw_doorman.py, which the messages of *)
(* the camera, the contact sensor and Telegram run on the MQTT thread, the *)
(* statistics they keep (door_stats.py), and the scene of DoorOpenScene.   *)
(*                                                                         *)
(* A handler that raises ends there; the MQTT client logs the exception.   *)
(***************************************************************************)
EXTENDS DoorOpenScene, Integers

CONSTANT MaxEvents    \* bound: messages, midnights and crashes in a behaviour

ASSUME DoormanAssumption == MaxEvents \in Nat

VARIABLES
    handler,   \* what the MQTT thread goes on with after the scene
    stats,     \* DoorStats: the daily counters, their date, what is in progress
    disk,      \* what the runtime state cache holds of it
    today,     \* the date, in days
    resetDue,  \* the nightly job has yet to run
    wanted,    \* _waiting_on_telegram_snap: "no", "now", or "before" the timeout
    alive,     \* the process is up
    seen,      \* history: presses and motions recorded since midnight
    late,      \* history: one was recorded between midnight and the nightly job
    credit,    \* history: /door_snap commands, less the photos sent for them
    events     \* bound: events so far

service == <<handler, stats, disk, today, resetDue, wanted, alive,
             seen, late, credit, events>>

doormanVars == <<scene, mqtt, service>>

Counter == 0 .. MaxEvents
Counts  == [press : Counter, motion : Counter]
NoCount == [press |-> 0, motion |-> 0]

\* The state, and: "First snap to arrive will be sent, others will be ignored", no
\* more photos are sent than were asked for, whatever snaps others ask for.
DoormanTypeOK ==
    /\ SceneTypeOK
    /\ handler \in {"none", "open", "motion"}
    /\ stats \in [count : Counts, date : Counter, moving : BOOLEAN, open : BOOLEAN]
    /\ disk \in [count : Counts, date : Counter]
    /\ today \in Counter
    /\ wanted \in {"no", "now", "before"}
    /\ seen \in Counts
    /\ credit \in Counter
    /\ events \in Counter
    /\ {resetDue, alive, late} \subseteq BOOLEAN

DoormanInit ==
    /\ SceneInit
    /\ mqtt = "idle"
    /\ handler = "none"
    /\ stats = [count |-> NoCount, date |-> 0, moving |-> FALSE, open |-> FALSE]
    /\ disk = [count |-> NoCount, date |-> 0]
    /\ today = 0
    /\ resetDue = FALSE
    /\ wanted = "no"
    /\ alive = TRUE
    /\ seen = NoCount
    /\ late = FALSE
    /\ credit = 0
    /\ events = 0

-----------------------------------------------------------------------------
(* Statistics *)

\* _save_state; what is in progress is not saved.
Save(s) == disk' = [count |-> s.count, date |-> s.date]

Record(s) == stats' = s /\ Save(s)

\* The part record_doorbell_press and record_motion_start have in common.
Count(kind, s) ==
    /\ Record([s EXCEPT !.count[kind] = @ + 1])
    /\ seen' = [seen EXCEPT ![kind] = @ + 1]
    /\ late' = (late \/ resetDue)

\* record_motion_end and record_door_close do nothing without a beginning.
Ends(what) ==
    IF stats[what] THEN Record([stats EXCEPT ![what] = FALSE])
    ELSE UNCHANGED <<stats, disk>>

-----------------------------------------------------------------------------
(* Messages *)

Event ==
    /\ alive
    /\ events < MaxEvents
    /\ events' = events + 1

Message == mqtt = "idle" /\ Event

\* on_contact_report, the door opening: first the scene, then the statistics.
DoorOpens(dark) ==
    /\ Message
    /\ MaybeStart(dark)
    /\ handler' = "open"
    /\ UNCHANGED <<stats, disk, today, resetDue, wanted, alive,
                   seen, late, credit>>

DoorCloses ==
    /\ Message
    /\ stats.open
    /\ Ends("open")
    /\ UNCHANGED <<scene, mqtt, handler, today, resetDue, wanted,
                   alive, seen, late, credit>>

\* on_door_motion_detected: first the scene's timer.
MotionDetected ==
    /\ Message
    /\ MaybePet
    /\ handler' = "motion"
    /\ UNCHANGED <<stats, disk, today, resetDue, wanted, alive,
                   seen, late, credit>>

\* The scene's part of a handler went well: record_door_open, which closes an
\* opening that was not closed, or record_motion_start.
Recorded ==
    /\ mqtt = "done"
    /\ mqtt' = "idle"
    /\ handler' = "none"
    /\ \/ /\ handler = "open"
          /\ Record([stats EXCEPT !.open = TRUE])
          /\ UNCHANGED <<seen, late>>
       \/ /\ handler = "motion"
          /\ Count("motion", [stats EXCEPT !.moving = TRUE])
    /\ UNCHANGED <<scene, today, resetDue, wanted, alive, credit, events>>

\* The same, if it is done with an exception or still under way.
SceneStep ==
    /\ CancelTimer \/ RearmTimer \/ StartLights
    /\ handler' = IF mqtt' = "idle" THEN "none" ELSE handler
    /\ UNCHANGED <<stats, disk, today, resetDue, wanted, alive,
                   seen, late, credit, events>>

\* on_door_motion_cleared and on_door_motion_timeout
MotionEnds ==
    /\ Message
    /\ stats.moving
    /\ Ends("moving")
    /\ UNCHANGED <<scene, mqtt, handler, today, resetDue, wanted,
                   alive, seen, late, credit>>

\* on_doorbell_button_pressed: without ZmwSpeakerAnnounce, message_svc raises
\* before the press is recorded.  (Whether other services are up is a choice.)
DoorbellPressed ==
    /\ Message
    /\ \/ Count("press", stats)
       \/ UNCHANGED <<stats, disk, seen, late>>
    /\ UNCHANGED <<scene, mqtt, handler, today, resetDue, wanted,
                   alive, credit>>

\* on_telegram_cmd notes the time, then raises: a set is not JSON.
DoorSnapCommand ==
    /\ Message
    /\ wanted' = "now"
    /\ credit' = credit + 1
    /\ UNCHANGED <<scene, mqtt, handler, stats, disk, today, resetDue, alive, seen, late>>

\* _snap_request_timeout_secs pass.
SnapTimesOut ==
    /\ wanted = "now"
    /\ wanted' = "before"
    /\ UNCHANGED <<scene, mqtt, handler, stats, disk, today, resetDue, alive, seen, late, credit, events>>

SnapSentAgain ==
    /\ Message
    /\ wanted' = IF wanted = "before" THEN "no" ELSE wanted
    /\ credit' = IF wanted = "now" THEN credit - 1 ELSE credit
    /\ UNCHANGED <<scene, mqtt, handler, stats, disk, today, resetDue, alive, seen, late>>

\* on_snap_ready: somebody's snap arrives.  Without ZmwTelegram, message_svc
\* raises before the request is forgotten.
SnapReady ==
    /\ Message
    /\ \/ /\ wanted' = "no"
          /\ credit' = IF wanted = "now" THEN credit - 1 ELSE credit
       \/ /\ wanted = "now"
          /\ UNCHANGED <<wanted, credit>>
    /\ UNCHANGED <<scene, mqtt, handler, stats, disk, today, resetDue, alive, seen, late>>

-----------------------------------------------------------------------------
(* Time, crashes and other services *)

Midnight ==
    /\ events < MaxEvents
    /\ events' = events + 1
    /\ ~resetDue
    /\ today' = today + 1
    /\ resetDue' = alive
    /\ seen' = NoCount
    /\ late' = FALSE
    /\ UNCHANGED <<scene, mqtt, handler, stats, disk, wanted,
                   alive, credit>>

\* _nightly_reset
NightlyReset ==
    /\ resetDue
    /\ resetDue' = FALSE
    /\ Record([stats EXCEPT !.count = NoCount, !.date = today])
    /\ UNCHANGED <<scene, mqtt, handler, today, wanted, alive,
                   seen, late, credit, events>>

\* Lights that are on stay on, and nobody remembers why.
Crash ==
    /\ Event
    /\ alive' = FALSE
    /\ managed' = {}
    /\ running' = FALSE
    /\ grace' = FALSE
    /\ timer' = 0
    /\ timers' = [t \in TimerIds |-> "gone"]
    /\ used' = lit
    /\ owned' = {}
    /\ overlapped' = FALSE
    /\ mqtt' = "idle"
    /\ handler' = "none"
    /\ wanted' = "no"
    /\ resetDue' = FALSE
    /\ UNCHANGED <<lit, stats, disk, today, seen, late, credit>>

RestartKeepsCounts ==
    /\ ~alive
    /\ alive' = TRUE
    /\ stats' = [count |-> disk.count, date |-> today, moving |-> FALSE, open |-> FALSE]
    /\ UNCHANGED <<scene, mqtt, handler, disk, today, resetDue,
                   wanted, seen, late, credit, events>>

\* _load_state: counters of another day start over.
DoormanRestart ==
    /\ ~alive
    /\ alive' = TRUE
    /\ stats' = [count |-> IF disk.date = today THEN disk.count ELSE NoCount,
                 date |-> today, moving |-> FALSE, open |-> FALSE]
    /\ UNCHANGED <<scene, mqtt, handler, disk, today, resetDue,
                   wanted, seen, late, credit, events>>

-----------------------------------------------------------------------------

Timers == \E t \in TimerIds : TimerStep(t) /\ UNCHANGED service

DoormanNext ==
    \/ \E dark \in BOOLEAN : DoorOpens(dark)
    \/ DoorCloses
    \/ MotionDetected
    \/ SceneStep
    \/ Recorded
    \/ MotionEnds
    \/ DoorbellPressed
    \/ DoorSnapCommand
    \/ SnapTimesOut
    \/ SnapReady
    \/ \E l \in Lights, on \in BOOLEAN : alive /\ LightUpdate(l, on) /\ UNCHANGED service
    \/ GraceEnds /\ UNCHANGED service
    \/ Timers
    \/ Midnight
    \/ NightlyReset
    \/ Crash
    \/ DoormanRestart

\* A handler that has begun goes on, and timers run.
DoormanFairness ==
    /\ WF_doormanVars(SceneStep)
    /\ WF_doormanVars(Recorded)
    /\ \A t \in TimerIds : WF_doormanVars(TimerStep(t) /\ UNCHANGED service)

DoormanSpec == DoormanInit /\ [][DoormanNext]_doormanVars /\ DoormanFairness

-----------------------------------------------------------------------------
(* Properties *)

\* The counters of today are today's: however crashes, restarts and midnights
\* fall, they never include an event of another day, and they miss none, but for
\* those between midnight and the nightly job.
CountsAreTodays ==
    alive /\ ~resetDue =>
        \A kind \in {"press", "motion"} :
            /\ stats.count[kind] <= seen[kind]
            /\ stats.count[kind] = seen[kind] \/ late

\* A light the scene put on goes off in the end, or somebody else is seen to use
\* it, unless the door opened in the very moment a scene ended.  A crash forgets what
\* it put on: those lights stay on, and are nobody's (owned is empty then).
LightsGoOff == \A l \in Lights : l \in owned ~> l \notin owned \/ overlapped

=============================================================================
