---------------------------- MODULE DoorOpenScene ----------------------------
(***************************************************************************)
(* The lights that go on when the door opens in the dark                   *)
(* (door_open_scene.py of zmw_doorman).  Two kinds of threads meet here:   *)
(* the MQTT thread, on which the door, the camera and the lights are       *)
(* heard of, and the thread of each threading.Timer, which ends the scene. *)
(* Only _light_received_mqtt_update and stop take the lock.                *)
(***************************************************************************)
EXTENDS Naturals

CONSTANTS
    Lights,      \* door_open_scene_thing_to_manage
    MaxTimers    \* bound: timer threads alive at a time

ASSUME DoorOpenSceneAssumption == MaxTimers \in Nat

VARIABLES
    lit,         \* lights that are on
    managed,     \* _managing_things
    running,     \* _is_running
    grace,       \* time.time() < _ignoring_updates_until
    timer,       \* _door_open_scene_timer; 0 is None
    timers,      \* what the thread of each timer is about to do
    mqtt,        \* where the MQTT thread is
    used,        \* history: lights somebody else was seen to use, since they went on
    owned,       \* history: lights the scene put on, nobody else was seen to use
    overlapped   \* history: a start ran while a stop held the lock

scene == <<lit, managed, running, grace, timer, timers, used, owned, overlapped>>

TimerIds == 1 .. MaxTimers

\* A timer thread waits, then clears _door_open_scene_timer, then calls stop,
\* which takes the lock, switches lights off, and forgets them.
Steps == {"gone", "waits", "clears", "stops", "forgets"}

SceneTypeOK ==
    /\ lit \in SUBSET Lights
    /\ managed \in SUBSET Lights
    /\ running \in BOOLEAN
    /\ grace \in BOOLEAN
    /\ timer \in 0 .. MaxTimers
    /\ timers \in [TimerIds -> Steps]
    /\ mqtt \in {"idle", "cancel", "rearm", "start", "done"}
    /\ used \in SUBSET Lights
    /\ owned \in SUBSET Lights
    /\ overlapped \in BOOLEAN

SceneInit ==
    /\ lit \in SUBSET Lights
    /\ managed = {}
    /\ running = FALSE
    /\ grace = FALSE
    /\ timer = 0
    /\ timers = [t \in TimerIds |-> "gone"]
    /\ used = lit
    /\ owned = {}
    /\ overlapped = FALSE

Spent(t) == timers[t] = "gone"

NewTimer == CHOOSE t \in TimerIds : Spent(t)

CanArm == \E t \in TimerIds : Spent(t)

Locked == \E t \in TimerIds : timers[t] = "forgets"

-----------------------------------------------------------------------------
(* The MQTT thread, in a handler; "done" is where the scene's part of it ends *)

ArmTimer(threads) ==
    /\ CanArm
    /\ timer' = NewTimer
    /\ timers' = [threads EXCEPT ![NewTimer] = "waits"]

\* DoorOpenScene.maybe_start, with DoorOpenSceneLightManager.start up to its lights.
MaybeStart(dark) ==
    IF ~dark
    THEN mqtt' = "done" /\ UNCHANGED scene
    ELSE IF timer # 0
    THEN mqtt' = "cancel" /\ UNCHANGED scene
    ELSE /\ ArmTimer(timers)
         /\ running' = TRUE
         /\ mqtt' = IF running THEN "done" ELSE "start"
         /\ UNCHANGED <<lit, managed, grace, used, owned, overlapped>>

\* pet_timer looks for a timer first ...
MaybePet ==
    /\ mqtt' = IF timer # 0 THEN "cancel" ELSE "done"
    /\ UNCHANGED scene

CancelOnly ==
    /\ mqtt = "cancel"
    /\ mqtt' = IF timer = 0 THEN "idle" ELSE "done"
    /\ timers' = IF timer = 0 THEN timers
                 ELSE [timers EXCEPT ![timer] = IF @ = "waits" THEN "gone" ELSE @]
    /\ UNCHANGED <<lit, managed, running, grace, timer, used, owned, overlapped>>

\* ... cancels it, which a timer that is past its time ignores, or raises if the
\* timer is None by now ...
CancelTimer ==
    /\ mqtt = "cancel"
    /\ IF timer = 0
       THEN mqtt' = "idle" /\ UNCHANGED timers
       ELSE /\ mqtt' = "rearm"
            /\ timers' = [timers EXCEPT ![timer] = IF @ = "waits" THEN "gone" ELSE @]
    /\ UNCHANGED <<lit, managed, running, grace, timer, used, owned, overlapped>>

\* ... and starts a new one.
RearmTimer ==
    /\ mqtt = "rearm"
    /\ ArmTimer(timers)
    /\ mqtt' = "done"
    /\ UNCHANGED <<lit, managed, running, grace, used, owned, overlapped>>

StartAll ==
    /\ mqtt = "start"
    /\ lit' = Lights
    /\ managed' = Lights
    /\ owned' = owned \cup (Lights \ lit)
    /\ grace' = TRUE
    /\ overlapped' = (overlapped \/ Locked)
    /\ mqtt' = "done"
    /\ UNCHANGED <<running, timer, timers, used>>

\* start, from its lights on, without the lock: the lights that are off go on.
StartLights ==
    /\ mqtt = "start"
    /\ lit' = Lights
    /\ managed' = managed \cup (Lights \ lit)
    /\ owned' = owned \cup (Lights \ lit)
    /\ grace' = TRUE
    /\ overlapped' = (overlapped \/ Locked)
    /\ mqtt' = "done"
    /\ UNCHANGED <<running, timer, timers, used>>

\* Somebody else, or the light itself, reports the light on or off, and
\* _light_received_mqtt_update hears of it.
LightUpdate(l, on) ==
    /\ mqtt = "idle"
    /\ ~Locked
    /\ lit' = IF on THEN lit \cup {l} ELSE lit \ {l}
    /\ IF l \in managed /\ grace
       THEN /\ owned' = IF on THEN owned ELSE owned \ {l}
            /\ UNCHANGED <<managed, used>>
       ELSE /\ managed' = managed \ {l}
            /\ used' = IF on THEN used \cup {l} ELSE used \ {l}
            /\ owned' = owned \ {l}
    /\ UNCHANGED <<running, grace, timer, timers, mqtt, overlapped>>

\* The seconds in which updates are taken for echoes pass.
GraceEnds ==
    /\ grace
    /\ grace' = FALSE
    /\ UNCHANGED <<lit, managed, running, timer, timers, mqtt, used, owned, overlapped>>

-----------------------------------------------------------------------------
(* The thread of a timer *)

Becomes(t, from, to) ==
    /\ timers[t] = from
    /\ timers' = [timers EXCEPT ![t] = to]

\* A timer outlasts the handler that sets it.
Expire(t) ==
    /\ mqtt # "start"
    /\ Becomes(t, "waits", "clears")
    /\ UNCHANGED <<lit, managed, running, grace, timer, mqtt, used, owned, overlapped>>

\* _on_door_open_scene_timeout
Timeout(t) ==
    /\ Becomes(t, "clears", "stops")
    /\ timer' = 0
    /\ UNCHANGED <<lit, managed, running, grace, mqtt, used, owned, overlapped>>

\* stop, with the lock: it switches off what is managed ...
StopLights(t) ==
    /\ Becomes(t, "stops", "forgets")
    /\ ~Locked
    /\ running' = FALSE
    /\ grace' = TRUE
    /\ lit' = lit \ managed
    /\ used' = used \ managed
    /\ owned' = owned \ managed
    /\ UNCHANGED <<managed, timer, mqtt, overlapped>>

\* ... and forgets it, and what was added meanwhile, or ends with an exception,
\* because a dictionary must not grow while it is looped over.
StopForgets(t) ==
    /\ Becomes(t, "forgets", "gone")
    /\ managed' = {} \/ (overlapped /\ managed' = managed)
    /\ UNCHANGED <<lit, running, grace, timer, mqtt, used, owned, overlapped>>

TimerStep(t) == Expire(t) \/ Timeout(t) \/ StopLights(t) \/ StopForgets(t)

-----------------------------------------------------------------------------
(* Properties *)

\* The scene does not outlive its timers: as long as it runs, the thread of some
\* timer has its end ahead of it, whatever was extended, started over or expired
\* meanwhile; the MQTT thread is about to start the timer otherwise.
SceneHasTimer ==
    running => mqtt = "rearm" \/ \E t \in TimerIds : timers[t] \in {"waits", "clears", "stops"}

\* "If other service starts making use of this light, it will stop being managed":
\* a light that somebody else was seen to use is not one the end of the scene
\* switches off.  Every light the scene put on is, unless a start ran into a stop;
\* then it can be forgotten while it is on.
ManagedIsOurs ==
    /\ used \cap managed = {}
    /\ overlapped \/ owned \subseteq managed

\* "Automatically turn on lights if it's dark out when the door opens": while a
\* timer is set, and no thread is in the middle of something, the scene runs.
TimerMeansRunning ==
    timer # 0 /\ mqtt = "idle" /\ (\A t \in TimerIds : timers[t] \in {"gone", "waits"})
        => running

=============================================================================
