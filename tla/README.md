# Verification of zigbee2mqtt2web

TLA+ models of the services in this repository, the TLC configurations that check
them on small instances, and proofs for the TLA+ proof system. All of them are
written from the Python source; where a definition translates a function, its
comment names it, and `PROJECT.json` ("map") gives the lines.

## The system

zigbee2mqtt2web is a set of small services ("ZMW services"), each a process of its
own under systemd, that talk to each other and to Zigbee devices over MQTT.

| Part | State it keeps | What it does |
| --- | --- | --- |
| `zzmw_lib`: MQTT base, service discovery | topics with a callback, known services with the time they were last seen, whether all dependencies are alive | (re)connects, subscribes, routes messages; handles announcements and departures; checks for stale dependencies and pings |
| `zzmw_lib`: `runtime_state_cache` | a JSON file per service | reads it at start, rewrites it on each save, not atomically |
| `zmw_heating` | the active schedule (a slot per quarter of an hour), its template, the last slot applied, the boiler, a file; each rule remembers whether it heats | ticks, applies rules, takes user requests, sets the relay, notifies |
| `zmw_contactmon` | the last state of each sensor, a timer per sensor left open, chime skipping | debounces reports, runs the actions for opening, closing, being left open, and curfew |
| `zmw_cat_snack_dispenser` | history of feedings (bounded, on disk), the pending request and its timer, the check of each scheduled slot, counters of the unit | asks the unit to feed, waits for its acknowledgement, watches the schedule the unit follows by itself, feeds in its place |
| `zmw_doorman` | the door-open scene, its timer and its lights, counters of the day, snaps asked for | switches lights on when a door opens at night, and off; counts; photographs who rings |
| `zmw_reolink_cams` | recording jobs, the last snapshots, the subscription to motion events and its renewal, the watchdog of a motion | records and photographs on motion |
| `zext_libs/reolink_aio` (vendored, adapted) | session token, lease of the subscription, two mutexes | the camera's HTTP and ONVIF interface |
| `zz2m` | things, their values and propagation flags | mirrors the Zigbee network |
| `zmw_servicemon` | known services, the process that follows the journal, recent errors of each | collects errors, restarts the follower when the services it follows change |
| `zmw_telegram`, `zmw_whatsapp` | the bot and its offset, commands by service, batches of registrations and messages | runs what users ask of services, sends messages |
| `zmw_dashboard` and `zzmw_lib`'s service runner | services seen, the map of its proxy, two setup timers; the configuration that was read and the thread that watches the file | finds the other services, proxies their pages, restarts when its configuration changes |
| `zmw_lights`, `zmw_cronenbergs` | which things are lights; the lights chosen for vacations mode | switch lights for users, and by scheduled jobs |
| `zmw_sonos_ctrl`, `zmw_spotify` | the last coordinator, the answer of Spotify and its event; the token | groups speakers and makes them play what Spotify plays |
| others (`zmw_sensormon`, `zmw_speaker_announce`, `zmw_shelly_plug`, ...) | little | I/O and user interface |

**How they interact.** A service announces itself over MQTT with its topic, answers
pings, and says goodbye when it stops. Another service that depends on it hears
these, and calls it with `message_svc(name, ...)`, which *raises* when `name` is not
known. So a dependency that goes down turns every notification into an exception in
the middle of a handler. Inside a process several threads share state, mostly
without locks: the MQTT loop, the pool of the job scheduler, the threads of flask,
and the timers of `threading.Timer`.

**What is hard** follows from that: a handler cut short by an exception after half
of its changes; timers that expire while the MQTT loop cancels them; reports that
come before, during or after the check that waits for them; ticks that come late
and skip slots; connections that are lost with their subscriptions; and restarts,
after which only what is on disk comes back, and timers do not. `PROJECT.json`
lists these hazards one by one, each at the line where it bites, with the
properties that cover it or the reason why none does yet.

**What makes each part correct.**

- *Dependencies*: a service hears that its dependencies are all there, whatever
  the order of announcements, departures and stale checks; a live dependency is
  never found stale; a dead one is forgotten, and the service is told.
- *Heating*: ALWAYS and NEVER win over everything; the relay does what the active
  slot asks; an override ends with its slot; an acknowledged template survives.
- *Contact monitor*: what is open is watched, by a timer of its own, and reported;
  no timer outlives the opening it was started for; skipped chimes have a timer that
  brings them back.
- *Cat feeder*: each scheduled slot is counted once, as on time or missed; a missed
  one is fed for; a wait for an acknowledgement always ends; the entry that is
  acknowledged is that of the request that was answered.
- *Heating rules*: a slot is heated exactly when a sensor gives a reason to, whatever
  rule spoke last and however many ticks were missed.
- *Doorman*: the scene ends, and switches off only lights that nobody else took over;
  the counters are those of the day.
- *Cameras*: one ffmpeg at a time, watched until it ends; each recording announced once; a
  motion that is reported is recorded and ends, by a message or by the watchdog; the
  snapshot that pages are offered is there.
- *Session with a camera*: it keeps no session and no subscription that nobody will end, and
  events never stay away for good.
- *zz2m*: what each service has of a light is what the light has, whenever nothing is on
  its way, and settles on it once requests end; and a service that is after lights learns of each of them.
- *Dashboard*: its web server starts, and it ends when told to; the proxy follows
  services that move.
- *Service monitor*: every known service is followed in the end, whatever restarts overlap.
- *Telegram*: a command is run, and run once; what a service registers is served.
- *Sonos*: nobody is left waiting for an answer that came, nothing old is played, and
  stopping a group silences all of it.

## Modules

| Module | Models | State and actions |
| --- | --- | --- |
| `ScheduleSlot` | class `ScheduleSlot` of `schedule.py` | operators only: `SetPolicy`, `SetFromRule`, `Toggle`, `GuessValue` |
| `Heating` (extends `ScheduleSlot`) | `schedule.py`, `schedule_builder.py`, `zmw_heating.py` | `sched`, `active`, `template` are the two schedules; `out` is the last slot applied, the boiler's value, the relay and whether the last callback failed; `disk` is the file. One action per endpoint (`ToggleSlot`, `Boost`, `OffNow`, `SetTemplateSlot`, `ResetTemplate`, `ApplyTemplate`), `Tick`, `Discover`, and the environment: `AdvanceClock`, `TelegramUpDown`, `Crash`, `Restart` |
| `HeatingRules` (extends `Heating`) | `rules.py` as `config.template.json` chains it: `DefaultOff`, `CheckTempsWithinRange` over two sensors, `ScheduledMinTargetTemp` | `ruleActive` (the rule's `_is_active`) beside the state of `Heating`; `RuledTick` is a tick with the whole chain, the other actions are those of `Heating` |
| `ServiceDeps` | `zmw_mqtt_service.py`, `zmw_mqtt_base.py` | `known`, `age`, `callbacks`, `allAlive`, `firstStart` are the service's; `link` and `subscribed` its session; `job`, `stales`, `pingDue` the place of the scheduler in its check; `wire` and `pinged` what is in flight. `HearNew`, `HearAgain`, `HearLeaving` are `_on_service_updown`; `Collect`, `Drop`, `FinishCheck` are the three stages of `_check_deps_alive`, between which the MQTT loop runs; `Connect`, `Disconnect` and the dependencies `DepStart`, `DepStop`, `DepCrash`, `DepAnswers` |
| `Dashboard` (extends `ServiceDeps`) | `zmw_dashboard.py`, `service_magic_proxy.py`, `service_runner.py`, `zmw_mqtt_mon.py` | the process (`proc`), its web server, the services seen, the two setup timers and the map each one copies, the version of `config.json` that was read and its watcher; dependencies move (`Moved`), the process is told to stop, dies and boots |
| `ContactMon` | `z2m_sensor_debouncer.py`, `timeout_mon.py`, `transition_executor.py`, `zmw_contactmon.py` | `prev` is `monitoring_prev_state`; `entry` is `_timeout_jobs`; `jobs` and `firing` what the scheduler holds and runs. `Report` is a report up to `on_transition`, `NotifyChange` the rest of its handler; `Expire`, `MarkExpired`, `TimeoutAction` a timer and the two halves of its callback; `Curfew`; the requests about chimes (`asked`), step by step, and the timer that ends skipping |
| `MCContactMon` | | a door with every action, a window with a timeout only |
| `CatFeeder` | `history.py`, `schedule.py`, `dispense_tracking.py`, `zmw_cat_snack_dispenser.py` | `entries`, `lastId`, `pending`, `armed`, `failing`, `adding` are the history and its timers, at the grain of its saves to disk; `slot` and `check` the watch over the slot. `UserAsks`, `Start`, `AckTimeout`, `AckFailed` are a request and its timer; `HandleReport` is what the unit reports; `StartCheck`, `CheckExpires`, `CheckForces` the fulfillment check. The unit (`UnitServes`, `UnitObeys`, `UnitReports`) is external: it is known only by what the service reads from it |
| `Recorder` | the promise of `rtsp.py` to its callers, abstract | idle, recording, ending; what is owed and told: `Start`, `StartFails`, `TimeUp`, `Finish`, `Tell` |
| `Recording` (implements `Recorder`) | `rtsp.py` | one thread per caller and the worker that waits for ffmpeg: every step between two uses of the lock is an action |
| `Snapshots` | `snap_on_movement.py` | the pictures in the directory, the one offered as the last, and how far each saver is: `Write`, `Finish`, `Photograph` |
| `Camera` (uses `Recorder`, `Snapshots`) | `reolink.py`, `zmw_reolink_cams.py` | the webhook, the debouncing of what it says, the watchdog of a motion, connection, subscription and the reconnection, on the event loop and the scheduler |
| `ReolinkHost` | the part of `reolink_aio/api.py` that `reolink.py` calls | a coroutine is a stack of frames, one per function that has not returned; an action runs one of them up to its next `await` of a lock or of the camera. Login, logout, `send` with its retries, `expire_session`, `subscribe`, `renew`, `unsubscribe`; what `_connect_to_cam`, the check, snapshots, polls and `disconnect` ask for; the camera's sessions and subscriptions |
| `DoorOpenScene` | `door_open_scene.py` | `running`, `timer`, `managed`: starting, extending and stopping, the latter on a timer's thread with its steps apart |
| `Doorman` (extends `DoorOpenScene`) | `zmw_doorman.py`, `door_stats.py` | what each message of the other services does, counters and midnight, snaps over Telegram, crash and restart |
| `Z2mThing` | `thing.py` | one value of a thing as the device, several services and the messages between them hold it; a request on a thread (`Set`, `Store` or `Reject`, then `Broadcast`, `Read`, `Publish`), a message (`Ignore`, or `Accept` and `Update`), a change at the device (`DeviceSet`, `DevicePressed`) |
| `Z2mNetwork` (extends `Z2mThing`) | `z2mproxy.py`, `www.py`, `light_helpers.py`, `zmw_lights.py`, `zmw_cronenbergs.py` | what each service knows of the thing from the lists zigbee2mqtt publishes (`Learned`), requests that fail half-way, all lights on and off, the morning check and the vacation jobs, crashes |
| `JournalMonitor` | `journal_monitor.py`, `zmw_servicemon.py` | discovery, the thread that restarts the follower, the follower itself, the histories of errors and their pauses |
| `Telegram` | `pytelegrambot`, `zmw_telegram.py` | connecting from three threads, registrations and their flush, polling, offsets, outages and the rate limit of the server, restart |
| `SonosCtrl` | `zmw_sonos_ctrl.py`, `sonos_helpers.py`, `zmw_spotify.py` | threads that hijack, toggle, stop or ask for the context; the shared event; groups of speakers; the Spotify token |
| `MCSonosCtrl` | | the symmetry of threads and of speakers |
| `HeatingRules_proofs`, `Dashboard_proofs`, `CatFeeder_proofs`, `Zigbee_proofs`, `Camera_proofs`, `ReolinkHost_proofs`, `Messages_proofs`, `SonosCtrl_proofs` | | theorems |

The services do not share state. They meet in one thing, whether a service they
notify is there, and each model has it as a variable that changes at any time
(`telegramUp`, `notifierUp`); `ServiceDeps` is the model of how that comes about.

Five modules compose others. `HeatingRules` puts the rules under the schedule of `Heating`
and is checked, and proved, to implement it. `Camera` calls a recorder of which it knows
what `Recorder` promises, and `Recording` implements that promise; its pictures are those
of `Snapshots`. `Dashboard` is a service on top of `ServiceDeps` that dies and boots with
it. `Doorman` drives the scene of `DoorOpenScene`. `Z2mNetwork` gives the services of
`Z2mThing` their lists and jobs. `Camera` and `ReolinkHost` model the same connection at
two grains: what `Camera` takes as one step (`Connect`, `Resubscribe`, `Reconnect`) is a
conversation there.

### Abstractions

- *Heating*: one handler is one action, so web requests that overlap with a tick are
  not modelled. What the rules compute is abstracted to what they can do to a slot
  (nothing, ask for on, ask for off). Reasons are kept where code or properties tell
  them apart. `expired` is a history variable: user overrides whose slot has passed.
- *HeatingRules*: a temperature is silent, below the minimum, between, or at the maximum.
- *ServiceDeps*: time is counted in checks of one ping period; `PeriodPassed` says
  that a message does not stay in flight for a whole period. The broker keeps the
  order of each publisher's messages and loses them with the session.
- *Dashboard*: its dependencies all have an MQTT topic. The watch of the configuration
  is there before the service is constructed; a change before that is missed
  (`ConfigIsRead`, a known limit). A version of the file is a number.
- *ContactMon*: there is no clock: a timer may expire at any time, and its callback run at
  any later one. Openings are numbered, to tell timers apart.
- *CatFeeder*: time is where it stands to the slot, far from it, within tolerance
  before or after it. There is one slot a day, away from midnight. Threads are
  interleaved at the saves of the history. `telegram_on_error` is taken as set,
  as in `config.template.json`. Entries that can no longer be acknowledged are all
  the same. Ids wrap around, at more than a full history.
- *Recording*: a recording lasts longer than the last assignment of `trigger_recording`
  takes: ten seconds and more against a line.
- *Camera*, *Snapshots*: a webhook runs under `_announce_lock` and is one action, its
  pictures included; the pictures of the other two threads take two steps, and a listing of
  the directory is one. A picture is the second it was taken in, which is its name.
- *ReolinkHost*: a request is a member of a small set, and its answer one of the kinds the
  code tells apart: good, refused, or one of ten that are no use. Time passes
  only when no coroutine is at work: a lease of an hour does not end within a request.
- *Doorman*: timers outlast the handler that sets them.
- *Z2mThing*, *Z2mNetwork*: one value, and its brightness where that matters: brightness
  alone switches a light on. Requests for a thing without a definition are valid ones. A
  request that fails half-way is one step.
- *JournalMonitor*: a restart takes one step for each statement, and others run between any
  two. The join's 5 s are longer than the follower's wait of 4 s; a follower
  reads what is in its pipe before it sees that it should stop; a pause outlasts the reading of what was
  logged at its start; the scheduler is within its second of grace.
- *Telegram*: threads interleave only where they wait for the network; one flush runs at
  a time, and `setMyName` with `setMyDescription` is one request.
- *SonosCtrl*: a coordinator that leaves hands its music to another member; a speaker
  that could not leave its group does not join one.

Some statements are one step in the models and are not one in the code. What lies
between them is left out:

- *ServiceDeps*, *Dashboard*: the first loop of the stale check, which raises if the map
  grows or shrinks during it (`zmw_mqtt_service.py:78`; the next check runs all the same);
  the handler of an announcement, which SIGTERM may interrupt (`:93-152`). Services
  announce themselves with an `mqtt_topic` (`:106-109`), as `service_runner.py:77` does.
- *CatFeeder*: that a timer of the acknowledgement is there and its cancelling
  (`history.py:113-115`); a report of something else, from its entry to its second
  save (`:177-183`), where an entry that another thread adds would take its mark.
- *Camera*: the webhook, with the network between `pet_timer` and `start_recording`
  (`reolink.py:316`, `:382`); that the watchdog's job is there and its removal (`:340-341`,
  `:347-348`). A watchdog that clears it in between makes the webhook raise: the end of the
  motion is then announced as a timeout, and a motion that goes on has no watchdog.
- *Doorman*, *DoorOpenScene*: counting an event and saving it, and the save itself: a crash
  inside it leaves a truncated file, which is then read as no file
  (`runtime_state_cache.py:43-44`). The assignment of the scene's timer and its start
  (`door_open_scene.py:109-113`).
- *Z2mNetwork*: all lights off sends brightness 0 too (`light_helpers.py:391-393`); in the
  model it sends the state.

## Runs

All runs pass. Each property is broken by a mutant of the code, listed in
`PROJECT.json`: a plausible bug, of which the run would tell.

| Run | Properties | What it shows |
| --- | --- | --- |
| `heating_rules` | `BoilerFollowsSchedule`, `NoExpiredOverride`, `TemplateOnDisk`, `ImplementsHeating`, `HeatedForAReason`, `EndsOff` | the relay follows the schedule, overrides end with their slot, acknowledged templates survive; the rules heat exactly when there is a reason and touch no slot they may not; everything ends off when it should |
| `dashboard` | `AllKnownIsHealthy`, `NoFalseStale`, `DownDepForgotten`, `NoStaleUrl`, `ComesUp`, `StopEnds` | dependencies are known when they are up, and forgotten when they are down; the proxy follows those that move; the web server starts; a dashboard told to stop does |
| `contactmon` | `EntryIffOpen`, `OpenIsTimed`, `LeftOpenIsReported`, `ChimesComeBack` | exactly what is open is watched, has its timer until it is reported, and is reported; skipped chimes come back |
| `cat_feeder` | `OneOutcome`, `PendingCanExpire`, `UnservedIsFed` | a slot has one outcome; a wait for an acknowledgement has its timer; a unit that stops feeding is told to |
| `recording` | `FfmpegIsWatched`, `KeepsPromise` | no ffmpeg is left running, and `Recording` implements `Recorder`, its fairness included |
| `camera` | `LastSnapIsKept`, `NoSilentMotion`, `DetectedIsRecorded`, `MotionEnds` | MQTT clients know what the service believes; a motion is recorded, and ends; the snapshot offered is on disk |
| `doorman` | `SceneHasTimer`, `ManagedIsOurs`, `CountsAreTodays`, `LightsGoOff` | the scene ends, with the lights it put on and no others; counters survive crashes, and no midnight |
| `z2m_network` | `NetSettles`, `LightIsListed` | what services have of a light settles on what it has; a light is found after its interview |
| `journal_monitor` | `KnownIsWatched` | whatever restarts overlap, at whatever statements, what is known is followed in the end, unless one broke off with the event set |
| `telegram` | `RunOnce`, `CommandsAreServed`, `DueIsRun` | what users send is run, and run once; what services register is served |
| `sonos_ctrl` | `FreshContext`, `AnswerIsComing`, `StopAllSilences` | nothing old is played, nobody waits for what came, stopping a group silences it |
| `reolink_host` | `NoneLeftBehind`, `EventsComeBack` | the camera is left with nothing that nobody will end, and a lost subscription is found out |

`dashboard` also checks all of `ServiceDeps`, and `heating_rules` all of `Heating`: they run
the extended module, in which every action of the smaller one is a step.

### Bounds

Every bound is a constant, in the guard of the action it bounds. A bound ends a kind
of event, never the reaction to it, so what the code does about the last one is
explored to its end.

| Run | Instance | Why it is enough |
| --- | --- | --- |
| `heating_rules` | 3 slots, boosts of 2, ticks up to 2 slots late, 1 request, 1 crash, a window of one slot | a late tick can skip all slots but one, around midnight too; a crash can fall between any two steps. Safety is proved for any number |
| `dashboard` | 1 dependency, 1 other service, 2 urls, at most 3 incidents in all, among them an outage, a change of configuration, moves and crashes | a move away and back, and one incident while another is being handled. The safety of both modules is proved for any set of dependencies and any number of incidents |
| `contactmon` | 2 sensors, 5 events in all: reports, up to 2 requests about chimes from 2 threads, an outage, a restart | open, close and open again while the callback of the first opening waits, with a timer of each opening; skip against enable |
| `cat_feeder` | history of 2, 4 ids, 1 request of a user at a time | the history overflows with an entry that waits; the request of the check overlaps with that of a user, and days repeat without bound |
| `recording` | 3 callers, 3 recordings, 6 requests | two callers race for the setup while the worker tears down |
| `camera` | 1 zone, 2 recordings, 2 watchdogs, 3 events, 1 outage, 3 seconds with pictures, a history of 1 | detected, goes on, cleared; a recording that ends while the next motion begins; two savers and a webhook |
| `doorman` | 1 light, 3 timers, 4 events | the scene is extended while its timer stops it, and starts again |
| `z2m_network` | 2 services of 2 threads, 3 incidents, of them up to 2 requests, 1 press at the light, 1 crash, 1 more list | requests of both services and of both threads of one cross each other and a change at the device |
| `journal_monitor` | 3 units, history of 1, 1 error, 1 clearing | the third unit is discovered while two restarts overlap; each may be at any statement of its own |
| `telegram` | commands ping and stfu, 1 registration, 1 update, 1 restart, 1 outage | three threads connect at once, with an outage in the middle |
| `sonos_ctrl` | 2 threads, 2 speakers, 3 requests, 1 change of music, 1 outage; symmetric | two questions cross one answer; a group and what leaves it |
| `reolink_host` | 2 attempts for each request instead of 3, 2 incidents, 6 ids | a fault, and one while it is being handled, with a renewal, a snapshot, a poll or the disconnect |

`CHECK_DEADLOCK FALSE` is said where the bounds end all that can happen (`camera`, `doorman`,
`recording`, `sonos_ctrl`, `telegram`, `journal_monitor`) or where the system itself
ends (`reolink_host`: after the disconnect the loop has stopped).

### Fairness

No fairness is assumed of users, devices, faults or the network; what is assumed is
what runs the code.

- `Heating`, `HeatingRules`: the clock goes on, the scheduler ticks, systemd restarts the
  process, zigbee2mqtt lists the boiler.
- `ServiceDeps`, `Dashboard`: the MQTT client reconnects, the scheduler runs its check,
  the broker delivers to whoever is connected, a dependency that is up answers pings,
  timers fire, threads run, systemd restarts.
- `ContactMon`: a report that is being handled is; the scheduler's timers expire and its
  pool runs their callbacks; requests about chimes go on.
- `CatFeeder`: time passes, timers expire, started threads go on, a report that
  arrived is handled, the unit obeys a message it was sent.
- `Recording`: threads go on, the scheduler fires, time passes; `Recorder`'s fairness
  is what follows from it (`KeepsPromise`).
- `Camera`: the connection attempt ends, interval jobs run, and a motion the camera sees ends.
- `Doorman`: the threads of timers and the MQTT thread go on.
- `Z2mNetwork`: threads go on, messages are delivered, the device obeys.
- `JournalMonitor`: threads go on, errors leave the window, pauses end.
- `Telegram`: requests end, with an answer or without, the scheduler polls, timers fire.
  Its liveness properties are conditional on a network that stays up.
- `ReolinkHost`: the loop runs what can run, each request is answered or times out, the
  check's job runs, and a term that nobody renews passes.

## Proofs

The proofs hold for every value of the constants that satisfies the named assumption of
the module (TLC evaluates it in every run): any number of slots, services, callers or
dependencies, any length of history, any bounds. Each shows an inductive invariant, which
TLC checked first, with one lemma per action or group of actions.

- `HeatingRules_proofs`, about `Heating`: `TypeCorrect`, `PolicyAlwaysDecides`,
  `BoilerAlwaysFollowsSchedule`, `TemplateAlwaysOnDisk`, `OverridesAlwaysEnd`. `IInv` adds to
  the properties that a process that is not running knows no boiler; that every slot is
  `Decided`; that the slot last applied, the boiler's value and the relay agree with each
  other and with the active slot (`Agrees`: `BoilerFollowsSchedule` alone says nothing of
  `applied`, on which the early return of `_on_state_may_change` depends); and that template
  slots are normal forms of the translation to and from disk, so that saving and
  restoring twice changes nothing (`RestoredTwice`). `ExpiredInv` is the argument for
  `OverridesAlwaysEnd`: the schedule is at most `MaxLag` slots behind the clock, all overrides
  that are past their time are in the slots the next tick will reset, and neither template nor disk
  ever holds a user's reason.
- `HeatingRules_proofs`, about `HeatingRules`: `RulesImplementHeating` is a refinement: each step of the rules is a
  step of `Heating` or leaves its variables alone, so all of the above holds with
  the configured rules (`RulesRespectPolicy`). `AlwaysHeatedForAReason` rests on
  `RulesInv`, that the rule is active exactly if it was asked for heat or works with a state it should
  have given up, and on the lemma `ApplyDecision` about the chain.
- `Dashboard_proofs`, about `ServiceDeps`: `TypeCorrect`, `AllKnownIsAlwaysHealthy`, `NeverFalselyStale`.
  `Timely` is the argument for the last one: at the second check since a dependency was
  last seen a ping goes out, at the third one its answer is in flight, and it arrives
  before the fourth, the first that would find it stale.
- `Dashboard_proofs`, about `Dashboard`: `DashTypeCorrect`, `DashboardAlwaysHealthy`,
  `DashboardNeverFalselyStale`. `DashStep` carries the above over: a step of the dashboard
  is a step of the tracker, or leaves the tracker alone, but for those that end or
  interrupt the process or hear of another service, which have a lemma each. `CarriedType`,
  that each message in flight has one url, needs that a queue and its urls are of the
  same length, whatever is delivered and lost (`Lengths`).
- `Dashboard_proofs`, about `JournalMonitor`: `JournalTypeCorrect`
  and `SettledAlwaysFollowed`: once no restart is under way, and none broke off with the stop
  event set, nobody is told to stop, and all that is known is followed, or
  about to be, which is the safety that `KnownIsWatched` rests on. `RestartInv` says that
  the stop event is set only while some restart will still clear it, or since one broke off
  with it set (`stranded`), and that some follower follows all that is known, or a restart
  has yet to replace it, or has yet to start it. `StillRestarting` is the lemma for the
  statements that change neither, `BreaksOff` that for a restart that finds a thread which
  was not started, and raises. The invariant holds until the monitor kills
  its process. That of two overlapping restarts the second may start the follower of
  the first, or find it started, is why it speaks of *some* restart and not of the
  follower's own.
- `CatFeeder_proofs`: `TypeCorrect`, `PendingAlwaysExpires`, `AlwaysOneOutcome`.
  `CheckInPhase` relates the check to the time of day, and `OutcomeInv` says what has
  become of a slot as far as the day has gone; before the check starts, a slot counts as
  on time exactly if it holds the mark.
- `Camera_proofs`, about `Camera`: `CameraTypeCorrect`, `LastSnapAlwaysKept`,
  `NeverSilentMotion` and the action property `DetectedAlwaysRecorded`. A clean-up knows
  nothing of what other threads are about to do, so `SnapsInv` claims for each picture
  that a saver *will* make the last one what `LastSnapIsKept` claims of the last one. Its
  crux is `CleanupKeeps`: of a picture that is removed as many newer ones stay as the history
  holds, those newer than the newest picture removed. `MotionInv` adds the types to
  `NoSilentMotion`; that the job remembered is one the scheduler has is among them, and is
  what keeps a webhook from raising half-way.
- `Camera_proofs`, about `Recording`: `RtspTypeCorrect`,
  `FfmpegAlwaysWatched`, `AlwaysOneAtATime`, and
  `RefinesRecorder`: initial states map to initial states of `Recorder`, and every
  step to a step of it or a stutter. The invariant says that `_recording_job_updating` is
  set exactly while one caller sets up a recording or the worker tears one down
  (`SetupInv`), and that job, file and ffmpeg are those of one recording (`JobInv`).
- `ReolinkHost_proofs`: `HostTypeCorrect` and `NoneEverLeftBehind`, for any number of retries,
  faults and sessions. `NoneLeftBehind` speaks of a moment when nobody is at work, and says
  nothing of how the service gets there, so `HostInv` has to say what each frame of each
  stack has yet to do. `Nested`: a stack nests as the functions call each other, and above
  a frame that holds `_login_mutex` there is only what logs in or out; `Local` and `Result`:
  what a frame has found, and what is known when a function has returned; `LockInv`: who
  queues for a lock does so once, and the first holds it. The argument then is that a
  session of the camera is that of the token, or its token has come and the login that
  asked for it is about to store it (`SessionInv`); that a subscription is the one the
  service knows, or its answer is being read (`SubInv`); and, which keeps the two true when the
  service forgets a subscription, that one it has asked to drop is gone once the answer is there
  (`UnsubInv`). Only these three except lost answers (`astray`), and `SubInv` overtaken
  changes (`crossed`), as the property does.
- `Zigbee_proofs`, about `ContactMon`: `MonitorTypeCorrect`, `OpenAlwaysHasEntry`,
  `OpenIsAlwaysTimed` and `ChimesHaveTimer`. A handler is about
  to tell of the state that was recorded last (`HandlerInv`), which is why the entry that
  `_cancel_timeout` drops, or `_set_timeout` makes, is that of the transition.
  Nothing bounds how long the callback of a timer that has expired waits for a thread: it
  may find the entry of the next opening. `OpenIsAlwaysTimed` holds all the same, for a
  callback that reports the wrong opening does report one. Its invariant `TimedInv` says
  that, until an outage, no notification has failed, and that each entry that is there
  stands for a timer held, a callback under way or a report that was sent (`Attended`); the crux is that a sensor that opens has no entry,
  so that what counts as sent begins anew without one left over, and that a callback gives up
  only where it finds no entry. For `ChimesHaveTimer`, `FlagInv` says of each
  request what it has done so far: one that enables chimes has lowered the flag before it
  cancels a timer, one that skips them adds a timer before it raises the flag
  (`TimerComes`). A timer is named by a number that is free, and that there is one is the
  count in `ChimeTypeOK`: timers, and requests that have yet to add one, are no more than
  the requests so far.
- `SonosCtrl_proofs`: `TypeCorrect`, `ContextAlwaysFresh`, `AnswerAlwaysComing`,
  `StopAlwaysSilences`. `LockInv`: the lock is that of the one thread that hijacks.
  `ContextInv`: while a thread waits, whatever is on its way, and whatever is in the shared
  context once the event is set, is no older than its question, unless it crossed
  it. `StopInv`: while a stop goes smoothly nobody joins the speakers it found, those
  it has unjoined are alone, and those it has stopped too do not play; its crux is
  `UnjoinGroups`, that a coordinator who leaves hands its music to another member and so
  never to a speaker that is done.
- `Messages_proofs`, about `Telegram`: `TypeCorrect`, `RunsAlwaysCounted`. `BotInv` counts
  the threads that have seen that there is no bot: each can still build one, so there are
  never more than three. The argument for `RunsAlwaysCounted` is `RunInv`: what a bot would
  be sent now has been run so seldom that it may be run once more, and once more
  again for each bot built since the one whose poll is under way (`MayRun`); and an update below
  the offset of a bot is not sent to it, which takes `OffsetInv`, that no offset is ahead of
  what users sent.
- `Messages_proofs`, about `Doorman`: `DoormanTypeCorrect`, `SceneAlwaysHasTimer`,
  `ManagedAlwaysOurs`, `CountsAlwaysTodays`. `LightsInv` adds to the properties of the scene that a stop that has its
  lights off leaves none of ours, unless a start ran into it. `CountInv` is the argument
  for the counters: it says of those on disk what `CountsAreTodays` says of those in
  memory, for a restart reads them; and that, if those on disk are of an earlier day,
  nothing was counted since midnight, or it came before the nightly job. `BoundInv` is
  there for `DoormanTypeCorrect`, in which `credit` bounds the photos sent by those asked for.
- `Zigbee_proofs`, about `Z2mThing`: `ReplicasAlwaysValid`, for any number of services,
  threads and messages: only valid values are stored and sent.
- `Zigbee_proofs`, about `Z2mNetwork`: `NetReplicasValid` and `QuietAlwaysAgrees`.
  `QuietAgrees` speaks of a moment when nothing is on its way; `Replica` says what
  holds before, whenever nothing is on its way *to the device*: the last state on the wire
  to a service is that of the device (`Latest`); if there is none, what the MQTT thread is
  about to store is; and if that is nothing too, the replica is, or a thread of the
  service will still publish it (`Owed`). An update may be ignored only because the last clause
  holds, and it holds because the flag of a service that handles its requests one at a time
  is up exactly from a request to its broadcast, or since one was rejected (`Serial`). That
  a service has no value and no request of a thing it has not been told of (`Informed`) is
  why it may drop the states that it hears until then.

**Names.** A proof module extends each module it proves about. So `Recording`,
`JournalMonitor`, `Doorman` and `Z2mThing`, which share one with another component, have
names of their own for what is called `Init`, `Next`, `Spec` and `TypeOK` elsewhere
(`RtspSpec`, `JournalSpec`, `DoormanSpec`, `ThingSpec`).

**Only model-checked**: all liveness, whose rules of fairness and ENABLED are out of the
prover's reach here: `EndsOff`, `DownDepForgotten`, `LeftOpenIsReported`, `ChimesComeBack`,
`UnservedIsFed`, the fairness in `KeepsPromise`, `MotionEnds`, `LightsGoOff`, `NetSettles`,
`LightIsListed`, `KnownIsWatched`, `CommandsAreServed`, `DueIsRun`, `EventsComeBack`,
`NoStaleUrl`, `ComesUp`, `StopEnds`. Every invariant that a run checks is proved.

**Proved, and in no run**: the safety at the core of a liveness property or a refinement
that a run checks: `QuietAgrees` of `NetSettles`, `SkippingHasTimer` of `ChimesComeBack`,
`SettledIsFollowed` of `KnownIsWatched`,
`OneAtATime` of `KeepsPromise`; `PolicyDecides`; and the types (`TypeOK`, `RtspTypeOK`, ...)
of `Heating`, `ServiceDeps`, `Dashboard`, `ContactMon`, `CatFeeder`, `Recording`, `Camera`,
`Doorman`, `JournalMonitor`, `Z2mThing`, `Z2mNetwork`, `Telegram`, `SonosCtrl` and
`ReolinkHost`. As INVARIANTs of those runs the first four hold too, and each is violated
by a mutant listed for its run: `QuietAgrees` by `BroadcastKeepsFlag`,
`SkippingHasTimer` by `SkipOnlyCancelled`,
`SettledIsFollowed` by `ClearKeepsStop`, `OneAtATime` by `StopUnlocked`. The `TypeOK` of the
other modules is stated only.

## Known limits

What the models say of the code beyond the properties that hold. Most were met while
modelling; those with a name are definitions in the module named, which no run checks
because the code does not guarantee them.

*Service library and dashboard*

- `MissingDepsReported` (`ServiceDeps`): a dependency dropped as stale leaves
  `_all_deps_alive` as it was, and `on_service_deps_missing` is not called. With no known
  dependency the service never pings again, so one whose announcement was lost is not
  found before it announces itself again.
- `SubscriptionsRepeated` (`ServiceDeps`): the topics of dependencies are stored with
  their `/#`, and `_on_connect` adds another one: after a reconnection it asks for
  `topic/#/#`, which paho refuses with an exception.
- `ConfigIsRead` (`Dashboard`): a change of `config.json` between its reading and its
  watching is missed. With no `config.json` at all, the watcher reads one batch of events
  and ends.
- The setup timer of the proxy iterates the services seen while the MQTT loop may add one:
  it raises, and the web server never starts. A second setup raises on the first route
  that it registers again, so dependencies that come late are never proxied. If the first
  map is empty, the second replaces `_svc_proxy`, but `/get_proxied_services` answers with
  the first. Proxied services that are no dependencies and move are not noticed.
- A service told to stop between setting its signal handler and starting its web server
  waits in `shutdown()` for ever. An MQTT loop that ends by an exception leaves the
  process alive for as long as its web server runs.

*Heating*

- `AlwaysOnOffAtItsTime` (`Heating`): a notification that raises leaves `_applied_slot` as
  it was, after the relay was set. If the next slot equals that old one, it is not
  applied.
- A rule's `_is_active` outlives the slots that it may not touch (`stale` in
  `HeatingRules`). `ScheduledMinTargetTemp` overrides the failsafe of
  `CheckTempsWithinRange`. `DefaultOn` and `AlwaysOn` of the heating README cannot be
  configured.

*Contact monitor*

- `OpenIsWatched`: a notification that raises when a sensor opens ends the handler before
  its timer is started. Nobody watches that sensor until it closes and opens again.
- A timer that has expired cannot be removed from the scheduler any more. If its sensor closes
  and opens again before its callback runs, the callback finds the entry of the second
  opening, marks it as expired and reports it, too early; the timer of that opening can then
  not be cancelled (`timeout_mon.py:69`), and its callback may do the same to the third.
- The curfew ends with a `KeyError` at an open sensor that has no configuration
  (`transition_executor.py:101`); the sensors after it are not told of.
- Skipping chimes and enabling them at once from two threads can leave a timer of one with
  the flag of the other (`raced`). A default duration equal to the maximum passes the
  constructor and is refused in every request. `tts_announce` without `lang` passes
  validation and raises at each event.

*Cat feeder*

- `MissedIsForced`: the check of a missed slot notifies first, and if that raises it does
  not feed.
- `MarkIsEarly`: a second report on schedule, after the slot was served or checked, marks
  the slot as served early, and hides the next day's miss.
- `AnsweredIsAcked`: a report acknowledges the most recent open entry, which need not be
  that of the request it answers.

*Doorman and service monitor*

- `TimerMeansRunning` (`DoorOpenScene`): a timer that is past cancelling stops a scene
  that was just extended, and the new timer is left with no scene.
- `zmw_doorman.py:143` sends a set where a dictionary is meant. A ring of the doorbell is
  not recorded when `ZmwSpeakerAnnounce` is down.
- A restart reads `_journal_thread` twice (`journal_monitor.py:113`, `:116`). If another one
  clears the event and assigns its thread in between, the first sets the event again and
  joins a thread that was not started, which raises. The event stays set, the new follower
  leaves at once, and nobody follows the journal until the next unit is discovered
  (`stranded`, which `KnownIsWatched` and `SettledIsFollowed` except).
- `OneFollower`, `KilledForGood`, `HistoryBounded` (`JournalMonitor`): of two restarts
  that overlap, each may start a follower; one may find the follower that the other has
  just started, and kill the process for it; and the notice of a pause is one entry more
  than the history may hold.
- `zmw_servicemon.py:167` calls `_message_svc`, which does not exist, so errors never
  reach Telegram.

*Cameras*

- `SubscriptionIsRestored` (`Camera`): `_reconnect` runs on the event loop, and waits for
  a coroutine that only this loop could run. `TimeoutNotAfterClear` (`Camera`): a watchdog
  that has expired may report its timeout after the end of the motion.
- A request that fails in a way that ends the session also unsubscribes; the next check
  restores the subscription. An unsubscribe that overtakes the answer to a renewal leaves
  the service in the belief that it is subscribed (`crossed`). A lost answer leaves a
  session or a subscription that only its lease ends (`astray`). `HEADERS` is shared by
  all requests and cameras. After a login that failed on port 443 the host stays on port
  80. An error in the check of RTSP that is no `RTSPError` ends the attempt to connect,
  for good.
- If ten newer pictures are saved between a picture's writing and the assignment of
  `_last_snap`, the page's last snapshot is gone (the second disjunct of
  `LastSnapIsKept`). A listing that meets a file somebody else removes is cut short and
  unsorted, and the clean-up after it may remove a recent picture; pictures of the same
  second share a file; and a clock set back makes a new one the oldest. None of these
  three is modelled.

*Things and lights*

- `Settles` (`Z2mThing`) leaves out crashes and what a service learns from the lists;
  `NetSettles` of `Z2mNetwork` is what is checked. Both except services where overlapping
  requests of two users may have left a value unsent (`overlapped`). An update accepted
  just before a user's value may overwrite it before it is sent. What a request that
  failed half-way has set is sent with the next one.
- `RejectIsHarmless` (`Z2mThing`): a request that is rejected leaves the flag of its value
  raised, so that later updates of it are ignored until a request for that value is sent.
- A field that is out of range ends an update after the callbacks of earlier fields; they
  run again when the update is repeated. A composite with an undeclared field stays
  `None`.
- `zmw_cronenbergs` is interested in anything, so a light that is listed during its
  interview stays as it was listed then. After a restart a light counts as off until it
  changes.
- Rules for actions are added again with each list; `/set` is handled twice where name and
  address are the same. `ThingExtras` hears itself, after a newer value, and matches names
  by their prefix.

*Telegram, WhatsApp, Sonos*

- The rate limiter's comment, "Only after a minute of no-messages", is not what it does.
- A command registered twice within 5 s raises `KeyError` and loses its batch. Two threads
  that connect at once build two bots, the second with no commands and no offset. Commands
  sent during a restart may be dropped. Offline, `connect()` raises `AttributeError`.
- A `media_info` or `context` of `None` raises in `on_dep_published_message` before the
  event is set. A query of the coordinator that fails counts as stopped: toggling then
  hijacks instead of pausing what plays (`zmw_sonos_ctrl.py:81`). Hijacking with
  nothing playing forgets the group there was; hijacking to
  other speakers leaves the old group playing; `toggle` reads `_last_active_coord` several
  times. `sonos_announce` sets the volume before it takes the snapshot it restores.

## Not modelled

- *Overlapping web requests in heating*: `_ignore_state_changes` and `_applied_slot` are
  shared with the tick; the model's handlers are atomic.
- *Feeding slots with overlapping windows*; sensors with `timeout_secs` and no close or
  timeout action; `runtime_state_cache` saved by two threads: configuration decides
  whether they can be met.
- *Rate limiters, stfu, WhatsApp*: windows of a wall clock.
- *`zmw_sensormon`, `zmw_speaker_announce`, `zmw_shelly_plug`*: requests to devices and
  databases, with hardly any state of their own.
- *Buttons, composites, colours, extras of `zz2m`*: values and their formats.
- *The feeder's configuration enforcer and daily summary; the doorman's histories; NVR
  pages and re-encoding; Reolink settings and Baichuan*: reading, writing, and
  presentation.
- *Static files, logs, formatting, scripts, other vendored code*: no state that a property
  is about.

## Plan

1. The sliding windows of the rate limiters, with `stfu`; the race of listings in the
   directory of pictures.
2. Handlers of heating at the grain of their statements, with the flag they share.
3. `zmw_sensormon`'s monitors, `zz2m`'s buttons, composites and extras.
4. A proof that what overlapping requests leave unsent (`overlapped`) is at most their own
   values; at present `QuietAgrees` excuses such a service altogether.

## Running

In this directory:

    tlc -workers 2 -config HeatingRules.cfg HeatingRules
    tlc -workers 2 -config ContactMon.cfg MCContactMon
    tlapm HeatingRules_proofs.tla

Each configuration is run with the module of the same name, or with the `MC` module where
there is one. A run takes less than three minutes; the largest state space is that of
`sonos_ctrl`, with 3.2 million states.
