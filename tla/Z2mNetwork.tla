----------------------------- MODULE Z2mNetwork -----------------------------
(***************************************************************************)
(* The services around the replicas of Z2mThing (zz2m: z2mproxy.py,        *)
(* thing.py, light_helpers.py, www.py; zmw_lights, zmw_cronenbergs): how   *)
(* they learn from the published list of devices that the thing exists and *)
(* is a light, what the pages and the scheduled jobs do with it, and what  *)
(* a restart loses.  The value of Z2mThing is the light's "state".  A list *)
(* that is published while zigbee2mqtt still interviews the device has no  *)
(* definition of it: no type, and no actions.                              *)
(***************************************************************************)
EXTENDS Z2mThing

CONSTANTS
    On, Off,
    ByType,      \* services that are interested in lights; the others, in any thing
    Cron,        \* services with the scheduled jobs of zmw_cronenbergs
    MaxCrashes,  \* bound: services that die
    MaxLists,    \* bound: lists published after the first
    MaxIncidents \* bound: of these, requests and changes at the device together

ASSUME Z2mNetworkAssumption ==
    /\ Values = {On, Off}
    /\ On # Off
    /\ ByType \subseteq Services
    /\ Cron \subseteq Services
    /\ MaxCrashes \in Nat
    /\ MaxLists \in Nat
    /\ MaxIncidents \in Nat

VARIABLES
    known,        \* what each service has of the thing in _known_things
    interviewed,  \* zigbee2mqtt knows what the device is
    bright,       \* services whose brightness needs propagation
    chosen,       \* services with this light in their _vacations_selected_lights
    crashes,      \* bound: services that died
    lists         \* bound: lists published

netVars == <<known, interviewed, bright, chosen, crashes, lists>>

allVars == <<thingVars, netVars>>

\* The list of devices, with or without the definition of this one, and a set of
\* the brightness alone, which switches the light on.
BareList == "bare list"
FullList == "full list"
Bright == "bright"

Lists == {BareList, FullList}

\* Messages, and a value that is not there, are told apart.
ASSUME MessagesAssumption == Values \cap (Lists \cup {Bright, Nothing}) = {}

Knowledge == {"nothing", "ignored", "bare", "light"}

NetTypeOK ==
    /\ known \in [Services -> Knowledge]
    /\ current \in [Services -> Values \cup {Nothing}]
    /\ wire \in [Services -> Seq(Values \cup Lists)]
    /\ sets \in Seq(Values \cup {Bright})
    /\ bright \in SUBSET Services
    /\ chosen \in SUBSET Cron

TheList(done) == IF done THEN FullList ELSE BareList

\* Services have connected; zigbee2mqtt's list of devices is retained, the states
\* of the devices are not.
NetInit ==
    /\ interviewed \in BOOLEAN
    /\ known = [s \in Services |-> "nothing"]
    /\ device \in Values
    /\ current = [s \in Services |-> Nothing]
    /\ pending = [s \in Services |-> FALSE]
    /\ mqtt = [s \in Services |-> Nothing]
    /\ user = [t \in Services \X Users |-> Idle]
    /\ wire = [s \in Services |-> <<TheList(interviewed)>>]
    /\ sets = <<>>
    /\ overlapped = {}
    /\ rejected = {}
    /\ requests = 0
    /\ presses = 0
    /\ bright = {}
    /\ chosen = {}
    /\ crashes = 0
    /\ lists = 0

\* One more of the things that start something.
Incident == requests + presses + crashes + lists < MaxIncidents

-----------------------------------------------------------------------------
(* Discovery *)

\* Both callbacks of an ignored thing and those of a known one are left in the list
\* of rules; a thing that is in _known_things is never looked at again.
Unknown(s) == known[s] \in {"nothing", "ignored"}

\* parse_from_zigbee2mqtt, with the definition that the list has of the thing.
Parsed(list) == IF list = FullList THEN "light" ELSE "bare"

Interesting(s, thing) == s \in ByType => thing = "light"

LearnedOnce(s, list) ==
    LET thing == Parsed(list) IN
    IF known[s] # "nothing" THEN known[s]
    ELSE IF Interesting(s, thing) THEN thing
    ELSE "ignored"

Learned(s, list) ==
    LET thing == Parsed(list) IN
    IF ~Unknown(s) THEN known[s]
    ELSE IF Interesting(s, thing) THEN thing
    ELSE "ignored"

\* _on_msg_device_list_published
Discover(s) ==
    /\ Deliver(s)
    /\ Head(wire[s]) \in Lists
    /\ known' = [known EXCEPT ![s] = Learned(s, Head(wire[s]))]
    /\ UNCHANGED <<current, pending, mqtt, user, sets, device, overlapped, rejected,
                   requests, presses, interviewed, bright, chosen, crashes, lists>>

\* No rule for the topic, or one that ignores the message.
Unhandled(s) ==
    /\ Deliver(s)
    /\ Head(wire[s]) \in Values
    /\ Unknown(s)
    /\ UNCHANGED <<current, pending, mqtt, user, sets, device, overlapped, rejected,
                   requests, presses, netVars>>

\* The MQTT thread with a message for a known thing.  A bare thing has no action for
\* it: on_mqtt_update makes one, and handles the message again.
Handle(s) ==
    /\ mqtt[s] = Nothing => wire[s] # <<>> /\ Head(wire[s]) \in Values
    /\ ~Unknown(s)
    /\ MqttStep(s)
    /\ UNCHANGED netVars

-----------------------------------------------------------------------------
(* Requests: pages and jobs, on threads of their own *)

\* The thing has an action "state": from its definition, or made for a message.
HasState(s) == known[s] = "light" \/ (known[s] = "bare" /\ current[s] # Nothing)

\* The service, if a request is being handled in it.
Busy(s) == {r \in {s} : \E u \in Users : user[<<r, u>>] # Idle}

\* PUT /z2m/set, /all_lights_on and /all_lights_off.  What zigbee2mqtt would reject
\* is only asked of a thing that has a definition.
Request(t, val) ==
    /\ HasState(Svc(t))
    /\ val = Invalid => known[Svc(t)] = "light"
    /\ Set(t, val)
    /\ UNCHANGED netVars

\* PUT /z2m/set of a valid value and then of something the thing does not have: the
\* answer is an error, the first value stays, and nobody is told of it.
HalfFails(t, val) ==
    /\ HasState(Svc(t))
    /\ user[t] = Idle
    /\ requests < MaxSets
    /\ requests' = requests + 1
    /\ pending' = [pending EXCEPT ![Svc(t)] = TRUE]
    /\ current' = [current EXCEPT ![Svc(t)] = val]
    /\ rejected' = rejected \cup {Svc(t)}
    /\ overlapped' = overlapped \cup Busy(Svc(t))
    /\ UNCHANGED <<mqtt, user, wire, sets, device, presses, netVars>>

\* _check_and_turn_off_lights: if it is on for all we know.
MorningCheck(t) ==
    /\ Svc(t) \in Cron
    /\ known[Svc(t)] = "light"
    /\ current[Svc(t)] = On
    /\ Set(t, Off)
    /\ UNCHANGED netVars

\* _vacations_mode_night: turn_all_lights_off, just in case.
Night(t) ==
    /\ Svc(t) \in Cron
    /\ known[Svc(t)] = "light"
    /\ Set(t, Off)
    /\ UNCHANGED netVars

\* set_brightness_pct: the state of the light is left alone.
SetBright(t) ==
    /\ user[t] = Idle
    /\ requests < MaxSets
    /\ requests' = requests + 1
    /\ bright' = bright \cup {Svc(t)}
    /\ Goto(t, "broadcast", Nothing)
    /\ overlapped' = overlapped \cup Busy(Svc(t))

\* _vacations_mode_late_afternoon picks half of the lights ...
LateAfternoon(t) ==
    /\ Svc(t) \in Cron
    /\ known[Svc(t)] = "light"
    /\ \/ /\ chosen' = chosen \cup {Svc(t)}
          /\ SetBright(t)
       \/ /\ chosen' = chosen \ {Svc(t)}
          /\ user[t] = Idle
          /\ UNCHANGED <<user, bright, overlapped, requests>>
    /\ UNCHANGED <<current, pending, mqtt, wire, sets, device, rejected, presses,
                   known, interviewed, crashes, lists>>

\* ... and _vacations_mode_evening dims those, if the service still knows them.
Evening(t) ==
    /\ Svc(t) \in Cron
    /\ Svc(t) \in chosen
    /\ SetBright(t)
    /\ UNCHANGED <<current, pending, mqtt, wire, sets, device, rejected, presses,
                   known, interviewed, chosen, crashes, lists>>

\* broadcast_thing with an update of the state to send, or with none at all.
BroadcastState(t) ==
    /\ pending[Svc(t)] \/ Svc(t) \notin bright
    /\ Broadcast(t)
    /\ bright' = bright \ {Svc(t)}
    /\ UNCHANGED <<known, interviewed, chosen, crashes, lists>>

\* Only the brightness: no replica's state changes before the device says so.
BroadcastBright(t) ==
    /\ user[t].at = "broadcast"
    /\ ~pending[Svc(t)]
    /\ Svc(t) \in bright
    /\ bright' = bright \ {Svc(t)}
    /\ sets' = Append(sets, Bright)
    /\ rejected' = rejected \ {Svc(t)}
    /\ Goto(t, "idle", Nothing)
    /\ UNCHANGED <<current, pending, mqtt, wire, device, overlapped, requests, presses,
                   known, interviewed, chosen, crashes, lists>>

\* Another thread's request has raised the flag and not stored anything yet: a value
\* that was never known is sent as off.
ReadNothing(t) ==
    /\ user[t].at = "read"
    /\ current[Svc(t)] = Nothing
    /\ Goto(t, "publish", Off)
    /\ UNCHANGED <<current, pending, mqtt, wire, sets, device, overlapped, rejected,
                   requests, presses, netVars>>

ReadState(t) ==
    /\ current[Svc(t)] # Nothing
    /\ Read(t)
    /\ UNCHANGED netVars

RequestStep(t) ==
    \/ (Reject(t) \/ Store(t) \/ Publish(t)) /\ UNCHANGED netVars
    \/ ReadState(t)
    \/ ReadNothing(t)
    \/ BroadcastState(t)
    \/ BroadcastBright(t)

-----------------------------------------------------------------------------
(* Zigbee2mqtt and the device *)

DeviceStep ==
    /\ sets # <<>> => Head(sets) # Bright
    /\ DeviceSet
    /\ UNCHANGED netVars

DeviceBrightened ==
    /\ sets # <<>>
    /\ Head(sets) = Bright
    /\ device' = On
    /\ sets' = Tail(sets)
    /\ ToAll(On)
    /\ UNCHANGED <<current, pending, mqtt, user, overlapped, rejected, requests, presses,
                   netVars>>

\* A list is published again when something changed: the interview has ended, or
\* some other device.
PublishList ==
    /\ lists < MaxLists
    /\ lists' = lists + 1
    /\ interviewed' \in {TRUE, interviewed}
    /\ wire' = [s \in Services |-> Append(wire[s], TheList(interviewed'))]
    /\ UNCHANGED <<current, pending, mqtt, user, sets, device, overlapped, rejected,
                   requests, presses, known, bright, chosen, crashes>>

-----------------------------------------------------------------------------
(* The process *)

\* All it knew is gone, and what was on its way to it; it connects and gets the list.
StartOver(s) ==
    /\ current' = [current EXCEPT ![s] = Nothing]
    /\ pending' = [pending EXCEPT ![s] = FALSE]
    /\ mqtt' = [mqtt EXCEPT ![s] = Nothing]
    /\ user' = [t \in Services \X Users |-> IF Svc(t) = s THEN Idle ELSE user[t]]
    /\ wire' = [wire EXCEPT ![s] = <<TheList(interviewed)>>]
    /\ overlapped' = overlapped \ {s}
    /\ rejected' = rejected \ {s}
    /\ known' = [known EXCEPT ![s] = "nothing"]
    /\ bright' = bright \ {s}
    /\ chosen' = chosen \ {s}
    /\ UNCHANGED <<sets, device, requests, presses, interviewed, lists>>

Crash(s) ==
    /\ crashes < MaxCrashes
    /\ crashes' = crashes + 1
    /\ StartOver(s)

\* _z2m_connect_check: three seconds without a list, and the service kills itself to
\* try again.
ConnectCheck(s) ==
    /\ known[s] = "nothing"
    /\ StartOver(s)
    /\ UNCHANGED crashes

-----------------------------------------------------------------------------

NetStep(s) == Discover(s) \/ Unhandled(s) \/ Handle(s)

NetNext ==
    \/ /\ Incident
       /\ \/ \E t \in Services \X Users :
                \/ \E val \in Values \cup {Invalid} : Request(t, val)
                \/ \E val \in Values : HalfFails(t, val)
                \/ MorningCheck(t)
                \/ Night(t)
                \/ LateAfternoon(t)
                \/ Evening(t)
          \/ \E s \in Services : Crash(s)
          \/ DevicePressed /\ UNCHANGED netVars
          \/ PublishList
    \/ \E t \in Services \X Users : RequestStep(t)
    \/ \E s \in Services : NetStep(s) \/ ConnectCheck(s)
    \/ DeviceStep
    \/ DeviceBrightened

\* Threads go on, and messages arrive.
NetFairness ==
    /\ \A t \in Services \X Users : WF_allVars(RequestStep(t))
    /\ \A s \in Services : WF_allVars(NetStep(s))
    /\ WF_allVars(DeviceStep \/ DeviceBrightened)

NetSpec == NetInit /\ [][NetNext]_allVars /\ NetFairness

-----------------------------------------------------------------------------
(* Properties *)

\* A service that restarted knows nothing of the light until it changes; the others,
\* and those two of Z2mThing, are excused.
NetExcused(s) == Excused(s) \/ current[s] = Nothing

\* Whenever nothing is on its way and nobody is at work, what a service has of the
\* light is what the device has: no order of requests, messages and changes at the
\* light itself leaves a service with an old value that nothing will correct.
QuietAgrees == Quiet => \A s \in Services : NetExcused(s) \/ current[s] = device

\* Requests end, and what the services that know the light have of it settles on what
\* the device has, whatever requests, jobs, messages, lists and restarts raced.
NetSettles == <>[](\A s \in Services : NetExcused(s) \/ current[s] = device)

\* A service that is after lights learns of it, also when it had to ignore the thing
\* in the lists before, and after each restart (z2mproxy.py: _is_thing_unknown).
LightIsListed == <>[](interviewed => \A s \in ByType : known[s] = "light")

=============================================================================
