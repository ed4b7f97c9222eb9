------------------------------ MODULE Z2mThing ------------------------------
(***************************************************************************)
(* One value of one Zigbee thing, and the replicas of it that the services *)
(* keep (zz2m: Zigbee2MqttActionValue of thing.py, broadcast_thing and the *)
(* topics of z2mproxy.py).  A service hears all of zigbee2mqtt, its own    *)
(* sets included, on its MQTT thread; users set the value and broadcast it *)
(* from other threads, with no lock.  Zigbee2mqtt, the broker and the      *)
(* device are the environment: it keeps the messages in order, and         *)
(* publishes the state of the device after each change.                    *)
(***************************************************************************)
EXTENDS Naturals, Sequences

CONSTANTS
    Services,    \* the services that know the thing
    Users,       \* the threads of a service that handle user requests
    Values,      \* what the value may be
    Invalid,     \* something it may not be
    MaxSets,     \* bound: user requests in a behaviour
    MaxPresses   \* bound: changes made at the device itself

ASSUME Z2mThingAssumption ==
    /\ Invalid \notin Values
    /\ MaxSets \in Nat
    /\ MaxPresses \in Nat

VARIABLES
    current,   \* _current, in each service
    pending,   \* _needs_mqtt_propagation, in each service
    mqtt,      \* the MQTT thread of each service: what it is about to store
    user,      \* the user threads: where they are, and with which value
    wire,      \* messages on their way to each service
    sets,      \* /set messages on their way to the device
    device,    \* the value the device has
    overlapped, \* history: services that handled two requests at a time
    rejected,  \* history: services that broadcast nothing since they rejected a request
    requests,  \* bound: user requests so far
    presses    \* bound: changes at the device so far

thingVars == <<current, pending, mqtt, user, wire, sets, device, overlapped,
          rejected, requests, presses>>

Nothing == "nothing"

Anything == Values \cup {Invalid, Nothing}

UserSteps == {"idle", "store", "broadcast", "read", "publish"}

\* The state; a replica only ever has values that are valid.
ThingTypeOK ==
    /\ current \in [Services -> Values]
    /\ pending \in [Services -> BOOLEAN]
    /\ mqtt \in [Services -> Values \cup {Nothing}]
    /\ user \in [Services \X Users -> [at : UserSteps, val : Anything]]
    /\ wire \in [Services -> Seq(Values)]
    /\ sets \in Seq(Values)
    /\ device \in Values
    /\ overlapped \in SUBSET Services
    /\ rejected \in SUBSET Services
    /\ requests \in 0 .. MaxSets
    /\ presses \in 0 .. MaxPresses

Idle == [at |-> "idle", val |-> Nothing]

\* Every service has heard of the state of the device.
ThingInit ==
    /\ device \in Values
    /\ current = [s \in Services |-> device]
    /\ pending = [s \in Services |-> FALSE]
    /\ mqtt = [s \in Services |-> Nothing]
    /\ user = [t \in Services \X Users |-> Idle]
    /\ wire = [s \in Services |-> <<>>]
    /\ sets = <<>>
    /\ overlapped = {}
    /\ rejected = {}
    /\ requests = 0
    /\ presses = 0

-----------------------------------------------------------------------------
(* A user request; t is a service and one of its threads *)

Svc(t) == t[1]

Goto(t, step, val) == user' = [user EXCEPT ![t] = [at |-> step, val |-> val]]

\* The broker hands a message to all services.
ToAll(val) == wire' = [s \in Services |-> Append(wire[s], val)]

\* set_value raises the flag before it looks at the value ...
Set(t, val) ==
    /\ user[t] = Idle
    /\ requests < MaxSets
    /\ requests' = requests + 1
    /\ pending' = [pending EXCEPT ![Svc(t)] = TRUE]
    /\ Goto(t, "store", val)
    /\ overlapped' = overlapped \cup {s \in {Svc(t)} : \E u \in Users : user[<<s, u>>] # Idle}
    /\ UNCHANGED <<current, mqtt, wire, sets, device, rejected, presses>>

\* ... an invalid one ends the request, and leaves the flag up ...
Reject(t) ==
    /\ user[t].at = "store"
    /\ user[t].val = Invalid
    /\ Goto(t, "idle", Nothing)
    /\ rejected' = rejected \cup {Svc(t)}
    /\ UNCHANGED <<current, pending, mqtt, wire, sets, device, overlapped, requests,
                   presses>>

\* ... a valid one is stored.
Store(t) ==
    /\ user[t].at = "store"
    /\ user[t].val # Invalid
    /\ current' = [current EXCEPT ![Svc(t)] = user[t].val]
    /\ Goto(t, "broadcast", Nothing)
    /\ UNCHANGED <<pending, mqtt, wire, sets, device, overlapped, rejected, requests,
                   presses>>

BroadcastKeepsFlag(t) ==
    /\ user[t].at = "broadcast"
    /\ Goto(t, IF pending[Svc(t)] THEN "read" ELSE "idle", Nothing)
    /\ rejected' = rejected \ {Svc(t)}
    /\ UNCHANGED <<current, pending, mqtt, wire, sets, device, overlapped, requests,
                   presses>>

\* broadcast_thing: get_value_for_mqtt_status_update takes the flag down ...
Broadcast(t) ==
    /\ user[t].at = "broadcast"
    /\ Goto(t, IF pending[Svc(t)] THEN "read" ELSE "idle", Nothing)
    /\ pending' = [pending EXCEPT ![Svc(t)] = FALSE]
    /\ rejected' = rejected \ {Svc(t)}
    /\ UNCHANGED <<current, mqtt, wire, sets, device, overlapped, requests, presses>>

\* ... then reads the value ...
Read(t) ==
    /\ user[t].at = "read"
    /\ Goto(t, "publish", current[Svc(t)])
    /\ UNCHANGED <<current, pending, mqtt, wire, sets, device, overlapped, rejected,
                   requests, presses>>

\* ... and publishes it: to the device, and to every service.
Publish(t) ==
    /\ user[t].at = "publish"
    /\ Goto(t, "idle", Nothing)
    /\ sets' = Append(sets, user[t].val)
    /\ ToAll(user[t].val)
    /\ UNCHANGED <<current, pending, mqtt, device, overlapped, rejected, requests,
                   presses>>

-----------------------------------------------------------------------------
(* The MQTT thread of a service *)

Deliver(s) ==
    /\ mqtt[s] = Nothing
    /\ wire[s] # <<>>
    /\ wire' = [wire EXCEPT ![s] = Tail(@)]

\* set_value_from_mqtt_update with a user update pending: the message is ignored,
\* but on_mqtt_update calls the callback all the same.
Ignore(s) ==
    /\ Deliver(s)
    /\ pending[s]
    /\ UNCHANGED <<current, pending, mqtt, user, sets, device, overlapped, rejected,
                   requests, presses>>

\* No user update is pending, says set_value_from_mqtt_update ...
Accept(s) ==
    /\ Deliver(s)
    /\ ~pending[s]
    /\ mqtt' = [mqtt EXCEPT ![s] = Head(wire[s])]
    /\ UNCHANGED <<current, pending, user, sets, device, overlapped, rejected,
                   requests, presses>>

\* ... and stores the value, and calls the callback.
Update(s) ==
    /\ mqtt[s] # Nothing
    /\ current' = [current EXCEPT ![s] = mqtt[s]]
    /\ mqtt' = [mqtt EXCEPT ![s] = Nothing]
    /\ UNCHANGED <<pending, user, wire, sets, device, overlapped, rejected, requests,
                   presses>>

-----------------------------------------------------------------------------
(* Zigbee2mqtt and the device *)

DeviceSet ==
    /\ sets # <<>>
    /\ device' = Head(sets)
    /\ sets' = Tail(sets)
    /\ ToAll(device')
    /\ UNCHANGED <<current, pending, mqtt, user, overlapped, rejected, requests,
                   presses>>

\* Somebody uses the device itself.
DevicePressed ==
    /\ presses < MaxPresses
    /\ presses' = presses + 1
    /\ device' \in Values \ {device}
    /\ ToAll(device')
    /\ UNCHANGED <<current, pending, mqtt, user, sets, overlapped, rejected, requests>>

-----------------------------------------------------------------------------

UserStep(t) == Reject(t) \/ Store(t) \/ Broadcast(t) \/ Read(t) \/ Publish(t)

MqttStep(s) == Ignore(s) \/ Accept(s) \/ Update(s)

ThingNext ==
    \/ \E t \in Services \X Users : \/ \E val \in Values \cup {Invalid} : Set(t, val)
                                    \/ UserStep(t)
    \/ \E s \in Services : MqttStep(s)
    \/ DeviceSet
    \/ DevicePressed

\* Threads go on, and messages arrive.
ThingFairness ==
    /\ \A t \in Services \X Users : WF_thingVars(UserStep(t))
    /\ \A s \in Services : WF_thingVars(MqttStep(s))
    /\ WF_thingVars(DeviceSet)

ThingSpec == ThingInit /\ [][ThingNext]_thingVars /\ ThingFairness

-----------------------------------------------------------------------------
(* Properties *)

\* Nothing is on its way, and no thread is in the middle of something.
Quiet ==
    /\ sets = <<>>
    /\ \A s \in Services : wire[s] = <<>> /\ mqtt[s] = Nothing
    /\ \A t \in Services \X Users : user[t] = Idle

\* A service whose last request was rejected ignores what it hears until the next
\* one, and one that handled two requests at a time may have left one unsent.
Excused(s) == s \in rejected \/ s \in overlapped

\* Requests end, and the replicas settle on what the device has, whatever user
\* requests, changes at the device and messages raced, and whoever won.
Settles == <>[](\A s \in Services : Excused(s) \/ current[s] = device)

\* set_value raises the flag though "the set may fail, but it's a good enough
\* heuristic: if a propagation isn't needed, there's no bad side effect other than an
\* extra message": a rejected request leaves the replica as good as it was.
RejectIsHarmless ==
    Quiet => \A s \in Services : s \in rejected => s \in overlapped \/ current[s] = device

=============================================================================
