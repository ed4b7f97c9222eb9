----------------------------- MODULE ServiceDeps -----------------------------
(***************************************************************************)
(* How a ZMW service keeps track of the services it depends on, over MQTT  *)
(* (zmw_mqtt_service.py, zmw_mqtt_base.py).                                *)
(*                                                                         *)
(* Two threads of the service share its state: the MQTT loop, which handles *)
(* announcements one at a time, and the scheduler, which runs the check for *)
(* stale dependencies.  The dependencies start, stop and crash; the broker *)
(* delivers what they publish in order, and drops it while the service is  *)
(* not connected.  One check is one ping period, so an age is the number of *)
(* checks since the dependency was last seen.                              *)
(***************************************************************************)
EXTENDS Naturals, Sequences, FiniteSets

CONSTANTS
    Deps,        \* _svc_deps
    Topics,      \* the MQTT topics dependencies publish under
    NoTopic,     \* mqtt_topic is None
    Unknown,     \* not in _known_services
    MaxEvents,   \* bound: starts, stops and crashes of dependencies
    MaxOutages,  \* bound: times the connection to the broker is lost
    MaxWire      \* bound: messages of a dependency in flight

\* A dependency that is not running.
Down == "down"

ASSUME ConstantsAssumption ==
    /\ Deps # {}
    /\ IsFiniteSet(Deps)
    /\ NoTopic \notin Topics
    /\ Down \notin Topics \cup {NoTopic}
    /\ Unknown \notin Topics \cup {NoTopic}
    /\ MaxEvents \in Nat
    /\ MaxOutages \in Nat
    /\ MaxWire \in Nat \ {0}

\* _dep_stale_timeout is three ping periods, so the check that finds a
\* dependency stale is the fourth one since it was last seen.
MissedPings == 3

VARIABLES
    known,       \* _known_services: the topic of each known dependency
    age,         \* checks since its last_seen
    callbacks,   \* _topics_with_cb, but for the topics of the service itself
    subscribed,  \* the filters of those topics the broker holds for this session
    allAlive,    \* _all_deps_alive
    firstStart,  \* _first_start_ran
    link,        \* the MQTT loop: connected, not connected, or gone
    job,         \* where the scheduler is in the check
    stales,      \* _check_deps_alive's list, what is left to drop
    pingDue,     \* _check_deps_alive found a dependency that is old
    depState,    \* the dependency itself: down, or up with a topic
    wire,        \* what the broker has still to deliver of each dependency
    pinged,      \* dependencies that have not yet answered a ping
    late,        \* what was in flight at the last check
    steady,      \* history: up, and reachable, since they were last seen
    events, outages

vars == <<known, age, callbacks, subscribed, allAlive, firstStart, link, job,
          stales, pingDue, depState, wire, pinged, late, steady, events, outages>>

clientVars == <<known, age, callbacks, subscribed, allAlive, firstStart>>
checkVars  == <<job, stales, pingDue, late>>

-----------------------------------------------------------------------------

Message == [kind : {"announce", "leaving"}, topic : Topics \cup {NoTopic}]

\* get_missing_deps
Missing == {d \in Deps : known[d] = Unknown}

Pending(d) == wire[d] # <<>> \/ d \in pinged

Up == {d \in Deps : depState[d] # Down}

Init ==
    /\ known = [d \in Deps |-> Unknown]
    /\ age = [d \in Deps |-> 0]
    /\ callbacks = {}
    /\ subscribed = {}
    /\ allAlive = FALSE
    /\ firstStart = FALSE
    /\ link = "down"
    /\ job = "startup"
    /\ stales = {}
    /\ pingDue = FALSE
    /\ depState \in [Deps -> Topics \cup {NoTopic, Down}]
    /\ wire = [d \in Deps |-> <<>>]
    /\ pinged = {}
    /\ late = {}
    /\ steady = {}
    /\ events = 0
    /\ outages = 0

-----------------------------------------------------------------------------
(* The connection to the broker *)

\* _on_connect subscribes to every topic with a callback, followed by /#.  The
\* topic of a dependency already ends in it, and the client library refuses
\* topic/#/# with an exception, which ends the MQTT loop.
Connect ==
    /\ link = "down"
    /\ link' = IF callbacks = {} THEN "up" ELSE "gone"
    /\ subscribed' = {}
    /\ UNCHANGED <<known, age, callbacks, allAlive, firstStart, checkVars, depState,
                   wire, pinged, steady, events, outages>>

\* The session is not persistent: its subscriptions and messages are lost.
Disconnect ==
    /\ link = "up"
    /\ outages < MaxOutages
    /\ outages' = outages + 1
    /\ link' = "down"
    /\ subscribed' = {}
    /\ wire' = [d \in Deps |-> <<>>]
    /\ steady' = {}
    /\ UNCHANGED <<known, age, callbacks, allAlive, firstStart, checkVars, depState,
                   pinged, events>>

-----------------------------------------------------------------------------
(* The dependencies *)

\* What a dependency publishes reaches the service only while it is connected.
Publish(d, kind, topic) ==
    /\ Len(wire[d]) < MaxWire
    /\ wire' = IF link = "up"
               THEN [wire EXCEPT ![d] = Append(@, [kind |-> kind, topic |-> topic])]
               ELSE wire

DepEvent ==
    /\ events < MaxEvents
    /\ events' = events + 1
    /\ UNCHANGED <<clientVars, checkVars, link, outages>>

\* A dependency announces itself when it connects; restarted by an upgrade, it
\* may publish under another topic.
DepStart(d, topic) ==
    /\ depState[d] = Down
    /\ depState' = [depState EXCEPT ![d] = topic]
    /\ Publish(d, "announce", topic)
    /\ DepEvent
    /\ UNCHANGED <<pinged, steady>>

DepStop(d) ==
    /\ d \in Up
    /\ depState' = [depState EXCEPT ![d] = Down]
    /\ Publish(d, "leaving", depState[d])
    /\ pinged' = pinged \ {d}
    /\ steady' = steady \ {d}
    /\ DepEvent

DepCrash(d) ==
    /\ d \in Up
    /\ depState' = [depState EXCEPT ![d] = Down]
    /\ pinged' = pinged \ {d}
    /\ steady' = steady \ {d}
    /\ UNCHANGED wire
    /\ DepEvent

\* on_service_discovery_ping in the dependency.
DepAnswers(d) ==
    /\ d \in pinged
    /\ pinged' = pinged \ {d}
    /\ Publish(d, "announce", depState[d])
    /\ UNCHANGED <<clientVars, checkVars, link, depState, steady, events, outages>>

\* A ping is published over a connection of its own.  When the service has lost
\* its connection, the broker may be gone for everyone.
Ping ==
    \/ pinged' = Up
    \/ link # "up" /\ pinged' = pinged

-----------------------------------------------------------------------------
(* The MQTT loop: _on_service_updown *)

\* The end of _on_service_updown: the service hears of it when its last missing
\* dependency comes up for the first time, and when a first one goes missing.
ReportHealth ==
    LET healthy == \A d \in Deps : known'[d] # Unknown
    IN  /\ allAlive' = healthy
        /\ firstStart' = (firstStart \/ (healthy /\ ~allAlive))

Receive(d, kind) ==
    /\ link = "up"
    /\ wire[d] # <<>>
    /\ Head(wire[d]).kind = kind
    /\ wire' = [wire EXCEPT ![d] = Tail(@)]
    /\ UNCHANGED <<link, checkVars, depState, pinged, events, outages>>

\* A dependency that is up when its announcement is handled.
Seen(d) ==
    /\ age' = [age EXCEPT ![d] = 0]
    /\ steady' = IF depState[d] = Head(wire[d]).topic THEN steady \cup {d} ELSE steady

HearAgainByCallback(d) ==
    LET topic == Head(wire[d]).topic
    IN  /\ Receive(d, "announce")
        /\ Seen(d)
        /\ known[d] = topic \/ topic \in callbacks
        /\ known' = [known EXCEPT ![d] = topic]
        /\ UNCHANGED <<callbacks, subscribed, allAlive, firstStart>>

\* Known under the same topic: only last_seen changes.
HearAgain(d) ==
    /\ Receive(d, "announce")
    /\ Seen(d)
    /\ known[d] = Head(wire[d]).topic
    /\ UNCHANGED <<known, callbacks, subscribed, allAlive, firstStart>>

\* New, or known under another topic, whose callback stays where it is.
HearNew(d) ==
    LET topic == Head(wire[d]).topic
    IN  /\ Receive(d, "announce")
        /\ Seen(d)
        /\ known[d] # topic
        /\ known' = [known EXCEPT ![d] = topic]
        /\ callbacks' = callbacks \cup ({topic} \ {NoTopic})
        /\ subscribed' = subscribed \cup ({topic} \ {NoTopic})
        /\ ReportHealth

HearLeaving(d) ==
    /\ Receive(d, "leaving")
    /\ known' = [known EXCEPT ![d] = Unknown]
    /\ ReportHealth
    /\ UNCHANGED <<age, callbacks, subscribed, steady>>

-----------------------------------------------------------------------------
(* The scheduler: _check_deps_alive *)

\* The first ping, a second after the service starts.
StartupPing ==
    /\ job = "startup"
    /\ job' = "idle"
    /\ Ping
    /\ UNCHANGED <<clientVars, link, stales, pingDue, late, depState, wire, steady,
                   events, outages>>

\* A ping period has passed: nothing stays in flight for as long as that.
PeriodPassed == \A d \in late : ~Pending(d)

\* The first loop over the known services.
CollectWith(limit) ==
    LET grown == [d \in Deps |-> IF known[d] # Unknown /\ age[d] <= MissedPings
                                 THEN age[d] + 1 ELSE age[d]]
    IN  /\ job = "idle"
        /\ PeriodPassed
        /\ age' = grown
        /\ late' = {d \in Deps : Pending(d)}
        /\ stales' = {d \in Deps \ Missing : grown[d] > limit}
        /\ pingDue' = \E d \in Deps \ Missing : grown[d] > 1
        /\ job' = "dropping"
        /\ UNCHANGED <<known, callbacks, subscribed, allAlive, firstStart, link,
                       depState, wire, pinged, steady, events, outages>>

CollectEarly == CollectWith(MissedPings - 1)

Collect == CollectWith(MissedPings)

DropNothing(d) ==
    /\ job = "dropping"
    /\ d \in stales
    /\ stales' = stales \ {d}
    /\ UNCHANGED <<clientVars, link, job, pingDue, late, depState, wire, pinged,
                   steady, events, outages>>

\* The second loop.  The MQTT loop may have handled an announcement since.
Drop(d) ==
    /\ job = "dropping"
    /\ d \in stales
    /\ stales' = stales \ {d}
    /\ known' = [known EXCEPT ![d] = Unknown]
    /\ UNCHANGED <<age, callbacks, subscribed, allAlive, firstStart, link, job,
                   pingDue, late, depState, wire, pinged, steady, events, outages>>

\* The ping that ends the check, when some dependency is old.
FinishCheck ==
    /\ job = "dropping"
    /\ stales = {}
    /\ job' = "idle"
    /\ pingDue' = FALSE
    /\ IF pingDue THEN Ping ELSE UNCHANGED pinged
    /\ UNCHANGED <<clientVars, link, stales, late, depState, wire, steady,
                   events, outages>>

-----------------------------------------------------------------------------

Next ==
    \/ Connect
    \/ Disconnect
    \/ \E d \in Deps, topic \in Topics \cup {NoTopic} : DepStart(d, topic)
    \/ \E d \in Deps : \/ DepStop(d)
                       \/ DepCrash(d)
                       \/ DepAnswers(d)
                       \/ HearAgain(d)
                       \/ HearNew(d)
                       \/ HearLeaving(d)
                       \/ Drop(d)
    \/ StartupPing
    \/ Collect
    \/ FinishCheck

\* The scheduler runs its jobs to the end, and while the loop runs the broker
\* delivers; a dependency that is up answers.
Fairness ==
    /\ WF_vars(Connect)
    /\ WF_vars(StartupPing)
    /\ WF_vars(Collect)
    /\ WF_vars(FinishCheck)
    /\ \A d \in Deps : /\ WF_vars(Drop(d))
                       /\ WF_vars(DepAnswers(d))
                       /\ WF_vars(HearAgain(d) \/ HearNew(d) \/ HearLeaving(d))

Spec == Init /\ [][Next]_vars /\ Fairness

-----------------------------------------------------------------------------
(* Properties *)

\* The state; the age of a dependency never passes the limit of missed pings.
TypeOK ==
    /\ known \in [Deps -> Topics \cup {NoTopic, Unknown}]
    /\ age \in [Deps -> 0 .. MissedPings + 1]
    /\ callbacks \subseteq Topics
    /\ subscribed \subseteq Topics
    /\ allAlive \in BOOLEAN
    /\ firstStart \in BOOLEAN
    /\ link \in {"down", "up", "gone"}
    /\ job \in {"startup", "idle", "dropping"}
    /\ stales \subseteq Deps
    /\ pingDue \in BOOLEAN
    /\ depState \in [Deps -> Topics \cup {NoTopic, Down}]
    /\ wire \in [Deps -> Seq(Message)]
    /\ pinged \subseteq Deps
    /\ late \subseteq Deps
    /\ steady \subseteq Deps
    /\ events \in 0 .. MaxEvents
    /\ outages \in 0 .. MaxOutages

\* A dependency that has been up and reachable ever since it was last seen is
\* never found stale: the pings of the checks in between come early enough.
NoFalseStale ==
    [][\A d \in Deps : d \in stales' \ stales => d \notin steady]_vars

\* As soon as every dependency is known the service has been told so, whatever
\* order announcements, departures and stale drops come in: no early return of
\* _on_service_updown leaves a service waiting for its dependencies.
AllKnownIsHealthy == Missing = {} => allAlive /\ firstStart

\* A dependency that is down for good is eventually not known, even if it never
\* said goodbye, so message_svc raises instead of talking to nobody.
DownDepForgotten ==
    \A d \in Deps : <>[](depState[d] = Down) => <>[](known[d] = Unknown)

\* on_service_deps_missing is "Called when some required dependencies go missing
\* after startup"; _all_deps_alive is cleared only where it is called.
MissingDepsReported == firstStart /\ allAlive => Missing = {}

\* subscribe_with_cb: "If not subscribed this is a noop, but it will be repeated
\* when connecting".
SubscriptionsRepeated == link # "down" => callbacks \subseteq subscribed

=============================================================================
