------------------------------ MODULE Dashboard ------------------------------
(***************************************************************************)
(* The dashboard (zmw_dashboard.py), from the start of its process to its  *)
(* end, on top of the dependencies it discovers (ServiceDeps): it finds    *)
(* out where they serve the web (service_magic_proxy.py), starts its own   *)
(* web server when they are known or when it has waited long enough, and   *)
(* stops itself, to be started again by systemd, when one of them moves or *)
(* its configuration changes (service_runner.py).                          *)
(*                                                                         *)
(* The MQTT loop is the main thread, where Python runs the handler of      *)
(* SIGTERM; the scheduler, the two timers that register the routes, the    *)
(* thread that watches config.json and the web server run beside it.       *)
(***************************************************************************)
EXTENDS ServiceDeps

CONSTANTS
    Others,    \* services of the network that are no dependencies of the dashboard
    Urls,      \* where a service serves the web
    Nowhere,   \* not seen, or not proxied
    MaxEdits,  \* bound: changes of config.json
    MaxTrouble \* bound: those, events and outages together

\* What starts a timer of _setup_service_proxies: the check five seconds after the
\* start that found a dependency missing, and the last dependency coming up.
Causes == {"missing", "all"}

Services == Deps \cup Others

ASSUME DashboardAssumption ==
    /\ Others \cap Deps = {}
    /\ Urls # {}
    /\ Nowhere \notin Urls
    /\ MaxEdits \in Nat
    /\ MaxTrouble \in Nat

VARIABLES
    proc,     \* the process: its main thread
    www,      \* www_thread serves requests
    seen,     \* _all_services_ever_seen: the "www" of each service
    proxied,  \* the _service_map of _svc_proxy
    ready,    \* _svc_proxy is not None
    checked,  \* _check_deps_alive_first_run has run
    setup,    \* the timers: "none", "waiting", "copying" or "done"
    copy,     \* the map each one has copied
    broken,   \* history: a timer died of an exception, in this process
    url,      \* where each dependency serves the web now
    carried,  \* the urls in the messages of wire
    file,     \* the version of config.json
    read,     \* the version this process has read
    watch     \* the thread that watches it

runner == <<proc, www, file, read, watch>>
proxy  == <<seen, proxied, ready, checked, setup, copy, broken>>
world  == <<url, carried>>

dashVars == <<vars, runner, proxy, world>>

Map == [Services -> Urls \cup {Nowhere}]

Home == CHOOSE u \in Urls : TRUE

Nothing == [s \in Services |-> Nowhere]
Silence == [d \in Deps |-> <<>>]

Proxies(m) == {s \in Services : m[s] # Nowhere}

\* The state of a dashboard.
DashTypeOK ==
    /\ proc \in {"down", "starting", "running", "restarting", "stopping"}
    /\ www \in BOOLEAN
    /\ seen \in Map
    /\ proxied \in Map
    /\ ready \in BOOLEAN
    /\ checked \in BOOLEAN
    /\ setup \in [Causes -> {"none", "waiting", "copying", "done"}]
    /\ copy \in [Causes -> Map]
    /\ broken \in BOOLEAN
    /\ url \in [Deps -> Urls]
    /\ \A d \in Deps : Len(carried[d]) = Len(wire[d])
    /\ file \in 0 .. MaxEdits
    /\ read \in 0 .. file
    /\ watch \in {"none", "armed", "fired", "done"}

DashInit ==
    /\ Init
    /\ depState \in [Deps -> Topics \cup {Down}]
    /\ proc = "down"
    /\ www = FALSE
    /\ seen = Nothing
    /\ proxied = Nothing
    /\ ready = FALSE
    /\ checked = FALSE
    /\ setup = [c \in Causes |-> "none"]
    /\ copy = [c \in Causes |-> Nothing]
    /\ broken = FALSE
    /\ url = [d \in Deps |-> Home]
    /\ carried = Silence
    /\ file = 0
    /\ read = 0
    /\ watch = "none"

Trouble == events + outages + file < MaxTrouble

-----------------------------------------------------------------------------
(* The process *)

\* Nothing of the process is left, and what it would have received is lost.
Ends ==
    /\ proc' = "down"
    /\ www' = FALSE
    /\ watch' = "none"
    /\ known' = [d \in Deps |-> Unknown]
    /\ age' = [d \in Deps |-> 0]
    /\ callbacks' = {}
    /\ subscribed' = {}
    /\ allAlive' = FALSE
    /\ firstStart' = FALSE
    /\ link' = "down"
    /\ job' = "startup"
    /\ stales' = {}
    /\ pingDue' = FALSE
    /\ late' = {}
    /\ steady' = {}
    /\ wire' = Silence
    /\ carried' = Silence
    /\ seen' = Nothing
    /\ proxied' = Nothing
    /\ ready' = FALSE
    /\ checked' = FALSE
    /\ setup' = [c \in Causes |-> "none"]
    /\ copy' = [c \in Causes |-> Nothing]
    /\ broken' = FALSE
    /\ UNCHANGED <<depState, pinged, events, outages, url, file, read>>

\* systemd starts the service, which reads its configuration first.
Boot ==
    /\ proc = "down"
    /\ proc' = "starting"
    /\ read' = file
    /\ UNCHANGED <<vars, proxy, world, www, file, watch>>

\* _reload_on_cfg_change: its thread adds the watch when it gets to run.
Arm ==
    /\ proc = "starting"
    /\ watch = "none"
    /\ watch' = "armed"
    /\ UNCHANGED <<vars, proxy, world, proc, www, file, read>>

\* The service is constructed, which takes far longer, its handler of SIGTERM installed;
\* startup_automatically is False, so its web server does not start yet.
Ready ==
    /\ proc = "starting"
    /\ watch # "none"
    /\ proc' = "running"
    /\ UNCHANGED <<vars, proxy, world, www, file, read, watch>>

\* Somebody edits config.json, which nobody notices unless the watch is there.
Edit ==
    /\ file < MaxEdits
    /\ file' = file + 1
    /\ Trouble
    /\ watch' = IF watch = "armed" THEN "fired" ELSE watch
    /\ UNCHANGED <<vars, proxy, world, proc, www, read>>

\* SIGTERM stops the main thread wherever it is: the handler runs on it, and the
\* MQTT loop never goes on.
Interrupted ==
    /\ proc' = "stopping"
    /\ link' = "gone"
    /\ subscribed' = {}
    /\ wire' = Silence
    /\ carried' = Silence
    /\ steady' = {}
    /\ UNCHANGED <<known, age, callbacks, allAlive, firstStart, checkVars, depState, pinged,
                   events, outages, proxy, url, www, file, read>>

\* The thread that watches sends SIGTERM once and ends.  Before the handler is
\* there, the signal kills the process.
ConfigChanged ==
    /\ watch = "fired"
    /\ \/ proc = "starting" /\ Ends
       \/ proc \in {"running", "restarting"} /\ Interrupted /\ watch' = "done"
       \/ /\ proc = "stopping"
          /\ watch' = "done"
          /\ UNCHANGED <<vars, proxy, world, proc, www, file, read>>

\* ... and so does the proxy, three seconds after it saw a service move.
Kill ==
    /\ proc = "restarting"
    /\ Interrupted
    /\ UNCHANGED watch

\* The timers are threads the process waits for at its end.
TimersDone == \A c \in Causes : setup[c] \in {"none", "done"}

\* signal_handler: wwwserver.shutdown returns when serve_forever has returned, or
\* sees at once that it should; it waits if the web server has not been started.
Stop ==
    /\ proc = "stopping"
    /\ www
    /\ TimersDone
    /\ Ends

\* The MQTT loop has ended with an exception, and with it the main thread: only a
\* web server keeps the process alive.
Die ==
    /\ proc = "running"
    /\ link = "gone"
    /\ ~www
    /\ TimersDone
    /\ Ends

-----------------------------------------------------------------------------
(* The dependencies, as in ServiceDeps; what they publish says where they are *)

\* The message in flight that Publish has added.
Carries(d, u) ==
    carried' = IF Len(wire'[d]) > Len(wire[d])
               THEN [carried EXCEPT ![d] = Append(@, u)] ELSE carried

DepStarts(d, topic, u) ==
    /\ DepStart(d, topic)
    /\ Trouble
    /\ url' = [url EXCEPT ![d] = u]
    /\ Carries(d, u)
    /\ UNCHANGED <<runner, proxy>>

DepGoes(d) ==
    /\ DepAnswers(d) \/ ((DepStop(d) \/ DepCrash(d)) /\ Trouble)
    /\ Carries(d, url[d])
    /\ UNCHANGED <<url, runner, proxy>>

-----------------------------------------------------------------------------
(* The MQTT loop *)

Connects ==
    /\ proc = "running"
    /\ Connect
    /\ UNCHANGED <<runner, proxy, world>>

Disconnects ==
    /\ proc = "running"
    /\ Disconnect
    /\ Trouble
    /\ carried' = Silence
    /\ UNCHANGED <<url, runner, proxy>>

\* ZmwMqttServiceMonitor._on_service_updown, for a dependency: any message of it
\* leaves its url among the services ever seen.  One that is new is of no interest
\* to a proxy that is there already.
Hears(d) ==
    /\ proc = "running"
    /\ carried[d] # <<>>
    /\ seen' = [seen EXCEPT ![d] = Head(carried[d])]
    /\ carried' = [carried EXCEPT ![d] = Tail(@)]
    /\ UNCHANGED <<url, proxied, ready, checked, copy, broken, www, file, read, watch>>

MovedUnheard(d) == proc' = proc

\* ServiceMagicProxy.on_service_announced_meta: a service that has moved.
Moved(d) ==
    proc' = IF ready /\ proxied[d] \notin {Nowhere, Head(carried[d])}
            THEN "restarting" ELSE proc

\* on_service_announced_meta is for a dependency that was known already.
HearsAgain(d) ==
    /\ Hears(d)
    /\ HearAgain(d)
    /\ Moved(d)
    /\ UNCHANGED setup

HearsNewOnly(d) ==
    /\ Hears(d)
    /\ HearNew(d)
    /\ IF known[d] = Unknown THEN proc' = proc ELSE Moved(d)
    /\ UNCHANGED setup

\* The last dependency to come up starts a timer.
HearsNew(d) ==
    /\ Hears(d)
    /\ HearNew(d)
    /\ IF known[d] = Unknown THEN proc' = proc ELSE Moved(d)
    /\ setup' = IF firstStart' /\ ~firstStart
                THEN [setup EXCEPT !["all"] = "waiting"] ELSE setup

HearsLeaving(d) ==
    /\ Hears(d)
    /\ HearLeaving(d)
    /\ UNCHANGED <<proc, setup>>

\* Any other service goes no further than the services ever seen, and where it moves
\* later the proxy is never told.
HearsOther(s) ==
    /\ proc = "running"
    /\ link = "up"
    /\ seen[s] = Nowhere
    /\ seen' = [seen EXCEPT ![s] = Home]
    /\ DepEvent
    /\ Trouble
    /\ UNCHANGED <<depState, wire, pinged, steady, runner, world, proxied, ready, checked,
                   setup, copy, broken>>

-----------------------------------------------------------------------------
(* The scheduler, whose threads go on while the main thread waits in the handler *)

Scheduled == proc \in {"running", "restarting", "stopping"}

Pings ==
    /\ Scheduled
    /\ StartupPing
    /\ UNCHANGED <<runner, proxy, world>>

FirstCheckOnlyLogs ==
    /\ Scheduled
    /\ job = "idle"
    /\ ~checked
    /\ checked' = TRUE
    /\ UNCHANGED <<vars, runner, world, seen, proxied, ready, setup, copy, broken>>

\* _check_deps_alive_first_run: the dashboard goes on with the dependencies it has.
FirstCheck ==
    /\ Scheduled
    /\ job = "idle"
    /\ ~checked
    /\ checked' = TRUE
    /\ setup' = IF Missing # {} THEN [setup EXCEPT !["missing"] = "waiting"] ELSE setup
    /\ UNCHANGED <<vars, runner, world, seen, proxied, ready, copy, broken>>

Checks ==
    /\ Scheduled
    /\ checked
    /\ Collect \/ FinishCheck \/ \E d \in Deps : Drop(d)
    /\ UNCHANGED <<runner, proxy, world>>

-----------------------------------------------------------------------------
(* The timers: _setup_service_proxies *)

Timer(c) == proc # "down" /\ UNCHANGED <<vars, world, seen, checked, proc, file, read, watch>>

\* The loop over the services seen, which it reads while the MQTT loop writes.
Copy(c) ==
    /\ Timer(c)
    /\ setup[c] = "waiting"
    /\ setup' = [setup EXCEPT ![c] = "copying"]
    /\ copy' = [copy EXCEPT ![c] = seen]
    /\ UNCHANGED <<proxied, ready, broken, www>>

Finishes(c) ==
    /\ Timer(c)
    /\ setup[c] = "copying"
    /\ setup' = [setup EXCEPT ![c] = "done"]
    /\ copy' = [copy EXCEPT ![c] = Nothing]

\* "dictionary changed size during iteration".
CopyRaises(c) ==
    /\ Finishes(c)
    /\ Proxies(copy[c]) \notin {{}, Proxies(seen)}
    /\ broken' = TRUE
    /\ UNCHANGED <<proxied, ready, www>>

\* The routes, the proxy, and the web server.
Register(c) ==
    /\ Finishes(c)
    /\ ~ready
    /\ proxied' = copy[c]
    /\ ready' = TRUE
    /\ www' = TRUE
    /\ UNCHANGED broken

\* The second timer finds its first route registered, or the web server in use, and
\* raises; if the first one had no routes, it may get as far as the new proxy.
RegisterRaises(c) ==
    /\ Finishes(c)
    /\ ready
    /\ proxied' \in IF Proxies(proxied) = {} THEN {proxied, copy[c]} ELSE {proxied}
    /\ UNCHANGED <<ready, broken, www>>

-----------------------------------------------------------------------------

Sets(c) == Copy(c) \/ CopyRaises(c) \/ Register(c) \/ RegisterRaises(c)

Loop(d) == HearsAgain(d) \/ HearsNew(d) \/ HearsLeaving(d)

DashNext ==
    \/ Boot
    \/ Arm
    \/ Ready
    \/ Edit
    \/ ConfigChanged
    \/ Kill
    \/ Stop
    \/ Die
    \/ \E d \in Deps, topic \in Topics, u \in Urls : DepStarts(d, topic, u)
    \/ \E d \in Deps : DepGoes(d) \/ HearsAgain(d) \/ HearsNew(d) \/ HearsLeaving(d)
    \/ \E s \in Others : HearsOther(s)
    \/ Connects
    \/ Disconnects
    \/ Pings
    \/ FirstCheck
    \/ Checks
    \/ \E c \in Causes : Copy(c) \/ CopyRaises(c) \/ Register(c) \/ RegisterRaises(c)

\* systemd restarts the service, threads run, the scheduler and the timers keep their
\* times, the broker delivers, and dependencies answer pings.
DashFairness ==
    /\ WF_dashVars(Boot \/ Arm \/ Ready \/ Kill \/ Stop \/ Die)
    /\ WF_dashVars(ConfigChanged)
    /\ WF_dashVars(Connects)
    /\ WF_dashVars(Pings \/ FirstCheck \/ Checks)
    /\ \A d \in Deps : WF_dashVars(Loop(d)) /\ WF_dashVars(DepAnswers(d) /\ DepGoes(d))
    /\ \A c \in Causes : WF_dashVars(Sets(c))

DashSpec == DashInit /\ [][DashNext]_dashVars /\ DashFairness

-----------------------------------------------------------------------------
(* Properties *)

\* A dependency that stays known is not proxied for good at a url it has left, however
\* its moves fall between the announcements, the timers and the restarts.  (One that is
\* not known may be: without a known dependency the service never pings again.)
NoStaleUrl ==
    \A d \in Deps :
        <>[](d \in Up /\ known[d] # Unknown) => <>[](proxied[d] \in {Nowhere, url[d]})

\* "Try to continue with whatever deps we have": a dashboard that runs serves the web
\* at last, or does not run any longer, unless the timer died of an exception.
ComesUp == proc = "running" ~> www \/ proc # "running" \/ broken

\* A dashboard told to stop before its web server was started waits for it in the
\* handler of the signal; the first check, in the scheduler, gets it out.
StopEnds == proc = "stopping" ~> proc = "down" \/ broken

\* "Will kill the running service if the config changes, ... so the service will have
\* a chance to reload": a change made between the read and the watch is missed.
ConfigIsRead == read # file ~> read = file

=============================================================================
