---------------------------- MODULE Zigbee_proofs ----------------------------
(***************************************************************************)
(* What is proved of the services that listen to Zigbee devices.  First,   *)
(* ContactMon: what the contact monitor guarantees of sensors and timers,  *)
(* and of the requests about chimes, for any set of sensors, any actions   *)
(* configured for them, any threads, and any number of reports, outages    *)
(* and restarts.  Second, Z2mThing and Z2mNetwork: what the replicas of a  *)
(* value have, for any number of services, threads, requests, messages,    *)
(* lists and restarts.                                                     *)
(***************************************************************************)
EXTENDS ContactMon, Z2mNetwork, FiniteSetTheorems, SequenceTheorems, TLAPS

-----------------------------------------------------------------------------
(* The inductive invariants *)

\* The part of TypeOK that is not about chimes, and: no sensor has had more
\* openings than there were reports.
ContactTypeOK ==
    /\ prev \in [Sensors -> Contact]
    /\ handling \subseteq [sensor : Sensors, opens : BOOLEAN]
    /\ \A g, h \in handling : g = h
    /\ entry \in [Sensors -> [on : BOOLEAN, job : Openings]]
    /\ jobs \subseteq Timer
    /\ firing \subseteq Callback
    /\ opening \in [Sensors -> Openings]
    /\ \A s \in Sensors : opening[s] <= reports
    /\ alerted \in [Sensors -> SUBSET {"timeout", "curfew"}]
    /\ failed \subseteq Sensors
    /\ notifierUp \in BOOLEAN
    /\ reports \in 0 .. MaxReports
    /\ outages \in 0 .. MaxOutages
    /\ restarts \in 0 .. MaxRestarts

\* A handler is about to tell of the state that was recorded last.
HandlerInv ==
    \A h \in handling : prev[h.sensor] = IF h.opens THEN "open" ELSE "closed"

EntryInv == ContactTypeOK /\ HandlerInv /\ EntryIffOpen

-----------------------------------------------------------------------------
(* Steps that leave sensors alone *)

LEMMA Bounds == MaxReports \in Nat /\ MaxOutages \in Nat /\ MaxRestarts \in Nat
  BY ConstantsAssumption

\* Requests about chimes, and the timer that brings them back.
ChimeAction ==
    \/ \E by \in Callers : SkipChimes(by) \/ EnableChimes(by)
    \/ ChimeStep

LEMMA ChimesAside == ChimeAction => UNCHANGED contactVars
  BY DEF ChimeAction, SkipChimes, EnableChimes, Start, ChimeStep, FindJob, RemoveJob,
         ForgetJob, AddJob, RaiseFlag, LowerFlag, SkipEnds

\* The steps of Next, one by one, and those about chimes together.
LEMMA NextSteps ==
    ASSUME [Next]_vars
    PROVE  \/ \E s \in Sensors, contact \in Contact : Report(s, contact)
           \/ \E s \in Sensors, opens \in BOOLEAN : NotifyChange(s, opens)
           \/ \E j \in jobs : Expire(j)
           \/ \E f \in firing : MarkExpired(f)
           \/ \E f \in firing : TimeoutAction(f)
           \/ Curfew \/ NotifierDown \/ NotifierUp \/ Restart
           \/ UNCHANGED contactVars
  BY ChimesAside DEF Next, ChimeAction, vars

-----------------------------------------------------------------------------
(* Types *)

LEMMA InitEntryInv == Init => EntryInv
  <1>. SUFFICES ASSUME Init PROVE EntryInv
    OBVIOUS
  <1>1. ContactTypeOK
    BY Bounds DEF Init, ContactTypeOK, Contact, Openings, NoEntry
  <1>2. HandlerInv /\ EntryIffOpen
    BY DEF Init, HandlerInv, EntryIffOpen, NoEntry
  <1>. QED
    BY <1>1, <1>2 DEF EntryInv

LEMMA ReportType ==
    ASSUME ContactTypeOK, NEW s \in Sensors, NEW contact \in Contact, Report(s, contact)
    PROVE  ContactTypeOK'
  <1>. USE DEF Report, ContactTypeOK
  <1>1. prev' \in [Sensors -> Contact]
    BY DEF Record
  <1>2. handling' = {} \/ handling' = {[sensor |-> s, opens |-> contact = "open"]}
    BY DEF LoopIdle
  <1>3. handling' \subseteq [sensor : Sensors, opens : BOOLEAN] /\ \A g, h \in handling' : g = h
    <2>1. [sensor |-> s, opens |-> contact = "open"] \in [sensor : Sensors, opens : BOOLEAN]
      OBVIOUS
    <2>2. CASE handling' = {}
      BY <2>2
    <2>3. CASE handling' = {[sensor |-> s, opens |-> contact = "open"]}
      BY <2>1, <2>3
    <2>. QED
      BY <1>2, <2>2, <2>3
  <1>5. /\ opening' \in [Sensors -> Openings]
        /\ \A x \in Sensors : opening'[x] <= reports'
        /\ reports' \in 0 .. MaxReports
    <2>1. reports' = reports + 1 /\ reports' \in 0 .. MaxReports
      BY Bounds
    <2>2. \A x \in Sensors : opening[x] \in Nat /\ opening[x] <= reports
      BY DEF Openings
    <2>3. CASE UNCHANGED opening
      BY <2>1, <2>2, <2>3, Bounds
    <2>4. CASE opening' = [opening EXCEPT ![s] = @ + 1]
      BY <2>1, <2>2, <2>4, Bounds DEF Openings
    <2>. QED
      BY <2>1, <2>3, <2>4
  <1>6. alerted' \in [Sensors -> SUBSET {"timeout", "curfew"}] /\ failed' \subseteq Sensors
    OBVIOUS
  <1>. QED
    BY <1>1, <1>3, <1>5, <1>6

LEMMA NotifyChangeType ==
    ASSUME ContactTypeOK, NEW s \in Sensors, NEW opens \in BOOLEAN, NotifyChange(s, opens)
    PROVE  ContactTypeOK'
  <1>. USE DEF NotifyChange, ContactTypeOK
  <1>1. entry' \in [Sensors -> [on : BOOLEAN, job : Openings]] /\ jobs' \subseteq Timer
    <2>1. NoEntry \in [on : BOOLEAN, job : Openings]
      BY Bounds DEF NoEntry, Openings
    <2>2. CASE StartTimer(s)
      <3>1. /\ [on |-> TRUE, job |-> opening[s]] \in [on : BOOLEAN, job : Openings]
            /\ [sensor |-> s, opening |-> opening[s]] \in Timer
        BY DEF Timer
      <3>. QED
        BY <2>2, <3>1 DEF StartTimer
    <2>3. CASE CancelTimeout(s)
      BY <2>1, <2>3 DEF CancelTimeout
    <2>4. CASE UNCHANGED <<entry, jobs>>
      BY <2>4
    <2>. QED
      BY <2>2, <2>3, <2>4
  <1>. QED
    BY <1>1

LEMMA ExpireType ==
    ASSUME ContactTypeOK, NEW j \in jobs, Expire(j)
    PROVE  ContactTypeOK'
  <1>. USE DEF Expire, ContactTypeOK
  <1>1. firing' \subseteq Callback
    <2>1. j.sensor \in Sensors /\ j.opening \in Openings
      BY DEF Timer
    <2>. DEFINE c == [sensor |-> j.sensor, opening |-> j.opening, marked |-> FALSE]
    <2>3. c \in Callback
      BY <2>1 DEF Callback
    <2>4. firing' = firing \cup {c}
      OBVIOUS
    <2>. HIDE DEF c
    <2>. QED
      BY <2>3, <2>4
  <1>. QED
    BY <1>1

LEMMA MarkExpiredType ==
    ASSUME ContactTypeOK, NEW f \in firing, MarkExpired(f)
    PROVE  ContactTypeOK'
  <1>. USE DEF MarkExpired, ContactTypeOK
  <1>1. f \in Callback /\ [f EXCEPT !.marked = TRUE] \in Callback
    BY DEF Callback
  <1>2. entry' \in [Sensors -> [on : BOOLEAN, job : Openings]]
    BY Bounds DEF Openings
  <1>. QED
    BY <1>1, <1>2

LEMMA OtherTypes ==
    ASSUME ContactTypeOK,
           \/ \E f \in firing : TimeoutAction(f)
           \/ Curfew \/ NotifierDown \/ NotifierUp \/ Restart
           \/ UNCHANGED contactVars
    PROVE  ContactTypeOK'
  <1>. USE DEF ContactTypeOK
  <1>1. ASSUME NEW f \in firing, TimeoutAction(f) PROVE ContactTypeOK'
    <2>1. alerted' \in [Sensors -> SUBSET {"timeout", "curfew"}]
      BY <1>1 DEF TimeoutAction, Callback
    <2>. QED
      BY <1>1, <2>1 DEF TimeoutAction
  <1>2. CASE Curfew
    BY <1>2 DEF Curfew
  <1>3. CASE NotifierDown \/ NotifierUp
    <2>1. outages' \in 0 .. MaxOutages /\ notifierUp' \in BOOLEAN
      <3>1. CASE NotifierDown
        <4>1. outages' = outages + 1 /\ outages < MaxOutages
          BY <3>1 DEF NotifierDown
        <4>2. notifierUp' = FALSE
          BY <3>1 DEF NotifierDown
        <4>3. outages \in 0 .. MaxOutages
          OBVIOUS
        <4>4. outages' \in 0 .. MaxOutages
          BY ONLY <4>1, <4>3, Bounds
        <4>. QED
          BY ONLY <4>2, <4>4
      <3>2. CASE NotifierUp
        BY <3>2 DEF NotifierUp
      <3>. QED
        BY <1>3, <3>1, <3>2
    <2>2. UNCHANGED <<prev, handling, entry, jobs, firing, opening, alerted, failed,
                      reports, restarts>>
      BY <1>3 DEF NotifierDown, NotifierUp
    <2>. QED
      BY <2>1, <2>2
  <1>4. CASE Restart
    BY <1>4, Bounds DEF Restart, Contact, Openings, NoEntry
  <1>5. CASE UNCHANGED contactVars
    BY <1>5 DEF contactVars
  <1>. QED
    BY <1>1, <1>2, <1>3, <1>4, <1>5

LEMMA ContactTypes == ContactTypeOK /\ [Next]_vars => ContactTypeOK'
  BY NextSteps, ReportType, NotifyChangeType, ExpireType, MarkExpiredType, OtherTypes

-----------------------------------------------------------------------------
(* What is open has an entry *)

\* A watched sensor whose recorded state changes has a transition, except for a first
\* report of closed.
LEMMA WatchedTransition ==
    ASSUME NEW s \in Sensors, NEW contact \in Contact, Watched(s),
           contact # "unknown", contact # prev[s], prev[s] = "unknown" => contact = "open"
    PROVE  IsTransition(s, contact)
  BY DEF Watched, IsTransition, ActionOf

LEMMA ReportEntry ==
    ASSUME EntryInv, NEW s \in Sensors, NEW contact \in Contact, Report(s, contact)
    PROVE  HandlerInv' /\ EntryIffOpen'
  <1>1. /\ handling = {}
        /\ prev' = [prev EXCEPT ![s] = contact]
        /\ entry' = entry
        /\ failed \subseteq failed'
        /\ prev \in [Sensors -> Contact]
    BY DEF Report, LoopIdle, Record, EntryInv, ContactTypeOK
  <1>2. handling' = {} \/ /\ handling' = {[sensor |-> s, opens |-> contact = "open"]}
                          /\ IsTransition(s, contact)
    BY <1>1 DEF Report
  <1>3. HandlerInv'
    <2>1. ASSUME NEW h \in handling' PROVE prev'[h.sensor] = IF h.opens THEN "open" ELSE "closed"
      <3>1. h.sensor = s /\ h.opens = (contact = "open") /\ contact # "unknown"
        BY <1>2, <2>1 DEF IsTransition
      <3>. QED
        BY <1>1, <3>1 DEF Contact
    <2>. QED
      BY <2>1 DEF HandlerInv
  <1>4. ASSUME NEW x \in Sensors, Watched(x), ~InHandler(x)', x \notin failed'
        PROVE  entry'[x].on <=> prev'[x] = "open"
    <2>1. x \notin failed /\ ~InHandler(x)
      BY <1>1, <1>4 DEF InHandler
    <2>2. entry[x].on <=> prev[x] = "open"
      BY <1>4, <2>1 DEF EntryInv, EntryIffOpen
    <2>3. CASE x # s \/ contact = prev[s]
      BY <1>1, <2>2, <2>3
    <2>4. CASE x = s /\ contact # prev[s]
      <3>1. ~IsTransition(s, contact)
        <4>. SUFFICES ASSUME IsTransition(s, contact) PROVE FALSE
          OBVIOUS
        <4>1. CASE NotifyFails(s, ActionOf(contact))
          BY <1>4, <2>4, <4>1 DEF Report
        <4>2. CASE ~NotifyFails(s, ActionOf(contact))
          <5>1. handling' = {[sensor |-> s, opens |-> contact = "open"]}
            BY <4>2 DEF Report
          <5>2. \E h \in handling' : h.sensor = s
            BY <5>1
          <5>. QED
            BY <1>4, <2>4, <5>2 DEF InHandler
        <4>. QED
          BY <4>1, <4>2
      <3>2. contact = "closed" /\ prev[s] = "unknown"
        BY <1>4, <2>4, <3>1, WatchedTransition DEF Report, Contact
      <3>. QED
        BY <1>1, <2>2, <2>4, <3>2
    <2>. QED
      BY <2>3, <2>4
  <1>5. EntryIffOpen'
    BY <1>4 DEF EntryIffOpen, Watched
  <1>. QED
    BY <1>3, <1>5

LEMMA NotifyChangeEntry ==
    ASSUME EntryInv, NEW s \in Sensors, NEW opens \in BOOLEAN, NotifyChange(s, opens)
    PROVE  HandlerInv' /\ EntryIffOpen'
  <1>1. /\ handling = {[sensor |-> s, opens |-> opens]}
        /\ handling' = {}
        /\ prev' = prev
        /\ prev[s] = IF opens THEN "open" ELSE "closed"
        /\ entry \in [Sensors -> [on : BOOLEAN, job : Openings]]
    BY DEF NotifyChange, EntryInv, ContactTypeOK, HandlerInv
  <1>2. ASSUME NEW x \in Sensors, Watched(x), x \notin failed'
        PROVE  entry'[x].on <=> prev'[x] = "open"
    <2>1. CASE x # s
      <3>1. x \notin failed /\ ~InHandler(x) /\ entry'[x] = entry[x]
        BY <1>1, <1>2, <2>1 DEF NotifyChange, StartTimer, CancelTimeout, InHandler
      <3>. QED
        BY <1>1, <1>2, <3>1 DEF EntryInv, EntryIffOpen
    <2>2. CASE x = s
      <3>1. s \in Timed
        BY <1>2, <2>2 DEF Watched
      <3>2. entry'[s].on <=> opens
        <4>1. CASE opens /\ ~entry[s].on
          BY <1>1, <3>1, <4>1 DEF NotifyChange, StartTimer
        <4>2. CASE ~opens /\ entry[s].on
          BY <1>1, <3>1, <4>2 DEF NotifyChange, CancelTimeout, NoEntry
        <4>3. CASE opens <=> entry[s].on
          BY <1>1, <3>1, <4>3 DEF NotifyChange
        <4>. QED
          BY <1>1, <4>1, <4>2, <4>3
      <3>. QED
        BY <1>1, <2>2, <3>2
    <2>. QED
      BY <2>1, <2>2
  <1>3. HandlerInv'
    BY <1>1 DEF HandlerInv
  <1>4. EntryIffOpen'
    BY <1>2 DEF EntryIffOpen, Watched
  <1>. QED
    BY <1>3, <1>4

\* The other steps leave entries on or off, and what was recorded.
LEMMA OtherEntry ==
    ASSUME EntryInv,
           \/ \E j \in jobs : Expire(j)
           \/ \E f \in firing : MarkExpired(f)
           \/ \E f \in firing : TimeoutAction(f)
           \/ Curfew \/ NotifierDown \/ NotifierUp \/ Restart
           \/ UNCHANGED contactVars
    PROVE  HandlerInv' /\ EntryIffOpen'
  <1>1. CASE Restart
    BY <1>1 DEF Restart, HandlerInv, EntryIffOpen, NoEntry
  <1>2. CASE ~Restart
    <2>1. UNCHANGED <<prev, handling, failed>>
      BY <1>2 DEF Expire, MarkExpired, TimeoutAction, Curfew, NotifierDown, NotifierUp,
                  contactVars
    <2>2. ASSUME NEW x \in Sensors PROVE entry'[x].on = entry[x].on
      <3>1. CASE \E f \in firing : MarkExpired(f)
        BY <3>1 DEF MarkExpired, EntryInv, ContactTypeOK
      <3>2. CASE ~\E f \in firing : MarkExpired(f)
        BY <1>2, <3>2 DEF Expire, TimeoutAction, Curfew, NotifierDown, NotifierUp, contactVars
      <3>. QED
        BY <3>1, <3>2
    <2>. QED
      BY <2>1, <2>2 DEF EntryInv, HandlerInv, EntryIffOpen, InHandler, Watched
  <1>. QED
    BY <1>1, <1>2

LEMMA NextEntryInv == EntryInv /\ [Next]_vars => EntryInv'
  <1>. SUFFICES ASSUME EntryInv, [Next]_vars PROVE EntryInv'
    OBVIOUS
  <1>1. ContactTypeOK'
    BY ContactTypes DEF EntryInv
  <1>2. HandlerInv' /\ EntryIffOpen'
    BY NextSteps, ReportEntry, NotifyChangeEntry, OtherEntry
  <1>. QED
    BY <1>1, <1>2 DEF EntryInv

LEMMA EntryInvariant == Spec => []EntryInv
  BY InitEntryInv, NextEntryInv, PTL DEF Spec

\* Between reports exactly the watched sensors that are open have an entry, for any
\* configuration and however late the callbacks of timers run, unless a notification
\* failed (timeout_mon.py, notify_change).
THEOREM OpenAlwaysHasEntry == Spec => []EntryIffOpen
  <1>1. EntryInv => EntryIffOpen
    BY DEF EntryInv
  <1>. QED
    BY <1>1, EntryInvariant, PTL

-----------------------------------------------------------------------------
(* What is open, and has to be reported, will be *)

\* A timer of the sensor is held or has a callback, or what it was for was sent.
Attended(s) ==
    \/ \E t \in jobs \cup firing : t.sensor = s
    \/ "timeout" \in alerted[s]

\* An entry is not left without what it was made for.  Only an outage, which makes a
\* notification fail, comes between a transition and its timer.
TimedInv ==
    outages = 0 =>
        /\ notifierUp
        /\ failed = {}
        /\ \A s \in Sensors :
              "timeout" \in Acts[s] \ Announced[s] /\ entry[s].on => Attended(s)

LEMMA InitTimedInv == Init => TimedInv
  BY DEF Init, TimedInv, NoEntry

LEMMA ReportTimed ==
    ASSUME EntryInv, TimedInv, NEW s \in Sensors, NEW contact \in Contact, Report(s, contact)
    PROVE  TimedInv'
  <1>. SUFFICES ASSUME outages = 0 PROVE TimedInv'
    BY DEF TimedInv, Report
  <1>1. /\ UNCHANGED <<entry, jobs, firing, notifierUp, outages>>
        /\ handling = {}
        /\ opening \in [Sensors -> Openings] /\ prev \in [Sensors -> Contact]
        /\ alerted \in [Sensors -> SUBSET {"timeout", "curfew"}]
    BY DEF Report, LoopIdle, EntryInv, ContactTypeOK
  <1>2. notifierUp /\ failed = {}
    BY DEF TimedInv
  <1>3. failed' = {}
    BY <1>2 DEF Report, NotifyFails
  <1>5. ASSUME NEW x \in Sensors, "timeout" \in Acts[x] \ Announced[x], entry[x].on
        PROVE  Attended(x)'
    <2>1. Watched(x)
      BY <1>5, ConstantsAssumption DEF ValidConfig, Watched
    <2>2. prev[x] = "open"
      BY <1>1, <1>2, <1>5, <2>1 DEF EntryInv, EntryIffOpen, InHandler
    <2>3. alerted'[x] = alerted[x]
      BY <1>1, <2>2 DEF Report
    <2>4. Attended(x)
      BY <1>5 DEF TimedInv
    <2>. QED
      BY <1>1, <2>3, <2>4 DEF Attended
  <1>. QED
    BY <1>1, <1>2, <1>3, <1>5 DEF TimedInv

LEMMA NotifyChangeTimed ==
    ASSUME EntryInv, TimedInv, NEW s \in Sensors, NEW opens \in BOOLEAN, NotifyChange(s, opens)
    PROVE  TimedInv'
  <1>. SUFFICES ASSUME outages = 0 PROVE TimedInv'
    BY DEF TimedInv, NotifyChange
  <1>1. /\ UNCHANGED <<firing, notifierUp, alerted, outages>>
        /\ failed' \subseteq failed
        /\ entry \in [Sensors -> [on : BOOLEAN, job : Openings]]
        /\ jobs \subseteq Timer
    BY DEF NotifyChange, EntryInv, ContactTypeOK
  <1>2. ASSUME NEW x \in Sensors, entry'[x].on, entry[x].on => Attended(x)
        PROVE  Attended(x)'
    <2>1. CASE StartTimer(s)
      <3>1. /\ jobs' = jobs \cup {[sensor |-> s, opening |-> opening[s]]}
            /\ x # s => entry'[x] = entry[x]
        BY <1>1, <2>1 DEF StartTimer
      <3>2. x = s => \E t \in jobs' : t.sensor = x
        <4>. DEFINE n == [sensor |-> s, opening |-> opening[s]]
        <4>1. n \in jobs' /\ n.sensor = s
          BY <3>1
        <4>. HIDE DEF n
        <4>. QED
          BY <4>1
      <3>3. x # s => Attended(x)
        BY <1>2, <3>1
      <3>. QED
        BY <1>1, <3>1, <3>2, <3>3 DEF Attended
    <2>2. CASE CancelTimeout(s)
      <3>1. /\ jobs' = jobs \ {[sensor |-> s, opening |-> entry[s].job]}
            /\ x # s /\ entry'[x] = entry[x]
        BY <1>1, <1>2, <2>2 DEF CancelTimeout, NoEntry
      <3>2. [sensor |-> s, opening |-> entry[s].job].sensor = s
        OBVIOUS
      <3>3. \A t \in jobs \cup firing : t.sensor = x => t \in jobs' \cup firing'
        BY <1>1, <3>1, <3>2
      <3>4. Attended(x)
        BY <1>2, <3>1
      <3>. QED
        BY <1>1, <3>3, <3>4 DEF Attended
    <2>3. CASE UNCHANGED <<entry, jobs>>
      BY <1>1, <1>2, <2>3 DEF Attended
    <2>. QED
      BY <2>1, <2>2, <2>3 DEF NotifyChange
  <1>. QED
    BY <1>1, <1>2 DEF TimedInv

\* A timer that expires, and the first half of its callback.
LEMMA CallbackTimed ==
    ASSUME EntryInv, TimedInv,
           \/ \E j \in jobs : Expire(j)
           \/ \E f \in firing : MarkExpired(f)
    PROVE  TimedInv'
  <1>1. /\ UNCHANGED <<notifierUp, alerted, failed, outages>>
        /\ entry \in [Sensors -> [on : BOOLEAN, job : Openings]]
        /\ firing \subseteq Callback
    BY DEF Expire, MarkExpired, EntryInv, ContactTypeOK
  <1>2. ASSUME NEW x \in Sensors, entry'[x].on
        PROVE  entry[x].on /\ (Attended(x) => Attended(x)')
    <2>1. ASSUME NEW j \in jobs, Expire(j) PROVE entry[x].on /\ (Attended(x) => Attended(x)')
      <3>. DEFINE c == [sensor |-> j.sensor, opening |-> j.opening, marked |-> FALSE]
      <3>1. /\ entry' = entry
            /\ jobs' = jobs \ {j}
            /\ firing' = firing \cup {c}
            /\ c.sensor = j.sensor
        BY <2>1 DEF Expire
      <3>. HIDE DEF c
      <3>. QED
        BY <1>1, <1>2, <3>1 DEF Attended
    <2>2. ASSUME NEW f \in firing, MarkExpired(f) PROVE entry[x].on /\ (Attended(x) => Attended(x)')
      <3>1. jobs' = jobs
        BY <2>2 DEF MarkExpired
      <3>2. CASE entry[f.sensor].on
        <4>1. /\ firing' = (firing \ {f}) \cup {[f EXCEPT !.marked = TRUE]}
              /\ [f EXCEPT !.marked = TRUE].sensor = f.sensor
          BY <1>1, <2>2, <3>2 DEF MarkExpired, Callback
        <4>2. entry[x].on
          BY <1>1, <1>2, <2>2, <3>2 DEF MarkExpired
        <4>. QED
          BY <1>1, <3>1, <4>1, <4>2 DEF Attended
      <3>3. CASE ~entry[f.sensor].on
        <4>1. firing' = firing \ {f} /\ entry' = entry
          BY <2>2, <3>3 DEF MarkExpired
        <4>. QED
          BY <1>1, <1>2, <3>1, <3>3, <4>1 DEF Attended
      <3>. QED
        BY <3>2, <3>3
    <2>. QED
      BY <2>1, <2>2
  <1>. QED
    BY <1>1, <1>2 DEF TimedInv

LEMMA TimeoutActionTimed ==
    ASSUME EntryInv, TimedInv, NEW f \in firing, TimeoutAction(f)
    PROVE  TimedInv'
  <1>. SUFFICES ASSUME outages = 0 PROVE TimedInv'
    BY DEF TimedInv, TimeoutAction
  <1>1. /\ UNCHANGED <<entry, jobs, notifierUp, failed, outages>>
        /\ firing' = firing \ {f}
        /\ alerted \in [Sensors -> SUBSET {"timeout", "curfew"}]
    BY DEF TimeoutAction, EntryInv, ContactTypeOK
  <1>2. ASSUME NEW x \in Sensors, "timeout" \in Acts[x] \ Announced[x], Attended(x)
        PROVE  Attended(x)'
    <2>1. CASE x = f.sensor
      <3>1. Sends(f.sensor, "timeout") /\ notifierUp
        BY <1>2, <2>1 DEF Sends, Muted, TimedInv
      <3>2. "timeout" \in alerted'[x]
        BY <1>1, <2>1, <3>1 DEF TimeoutAction
      <3>. QED
        BY <3>2 DEF Attended
    <2>2. CASE x # f.sensor
      <3>1. alerted'[x] = alerted[x]
        BY <1>1, <2>2 DEF TimeoutAction
      <3>. QED
        BY <1>1, <1>2, <2>2, <3>1 DEF Attended
    <2>. QED
      BY <2>1, <2>2
  <1>. QED
    BY <1>1, <1>2 DEF TimedInv

LEMMA OtherTimed ==
    ASSUME EntryInv, TimedInv,
           \/ Curfew \/ NotifierDown \/ NotifierUp \/ Restart
           \/ UNCHANGED contactVars
    PROVE  TimedInv'
  <1>1. CASE Restart
    <2>1. UNCHANGED <<notifierUp, outages>> /\ failed' = {} /\ \A s \in Sensors : ~entry'[s].on
      BY <1>1 DEF Restart, NoEntry
    <2>. QED
      BY <2>1 DEF TimedInv
  <1>2. CASE NotifierDown
    <2>1. outages' # 0
      BY <1>2, Bounds DEF NotifierDown, EntryInv, ContactTypeOK
    <2>. QED
      BY <2>1 DEF TimedInv
  <1>3. CASE Curfew
    <2>1. /\ UNCHANGED <<entry, jobs, firing, notifierUp, failed, outages>>
          /\ \A s \in Sensors : alerted[s] \subseteq alerted'[s]
      BY <1>3 DEF Curfew
    <2>. QED
      BY <2>1 DEF TimedInv, Attended
  <1>4. CASE NotifierUp \/ UNCHANGED contactVars
    <2>1. UNCHANGED <<entry, jobs, firing, alerted, failed, outages>> /\ (notifierUp => notifierUp')
      BY <1>4 DEF NotifierUp, contactVars
    <2>. QED
      BY <2>1 DEF TimedInv, Attended
  <1>. QED
    BY <1>1, <1>2, <1>3, <1>4

LEMMA NextTimedInv == EntryInv /\ TimedInv /\ [Next]_vars => TimedInv'
  BY NextSteps, ReportTimed, NotifyChangeTimed, CallbackTimed, TimeoutActionTimed, OtherTimed

\* Without an outage, no open sensor that has to be reported is forgotten: its timer is
\* held, or under way, or it was reported, for any configuration and however long
\* callbacks wait for a thread (timeout_mon.py).
THEOREM OpenIsAlwaysTimed == Spec => []OpenIsTimed
  <1>1. EntryInv /\ TimedInv => OpenIsTimed
    <2>. SUFFICES ASSUME EntryInv, TimedInv, outages = 0, NEW s \in Sensors,
                         "timeout" \in Acts[s] \ Announced[s], prev[s] = "open", ~InHandler(s)
                  PROVE  Attended(s)
      BY DEF OpenIsTimed, Attended
    <2>1. Watched(s)
      BY ConstantsAssumption DEF ValidConfig, Watched
    <2>2. entry[s].on
      BY <2>1 DEF EntryInv, EntryIffOpen, TimedInv
    <2>. QED
      BY <2>2 DEF TimedInv
  <1>2. Init => EntryInv /\ TimedInv
    BY InitEntryInv, InitTimedInv
  <1>3. EntryInv /\ TimedInv /\ [Next]_vars => (EntryInv /\ TimedInv)'
    BY NextEntryInv, NextTimedInv
  <1>. QED
    BY <1>1, <1>2, <1>3, PTL DEF Spec

-----------------------------------------------------------------------------
(* Chimes: the invariants *)

ChimeRequest == [by : Callers \cup {NoCaller}, does : {"skip", "enable"},
            at : AskStep, job : 0 .. MaxChimes]

\* Requests of a set that have yet to add a timer.
Adding(S) == {a \in S : a.does = "skip" /\ a.at # "raise"}

\* The part of TypeOK that is about chimes, and: only skipping adds timers, one for
\* each request at most, so that their numbers suffice.
ChimeTypeOK ==
    /\ skipping \in BOOLEAN
    /\ skipJob \in 0 .. MaxChimes
    /\ skipTimers \subseteq Timers
    /\ asked \subseteq ChimeRequest
    /\ IsFiniteSet(asked)
    /\ \A a \in asked : IF a.does = "skip" THEN a.at # "lower" ELSE a.at \notin {"add", "raise"}
    /\ chimes \in 0 .. MaxChimes
    /\ Cardinality(skipTimers) + Cardinality(Adding(asked)) <= chimes

\* The timer of the service is there, or will be added, or is being replaced.
TimerComes ==
    \/ skipJob \in skipTimers
    \/ Adding(asked) # {}
    \/ \E a \in asked : a.at = "lower"

\* While nobody does the opposite at the same time: those who enable chimes have lowered
\* the flag before they cancel anything, and those who skip them add a timer before they
\* raise it.
FlagInv ==
    /\ \A a, b \in asked : a.does = b.does
    /\ \A a \in asked : a.does = "enable" /\ a.at # "lower" => ~skipping
    /\ skipping \/ (\E a \in asked : a.at = "raise") => TimerComes

ChimeInv == ChimeTypeOK /\ (raced \/ FlagInv)

-----------------------------------------------------------------------------
(* Chimes: requests and timers *)

LEMMA ChimeBounds ==
    ASSUME ChimeTypeOK
    PROVE  /\ MaxChimes \in Nat /\ chimes \in Nat
           /\ IsFiniteSet(skipTimers) /\ Cardinality(skipTimers) \in Nat
           /\ IsFiniteSet(Adding(asked)) /\ Cardinality(Adding(asked)) \in Nat
  <1>1. MaxChimes \in Nat
    BY ConstantsAssumption
  <1>2. IsFiniteSet(skipTimers)
    <2>1. IsFiniteSet(1 .. MaxChimes)
      BY <1>1, FS_Interval
    <2>. QED
      BY <2>1, FS_Subset DEF ChimeTypeOK, Timers
  <1>3. IsFiniteSet(Adding(asked))
    BY FS_Subset DEF ChimeTypeOK, Adding
  <1>. QED
    BY <1>1, <1>2, <1>3, FS_CardinalityType DEF ChimeTypeOK

\* A request that takes the place of another one, in the count of those that add.
LEMMA Exchange ==
    ASSUME NEW S, IsFiniteSet(S), NEW a \in S, NEW b, NEW T, T = (S \ {a}) \cup {b},
           b \in Adding({b}) => a \in Adding(S)
    PROVE  /\ IsFiniteSet(T)
           /\ IsFiniteSet(Adding(T))
           /\ Cardinality(Adding(T)) \in Nat
           /\ Cardinality(Adding(T)) <= Cardinality(Adding(S))
           /\ a \in Adding(S) /\ b \notin Adding({b}) => Cardinality(Adding(T)) = Cardinality(Adding(S)) - 1
  <1>. DEFINE A == Adding(S)
              B == A \ {a}
              C == Adding(T)
  <1>1. IsFiniteSet(A) /\ Cardinality(A) \in Nat
    BY FS_Subset, FS_CardinalityType DEF Adding
  <1>2. IsFiniteSet(T)
    BY FS_RemoveElement, FS_AddElement
  <1>3. IsFiniteSet(C) /\ Cardinality(C) \in Nat
    BY <1>2, FS_Subset, FS_CardinalityType DEF Adding
  <1>4. /\ IsFiniteSet(B)
        /\ Cardinality(B) = IF a \in A THEN Cardinality(A) - 1 ELSE Cardinality(A)
        /\ Cardinality(B) \in Nat
    <2>. HIDE DEF A
    <2>. QED
      BY <1>1, FS_RemoveElement, FS_CardinalityType
  <1>5. b \notin Adding({b}) => C = B
    BY DEF Adding
  <1>6. b \in Adding({b}) => C = B \cup {b} /\ a \in A
    BY DEF Adding
  <1>. HIDE DEF A, B, C
  <1>7. Cardinality(B \cup {b}) <= Cardinality(B) + 1
    <2>1. Cardinality(B \cup {b}) = IF b \in B THEN Cardinality(B) ELSE Cardinality(B) + 1
      BY <1>4, FS_AddElement
    <2>. QED
      BY <1>4, <2>1
  <1>8. /\ Cardinality(C) <= Cardinality(A)
        /\ a \in A /\ b \notin Adding({b}) => Cardinality(C) = Cardinality(A) - 1
    <2>1. CASE b \notin Adding({b})
      BY <1>1, <1>4, <1>5, <2>1
    <2>2. CASE b \in Adding({b})
      <3>1. C = B \cup {b} /\ Cardinality(B) = Cardinality(A) - 1
        BY <1>4, <1>6, <2>2
      <3>2. Cardinality(C) <= Cardinality(A)
        BY ONLY <1>1, <1>3, <1>4, <1>7, <3>1
      <3>. QED
        BY <2>2, <3>2
    <2>. QED
      BY <2>1, <2>2
  <1>. QED
    BY <1>2, <1>3, <1>8 DEF A, C

\* A request that begins, and one that ends.
LEMMA OneMore ==
    ASSUME NEW S, IsFiniteSet(S), NEW b, NEW T, T = S \cup {b}
    PROVE  /\ IsFiniteSet(T)
           /\ Cardinality(Adding(T)) \in Nat
           /\ Cardinality(Adding(S)) \in Nat
           /\ Cardinality(Adding(T)) <= Cardinality(Adding(S)) + 1
           /\ b \notin Adding({b}) => Adding(T) = Adding(S)
  <1>. DEFINE A == Adding(S)
  <1>1. IsFiniteSet(A) /\ Cardinality(A) \in Nat
    BY FS_Subset, FS_CardinalityType DEF Adding
  <1>2. IsFiniteSet(T)
    BY FS_AddElement
  <1>3. IsFiniteSet(Adding(T)) /\ Cardinality(Adding(T)) \in Nat
    BY <1>2, FS_Subset, FS_CardinalityType DEF Adding
  <1>4. CASE b \notin Adding({b})
    <2>1. Adding(T) = A
      BY <1>4 DEF Adding
    <2>. QED
      BY <1>1, <1>2, <1>3, <2>1
  <1>5. CASE b \in Adding({b})
    <2>1. Adding(T) = A \cup {b}
      BY <1>5 DEF Adding
    <2>2. Cardinality(A \cup {b}) <= Cardinality(A) + 1
      BY <1>1, FS_AddElement
    <2>. QED
      BY <1>1, <1>2, <1>3, <1>5, <2>1, <2>2
  <1>. QED
    BY <1>4, <1>5

LEMMA OneFewer ==
    ASSUME NEW S, IsFiniteSet(S), NEW a \in S, NEW T, T = S \ {a}
    PROVE  /\ IsFiniteSet(T)
           /\ Cardinality(Adding(T)) \in Nat
           /\ Cardinality(Adding(T)) <= Cardinality(Adding(S))
  <1>1. IsFiniteSet(Adding(S)) /\ IsFiniteSet(T)
    BY FS_Subset, FS_RemoveElement DEF Adding
  <1>2. Adding(T) \subseteq Adding(S)
    BY DEF Adding
  <1>. QED
    BY <1>1, <1>2, FS_Subset, FS_CardinalityType

\* There is a number for one timer more.
LEMMA FreeNumber ==
    ASSUME ChimeTypeOK, NEW a \in asked, a.at = "add"
    PROVE  LET j == CHOOSE j \in 1 .. Cardinality(skipTimers) + 1 : j \notin skipTimers
           IN  j \in Timers /\ j \notin skipTimers
  <1>. DEFINE n == Cardinality(skipTimers)
  <1>1. n \in Nat /\ IsFiniteSet(skipTimers)
    BY ChimeBounds
  <1>2. \E j \in 1 .. n + 1 : j \notin skipTimers
    <2>. SUFFICES ASSUME (1 .. n + 1) \subseteq skipTimers PROVE FALSE
      OBVIOUS
    <2>1. Cardinality(1 .. n + 1) = n + 1
      <3>. HIDE DEF n
      <3>. QED
        BY <1>1, FS_Interval
    <2>2. Cardinality(1 .. n + 1) <= n
      BY <1>1, FS_Subset
    <2>. QED
      BY <1>1, <2>1, <2>2
  <1>3. Cardinality(Adding(asked)) \in Nat \ {0}
    <2>1. a \in Adding(asked)
      BY DEF ChimeTypeOK, Adding, ChimeRequest
    <2>. QED
      BY <2>1, ChimeBounds, FS_EmptySet
  <1>4. n + 1 <= MaxChimes
    BY <1>1, <1>3, ChimeBounds DEF ChimeTypeOK
  <1>. HIDE DEF n
  <1>5. PICK j \in 1 .. n + 1 : j = (CHOOSE k \in 1 .. n + 1 : k \notin skipTimers) /\ j \notin skipTimers
    BY <1>2
  <1>6. j \in Timers
    BY <1>1, <1>4, <1>5, ChimeBounds DEF Timers
  <1>. QED
    BY <1>5, <1>6 DEF n

-----------------------------------------------------------------------------
(* Chimes: every step *)

\* A request that goes on adds a timer afterwards only if it had it to add before.
LEMMA GoesOn ==
    ASSUME ChimeTypeOK, NEW a \in asked, NEW at \in AskStep, NEW job \in 0 .. MaxChimes,
           Go(a, at, job),
           IF a.does = "skip" THEN at # "lower" ELSE at \notin {"add", "raise"},
           a.does = "skip" /\ a.at = "raise" => at = "raise"
    PROVE  /\ asked' \subseteq ChimeRequest /\ IsFiniteSet(asked')
           /\ \A x \in asked' : IF x.does = "skip" THEN x.at # "lower"
                                ELSE x.at \notin {"add", "raise"}
           /\ Cardinality(Adding(asked')) \in Nat
           /\ Cardinality(Adding(asked')) <= Cardinality(Adding(asked))
           /\ a \in Adding(asked) /\ at = "raise" =>
                 Cardinality(Adding(asked')) = Cardinality(Adding(asked)) - 1
  <1>. DEFINE b == At(a.by, a.does, at, job)
  <1>1. b \in ChimeRequest /\ b.does = a.does /\ b.at = at
    BY DEF ChimeTypeOK, ChimeRequest, At
  <1>2. asked' = (asked \ {a}) \cup {b}
    BY DEF Go
  <1>. HIDE DEF b
  <1>3. b \in Adding({b}) => a \in Adding(asked)
    BY <1>1 DEF Adding
  <1>4. at = "raise" => b \notin Adding({b})
    BY <1>1 DEF Adding
  <1>5. IsFiniteSet(asked) /\ asked \subseteq ChimeRequest
    BY DEF ChimeTypeOK
  <1>6. /\ IsFiniteSet(asked')
        /\ Cardinality(Adding(asked')) \in Nat
        /\ Cardinality(Adding(asked')) <= Cardinality(Adding(asked))
        /\ a \in Adding(asked) /\ b \notin Adding({b}) =>
              Cardinality(Adding(asked')) = Cardinality(Adding(asked)) - 1
    BY ONLY <1>2, <1>3, <1>5, Exchange
  <1>7. /\ asked' \subseteq ChimeRequest
        /\ \A x \in asked' : IF x.does = "skip" THEN x.at # "lower"
                             ELSE x.at \notin {"add", "raise"}
    BY <1>1, <1>2, <1>5 DEF ChimeTypeOK
  <1>. QED
    BY <1>4, <1>6, <1>7

LEMMA StartChimes ==
    ASSUME ChimeInv, NEW by \in Callers, SkipChimes(by) \/ EnableChimes(by)
    PROVE  ChimeInv'
  <1>1. PICK does \in {"skip", "enable"}, at \in {"find", "lower"} :
            Start(by, does, at) /\ (does = "skip" <=> at = "find")
    BY DEF SkipChimes, EnableChimes
  <1>. DEFINE b == At(by, does, at, 0)
  <1>2. b \in ChimeRequest /\ b.does = does /\ b.at = at
    BY ChimeBounds DEF ChimeInv, ChimeRequest, At, AskStep
  <1>3. /\ asked' = asked \cup {b}
        /\ chimes < MaxChimes /\ chimes' = chimes + 1
        /\ raced' = (raced \/ Opposes(does))
        /\ UNCHANGED <<skipping, skipJob, skipTimers>>
    BY <1>1 DEF Start
  <1>. HIDE DEF b
  <1>4. ChimeTypeOK'
    <2>1. /\ IsFiniteSet(asked')
          /\ Cardinality(Adding(asked')) \in Nat
          /\ Cardinality(Adding(asked')) <= Cardinality(Adding(asked)) + 1
      BY <1>3, OneMore DEF ChimeInv, ChimeTypeOK
    <2>2. /\ chimes' \in 0 .. MaxChimes
          /\ Cardinality(skipTimers') + Cardinality(Adding(asked')) <= chimes'
      BY <1>3, <2>1, ChimeBounds DEF ChimeInv, ChimeTypeOK
    <2>3. /\ asked' \subseteq ChimeRequest
          /\ \A x \in asked' : IF x.does = "skip" THEN x.at # "lower"
                               ELSE x.at \notin {"add", "raise"}
      BY <1>1, <1>2, <1>3 DEF ChimeInv, ChimeTypeOK
    <2>. QED
      BY <1>3, <2>1, <2>2, <2>3 DEF ChimeInv, ChimeTypeOK
  <1>5. ASSUME ~raced' PROVE FlagInv'
    <2>1. FlagInv /\ \A x \in asked : x.does = does
      BY <1>3, <1>5 DEF ChimeInv, Opposes
    <2>2. \A x, y \in asked' : x.does = y.does
      BY <1>2, <1>3, <2>1
    <2>3. \A x \in asked' : x.does = "enable" /\ x.at # "lower" => ~skipping'
      BY <1>1, <1>2, <1>3, <2>1 DEF FlagInv
    <2>4. TimerComes'
      <3>1. CASE at = "lower"
        BY <1>2, <1>3, <3>1 DEF TimerComes
      <3>2. CASE at = "find"
        <4>1. b \in Adding(asked')
          BY <1>1, <1>2, <1>3, <3>2 DEF Adding
        <4>. QED
          BY <4>1 DEF TimerComes
      <3>. QED
        BY <3>1, <3>2
    <2>. QED
      BY <2>2, <2>3, <2>4 DEF FlagInv
  <1>. QED
    BY <1>4, <1>5 DEF ChimeInv

\* The steps of _skip_chime_job_cancel.
LEMMA CancelStep ==
    ASSUME ChimeInv, NEW a \in asked, FindJob(a) \/ RemoveJob(a) \/ ForgetJob(a)
    PROVE  ChimeInv'
  <1>1. /\ a \in ChimeRequest
        /\ IF a.does = "skip" THEN a.at # "lower" ELSE a.at \notin {"add", "raise"}
        /\ a.at \in {"find", "remove", "forget"}
        /\ UNCHANGED <<skipping, raced, chimes>>
    BY DEF ChimeInv, ChimeTypeOK, FindJob, RemoveJob, ForgetJob
  <1>2. skipTimers' \subseteq skipTimers /\ Cardinality(skipTimers') <= Cardinality(skipTimers)
    <2>1. skipTimers' \subseteq skipTimers
      BY DEF FindJob, RemoveJob, ForgetJob
    <2>. QED
      BY <2>1, ChimeBounds, FS_Subset DEF ChimeInv
  <1>3. Cardinality(skipTimers') \in Nat
    BY <1>2, ChimeBounds, FS_Subset, FS_CardinalityType DEF ChimeInv
  <1>4. skipJob' \in 0 .. MaxChimes
    BY ChimeBounds DEF ChimeInv, ChimeTypeOK, FindJob, RemoveJob, ForgetJob
  <1>5. CASE a.does = "enable" /\ a.at = "forget"
    <2>1. asked' = asked \ {a}
      BY <1>5 DEF FindJob, RemoveJob, ForgetJob
    <2>2. /\ IsFiniteSet(asked')
          /\ Cardinality(Adding(asked')) \in Nat
          /\ Cardinality(Adding(asked')) <= Cardinality(Adding(asked))
      BY <2>1, OneFewer DEF ChimeInv, ChimeTypeOK
    <2>3. Cardinality(skipTimers') + Cardinality(Adding(asked')) <= chimes'
      BY <1>1, <1>2, <1>3, <2>2, ChimeBounds DEF ChimeInv, ChimeTypeOK
    <2>4. ChimeTypeOK'
      BY <1>1, <1>2, <1>4, <2>1, <2>2, <2>3 DEF ChimeInv, ChimeTypeOK
    <2>5. ASSUME ~raced' PROVE FlagInv'
      <3>1. FlagInv /\ ~skipping /\ \A x \in asked : x.at # "raise"
        BY <1>1, <1>5, <2>5 DEF ChimeInv, ChimeTypeOK, FlagInv
      <3>. QED
        BY <1>1, <2>1, <3>1 DEF FlagInv
    <2>. QED
      BY <2>4, <2>5 DEF ChimeInv
  <1>6. CASE ~(a.does = "enable" /\ a.at = "forget")
    <2>1. PICK at \in {"remove", "forget", "add"}, job \in 0 .. MaxChimes :
              Go(a, at, job) /\ (at = "add" => a.does = "skip")
      BY <1>1, <1>6, ChimeBounds DEF ChimeInv, ChimeTypeOK, FindJob, RemoveJob, ForgetJob, ChimeRequest
    <2>2. /\ asked' \subseteq ChimeRequest /\ IsFiniteSet(asked')
          /\ \A x \in asked' : IF x.does = "skip" THEN x.at # "lower"
                               ELSE x.at \notin {"add", "raise"}
          /\ Cardinality(Adding(asked')) \in Nat
          /\ Cardinality(Adding(asked')) <= Cardinality(Adding(asked))
      <3>1. at \in AskStep
        BY DEF AskStep
      <3>. QED
        BY <1>1, <2>1, <3>1, GoesOn DEF ChimeInv
    <2>3. Cardinality(skipTimers') + Cardinality(Adding(asked')) <= chimes'
      BY <1>1, <1>2, <1>3, <2>2, ChimeBounds DEF ChimeInv, ChimeTypeOK
    <2>4. ChimeTypeOK'
      BY <1>1, <1>2, <1>4, <2>2, <2>3 DEF ChimeInv, ChimeTypeOK
    <2>5. ASSUME ~raced' PROVE FlagInv'
      <3>. DEFINE b == At(a.by, a.does, at, job)
      <3>1. asked' = (asked \ {a}) \cup {b} /\ b.does = a.does /\ b.at = at
        BY <2>1 DEF Go, At
      <3>. HIDE DEF b
      <3>2. FlagInv /\ \A x \in asked : x.does = a.does
        BY <1>1, <2>5 DEF ChimeInv, FlagInv
      <3>3. CASE a.does = "skip"
        <4>1. b \in Adding(asked')
          BY <3>1, <3>3 DEF Adding
        <4>2. TimerComes'
          BY <4>1 DEF TimerComes
        <4>3. \A x \in asked' : x.does = "skip"
          BY <3>1, <3>2, <3>3
        <4>. QED
          BY <4>2, <4>3 DEF FlagInv
      <3>4. CASE a.does = "enable"
        <4>1. ~skipping /\ \A x \in asked : x.at # "raise"
          BY <1>1, <3>2, <3>4 DEF ChimeInv, ChimeTypeOK, FlagInv
        <4>2. \A x \in asked' : x.does = "enable" /\ x.at # "raise"
          BY <3>1, <3>2, <3>4, <4>1
        <4>. QED
          BY <1>1, <4>1, <4>2 DEF FlagInv
      <3>. QED
        BY <1>1, <3>3, <3>4 DEF ChimeRequest
    <2>. QED
      BY <2>4, <2>5 DEF ChimeInv
  <1>. QED
    BY <1>5, <1>6

LEMMA AddJobStep ==
    ASSUME ChimeInv, NEW a \in asked, AddJob(a)
    PROVE  ChimeInv'
  <1>. DEFINE j == CHOOSE j \in 1 .. Cardinality(skipTimers) + 1 : j \notin skipTimers
  <1>1. /\ a.at = "add" /\ a.does = "skip" /\ a \in Adding(asked)
        /\ Go(a, "raise", 0)
        /\ UNCHANGED <<skipping, raced, chimes>>
    BY DEF AddJob, ChimeInv, ChimeTypeOK, ChimeRequest, Adding
  <1>2. skipTimers' = skipTimers \cup {j} /\ skipJob' = j
    BY DEF AddJob
  <1>3. j \in Timers /\ j \notin skipTimers
    BY <1>1, FreeNumber DEF ChimeInv
  <1>. HIDE DEF j
  <1>4. Cardinality(skipTimers') = Cardinality(skipTimers) + 1
    BY <1>2, <1>3, ChimeBounds, FS_AddElement DEF ChimeInv
  <1>5. /\ asked' \subseteq ChimeRequest /\ IsFiniteSet(asked')
        /\ \A x \in asked' : IF x.does = "skip" THEN x.at # "lower"
                             ELSE x.at \notin {"add", "raise"}
        /\ Cardinality(Adding(asked')) \in Nat
        /\ Cardinality(Adding(asked')) = Cardinality(Adding(asked)) - 1
    <2>1. "raise" \in AskStep /\ 0 \in 0 .. MaxChimes
      BY ChimeBounds DEF ChimeInv, AskStep
    <2>. QED
      BY <1>1, <2>1, GoesOn DEF ChimeInv
  <1>6. Cardinality(skipTimers') + Cardinality(Adding(asked')) <= chimes'
    BY <1>1, <1>4, <1>5, ChimeBounds DEF ChimeInv, ChimeTypeOK
  <1>7. ChimeTypeOK'
    BY <1>1, <1>2, <1>3, <1>5, <1>6 DEF ChimeInv, ChimeTypeOK, Timers
  <1>8. ASSUME ~raced' PROVE FlagInv'
    <2>1. \A x \in asked' : x.does = "skip"
      BY <1>1, <1>8 DEF Go, At, ChimeInv, FlagInv
    <2>2. TimerComes'
      BY <1>2 DEF TimerComes
    <2>. QED
      BY <2>1, <2>2 DEF FlagInv
  <1>. QED
    BY <1>7, <1>8 DEF ChimeInv

LEMMA RaiseFlagStep ==
    ASSUME ChimeInv, NEW a \in asked, RaiseFlag(a)
    PROVE  ChimeInv'
  <1>1. /\ a.at = "raise" /\ a.does = "skip"
        /\ skipping' = TRUE /\ asked' = asked \ {a}
        /\ UNCHANGED <<skipJob, skipTimers, raced, chimes>>
    BY DEF RaiseFlag, ChimeInv, ChimeTypeOK, ChimeRequest
  <1>2. /\ IsFiniteSet(asked')
        /\ Cardinality(Adding(asked')) \in Nat
        /\ Cardinality(Adding(asked')) <= Cardinality(Adding(asked))
    BY <1>1, OneFewer DEF ChimeInv, ChimeTypeOK
  <1>3. Cardinality(skipTimers') + Cardinality(Adding(asked')) <= chimes'
    BY <1>1, <1>2, ChimeBounds DEF ChimeInv, ChimeTypeOK
  <1>4. ChimeTypeOK'
    BY <1>1, <1>2, <1>3 DEF ChimeInv, ChimeTypeOK
  <1>5. ASSUME ~raced' PROVE FlagInv'
    <2>1. FlagInv /\ TimerComes
      BY <1>1, <1>5 DEF ChimeInv, FlagInv
    <2>2. TimerComes'
      BY <1>1, <2>1 DEF TimerComes, Adding
    <2>3. \A x \in asked' : x.does = "skip"
      BY <1>1, <2>1 DEF FlagInv
    <2>. QED
      BY <2>2, <2>3 DEF FlagInv
  <1>. QED
    BY <1>4, <1>5 DEF ChimeInv

LEMMA LowerFlagStep ==
    ASSUME ChimeInv, NEW a \in asked, LowerFlag(a)
    PROVE  ChimeInv'
  <1>1. /\ a.at = "lower" /\ a.does = "enable"
        /\ skipping' = FALSE /\ Go(a, "find", 0)
        /\ UNCHANGED <<skipJob, skipTimers, raced, chimes>>
    BY DEF LowerFlag, ChimeInv, ChimeTypeOK, ChimeRequest
  <1>2. /\ asked' \subseteq ChimeRequest /\ IsFiniteSet(asked')
        /\ \A x \in asked' : IF x.does = "skip" THEN x.at # "lower"
                             ELSE x.at \notin {"add", "raise"}
        /\ Cardinality(Adding(asked')) \in Nat
        /\ Cardinality(Adding(asked')) <= Cardinality(Adding(asked))
    <2>1. "find" \in AskStep /\ 0 \in 0 .. MaxChimes
      BY ChimeBounds DEF ChimeInv, AskStep
    <2>. QED
      BY <1>1, <2>1, GoesOn DEF ChimeInv
  <1>3. Cardinality(skipTimers') + Cardinality(Adding(asked')) <= chimes'
    BY <1>1, <1>2, ChimeBounds DEF ChimeInv, ChimeTypeOK
  <1>4. ChimeTypeOK'
    BY <1>1, <1>2, <1>3 DEF ChimeInv, ChimeTypeOK
  <1>5. ASSUME ~raced' PROVE FlagInv'
    <2>1. \A x \in asked : x.does = "enable" /\ x.at # "raise"
      BY <1>1, <1>5 DEF ChimeInv, ChimeTypeOK, FlagInv
    <2>2. \A x \in asked' : x.does = "enable" /\ x.at # "raise"
      BY <1>1, <2>1 DEF Go, At
    <2>. QED
      BY <1>1, <2>2 DEF FlagInv
  <1>. QED
    BY <1>4, <1>5 DEF ChimeInv

LEMMA SkipEndsStep ==
    ASSUME ChimeInv, NEW j \in skipTimers, SkipEnds(j)
    PROVE  ChimeInv'
  <1>. DEFINE b == At(NoCaller, "enable", "lower", 0)
  <1>1. /\ skipTimers' = skipTimers \ {j} /\ asked' = asked \cup {b}
        /\ raced' = (raced \/ Opposes("enable"))
        /\ UNCHANGED <<skipping, skipJob, chimes>>
    BY DEF SkipEnds
  <1>2. b \in ChimeRequest /\ b.does = "enable" /\ b.at = "lower"
    BY ChimeBounds DEF ChimeInv, ChimeRequest, At, AskStep
  <1>. HIDE DEF b
  <1>3. IsFiniteSet(asked') /\ Adding(asked') = Adding(asked)
    <2>1. b \notin Adding({b})
      BY <1>2 DEF Adding
    <2>. QED
      BY <1>1, <2>1, OneMore DEF ChimeInv, ChimeTypeOK
  <1>4. Cardinality(skipTimers') \in Nat /\ Cardinality(skipTimers') <= Cardinality(skipTimers)
    BY <1>1, ChimeBounds, FS_Subset, FS_CardinalityType DEF ChimeInv
  <1>5. Cardinality(skipTimers') + Cardinality(Adding(asked')) <= chimes'
    BY <1>1, <1>3, <1>4, ChimeBounds DEF ChimeInv, ChimeTypeOK
  <1>6. ChimeTypeOK'
    <2>1. /\ asked' \subseteq ChimeRequest
          /\ \A x \in asked' : IF x.does = "skip" THEN x.at # "lower"
                               ELSE x.at \notin {"add", "raise"}
      BY <1>1, <1>2 DEF ChimeInv, ChimeTypeOK
    <2>. QED
      BY <1>1, <1>3, <1>5, <2>1 DEF ChimeInv, ChimeTypeOK
  <1>7. ASSUME ~raced' PROVE FlagInv'
    <2>1. FlagInv /\ \A x \in asked : x.does = "enable"
      BY <1>1, <1>7 DEF ChimeInv, Opposes
    <2>2. TimerComes'
      BY <1>1, <1>2 DEF TimerComes
    <2>. QED
      BY <1>1, <1>2, <2>1, <2>2 DEF FlagInv
  <1>. QED
    BY <1>6, <1>7 DEF ChimeInv

LEMMA RestartChimes ==
    ASSUME ChimeInv, Restart
    PROVE  ChimeInv'
  <1>1. /\ skipping' = FALSE /\ skipJob' = 0 /\ skipTimers' = {} /\ asked' = {}
        /\ UNCHANGED chimes
    BY DEF Restart
  <1>2. Adding(asked') = {}
    BY <1>1 DEF Adding
  <1>3. /\ IsFiniteSet(asked') /\ Cardinality(skipTimers') = 0
        /\ Cardinality(Adding(asked')) = 0
    BY <1>1, <1>2, FS_EmptySet
  <1>4. Cardinality(skipTimers') + Cardinality(Adding(asked')) <= chimes'
    BY <1>1, <1>3, ChimeBounds DEF ChimeInv, ChimeTypeOK
  <1>5. /\ skipping' \in BOOLEAN /\ skipJob' \in 0 .. MaxChimes /\ skipTimers' \subseteq Timers
        /\ asked' \subseteq ChimeRequest
        /\ \A a \in asked' : IF a.does = "skip" THEN a.at # "lower" ELSE a.at \notin {"add", "raise"}
    <2>1. 0 \in 0 .. MaxChimes
      BY ChimeBounds DEF ChimeInv
    <2>2. \A a \in asked' : IF a.does = "skip" THEN a.at # "lower" ELSE a.at \notin {"add", "raise"}
      BY <1>1
    <2>. QED
      BY <1>1, <2>1, <2>2
  <1>7. ChimeTypeOK'
    BY <1>1, <1>3, <1>4, <1>5 DEF ChimeInv, ChimeTypeOK
  <1>6. FlagInv'
    BY <1>1 DEF FlagInv
  <1>. QED
    BY <1>6, <1>7 DEF ChimeInv

LEMMA SameChimes ==
    ASSUME ChimeInv, UNCHANGED chimeVars
    PROVE  ChimeInv'
  BY DEF ChimeInv, ChimeTypeOK, FlagInv, TimerComes, Adding, ChimeRequest, Timers, chimeVars

LEMMA NextChimeInv == ChimeInv /\ [Next]_vars => ChimeInv'
  <1>. SUFFICES ASSUME ChimeInv, [Next]_vars PROVE ChimeInv'
    OBVIOUS
  <1>1. CASE Restart
    BY <1>1, RestartChimes
  <1>2. ASSUME NEW by \in Callers, SkipChimes(by) \/ EnableChimes(by) PROVE ChimeInv'
    BY <1>2, StartChimes
  <1>3. CASE ChimeStep
    BY <1>3, CancelStep, AddJobStep, RaiseFlagStep, LowerFlagStep, SkipEndsStep DEF ChimeStep
  <1>4. CASE UNCHANGED chimeVars
    BY <1>4, SameChimes
  <1>5. \/ \E s \in Sensors, contact \in Contact : Report(s, contact)
        \/ NotifierDown
        \/ \E s \in Sensors, opens \in BOOLEAN : NotifyChange(s, opens)
        \/ \E j \in jobs : Expire(j)
        \/ \E f \in firing : MarkExpired(f) \/ TimeoutAction(f)
        \/ Curfew
        \/ NotifierUp
        \/ UNCHANGED vars
        => UNCHANGED chimeVars
    BY DEF Report, NotifierDown, NotifyChange, Expire, MarkExpired, TimeoutAction, Curfew,
           NotifierUp, vars
  <1>. QED
    BY <1>1, <1>2, <1>3, <1>4, <1>5 DEF Next

LEMMA InitChimeInv == Init => ChimeInv
  <1>. SUFFICES ASSUME Init PROVE ChimeInv
    OBVIOUS
  <1>1. skipping = FALSE /\ skipJob = 0 /\ skipTimers = {} /\ asked = {} /\ chimes = 0
    BY DEF Init
  <1>2. Adding(asked) = {} /\ MaxChimes \in Nat
    BY <1>1, ConstantsAssumption DEF Adding
  <1>3. /\ IsFiniteSet(asked) /\ Cardinality(skipTimers) = 0
        /\ Cardinality(Adding(asked)) = 0
    BY <1>1, <1>2, FS_EmptySet
  <1>4. /\ skipping \in BOOLEAN /\ skipJob \in 0 .. MaxChimes /\ skipTimers \subseteq Timers
        /\ asked \subseteq ChimeRequest /\ chimes \in 0 .. MaxChimes
        /\ \A a \in asked : IF a.does = "skip" THEN a.at # "lower" ELSE a.at \notin {"add", "raise"}
    <2>1. 0 \in 0 .. MaxChimes
      BY <1>2
    <2>2. \A a \in asked : IF a.does = "skip" THEN a.at # "lower" ELSE a.at \notin {"add", "raise"}
      BY <1>1
    <2>. QED
      BY <1>1, <2>1, <2>2
  <1>6. Cardinality(skipTimers) + Cardinality(Adding(asked)) <= chimes
    BY <1>1, <1>3
  <1>7. ChimeTypeOK
    BY <1>3, <1>4, <1>6 DEF ChimeTypeOK
  <1>5. FlagInv
    BY <1>1 DEF FlagInv
  <1>. QED
    BY <1>5, <1>7 DEF ChimeInv

LEMMA AlwaysChimeInv == Spec => []ChimeInv
  BY InitChimeInv, NextChimeInv, PTL DEF Spec

\* Chimes are not skipped for good: once the requests have been handled, the service
\* knows of a timer that will end the skipping, for any threads and any requests, unless
\* two of them did the opposite at the same time (transition_executor.py).
THEOREM ChimesHaveTimer == Spec => []SkippingHasTimer
  <1>1. ChimeInv => SkippingHasTimer
    BY DEF ChimeInv, FlagInv, TimerComes, Adding, SkippingHasTimer
  <1>. QED
    BY <1>1, AlwaysChimeInv, PTL

\* The state of the monitor and of the requests about chimes keeps its type; the loop has
\* one handler at a time, and the requests never run out of numbers for their timers.
THEOREM MonitorTypeCorrect == Spec => []TypeOK
  <1>1. EntryInv /\ ChimeInv => TypeOK
    <2>. SUFFICES ASSUME EntryInv, ChimeInv PROVE TypeOK
      OBVIOUS
    <2>1. Cardinality(handling) <= 1
      <3>1. handling = {} \/ \E h : handling = {h}
        BY DEF EntryInv, ContactTypeOK
      <3>. QED
        BY <3>1, FS_EmptySet, FS_Singleton
    <2>. QED
      BY <2>1 DEF TypeOK, EntryInv, ContactTypeOK, ChimeInv, ChimeTypeOK, ChimeRequest
  <1>. QED
    BY <1>1, AlwaysChimeInv, EntryInvariant, PTL

-----------------------------------------------------------------------------
(* The replicas of a value of a Zigbee thing: Z2mThing *)

\* Where a thread is tells what it carries: a request that has not been looked at
\* yet may be invalid, what is about to be published is not.
Carries(u) ==
    /\ u.at = "store"   => u.val \in Values \cup {Invalid}
    /\ u.at = "publish" => u.val \in Values

\* The user threads.
UsersOK ==
    /\ user \in [Services \X Users -> [at : UserSteps, val : Anything]]
    /\ \A t \in Services \X Users : Carries(user[t])

ThingInv == ThingTypeOK /\ UsersOK

\* A message to all services, or one fewer for one of them.
LEMMA ToAllType ==
    ASSUME NEW M, wire \in [Services -> Seq(M)], NEW val \in M, ToAll(val)
    PROVE  wire' \in [Services -> Seq(M)]
  BY DEF ToAll

LEMMA DeliverType ==
    ASSUME NEW M, wire \in [Services -> Seq(M)], NEW s \in Services, Deliver(s)
    PROVE  wire' \in [Services -> Seq(M)] /\ Head(wire[s]) \in M
  BY DEF Deliver

\* A thread goes on to its next step.
LEMMA GotoType ==
    ASSUME UsersOK, NEW t \in Services \X Users, NEW step \in UserSteps,
           NEW val \in Anything, Goto(t, step, val),
           Carries([at |-> step, val |-> val])
    PROVE  UsersOK'
  <1>1. /\ user \in [Services \X Users -> [at : UserSteps, val : Anything]]
        /\ \A u \in Services \X Users : Carries(user[u])
    BY DEF UsersOK
  <1>2. user' = [user EXCEPT ![t] = [at |-> step, val |-> val]]
    BY DEF Goto
  <1>3. ASSUME NEW u \in Services \X Users PROVE Carries(user'[u])
    <2>1. CASE u = t
      BY <1>1, <1>2, <2>1
    <2>2. CASE u # t
      BY <1>1, <1>2, <2>2
    <2>. QED
      BY <2>1, <2>2
  <1>. QED
    BY <1>1, <1>2, <1>3 DEF UsersOK

LEMMA InitThingInv == ThingInit => ThingInv
  BY Z2mThingAssumption DEF ThingInit, ThingInv, UsersOK, ThingTypeOK, Carries, Idle, Anything, UserSteps

LEMMA SetUsers ==
    ASSUME UsersOK, NEW t \in Services \X Users, NEW val \in Values \cup {Invalid}, Set(t, val)
    PROVE  UsersOK'
  <1>1. /\ Goto(t, "store", val) /\ "store" \in UserSteps /\ val \in Anything
        /\ Carries([at |-> "store", val |-> val])
    BY DEF Set, UserSteps, Anything, Carries
  <1>. QED
    BY <1>1, GotoType

LEMMA UserStepUsers ==
    ASSUME UsersOK, NEW t \in Services \X Users, UserStep(t),
           Read(t) => current[Svc(t)] \in Values
    PROVE  UsersOK'
  <1>1. ASSUME NEW step \in {"idle", "broadcast", "read"}, Goto(t, step, Nothing)
        PROVE  UsersOK'
    <2>1. /\ step \in UserSteps /\ Nothing \in Anything
          /\ Carries([at |-> step, val |-> Nothing])
      BY DEF UserSteps, Anything, Carries
    <2>. QED
      BY <1>1, <2>1, GotoType
  <1>2. CASE Read(t)
    <2>1. /\ Goto(t, "publish", current[Svc(t)]) /\ "publish" \in UserSteps
          /\ current[Svc(t)] \in Anything
          /\ Carries([at |-> "publish", val |-> current[Svc(t)]])
      BY <1>2 DEF Read, UserSteps, Anything, Carries
    <2>. QED
      BY <2>1, GotoType
  <1>3. CASE ~Read(t)
    <2>1. \E step \in {"idle", "broadcast", "read"} : Goto(t, step, Nothing)
      BY <1>3 DEF UserStep, Reject, Store, Broadcast, Publish
    <2>. QED
      BY <1>1, <2>1
  <1>. QED
    BY <1>2, <1>3

LEMMA UserThingInv ==
    ASSUME ThingInv, NEW t \in Services \X Users, UserStep(t)
    PROVE  ThingInv'
  <1>1. t[1] \in Services /\ Svc(t) = t[1]
    BY DEF Svc
  <1>2. UsersOK'
    BY <1>1, UserStepUsers DEF ThingInv, ThingTypeOK
  <1>. USE DEF ThingInv, UsersOK, ThingTypeOK, Carries
  <1>3. CASE Reject(t) \/ Broadcast(t) \/ Read(t)
    BY <1>1, <1>2, <1>3 DEF Reject, Broadcast, Read
  <1>4. CASE Store(t)
    <2>1. user[t].val \in Values
      BY <1>4 DEF Store
    <2>. QED
      BY <1>1, <1>2, <1>4, <2>1 DEF Store
  <1>5. CASE Publish(t)
    <2>1. user[t].val \in Values
      BY <1>5 DEF Publish
    <2>2. wire' \in [Services -> Seq(Values)] /\ sets' \in Seq(Values)
      <3>1. ToAll(user[t].val) /\ sets' = Append(sets, user[t].val)
        BY <1>5 DEF Publish
      <3>2. wire \in [Services -> Seq(Values)] /\ sets \in Seq(Values)
        OBVIOUS
      <3>3. wire' \in [Services -> Seq(Values)]
        BY ONLY <2>1, <3>1, <3>2, ToAllType
      <3>. QED
        BY <2>1, <3>1, <3>2, <3>3
    <2>. QED
      BY <1>2, <1>5, <2>2 DEF Publish
  <1>. QED
    BY <1>3, <1>4, <1>5 DEF UserStep

LEMMA SetThingInv ==
    ASSUME ThingInv,
           NEW t \in Services \X Users, NEW val \in Values \cup {Invalid}, Set(t, val)
    PROVE  ThingInv'
  <1>1. UsersOK'
    BY SetUsers DEF ThingInv
  <1>2. requests' \in 0 .. MaxSets
    BY Z2mThingAssumption DEF ThingInv, ThingTypeOK, Set
  <1>3. t[1] \in Services
    OBVIOUS
  <1>. QED
    BY <1>1, <1>2, <1>3 DEF ThingInv, UsersOK, ThingTypeOK, Set, Svc

LEMMA MqttThingInv ==
    ASSUME ThingInv, NEW s \in Services, MqttStep(s)
    PROVE  ThingInv'
  <1>. USE DEF ThingInv, UsersOK, ThingTypeOK
  <1>1. CASE Ignore(s)
    BY <1>1, DeliverType DEF Ignore
  <1>2. CASE Accept(s)
    BY <1>2, DeliverType DEF Accept
  <1>3. CASE Update(s)
    BY <1>3 DEF Update
  <1>. QED
    BY <1>1, <1>2, <1>3 DEF MqttStep

LEMMA DeviceThingInv ==
    ASSUME ThingInv, DeviceSet \/ DevicePressed
    PROVE  ThingInv'
  <1>. USE DEF ThingInv, UsersOK, ThingTypeOK
  <1>1. CASE DeviceSet
    <2>1. device' \in Values /\ sets' \in Seq(Values)
      BY <1>1 DEF DeviceSet
    <2>2. wire' \in [Services -> Seq(Values)]
      BY <1>1, <2>1, ToAllType DEF DeviceSet
    <2>. QED
      BY <1>1, <2>1, <2>2 DEF DeviceSet
  <1>2. CASE DevicePressed
    <2>1. device' \in Values /\ presses' \in 0 .. MaxPresses
      BY <1>2, Z2mThingAssumption DEF DevicePressed
    <2>2. wire' \in [Services -> Seq(Values)]
      BY <1>2, <2>1, ToAllType DEF DevicePressed
    <2>. QED
      BY <1>2, <2>1, <2>2 DEF DevicePressed
  <1>. QED
    BY <1>1, <1>2

LEMMA NextThingInv == ThingInv /\ [ThingNext]_thingVars => ThingInv'
  <1> SUFFICES ASSUME ThingInv, [ThingNext]_thingVars PROVE ThingInv'
    OBVIOUS
  <1>1. CASE UNCHANGED thingVars
    BY <1>1 DEF thingVars, ThingInv, UsersOK, ThingTypeOK
  <1>. QED
    BY <1>1, SetThingInv, UserThingInv, MqttThingInv, DeviceThingInv DEF ThingNext

\* A replica only ever has values that are valid, and only such values are
\* published, whatever users ask for (thing.py, set_value; z2mproxy.py,
\* broadcast_thing).
THEOREM ReplicasAlwaysValid == ThingSpec => []ThingInv
  BY InitThingInv, NextThingInv, PTL DEF ThingSpec

-----------------------------------------------------------------------------
(* The services around the replicas: Z2mNetwork.  The invariants *)

Messages == Values \cup Lists

\* The type of the state that the steps below need.
NetTypes ==
    /\ NetTypeOK
    /\ UsersOK
    /\ pending \in [Services -> BOOLEAN]
    /\ mqtt \in [Services -> Values \cup {Nothing}]
    /\ device \in Values

\* There is no state among the messages of a queue; and if there is, the last one is v.
Stateless(q) == \A i \in 1 .. Len(q) : q[i] \notin Values

Latest(q, v) ==
    \A i \in 1 .. Len(q) :
        q[i] \in Values /\ (\A j \in i + 1 .. Len(q) : q[j] \notin Values) => q[i] = v

\* A thread of the service is about to publish what the service has, or will be.
Owed(s) ==
    \E u \in Users : \/ user[<<s, u>>].at \in {"store", "read", "publish"}
                     \/ user[<<s, u>>].at = "broadcast" /\ pending[s]

\* Where a state that the device does not have any more can be, when nothing is on its
\* way to the device: nowhere that a later state, or the service itself, does not correct.
Replica(s) ==
    /\ Latest(wire[s], device)
    /\ Stateless(wire[s]) /\ mqtt[s] # Nothing => mqtt[s] = device
    /\ Stateless(wire[s]) /\ mqtt[s] = Nothing /\ current[s] # Nothing /\ ~Excused(s) =>
          current[s] = device \/ Owed(s)

\* A service that has handled its requests one at a time: the flag is up from the request
\* to the broadcast, and stays up only if the request was rejected.
Serial(s) ==
    s \notin overlapped =>
        /\ \A u, w \in Users : user[<<s, u>>].at # "idle" /\ user[<<s, w>>].at # "idle" => u = w
        /\ \A u \in Users : user[<<s, u>>].at = "store" => pending[s]
        /\ s \in rejected => pending[s]
        /\ pending[s] /\ s \notin rejected =>
              \E u \in Users : user[<<s, u>>].at \in {"store", "broadcast"}

\* A service that has not been told of the thing has no value of it and no requests
\* about it, and only a light is picked for the vacations.
Informed(s) ==
    /\ Unknown(s) => /\ current[s] = Nothing /\ mqtt[s] = Nothing
                     /\ \A u \in Users : user[<<s, u>>] = Idle
    /\ s \in chosen => known[s] = "light"

NetInv ==
    /\ NetTypes
    /\ \A s \in Services : Serial(s) /\ Informed(s)
    /\ sets = <<>> => \A s \in Services : Replica(s)

-----------------------------------------------------------------------------
(* Queues of messages *)

LEMMA StateAppended ==
    ASSUME NEW M, NEW q \in Seq(M), NEW v \in Values
    PROVE  Latest(Append(q, v), v) /\ ~Stateless(Append(q, v))
  <1>. DEFINE a == Append(q, v)
  <1>1. /\ Len(a) = Len(q) + 1 /\ Len(q) \in Nat
        /\ \A i \in 1 .. Len(q) : a[i] = q[i]
        /\ a[Len(q) + 1] = v
    OBVIOUS
  <1>. HIDE DEF a
  <1>2. ~Stateless(a)
    BY <1>1 DEF Stateless
  <1>3. Latest(a, v)
    <2>. SUFFICES ASSUME NEW i \in 1 .. Len(a), a[i] \in Values,
                         \A j \in i + 1 .. Len(a) : a[j] \notin Values
                  PROVE  a[i] = v
      BY DEF Latest
    <2>1. Len(a) \notin i + 1 .. Len(a)
      BY <1>1
    <2>2. i = Len(a)
      BY <1>1, <2>1
    <2>. QED
      BY <1>1, <2>2
  <1>. QED
    BY <1>2, <1>3 DEF a

LEMMA ListAppended ==
    ASSUME NEW M, NEW q \in Seq(M), NEW l, l \notin Values, NEW v
    PROVE  /\ Latest(q, v) => Latest(Append(q, l), v)
           /\ Stateless(Append(q, l)) <=> Stateless(q)
  <1>. DEFINE a == Append(q, l)
  <1>1. /\ Len(a) = Len(q) + 1 /\ Len(q) \in Nat
        /\ \A i \in 1 .. Len(q) : a[i] = q[i]
        /\ a[Len(q) + 1] = l
    OBVIOUS
  <1>. HIDE DEF a
  <1>2. Stateless(a) <=> Stateless(q)
    BY <1>1 DEF Stateless
  <1>3. ASSUME Latest(q, v) PROVE Latest(a, v)
    <2>. SUFFICES ASSUME NEW i \in 1 .. Len(a), a[i] \in Values,
                         \A j \in i + 1 .. Len(a) : a[j] \notin Values
                  PROVE  a[i] = v
      BY DEF Latest
    <2>1. i \in 1 .. Len(q)
      BY <1>1
    <2>2. \A j \in i + 1 .. Len(q) : q[j] \notin Values
      BY <1>1, <2>1
    <2>3. q[i] \in Values /\ a[i] = q[i]
      BY <1>1, <2>1
    <2>. QED
      BY <1>3, <2>1, <2>2, <2>3 DEF Latest
  <1>. QED
    BY <1>2, <1>3 DEF a

\* What is taken from a queue was its last state, if the rest has none.
LEMMA HeadTaken ==
    ASSUME NEW M, NEW q \in Seq(M), q # <<>>, NEW v, Latest(q, v)
    PROVE  /\ Latest(Tail(q), v)
           /\ Stateless(Tail(q)) /\ Head(q) \in Values => Head(q) = v
           /\ Stateless(Tail(q)) /\ Head(q) \notin Values => Stateless(q)
  <1>. DEFINE t == Tail(q)
  <1>1. /\ Len(q) \in Nat \ {0} /\ Len(t) = Len(q) - 1 /\ Head(q) = q[1]
        /\ \A i \in 1 .. Len(t) : t[i] = q[i + 1]
    OBVIOUS
  <1>. HIDE DEF t
  <1>2. \A i \in 2 .. Len(q) : i - 1 \in 1 .. Len(t) /\ t[i - 1] = q[i]
    BY <1>1
  <1>3. Latest(t, v)
    <2>. SUFFICES ASSUME NEW i \in 1 .. Len(t), t[i] \in Values,
                         \A j \in i + 1 .. Len(t) : t[j] \notin Values
                  PROVE  t[i] = v
      BY DEF Latest
    <2>1. i + 1 \in 1 .. Len(q) /\ t[i] = q[i + 1]
      BY <1>1
    <2>2. ASSUME NEW j \in (i + 1) + 1 .. Len(q) PROVE q[j] \notin Values
      <3>1. j - 1 \in i + 1 .. Len(t) /\ t[j - 1] = q[j]
        BY <1>1, <1>2
      <3>. QED
        BY <3>1
    <2>. QED
      BY <2>1, <2>2 DEF Latest
  <1>4. ASSUME Stateless(t) PROVE \A j \in 2 .. Len(q) : q[j] \notin Values
    BY <1>1, <1>2, <1>4 DEF Stateless
  <1>5. Stateless(t) /\ Head(q) \in Values => Head(q) = v
    BY <1>1, <1>4 DEF Latest
  <1>6. Stateless(t) /\ Head(q) \notin Values => Stateless(q)
    BY <1>1, <1>4 DEF Stateless
  <1>. QED
    BY <1>3, <1>5, <1>6 DEF t

LEMMA OneList ==
    ASSUME NEW l, l \notin Values, NEW v
    PROVE  Latest(<<l>>, v) /\ Stateless(<<l>>)
  BY DEF Latest, Stateless

-----------------------------------------------------------------------------
(* Types *)

\* On is a value; lists and the set of the brightness are not, nor is an absent value.
LEMMA ValuesApart ==
    /\ On \in Values /\ Off \in Values /\ Nothing \notin Values /\ Bright \notin Values
    /\ \A l \in Lists : l \notin Values
    /\ Invalid \notin Values
    /\ \A done : TheList(done) \in Lists
  BY Z2mNetworkAssumption, Z2mThingAssumption, MessagesAssumption DEF Lists, TheList

LEMMA SvcOf ==
    ASSUME NEW t \in Services \X Users
    PROVE  Svc(t) \in Services /\ \E u \in Users : t = <<Svc(t), u>>
  BY DEF Svc

\* What a request does to the types.
LEMMA SetTypes ==
    ASSUME NetTypes, NEW t \in Services \X Users, NEW val \in Values \cup {Invalid},
           Set(t, val), UNCHANGED netVars
    PROVE  NetTypes'
  <1>1. UsersOK'
    BY SetUsers DEF NetTypes
  <1>. QED
    BY <1>1, SvcOf DEF Set, NetTypes, NetTypeOK, netVars

LEMMA HalfFailsTypes ==
    ASSUME NetTypes, NEW t \in Services \X Users, NEW val \in Values, HalfFails(t, val)
    PROVE  NetTypes'
  BY SvcOf DEF HalfFails, NetTypes, NetTypeOK, UsersOK, netVars

LEMMA SetBrightTypes ==
    ASSUME NetTypes, NEW t \in Services \X Users, LateAfternoon(t) \/ Evening(t)
    PROVE  NetTypes'
  <1>1. UsersOK'
    <2>1. CASE user' = user
      BY <2>1 DEF NetTypes, UsersOK
    <2>2. CASE SetBright(t)
      <3>1. /\ Goto(t, "broadcast", Nothing) /\ "broadcast" \in UserSteps
            /\ Nothing \in Anything /\ Carries([at |-> "broadcast", val |-> Nothing])
        BY <2>2 DEF SetBright, UserSteps, Anything, Carries
      <3>. QED
        BY <3>1, GotoType DEF NetTypes
    <2>. QED
      BY <2>1, <2>2 DEF LateAfternoon, Evening
  <1>2. bright' \in SUBSET Services /\ chosen' \in SUBSET Cron
    BY SvcOf DEF LateAfternoon, Evening, SetBright, NetTypes, NetTypeOK
  <1>3. UNCHANGED <<known, current, pending, mqtt, wire, sets, device>>
    BY DEF LateAfternoon, Evening, SetBright
  <1>. QED
    BY <1>1, <1>2, <1>3 DEF NetTypes, NetTypeOK

LEMMA RequestStepTypes ==
    ASSUME NetTypes, NEW t \in Services \X Users, RequestStep(t)
    PROVE  NetTypes'
  <1>1. /\ Svc(t) \in Services /\ current[Svc(t)] \in Values \cup {Nothing}
        /\ user[t].at = "store" => user[t].val \in Values \cup {Invalid}
        /\ user[t].at = "publish" => user[t].val \in Values
    BY SvcOf DEF NetTypes, NetTypeOK, UsersOK, Carries
  <1>2. UsersOK'
    <2>1. CASE UserStep(t) /\ (Read(t) => current[Svc(t)] # Nothing)
      BY <1>1, <2>1, UserStepUsers DEF NetTypes
    <2>2. CASE ReadNothing(t)
      <3>1. /\ Goto(t, "publish", Off) /\ "publish" \in UserSteps
            /\ Off \in Anything /\ Carries([at |-> "publish", val |-> Off])
        BY <2>2, ValuesApart DEF ReadNothing, UserSteps, Anything, Carries
      <3>. QED
        BY <3>1, GotoType DEF NetTypes
    <2>3. CASE BroadcastBright(t)
      <3>1. /\ Goto(t, "idle", Nothing) /\ "idle" \in UserSteps
            /\ Nothing \in Anything /\ Carries([at |-> "idle", val |-> Nothing])
        BY <2>3 DEF BroadcastBright, UserSteps, Anything, Carries
      <3>. QED
        BY <3>1, GotoType DEF NetTypes
    <2>4. CASE (Reject(t) \/ Store(t) \/ Publish(t) \/ Broadcast(t)) /\ ~Read(t)
      BY <2>1, <2>4 DEF UserStep
    <2>5. Reject(t) \/ Store(t) \/ Publish(t) \/ Broadcast(t) => ~Read(t)
      BY DEF Reject, Store, Publish, Broadcast, Read
    <2>. QED
      BY <2>1, <2>2, <2>3, <2>4, <2>5 DEF RequestStep, ReadState, BroadcastState, UserStep
  <1>3. CASE Publish(t) /\ UNCHANGED netVars
    <2>1. /\ user[t].val \in Values /\ ToAll(user[t].val) /\ sets' = Append(sets, user[t].val)
          /\ wire \in [Services -> Seq(Values \cup Lists)]
          /\ sets \in Seq(Values \cup {Bright})
      BY <1>1, <1>3 DEF Publish, NetTypes, NetTypeOK
    <2>2. wire' \in [Services -> Seq(Values \cup Lists)]
      BY ONLY <2>1, ToAllType
    <2>. QED
      BY <1>2, <1>3, <2>1, <2>2 DEF Publish, NetTypes, NetTypeOK, netVars
  <1>4. CASE Store(t) /\ UNCHANGED netVars
    <2>1. user[t].val \in Values
      BY <1>1, <1>4 DEF Store
    <2>. QED
      BY <1>1, <1>2, <1>4, <2>1 DEF Store, NetTypes, NetTypeOK, netVars
  <1>5. CASE BroadcastBright(t)
    <2>1. sets' = Append(sets, Bright) /\ sets \in Seq(Values \cup {Bright})
      BY <1>5 DEF BroadcastBright, NetTypes, NetTypeOK
    <2>2. sets' \in Seq(Values \cup {Bright})
      BY <2>1
    <2>. QED
      BY <1>2, <1>5, <2>2 DEF BroadcastBright, NetTypes, NetTypeOK
  <1>6. CASE \/ Reject(t) /\ UNCHANGED netVars
             \/ ReadState(t) \/ ReadNothing(t) \/ BroadcastState(t)
    BY <1>1, <1>2, <1>6
       DEF Reject, ReadState, Read, ReadNothing, BroadcastState, Broadcast,
           NetTypes, NetTypeOK, netVars
  <1>. QED
    BY <1>3, <1>4, <1>5, <1>6 DEF RequestStep

LEMMA NetStepTypes ==
    ASSUME NetTypes, NEW s \in Services, NetStep(s)
    PROVE  NetTypes'
  <1>1. wire \in [Services -> Seq(Messages)]
    BY DEF NetTypes, NetTypeOK, Messages
  <1>2. Deliver(s) => wire' \in [Services -> Seq(Values \cup Lists)]
    BY <1>1, DeliverType DEF Messages
  <1>3. UNCHANGED user => UsersOK'
    BY DEF NetTypes, UsersOK
  <1>4. CASE Discover(s)
    <2>1. Learned(s, Head(wire[s])) \in Knowledge
      BY DEF Learned, Knowledge, Parsed, NetTypes, NetTypeOK
    <2>. QED
      BY <1>2, <1>3, <1>4, <2>1 DEF Discover, NetTypes, NetTypeOK
  <1>5. CASE Unhandled(s)
    BY <1>2, <1>3, <1>5 DEF Unhandled, NetTypes, NetTypeOK, netVars
  <1>6. CASE Handle(s) /\ mqtt[s] = Nothing
    <2>1. Deliver(s) /\ Head(wire[s]) \in Values
      BY <1>6 DEF Handle, MqttStep, Ignore, Accept, Update
    <2>2. mqtt' \in [Services -> Values \cup {Nothing}]
      BY <1>6, <2>1 DEF Handle, MqttStep, Ignore, Accept, Update, NetTypes
    <2>3. UNCHANGED <<current, pending, user, sets, device>>
      BY <1>6 DEF Handle, MqttStep, Ignore, Accept, Update
    <2>. QED
      BY <1>2, <1>3, <1>6, <2>1, <2>2, <2>3 DEF Handle, NetTypes, NetTypeOK, netVars
  <1>7. CASE Handle(s) /\ mqtt[s] # Nothing
    <2>1. Update(s) /\ UNCHANGED netVars /\ mqtt[s] \in Values
      BY <1>7 DEF Handle, MqttStep, Ignore, Accept, Deliver, NetTypes
    <2>. QED
      BY <1>3, <2>1 DEF Update, NetTypes, NetTypeOK, netVars
  <1>. QED
    BY <1>4, <1>5, <1>6, <1>7 DEF NetStep

\* The device, and zigbee2mqtt.
LEMMA DeviceTypes ==
    ASSUME NetTypes,
           DeviceStep \/ DeviceBrightened \/ (DevicePressed /\ UNCHANGED netVars)
    PROVE  /\ NetTypes'
           /\ ToAll(device')
           /\ UNCHANGED <<current, pending, mqtt, user, overlapped, rejected, known, chosen>>
  <1>1. /\ device' \in Values /\ ToAll(device')
        /\ sets' \in Seq(Values \cup {Bright})
    <2>1. sets \in Seq(Values \cup {Bright})
      BY DEF NetTypes, NetTypeOK
    <2>2. CASE DeviceStep
      <3>1. sets # <<>> /\ device' = Head(sets) /\ sets' = Tail(sets) /\ Head(sets) # Bright
        BY <2>2 DEF DeviceStep, DeviceSet
      <3>2. Head(sets) \in Values
        BY <2>1, <3>1
      <3>. QED
        BY <2>1, <2>2, <3>1, <3>2 DEF DeviceStep, DeviceSet
    <2>3. CASE DeviceBrightened
      BY <2>1, <2>3, ValuesApart DEF DeviceBrightened
    <2>4. CASE DevicePressed
      BY <2>1, <2>4 DEF DevicePressed
    <2>. QED
      BY <2>2, <2>3, <2>4
  <1>2. wire' \in [Services -> Seq(Values \cup Lists)]
    <2>1. wire \in [Services -> Seq(Values \cup Lists)]
      BY DEF NetTypes, NetTypeOK
    <2>. QED
      BY <1>1, <2>1, ToAllType
  <1>3. UNCHANGED <<current, pending, mqtt, user, overlapped, rejected, known, bright, chosen>>
    BY DEF DeviceStep, DeviceSet, DeviceBrightened, DevicePressed, netVars
  <1>. QED
    BY <1>1, <1>2, <1>3 DEF NetTypes, NetTypeOK, UsersOK

LEMMA PublishListTypes ==
    ASSUME NetTypes, PublishList
    PROVE  NetTypes'
  <1>1. wire' = [s \in Services |-> Append(wire[s], TheList(interviewed'))]
    BY DEF PublishList
  <1>2. wire' \in [Services -> Seq(Values \cup Lists)]
    BY <1>1, ValuesApart DEF NetTypes, NetTypeOK
  <1>. QED
    BY <1>2 DEF PublishList, NetTypes, NetTypeOK, UsersOK

LEMMA StartOverTypes ==
    ASSUME NetTypes, NEW s \in Services, StartOver(s)
    PROVE  NetTypes'
  <1>1. UsersOK'
    <2>1. Idle \in [at : UserSteps, val : Anything] /\ Carries(Idle)
      BY DEF Idle, UserSteps, Anything, Carries
    <2>2. user' = [t \in Services \X Users |-> IF Svc(t) = s THEN Idle ELSE user[t]]
      BY DEF StartOver
    <2>. QED
      BY <2>1, <2>2 DEF NetTypes, UsersOK
  <1>2. wire' \in [Services -> Seq(Values \cup Lists)]
    <2>1. <<TheList(interviewed)>> \in Seq(Values \cup Lists)
      BY ValuesApart
    <2>. QED
      BY <2>1 DEF StartOver, NetTypes, NetTypeOK
  <1>. QED
    BY <1>1, <1>2 DEF StartOver, NetTypes, NetTypeOK, Knowledge

-----------------------------------------------------------------------------
(* What a step does to one service, and leaves alone in the others *)

\* The requests of the service, and what it knows.
SameRequests(x) ==
    /\ \A u \in Users : user'[<<x, u>>] = user[<<x, u>>]
    /\ x \in overlapped' <=> x \in overlapped
    /\ x \in rejected' <=> x \in rejected
    /\ x \in chosen' <=> x \in chosen
    /\ pending'[x] = pending[x] /\ known'[x] = known[x]
    /\ current'[x] = current[x] /\ mqtt'[x] = mqtt[x]

Spared(x) == SameRequests(x) /\ wire'[x] = wire[x]

LEMMA SameRequestsInv ==
    ASSUME NEW x \in Services, SameRequests(x), Serial(x), Informed(x)
    PROVE  Serial(x)' /\ Informed(x)'
  <1>1. Serial(x)'
    BY DEF SameRequests, Serial
  <1>2. Informed(x)'
    BY DEF SameRequests, Informed, Unknown
  <1>. QED
    BY <1>1, <1>2

LEMMA SparedReplica ==
    ASSUME NEW x \in Services, Spared(x), device' = device, Replica(x)
    PROVE  Replica(x)'
  <1>1. (Owed(x) => Owed(x)') /\ (Excused(x)' <=> Excused(x))
    BY DEF Spared, SameRequests, Owed, Excused
  <1>. QED
    BY <1>1 DEF Spared, SameRequests, Replica

\* A step of one service; the device has still what it had.
LEMMA OneService ==
    ASSUME NetInv, NetTypes', NEW s \in Services,
           \A x \in Services \ {s} : Spared(x),
           UNCHANGED device, sets' = sets \/ sets' # <<>>,
           Serial(s)', Informed(s)', sets' = <<>> => Replica(s)'
    PROVE  NetInv'
  <1>1. ASSUME NEW x \in Services PROVE Serial(x)' /\ Informed(x)'
    <2>1. CASE x = s
      BY <2>1
    <2>2. CASE x # s
      <3>1. SameRequests(x)
        BY <2>2 DEF Spared
      <3>. QED
        BY <3>1, SameRequestsInv DEF NetInv
    <2>. QED
      BY <2>1, <2>2
  <1>2. ASSUME sets' = <<>>, NEW x \in Services PROVE Replica(x)'
    <2>1. CASE x = s
      BY <1>2, <2>1
    <2>2. CASE x # s
      <3>1. Spared(x) /\ Replica(x)
        BY <1>2, <2>2 DEF NetInv
      <3>. QED
        BY <3>1, SparedReplica
    <2>. QED
      BY <2>1, <2>2
  <1>. QED
    BY <1>1, <1>2 DEF NetInv

\* A thread that goes on, and the others.
LEMMA Gone ==
    ASSUME UsersOK, NEW s \in Services, NEW u \in Users, NEW step, NEW val,
           Goto(<<s, u>>, step, val)
    PROVE  /\ user'[<<s, u>>].at = step
           /\ \A w \in Users \ {u} : user'[<<s, w>>] = user[<<s, w>>]
           /\ \A x \in Services \ {s} : \A w \in Users : user'[<<x, w>>] = user[<<x, w>>]
  BY DEF Goto, UsersOK

LEMMA IdleThread == Idle.at = "idle"
  BY DEF Idle

-----------------------------------------------------------------------------
(* Requests *)

\* Set, of a thread that was idle: from now on the replica will be published.
LEMMA SetNet ==
    ASSUME NetInv, NEW t \in Services \X Users, NEW val \in Values \cup {Invalid},
           Set(t, val), UNCHANGED netVars, ~Unknown(Svc(t))
    PROVE  NetInv'
  <1>1. PICK s \in Services, u \in Users : t = <<s, u>> /\ Svc(t) = s
    BY SvcOf
  <1>2. /\ NetTypes' /\ UsersOK /\ pending \in [Services -> BOOLEAN]
    BY SetTypes DEF NetInv, NetTypes
  <1>3. /\ user[<<s, u>>] = Idle /\ Goto(<<s, u>>, "store", val)
        /\ pending' = [pending EXCEPT ![s] = TRUE]
        /\ overlapped' = overlapped \cup {x \in {s} : \E w \in Users : user[<<x, w>>] # Idle}
        /\ UNCHANGED <<current, mqtt, wire, sets, device, rejected, known, chosen>>
    BY <1>1 DEF Set, netVars
  <1>4. /\ user'[<<s, u>>].at = "store"
        /\ \A w \in Users \ {u} : user'[<<s, w>>] = user[<<s, w>>]
        /\ \A x \in Services \ {s} : \A w \in Users : user'[<<x, w>>] = user[<<x, w>>]
    BY <1>2, <1>3, Gone
  <1>5. \A x \in Services \ {s} : Spared(x)
    BY <1>2, <1>3, <1>4 DEF Spared, SameRequests
  <1>6. Serial(s)'
    <2>. SUFFICES ASSUME s \notin overlapped' PROVE Serial(s)'
      BY DEF Serial
    <2>1. \A w \in Users : user[<<s, w>>].at = "idle"
      BY <1>3, IdleThread
    <2>2. pending'[s]
      BY <1>2, <1>3
    <2>. QED
      BY <1>4, <2>1, <2>2 DEF Serial
  <1>7. Informed(s)'
    BY <1>1, <1>3 DEF NetInv, Informed, Unknown
  <1>8. ASSUME sets' = <<>> PROVE Replica(s)'
    <2>1. Replica(s) /\ Owed(s)'
      BY <1>3, <1>4, <1>8 DEF NetInv, Owed
    <2>. QED
      BY <1>3, <2>1 DEF Replica
  <1>. QED
    BY <1>2, <1>3, <1>5, <1>6, <1>7, <1>8, OneService

LEMMA HalfFailsNet ==
    ASSUME NetInv, NEW t \in Services \X Users, NEW val \in Values, HalfFails(t, val)
    PROVE  NetInv'
  <1>1. PICK s \in Services, u \in Users : t = <<s, u>> /\ Svc(t) = s
    BY SvcOf
  <1>2. /\ NetTypes' /\ pending \in [Services -> BOOLEAN]
        /\ current \in [Services -> Values \cup {Nothing}]
    BY HalfFailsTypes DEF NetInv, NetTypes, NetTypeOK
  <1>3. /\ HasState(s)
        /\ pending' = [pending EXCEPT ![s] = TRUE]
        /\ current' = [current EXCEPT ![s] = val]
        /\ rejected' = rejected \cup {s}
        /\ overlapped' = overlapped \cup Busy(s)
        /\ UNCHANGED <<mqtt, user, wire, sets, device, known, chosen>>
    BY <1>1 DEF HalfFails, netVars
  <1>4. \A x \in Services \ {s} : Spared(x)
    BY <1>2, <1>3 DEF Spared, SameRequests, Busy
  <1>5. Serial(s)'
    <2>. SUFFICES ASSUME s \notin overlapped' PROVE Serial(s)'
      BY DEF Serial
    <2>1. \A w \in Users : user[<<s, w>>].at = "idle"
      BY <1>3, IdleThread DEF Busy
    <2>2. pending'[s] /\ s \in rejected' /\ user' = user
      BY <1>2, <1>3
    <2>. QED
      BY <2>1, <2>2 DEF Serial
  <1>6. Informed(s)'
    BY <1>3 DEF NetInv, Informed, Unknown, HasState
  <1>7. ASSUME sets' = <<>> PROVE Replica(s)'
    <2>1. Replica(s) /\ Excused(s)'
      BY <1>3, <1>7 DEF NetInv, Excused
    <2>. QED
      BY <1>3, <2>1 DEF Replica
  <1>. QED
    BY <1>2, <1>3, <1>4, <1>5, <1>6, <1>7, OneService

\* A request about the brightness.
LEMMA SetBrightNet ==
    ASSUME NetInv, NEW t \in Services \X Users, LateAfternoon(t) \/ Evening(t)
    PROVE  NetInv'
  <1>1. PICK s \in Services, u \in Users : t = <<s, u>> /\ Svc(t) = s
    BY SvcOf
  <1>2. NetTypes' /\ UsersOK
    BY SetBrightTypes DEF NetInv, NetTypes
  <1>3. /\ known[s] = "light" /\ user[<<s, u>>] = Idle
        /\ \/ user' = user /\ overlapped' = overlapped
           \/ Goto(<<s, u>>, "broadcast", Nothing) /\ overlapped' = overlapped \cup Busy(s)
        /\ chosen' \in {chosen, chosen \cup {s}, chosen \ {s}}
        /\ UNCHANGED <<current, pending, mqtt, wire, sets, device, rejected, known>>
    BY <1>1 DEF LateAfternoon, Evening, SetBright, NetInv, Informed
  <1>4. /\ \A w \in Users \ {u} : user'[<<s, w>>] = user[<<s, w>>]
        /\ \A x \in Services \ {s} : \A w \in Users : user'[<<x, w>>] = user[<<x, w>>]
        /\ \/ user'[<<s, u>>].at = "idle" /\ overlapped' = overlapped
           \/ user'[<<s, u>>].at = "broadcast" /\ overlapped' = overlapped \cup Busy(s)
    <2>1. CASE user' = user /\ overlapped' = overlapped
      BY <1>3, <2>1, IdleThread
    <2>2. CASE Goto(<<s, u>>, "broadcast", Nothing) /\ overlapped' = overlapped \cup Busy(s)
      BY <1>2, <1>3, <2>2, Gone, IdleThread
    <2>. QED
      BY <1>3, <2>1, <2>2
  <1>5. \A x \in Services \ {s} : Spared(x)
    BY <1>3, <1>4 DEF Spared, SameRequests, Busy
  <1>6. user[<<s, u>>].at = "idle"
    BY <1>3, IdleThread
  <1>7. Serial(s)'
    <2>. SUFFICES ASSUME s \notin overlapped' PROVE Serial(s)'
      BY DEF Serial
    <2>1. Serial(s) /\ s \notin overlapped
      BY <1>4 DEF NetInv
    <2>2. CASE user'[<<s, u>>].at = "idle"
      BY <1>3, <1>4, <1>6, <2>1, <2>2 DEF Serial
    <2>3. CASE user'[<<s, u>>].at = "broadcast" /\ overlapped' = overlapped \cup Busy(s)
      <3>1. \A w \in Users : user[<<s, w>>].at = "idle"
        BY <2>3, IdleThread DEF Busy
      <3>. QED
        BY <1>3, <1>4, <2>1, <2>3, <3>1 DEF Serial
    <2>. QED
      BY <1>4, <2>2, <2>3
  <1>8. Informed(s)'
    BY <1>3 DEF NetInv, Informed, Unknown
  <1>9. ASSUME sets' = <<>> PROVE Replica(s)'
    <2>1. Replica(s)
      BY <1>3, <1>9 DEF NetInv
    <2>2. Owed(s) => Owed(s)'
      BY <1>3, <1>4, <1>6 DEF Owed
    <2>3. Excused(s) => Excused(s)'
      BY <1>3, <1>4 DEF Excused
    <2>. QED
      BY <1>3, <2>1, <2>2, <2>3 DEF Replica
  <1>. QED
    BY <1>2, <1>3, <1>5, <1>7, <1>8, <1>9, OneService

-----------------------------------------------------------------------------
(* The steps of a request *)

\* A thread that is at work is the only one of a service that is not overlapped.
LEMMA Alone ==
    ASSUME NEW s \in Services, Serial(s), s \notin overlapped,
           NEW u \in Users, user[<<s, u>>].at # "idle"
    PROVE  \A w \in Users \ {u} : user[<<s, w>>].at = "idle"
  BY DEF Serial

LEMMA RejectStoreNet ==
    ASSUME NetInv, NEW t \in Services \X Users, Reject(t) \/ Store(t), UNCHANGED netVars
    PROVE  NetInv'
  <1>1. PICK s \in Services, u \in Users : t = <<s, u>> /\ Svc(t) = s
    BY SvcOf
  <1>2. /\ NetTypes' /\ UsersOK /\ current \in [Services -> Values \cup {Nothing}]
    BY RequestStepTypes DEF NetInv, NetTypes, NetTypeOK, RequestStep
  <1>3. /\ user[<<s, u>>].at = "store"
        /\ UNCHANGED <<pending, mqtt, wire, sets, device, overlapped, known, chosen>>
        /\ \/ /\ Goto(<<s, u>>, "idle", Nothing)
              /\ rejected' = rejected \cup {s} /\ current' = current
           \/ /\ Goto(<<s, u>>, "broadcast", Nothing)
              /\ rejected' = rejected
              /\ current' = [current EXCEPT ![s] = user[<<s, u>>].val]
    BY <1>1 DEF Reject, Store, netVars
  <1>4. /\ \A w \in Users \ {u} : user'[<<s, w>>] = user[<<s, w>>]
        /\ \A x \in Services \ {s} : \A w \in Users : user'[<<x, w>>] = user[<<x, w>>]
        /\ \/ user'[<<s, u>>].at = "idle" /\ s \in rejected'
           \/ user'[<<s, u>>].at = "broadcast"
    BY <1>2, <1>3, Gone
  <1>5. \A x \in Services \ {s} : Spared(x)
    BY <1>2, <1>3, <1>4 DEF Spared, SameRequests
  <1>6. Serial(s) /\ Informed(s)
    BY DEF NetInv
  <1>7. ASSUME s \notin overlapped
        PROVE  pending[s] /\ \A w \in Users \ {u} : user[<<s, w>>].at = "idle"
    BY <1>3, <1>6, <1>7, Alone DEF Serial
  <1>8. Serial(s)'
    BY <1>3, <1>4, <1>7 DEF Serial
  <1>9. Informed(s)'
    BY <1>3, <1>6, IdleThread DEF Informed, Unknown
  <1>10. ASSUME sets' = <<>> PROVE Replica(s)'
    <2>1. Replica(s)
      BY <1>3, <1>10 DEF NetInv
    <2>2. ~Excused(s)' => Owed(s)'
      BY <1>3, <1>4, <1>7 DEF Excused, Owed
    <2>. QED
      BY <1>3, <2>1, <2>2 DEF Replica
  <1>. QED
    BY <1>2, <1>3, <1>5, <1>8, <1>9, <1>10, OneService

LEMMA BroadcastNet ==
    ASSUME NetInv, NEW t \in Services \X Users, BroadcastState(t) \/ BroadcastBright(t)
    PROVE  NetInv'
  <1>1. PICK s \in Services, u \in Users : t = <<s, u>> /\ Svc(t) = s
    BY SvcOf
  <1>2. /\ NetTypes' /\ UsersOK /\ pending \in [Services -> BOOLEAN]
        /\ sets \in Seq(Values \cup {Bright})
    BY RequestStepTypes DEF NetInv, NetTypes, NetTypeOK, RequestStep
  <1>3. /\ user[<<s, u>>].at = "broadcast"
        /\ UNCHANGED <<current, mqtt, wire, device, overlapped, known, chosen>>
        /\ rejected' = rejected \ {s}
        /\ pending' = [pending EXCEPT ![s] = FALSE]
        /\ \/ Goto(<<s, u>>, IF pending[s] THEN "read" ELSE "idle", Nothing) /\ sets' = sets
           \/ Goto(<<s, u>>, "idle", Nothing) /\ sets' = Append(sets, Bright)
    <2>1. CASE BroadcastState(t)
      BY <1>1, <2>1 DEF BroadcastState, Broadcast
    <2>2. CASE BroadcastBright(t)
      <3>1. pending' = [pending EXCEPT ![s] = FALSE]
        BY <1>1, <1>2, <2>2 DEF BroadcastBright
      <3>. QED
        BY <1>1, <2>2, <3>1 DEF BroadcastBright
    <2>. QED
      BY <2>1, <2>2
  <1>4. /\ \A w \in Users \ {u} : user'[<<s, w>>] = user[<<s, w>>]
        /\ \A x \in Services \ {s} : \A w \in Users : user'[<<x, w>>] = user[<<x, w>>]
        /\ \/ user'[<<s, u>>].at = (IF pending[s] THEN "read" ELSE "idle") /\ sets' = sets
           \/ user'[<<s, u>>].at = "idle" /\ sets' = Append(sets, Bright)
    BY <1>2, <1>3, Gone
  <1>5. sets' = sets \/ sets' # <<>>
    BY <1>2, <1>4
  <1>6. \A x \in Services \ {s} : Spared(x)
    BY <1>2, <1>3, <1>4 DEF Spared, SameRequests
  <1>7. Serial(s) /\ Informed(s)
    BY DEF NetInv
  <1>8. ASSUME s \notin overlapped
        PROVE  \A w \in Users \ {u} : user[<<s, w>>].at = "idle"
    BY <1>3, <1>7, <1>8, Alone
  <1>9. ~pending'[s] /\ s \notin rejected'
    BY <1>2, <1>3
  <1>10. Serial(s)'
    BY <1>3, <1>4, <1>8, <1>9 DEF Serial
  <1>11. Informed(s)'
    BY <1>3, <1>7, IdleThread DEF Informed, Unknown
  <1>12. ASSUME sets' = <<>> PROVE Replica(s)'
    <2>1. sets' = sets /\ Replica(s)
      BY <1>5, <1>12 DEF NetInv
    <2>2. user'[<<s, u>>].at = IF pending[s] THEN "read" ELSE "idle"
      BY <1>2, <1>4, <1>12
    <2>3. ASSUME ~Excused(s)', ~Owed(s)' PROVE ~Excused(s) /\ ~Owed(s)
      <3>1. s \notin overlapped /\ ~pending[s]
        BY <1>3, <2>2, <2>3 DEF Excused, Owed
      <3>2. s \notin rejected
        BY <1>7, <3>1 DEF Serial
      <3>3. ~Owed(s)
        BY <1>3, <1>8, <3>1 DEF Owed
      <3>. QED
        BY <3>1, <3>2, <3>3 DEF Excused
    <2>. QED
      BY <1>3, <2>1, <2>3 DEF Replica
  <1>. QED
    BY <1>2, <1>3, <1>5, <1>6, <1>10, <1>11, <1>12, OneService

LEMMA ReadNet ==
    ASSUME NetInv, NEW t \in Services \X Users, ReadState(t) \/ ReadNothing(t)
    PROVE  NetInv'
  <1>1. PICK s \in Services, u \in Users : t = <<s, u>> /\ Svc(t) = s
    BY SvcOf
  <1>2. NetTypes' /\ UsersOK
    BY RequestStepTypes DEF NetInv, NetTypes, RequestStep
  <1>3. /\ user[<<s, u>>].at = "read"
        /\ \E val : Goto(<<s, u>>, "publish", val)
        /\ UNCHANGED <<current, pending, mqtt, wire, sets, device, overlapped, rejected,
                       known, chosen>>
    BY <1>1 DEF ReadState, Read, ReadNothing, netVars
  <1>4. /\ \A w \in Users \ {u} : user'[<<s, w>>] = user[<<s, w>>]
        /\ \A x \in Services \ {s} : \A w \in Users : user'[<<x, w>>] = user[<<x, w>>]
        /\ user'[<<s, u>>].at = "publish"
    BY <1>2, <1>3, Gone
  <1>5. \A x \in Services \ {s} : Spared(x)
    BY <1>3, <1>4 DEF Spared, SameRequests
  <1>6. Serial(s) /\ Informed(s)
    BY DEF NetInv
  <1>7. ASSUME s \notin overlapped
        PROVE  \A w \in Users \ {u} : user[<<s, w>>].at = "idle"
    BY <1>3, <1>6, <1>7, Alone
  <1>8. Serial(s)'
    <2>. SUFFICES ASSUME s \notin overlapped PROVE Serial(s)'
      BY <1>3 DEF Serial
    <2>1. \A w \in Users : user[<<s, w>>].at \notin {"store", "broadcast"}
      BY <1>3, <1>7
    <2>. QED
      BY <1>3, <1>4, <1>6, <1>7, <2>1 DEF Serial
  <1>9. Informed(s)'
    BY <1>3, <1>6, IdleThread DEF Informed, Unknown
  <1>10. ASSUME sets' = <<>> PROVE Replica(s)'
    <2>1. Replica(s) /\ Owed(s)'
      BY <1>3, <1>4, <1>10 DEF NetInv, Owed
    <2>. QED
      BY <1>3, <2>1 DEF Replica
  <1>. QED
    BY <1>2, <1>3, <1>5, <1>8, <1>9, <1>10, OneService

LEMMA PublishNet ==
    ASSUME NetInv, NEW t \in Services \X Users, Publish(t), UNCHANGED netVars
    PROVE  NetInv'
  <1>1. PICK s \in Services, u \in Users : t = <<s, u>> /\ Svc(t) = s
    BY SvcOf
  <1>2. NetTypes' /\ UsersOK /\ sets \in Seq(Values \cup {Bright})
    BY RequestStepTypes DEF NetInv, NetTypes, NetTypeOK, RequestStep
  <1>3. /\ user[<<s, u>>].at = "publish"
        /\ Goto(<<s, u>>, "idle", Nothing)
        /\ sets' = Append(sets, user[t].val)
        /\ UNCHANGED <<current, pending, mqtt, device, overlapped, rejected, known, chosen>>
    BY <1>1 DEF Publish, netVars
  <1>4. /\ \A w \in Users \ {u} : user'[<<s, w>>] = user[<<s, w>>]
        /\ \A x \in Services \ {s} : \A w \in Users : user'[<<x, w>>] = user[<<x, w>>]
        /\ user'[<<s, u>>].at = "idle"
    BY <1>2, <1>3, Gone
  <1>5. sets' # <<>>
    BY <1>2, <1>3
  <1>6. Serial(s) /\ Informed(s)
    BY DEF NetInv
  <1>7. Serial(s)'
    <2>. SUFFICES ASSUME s \notin overlapped PROVE Serial(s)'
      BY <1>3 DEF Serial
    <2>1. \A w \in Users \ {u} : user[<<s, w>>].at = "idle"
      BY <1>3, <1>6, Alone
    <2>2. \A w \in Users : user[<<s, w>>].at \notin {"store", "broadcast"}
      BY <1>3, <2>1
    <2>. QED
      BY <1>3, <1>4, <1>6, <2>1, <2>2 DEF Serial
  <1>8. Informed(s)'
    BY <1>3, <1>6, IdleThread DEF Informed, Unknown
  <1>9. ASSUME NEW x \in Services \ {s} PROVE Serial(x)' /\ Informed(x)'
    <2>1. SameRequests(x)
      BY <1>3, <1>4 DEF SameRequests
    <2>. QED
      BY <2>1, SameRequestsInv DEF NetInv
  <1>. QED
    BY <1>2, <1>5, <1>7, <1>8, <1>9 DEF NetInv

LEMMA RequestStepNet ==
    ASSUME NetInv, NEW t \in Services \X Users, RequestStep(t)
    PROVE  NetInv'
  BY RejectStoreNet, BroadcastNet, ReadNet, PublishNet DEF RequestStep

-----------------------------------------------------------------------------
(* The MQTT thread *)

\* It takes a message, and what it keeps of it is the last state or older than that.
LEMMA TakesMessage ==
    ASSUME NetInv, NEW s \in Services, Deliver(s), NetTypes',
           UNCHANGED <<current, pending, user, sets, device, overlapped, rejected, chosen>>,
           \A x \in Services \ {s} : mqtt'[x] = mqtt[x] /\ known'[x] = known[x],
           Informed(s)',
           sets = <<>> => Replica(s)'
    PROVE  NetInv'
  <1>1. \A x \in Services \ {s} : Spared(x)
    BY DEF Deliver, Spared, SameRequests, NetInv, NetTypes, NetTypeOK
  <1>2. Serial(s)'
    BY DEF NetInv, Serial
  <1>. QED
    BY <1>1, <1>2, OneService

LEMMA Taken ==
    ASSUME NetInv, NEW s \in Services, Deliver(s), sets = <<>>
    PROVE  /\ wire'[s] = Tail(wire[s]) /\ mqtt[s] = Nothing
           /\ Head(wire[s]) \in Messages
           /\ Latest(Tail(wire[s]), device)
           /\ Stateless(Tail(wire[s])) /\ Head(wire[s]) \in Values => Head(wire[s]) = device
           /\ Stateless(Tail(wire[s])) /\ Head(wire[s]) \notin Values => Stateless(wire[s])
  <1>1. /\ wire \in [Services -> Seq(Messages)] /\ wire[s] # <<>>
        /\ wire' = [wire EXCEPT ![s] = Tail(@)]
        /\ mqtt[s] = Nothing
        /\ Latest(wire[s], device)
    BY DEF NetInv, NetTypes, NetTypeOK, Messages, Deliver, Replica
  <1>2. wire[s] \in Seq(Messages)
    BY <1>1
  <1>3. wire'[s] = Tail(wire[s]) /\ Head(wire[s]) \in Messages
    BY <1>1, <1>2
  <1>. QED
    BY <1>1, <1>2, <1>3, HeadTaken

LEMMA DiscoverNet ==
    ASSUME NetInv, NEW s \in Services, Discover(s)
    PROVE  NetInv'
  <1>1. /\ Deliver(s) /\ Head(wire[s]) \notin Values
        /\ known' = [known EXCEPT ![s] = Learned(s, Head(wire[s]))]
        /\ UNCHANGED <<current, pending, mqtt, user, sets, device, overlapped, rejected, chosen>>
    BY ValuesApart DEF Discover
  <1>2. NetTypes' /\ known \in [Services -> Knowledge]
    BY NetStepTypes DEF NetInv, NetTypes, NetTypeOK, NetStep
  <1>3. Informed(s)'
    <2>1. CASE Unknown(s)
      <3>1. s \notin chosen
        BY <2>1 DEF NetInv, Informed, Unknown
      <3>. QED
        BY <1>1, <2>1, <3>1 DEF NetInv, Informed
    <2>2. CASE ~Unknown(s)
      <3>1. known'[s] = known[s]
        BY <1>1, <1>2, <2>2 DEF Learned
      <3>. QED
        BY <1>1, <3>1 DEF NetInv, Informed, Unknown
    <2>. QED
      BY <2>1, <2>2
  <1>4. ASSUME sets = <<>> PROVE Replica(s)'
    <2>1. Replica(s) /\ (Owed(s) => Owed(s)') /\ (Excused(s)' <=> Excused(s))
      BY <1>1, <1>4 DEF NetInv, Owed, Excused
    <2>2. /\ wire'[s] = Tail(wire[s]) /\ Latest(Tail(wire[s]), device)
          /\ Stateless(Tail(wire[s])) => Stateless(wire[s])
      BY <1>1, <1>4, Taken
    <2>. QED
      BY <1>1, <2>1, <2>2 DEF Replica
  <1>5. \A x \in Services \ {s} : mqtt'[x] = mqtt[x] /\ known'[x] = known[x]
    BY <1>1, <1>2
  <1>. QED
    BY <1>1, <1>2, <1>3, <1>4, <1>5, TakesMessage

LEMMA UnhandledNet ==
    ASSUME NetInv, NEW s \in Services, Unhandled(s)
    PROVE  NetInv'
  <1>1. /\ Deliver(s) /\ Unknown(s)
        /\ UNCHANGED <<current, pending, mqtt, user, sets, device, overlapped, rejected,
                       known, chosen>>
    BY DEF Unhandled, netVars
  <1>2. NetTypes'
    BY NetStepTypes DEF NetInv, NetStep
  <1>3. Informed(s)' /\ current[s] = Nothing /\ mqtt[s] = Nothing
    BY <1>1 DEF NetInv, Informed, Unknown
  <1>4. ASSUME sets = <<>> PROVE Replica(s)'
    BY <1>1, <1>3, <1>4, Taken DEF Replica
  <1>5. \A x \in Services \ {s} : mqtt'[x] = mqtt[x] /\ known'[x] = known[x]
    BY <1>1
  <1>. QED
    BY <1>1, <1>2, <1>3, <1>4, <1>5, TakesMessage

LEMMA HandleNet ==
    ASSUME NetInv, NEW s \in Services, Handle(s)
    PROVE  NetInv'
  <1>1. /\ NetTypes' /\ mqtt \in [Services -> Values \cup {Nothing}]
        /\ current \in [Services -> Values \cup {Nothing}]
    BY NetStepTypes DEF NetInv, NetTypes, NetTypeOK, NetStep
  <1>2. ~Unknown(s) /\ UNCHANGED <<known, chosen>>
    BY DEF Handle, netVars
  <1>3. Informed(s)'
    BY <1>2 DEF NetInv, Informed, Unknown
  <1>4. CASE Ignore(s)
    <2>1. /\ Deliver(s) /\ pending[s]
          /\ UNCHANGED <<current, pending, mqtt, user, sets, device, overlapped, rejected>>
      BY <1>4 DEF Ignore
    <2>2. ASSUME sets = <<>> PROVE Replica(s)'
      <3>1. ~Excused(s)' => Owed(s)'
        BY <2>1 DEF NetInv, Serial, Excused, Owed
      <3>. QED
        BY <2>1, <2>2, <3>1, Taken DEF Replica
    <2>3. \A x \in Services \ {s} : mqtt'[x] = mqtt[x] /\ known'[x] = known[x]
      BY <1>2, <2>1
    <2>. QED
      BY <1>1, <1>2, <1>3, <2>1, <2>2, <2>3, TakesMessage
  <1>5. CASE Accept(s)
    <2>1. /\ Deliver(s) /\ mqtt' = [mqtt EXCEPT ![s] = Head(wire[s])]
          /\ UNCHANGED <<current, pending, user, sets, device, overlapped, rejected>>
      BY <1>5 DEF Accept
    <2>2. mqtt'[s] = Head(wire[s]) /\ Head(wire[s]) \in Values
      BY <1>1, <2>1 DEF Handle, Deliver
    <2>3. ASSUME sets = <<>> PROVE Replica(s)'
      BY <2>1, <2>2, <2>3, Taken, ValuesApart DEF Replica
    <2>4. \A x \in Services \ {s} : mqtt'[x] = mqtt[x] /\ known'[x] = known[x]
      BY <1>1, <1>2, <2>1
    <2>. QED
      BY <1>1, <1>2, <1>3, <2>1, <2>3, <2>4, TakesMessage
  <1>6. CASE Update(s)
    <2>1. /\ mqtt[s] # Nothing
          /\ current' = [current EXCEPT ![s] = mqtt[s]]
          /\ mqtt' = [mqtt EXCEPT ![s] = Nothing]
          /\ UNCHANGED <<pending, user, wire, sets, device, overlapped, rejected>>
      BY <1>6 DEF Update
    <2>2. \A x \in Services \ {s} : Spared(x)
      BY <1>1, <1>2, <2>1 DEF Spared, SameRequests
    <2>3. Serial(s)'
      BY <2>1 DEF NetInv, Serial
    <2>4. ASSUME sets = <<>> PROVE Replica(s)'
      <3>1. Replica(s) /\ current'[s] = mqtt[s] /\ mqtt'[s] = Nothing
        BY <1>1, <2>1, <2>4 DEF NetInv
      <3>. QED
        BY <2>1, <3>1 DEF Replica
    <2>. QED
      BY <1>1, <1>3, <2>1, <2>2, <2>3, <2>4, OneService
  <1>. QED
    BY <1>4, <1>5, <1>6 DEF Handle, MqttStep

-----------------------------------------------------------------------------
(* The device, the lists and the process *)

\* What the device says is the last state on every wire.
LEMMA DeviceNet ==
    ASSUME NetInv,
           DeviceStep \/ DeviceBrightened \/ (DevicePressed /\ UNCHANGED netVars)
    PROVE  NetInv'
  <1>1. /\ NetTypes' /\ ToAll(device') /\ device' \in Values
        /\ UNCHANGED <<current, pending, mqtt, user, overlapped, rejected, known, chosen>>
    BY DeviceTypes DEF NetInv, NetTypes
  <1>2. ASSUME NEW x \in Services PROVE Serial(x)' /\ Informed(x)' /\ Replica(x)'
    <2>1. SameRequests(x)
      BY <1>1 DEF SameRequests
    <2>2. wire'[x] = Append(wire[x], device') /\ wire[x] \in Seq(Messages)
      BY <1>1 DEF ToAll, NetInv, NetTypes, NetTypeOK, Messages
    <2>3. Latest(wire'[x], device') /\ ~Stateless(wire'[x])
      BY <1>1, <2>2, StateAppended
    <2>4. Replica(x)'
      BY <2>3 DEF Replica
    <2>. QED
      BY <2>1, <2>4, SameRequestsInv DEF NetInv
  <1>. QED
    BY <1>1, <1>2 DEF NetInv

LEMMA PublishListNet ==
    ASSUME NetInv, PublishList
    PROVE  NetInv'
  <1>1. /\ wire' = [s \in Services |-> Append(wire[s], TheList(interviewed'))]
        /\ UNCHANGED <<current, pending, mqtt, user, sets, device, overlapped, rejected,
                       known, chosen>>
    BY DEF PublishList
  <1>2. NetTypes' /\ TheList(interviewed') \notin Values
    BY PublishListTypes, ValuesApart DEF NetInv
  <1>3. ASSUME NEW x \in Services PROVE Serial(x)' /\ Informed(x)' /\ (Replica(x) => Replica(x)')
    <2>1. SameRequests(x)
      BY <1>1 DEF SameRequests
    <2>2. wire'[x] = Append(wire[x], TheList(interviewed')) /\ wire[x] \in Seq(Messages)
      BY <1>1 DEF NetInv, NetTypes, NetTypeOK, Messages
    <2>3. /\ Latest(wire[x], device) => Latest(wire'[x], device)
          /\ Stateless(wire'[x]) <=> Stateless(wire[x])
      BY <1>2, <2>2, ListAppended
    <2>4. (Owed(x)' <=> Owed(x)) /\ (Excused(x)' <=> Excused(x))
      BY <1>1 DEF Owed, Excused
    <2>5. Replica(x) => Replica(x)'
      BY <1>1, <2>3, <2>4 DEF Replica
    <2>. QED
      BY <2>1, <2>5, SameRequestsInv DEF NetInv
  <1>. QED
    BY <1>1, <1>2, <1>3 DEF NetInv

LEMMA StartOverNet ==
    ASSUME NetInv, NEW s \in Services, StartOver(s)
    PROVE  NetInv'
  <1>1. NetTypes'
    BY StartOverTypes DEF NetInv
  <1>2. UNCHANGED <<sets, device>>
    BY DEF StartOver
  <1>3. \A x \in Services : \A u \in Users :
            user'[<<x, u>>] = IF x = s THEN Idle ELSE user[<<x, u>>]
    BY DEF StartOver, Svc
  <1>4. \A x \in Services \ {s} : Spared(x)
    BY <1>3 DEF StartOver, Spared, SameRequests, NetInv, NetTypes, NetTypeOK
  <1>5. /\ s \notin rejected' /\ ~pending'[s] /\ current'[s] = Nothing /\ mqtt'[s] = Nothing
        /\ s \notin chosen' /\ wire'[s] = <<TheList(interviewed)>>
    BY DEF StartOver, NetInv, NetTypes, NetTypeOK
  <1>6. Serial(s)' /\ Informed(s)'
    <2>1. \A u \in Users : user'[<<s, u>>] = Idle /\ user'[<<s, u>>].at = "idle"
      BY <1>3, IdleThread
    <2>. QED
      BY <1>5, <2>1 DEF Serial, Informed
  <1>7. Replica(s)'
    <2>1. Latest(wire'[s], device')
      BY <1>5, ValuesApart, OneList
    <2>. QED
      BY <1>5, <2>1 DEF Replica
  <1>. QED
    BY <1>1, <1>2, <1>4, <1>6, <1>7, OneService

-----------------------------------------------------------------------------

LEMMA InitNetInv == NetInit => NetInv
  <1>. SUFFICES ASSUME NetInit PROVE NetInv
    OBVIOUS
  <1>1. UsersOK
    <2>1. Idle \in [at : UserSteps, val : Anything] /\ Carries(Idle)
      BY DEF Idle, UserSteps, Anything, Carries
    <2>. QED
      BY <2>1 DEF NetInit, UsersOK
  <1>2. NetTypes
    <2>1. wire \in [Services -> Seq(Values \cup Lists)]
      BY ValuesApart DEF NetInit
    <2>. QED
      BY <1>1, <2>1 DEF NetInit, NetTypes, NetTypeOK, Knowledge
  <1>3. ASSUME NEW s \in Services PROVE Serial(s) /\ Informed(s) /\ Replica(s)
    <2>1. \A u \in Users : user[<<s, u>>] = Idle /\ user[<<s, u>>].at = "idle"
      BY IdleThread DEF NetInit
    <2>2. /\ s \notin rejected /\ ~pending[s] /\ current[s] = Nothing /\ mqtt[s] = Nothing
          /\ s \notin chosen /\ wire[s] = <<TheList(interviewed)>>
      BY DEF NetInit
    <2>3. Serial(s) /\ Informed(s)
      BY <2>1, <2>2 DEF Serial, Informed
    <2>4. Latest(wire[s], device)
      BY <2>2, ValuesApart, OneList
    <2>. QED
      BY <2>2, <2>3, <2>4 DEF Replica
  <1>. QED
    BY <1>2, <1>3 DEF NetInv

LEMMA SameNet ==
    ASSUME NetInv, UNCHANGED allVars
    PROVE  NetInv'
  <1>1. UNCHANGED <<current, pending, mqtt, user, wire, sets, device, overlapped, rejected,
                    known, bright, chosen>>
    BY DEF allVars, thingVars, netVars
  <1>2. NetTypes'
    BY <1>1 DEF NetInv, NetTypes, NetTypeOK, UsersOK
  <1>3. \A x \in Services : Spared(x)
    BY <1>1 DEF Spared, SameRequests
  <1>. QED
    BY <1>1, <1>2, <1>3, SameRequestsInv, SparedReplica DEF NetInv, Spared

LEMMA NextNetInv == NetInv /\ [NetNext]_allVars => NetInv'
  <1>. SUFFICES ASSUME NetInv, [NetNext]_allVars PROVE NetInv'
    OBVIOUS
  <1>1. ASSUME NEW t \in Services \X Users, NEW val \in Values \cup {Invalid}, Request(t, val)
        PROVE  NetInv'
    BY <1>1, SetNet DEF Request, HasState, Unknown
  <1>2. ASSUME NEW t \in Services \X Users, MorningCheck(t) \/ Night(t) PROVE NetInv'
    <2>1. Off \in Values \cup {Invalid}
      BY ValuesApart
    <2>. QED
      BY <1>2, <2>1, SetNet DEF MorningCheck, Night, Unknown
  <1>3. ASSUME NEW s \in Services, Crash(s) \/ ConnectCheck(s) PROVE NetInv'
    BY <1>3, StartOverNet DEF Crash, ConnectCheck
  <1>4. ASSUME NEW s \in Services, NetStep(s) PROVE NetInv'
    BY <1>4, DiscoverNet, UnhandledNet, HandleNet DEF NetStep
  <1>5. CASE UNCHANGED allVars
    BY <1>5, SameNet
  <1>. QED
    BY <1>1, <1>2, <1>3, <1>4, <1>5, HalfFailsNet, SetBrightNet, RequestStepNet, DeviceNet,
       PublishListNet DEF NetNext

LEMMA NetInvariant == NetSpec => []NetInv
  BY InitNetInv, NextNetInv, PTL DEF NetSpec

\* Whatever lists, requests, jobs and messages race, and whatever a restart loses: a
\* service has a valid value of the light or none, publishes and is sent nothing else,
\* and only a service with the jobs picks a light for the vacations (z2mproxy.py, thing.py).
THEOREM NetReplicasValid == NetSpec => []NetTypeOK
  <1>1. NetInv => NetTypeOK
    BY DEF NetInv, NetTypes
  <1>. QED
    BY <1>1, NetInvariant, PTL

\* When nothing is on its way and nobody is at work, the services that know the light
\* have what the device has, for any number of services, threads, requests, lists,
\* changes at the device and restarts (thing.py, set_value_from_mqtt_update; z2mproxy.py,
\* broadcast_thing): excused are those whose last request was rejected, those that
\* handled two requests at a time, and those that have heard of no state.
THEOREM QuietAlwaysAgrees == NetSpec => []QuietAgrees
  <1>1. NetInv => QuietAgrees
    <2>. SUFFICES ASSUME NetInv, Quiet, NEW s \in Services, ~NetExcused(s)
                  PROVE  current[s] = device
      BY DEF QuietAgrees
    <2>1. Replica(s) /\ Stateless(wire[s]) /\ mqtt[s] = Nothing
      BY DEF NetInv, Quiet, Stateless
    <2>2. ~Owed(s)
      BY IdleThread DEF Quiet, Owed
    <2>. QED
      BY <2>1, <2>2 DEF Replica, NetExcused
  <1>. QED
    BY <1>1, NetInvariant, PTL

=============================================================================
