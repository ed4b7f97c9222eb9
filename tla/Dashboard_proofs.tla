-------------------------- MODULE Dashboard_proofs --------------------------
(***************************************************************************)
(* For any set of dependencies and topics and any number of crashes and    *)
(* outages: the tracker keeps its types, reports the moment every          *)
(* dependency is known, and never finds a reachable dependency stale; and  *)
(* so does the dashboard, whose process comes and goes with what it knows. *)
(* For any set of services: the monitor of their logs, which shares no     *)
(* state with the dashboard, stays on whatever it knows through restarts   *)
(* that overlap.                                                           *)
(***************************************************************************)
EXTENDS Dashboard, JournalMonitor, SequenceTheorems, TLAPS

-----------------------------------------------------------------------------
(* The inductive invariant *)

\* Only what is up has a ping to answer.
PingedUp == pinged \subseteq Up

Health ==
    /\ AllKnownIsHealthy
    /\ allAlive => firstStart

\* How far a reachable dependency is from being found stale: at the second
\* check since it was last seen a ping goes out, at the third one the answer is
\* in flight, and it arrives before the fourth.
InTime(d) ==
    /\ age[d] <= MissedPings
    /\ age[d] = 2 => Pending(d) \/ (job = "dropping" /\ pingDue)
    /\ age[d] = 3 => Pending(d) /\ d \in late

Timely ==
    \A d \in steady : /\ link = "up"
                      /\ d \in Up
                      /\ known[d] # Unknown => InTime(d)

IInv == TypeOK /\ PingedUp /\ Health /\ Timely

-----------------------------------------------------------------------------
(* Types *)

LEMMA InitType == Init => TypeOK
  <1> SUFFICES ASSUME Init PROVE TypeOK
    OBVIOUS
  <1>1. <<>> \in Seq(Message)
    OBVIOUS
  <1>2. 0 \in 0 .. MissedPings + 1
    BY DEF MissedPings
  <1>3. 0 \in 0 .. MaxEvents /\ 0 \in 0 .. MaxOutages
    BY ConstantsAssumption
  <1>. QED
    BY <1>1, <1>2, <1>3 DEF Init, TypeOK

\* What a dependency publishes is a message, whether it is delivered or lost.
LEMMA PublishType ==
    ASSUME TypeOK, NEW d \in Deps, NEW kind \in {"announce", "leaving"},
           NEW topic \in Topics \cup {NoTopic}, Publish(d, kind, topic)
    PROVE  wire' \in [Deps -> Seq(Message)]
  <1>1. [kind |-> kind, topic |-> topic] \in Message
    BY DEF Message
  <1>2. wire[d] \in Seq(Message)
    BY DEF TypeOK
  <1>3. Append(wire[d], [kind |-> kind, topic |-> topic]) \in Seq(Message)
    BY <1>1, <1>2
  <1>. QED
    BY <1>3 DEF Publish, TypeOK

\* A message that is received is a message, and leaves messages behind.
LEMMA ReceiveType ==
    ASSUME TypeOK, NEW d \in Deps, NEW kind, Receive(d, kind)
    PROVE  /\ wire' \in [Deps -> Seq(Message)]
           /\ Head(wire[d]).topic \in Topics \cup {NoTopic}
  <1>1. wire[d] \in Seq(Message) /\ wire[d] # <<>>
    BY DEF TypeOK, Receive
  <1>2. Head(wire[d]) \in Message /\ Tail(wire[d]) \in Seq(Message)
    BY <1>1
  <1>. QED
    BY <1>2 DEF Receive, Message, TypeOK

LEMMA DepEventType ==
    ASSUME TypeOK, DepEvent
    PROVE  events' \in 0 .. MaxEvents
  BY ConstantsAssumption DEF DepEvent, TypeOK

LEMMA SeenType ==
    ASSUME TypeOK, NEW d \in Deps, Seen(d)
    PROVE  age' \in [Deps -> 0 .. MissedPings + 1] /\ steady' \subseteq Deps
  <1>1. 0 \in 0 .. MissedPings + 1
    BY DEF MissedPings
  <1>. QED
    BY <1>1 DEF Seen, TypeOK

LEMMA ReportHealthType ==
    ASSUME TypeOK, ReportHealth
    PROVE  allAlive' \in BOOLEAN /\ firstStart' \in BOOLEAN
  BY DEF ReportHealth, TypeOK

LEMMA PingType ==
    ASSUME TypeOK, Ping
    PROVE  pinged' \subseteq Deps
  BY DEF Ping, Up, TypeOK

LEMMA NextType == TypeOK /\ PingedUp /\ [Next]_vars => TypeOK'
  <1> SUFFICES ASSUME TypeOK, PingedUp, [Next]_vars PROVE TypeOK'
    OBVIOUS
  <1>1. CASE Connect
    BY <1>1 DEF Connect, TypeOK, checkVars
  <1>2. CASE Disconnect
    <2>1. outages' \in 0 .. MaxOutages
      BY <1>2, ConstantsAssumption DEF Disconnect, TypeOK
    <2>2. wire' \in [Deps -> Seq(Message)]
      BY <1>2 DEF Disconnect
    <2>. QED
      BY <1>2, <2>1, <2>2 DEF Disconnect, TypeOK, checkVars
  <1>3. ASSUME NEW d \in Deps, NEW topic \in Topics \cup {NoTopic}, DepStart(d, topic)
        PROVE  TypeOK'
    <2>1. wire' \in [Deps -> Seq(Message)] /\ events' \in 0 .. MaxEvents
      BY <1>3, PublishType, DepEventType DEF DepStart
    <2>. QED
      BY <1>3, <2>1 DEF DepStart, DepEvent, TypeOK, clientVars, checkVars
  <1>4. ASSUME NEW d \in Deps, DepStop(d)
        PROVE  TypeOK'
    <2>1. depState[d] \in Topics \cup {NoTopic}
      BY <1>4 DEF DepStop, Up, TypeOK
    <2>2. wire' \in [Deps -> Seq(Message)] /\ events' \in 0 .. MaxEvents
      BY <1>4, <2>1, PublishType, DepEventType DEF DepStop
    <2>. QED
      BY <1>4, <2>2 DEF DepStop, DepEvent, TypeOK, clientVars, checkVars
  <1>5. ASSUME NEW d \in Deps, DepCrash(d)
        PROVE  TypeOK'
    <2>1. events' \in 0 .. MaxEvents
      BY <1>5, DepEventType DEF DepCrash
    <2>. QED
      BY <1>5, <2>1 DEF DepCrash, DepEvent, TypeOK, clientVars, checkVars
  <1>6. ASSUME NEW d \in Deps, DepAnswers(d)
        PROVE  TypeOK'
    <2>1. depState[d] \in Topics \cup {NoTopic}
      BY <1>6 DEF DepAnswers, PingedUp, Up, TypeOK
    <2>2. wire' \in [Deps -> Seq(Message)]
      BY <1>6, <2>1, PublishType DEF DepAnswers
    <2>. QED
      BY <1>6, <2>2 DEF DepAnswers, TypeOK, clientVars, checkVars
  <1>7. ASSUME NEW d \in Deps, HearAgain(d)
        PROVE  TypeOK'
    <2>1. /\ wire' \in [Deps -> Seq(Message)]
          /\ age' \in [Deps -> 0 .. MissedPings + 1]
          /\ steady' \subseteq Deps
      BY <1>7, ReceiveType, SeenType DEF HearAgain
    <2>. QED
      BY <1>7, <2>1 DEF HearAgain, Receive, TypeOK, checkVars
  <1>8. ASSUME NEW d \in Deps, HearNew(d)
        PROVE  TypeOK'
    <2>1. /\ wire' \in [Deps -> Seq(Message)]
          /\ Head(wire[d]).topic \in Topics \cup {NoTopic}
          /\ age' \in [Deps -> 0 .. MissedPings + 1]
          /\ steady' \subseteq Deps
          /\ allAlive' \in BOOLEAN
          /\ firstStart' \in BOOLEAN
      BY <1>8, ReceiveType, SeenType, ReportHealthType DEF HearNew
    <2>. QED
      BY <1>8, <2>1 DEF HearNew, Receive, TypeOK, checkVars
  <1>9. ASSUME NEW d \in Deps, HearLeaving(d)
        PROVE  TypeOK'
    <2>1. /\ wire' \in [Deps -> Seq(Message)]
          /\ allAlive' \in BOOLEAN
          /\ firstStart' \in BOOLEAN
      BY <1>9, ReceiveType, ReportHealthType DEF HearLeaving
    <2>. QED
      BY <1>9, <2>1 DEF HearLeaving, Receive, TypeOK, checkVars
  <1>10. ASSUME NEW d \in Deps, Drop(d)
         PROVE  TypeOK'
    BY <1>10 DEF Drop, TypeOK
  <1>11. CASE StartupPing
    BY <1>11, PingType DEF StartupPing, TypeOK, clientVars
  <1>12. CASE Collect
    <2>1. age' \in [Deps -> 0 .. MissedPings + 1]
      BY <1>12 DEF Collect, CollectWith, TypeOK, MissedPings
    <2>2. late' \subseteq Deps /\ stales' \subseteq Deps
      BY <1>12 DEF Collect, CollectWith
    <2>3. pingDue' \in BOOLEAN
      BY <1>12 DEF Collect, CollectWith
    <2>. QED
      BY <1>12, <2>1, <2>2, <2>3 DEF Collect, CollectWith, TypeOK
  <1>13. CASE FinishCheck
    <2>1. pinged' \subseteq Deps
      BY <1>13, PingType DEF FinishCheck, TypeOK
    <2>. QED
      BY <1>13, <2>1 DEF FinishCheck, TypeOK, clientVars
  <1>14. CASE UNCHANGED vars
    BY <1>14 DEF vars, TypeOK
  <1>. QED
    BY <1>1, <1>2, <1>3, <1>4, <1>5, <1>6, <1>7, <1>8, <1>9, <1>10, <1>11, <1>12,
       <1>13, <1>14 DEF Next

-----------------------------------------------------------------------------
(* Pings and health *)

LEMMA NextPingedUp == TypeOK /\ PingedUp /\ [Next]_vars => PingedUp'
  <1> SUFFICES ASSUME TypeOK, PingedUp, [Next]_vars PROVE PingedUp'
    OBVIOUS
  <1>1. ASSUME Ping, UNCHANGED depState
        PROVE  PingedUp'
    BY <1>1 DEF Ping, PingedUp, Up
  <1>2. ASSUME pinged' \subseteq pinged, UNCHANGED depState
        PROVE  PingedUp'
    BY <1>2 DEF PingedUp, Up
  <1>3. ASSUME NEW d \in Deps, NEW topic \in Topics \cup {NoTopic}, DepStart(d, topic)
        PROVE  PingedUp'
    <2>1. topic # Down
      BY ConstantsAssumption
    <2>. QED
      BY <1>3, <2>1 DEF DepStart, PingedUp, Up, TypeOK
  <1>4. ASSUME NEW d \in Deps, DepStop(d) \/ DepCrash(d)
        PROVE  PingedUp'
    BY <1>4 DEF DepStop, DepCrash, PingedUp, Up, TypeOK
  <1>. QED
    BY <1>1, <1>2, <1>3, <1>4
    DEF Next, vars, Connect, Disconnect, DepAnswers, HearAgain, HearNew, HearLeaving,
        Receive, Drop, StartupPing, Collect, CollectWith, FinishCheck

LEMMA NextHealth == TypeOK /\ Health /\ [Next]_vars => Health'
  <1> SUFFICES ASSUME TypeOK, Health, [Next]_vars PROVE Health'
    OBVIOUS
  <1>1. ASSUME UNCHANGED <<known, allAlive, firstStart>>
        PROVE  Health'
    BY <1>1 DEF Health, AllKnownIsHealthy, Missing
  <1>2. ASSUME ReportHealth
        PROVE  Health'
    BY <1>2 DEF ReportHealth, Health, AllKnownIsHealthy, Missing
  <1>3. ASSUME NEW d \in Deps, Drop(d)
        PROVE  Health'
    <2>1. d \in Missing'
      BY <1>3 DEF Drop, Missing, TypeOK
    <2>. QED
      BY <1>3, <2>1 DEF Drop, Health, AllKnownIsHealthy
  <1>. QED
    BY <1>1, <1>2, <1>3
    DEF Next, vars, clientVars, Connect, Disconnect, DepStart, DepStop, DepCrash,
        DepEvent, DepAnswers, HearAgain, HearNew, HearLeaving, StartupPing,
        Collect, CollectWith, FinishCheck

-----------------------------------------------------------------------------
(* Timeliness *)

\* A step that leaves the check and the dependency alone, and keeps what is in
\* flight of it in flight.
LEMMA InFlightStays ==
    ASSUME TypeOK, Timely, NEW d \in steady, UNCHANGED <<link, job, pingDue, late>>,
           known'[d] = known[d] \/ known'[d] = Unknown, age'[d] = age[d],
           depState'[d] = depState[d], Pending(d) => Pending(d)'
    PROVE  link' = "up" /\ d \in Up' /\ (known'[d] # Unknown => InTime(d)')
  BY DEF Timely, InTime, Up, TypeOK

\* A dependency that was just seen has time.
LEMMA SeenInTime ==
    ASSUME TypeOK, NEW d \in Deps, Seen(d)
    PROVE  InTime(d)'
  BY DEF Seen, InTime, TypeOK, MissedPings

\* Hearing one dependency leaves the others in time, and that one too.
LEMMA HearTimely ==
    ASSUME TypeOK, Timely, NEW e \in Deps,
           link = "up", UNCHANGED <<link, job, pingDue, late, depState, pinged>>,
           Seen(e) \/ (UNCHANGED <<age, steady>> /\ known'[e] = Unknown),
           Head(wire[e]).topic \in Topics \cup {NoTopic},
           \A d \in Deps \ {e} : known'[d] = known[d] /\ wire'[d] = wire[d]
    PROVE  Timely'
  <1> SUFFICES ASSUME NEW d \in steady'
               PROVE  link' = "up" /\ d \in Up' /\ (known'[d] # Unknown => InTime(d)')
    BY DEF Timely
  <1>1. CASE d # e
    <2>1. d \in steady /\ d \in Deps /\ age'[d] = age[d]
      BY <1>1 DEF Seen, TypeOK
    <2>2. Pending(d) => Pending(d)'
      BY <1>1, <2>1 DEF Pending
    <2>. QED
      BY <1>1, <2>1, <2>2, InFlightStays
  <1>2. CASE d = e /\ Seen(e)
    <2>1. d \in Up
      BY <1>2, ConstantsAssumption DEF Seen, Timely, Up
    <2>. QED
      BY <1>2, <2>1, SeenInTime DEF Up
  <1>3. CASE d = e /\ ~Seen(e)
    BY <1>3 DEF Timely, Up
  <1>. QED
    BY <1>1, <1>2, <1>3

\* What is published stays in flight, or is in flight from then on.
LEMMA PublishPending ==
    ASSUME TypeOK, NEW d \in Deps, NEW kind, NEW topic, Publish(d, kind, topic),
           link = "up"
    PROVE  /\ wire'[d] # <<>>
           /\ \A e \in Deps \ {d} : wire'[e] = wire[e]
  BY DEF Publish, TypeOK

LEMMA NextTimely == TypeOK /\ PingedUp /\ Timely /\ [Next]_vars => Timely'
  <1> SUFFICES ASSUME TypeOK, PingedUp, Timely, [Next]_vars PROVE Timely'
    OBVIOUS
  <1>0. steady \subseteq Deps
    BY DEF TypeOK
  <1>1. CASE Connect
    BY <1>1 DEF Connect, Timely
  <1>2. CASE Disconnect
    BY <1>2 DEF Disconnect, Timely
  <1>3. ASSUME NEW e \in Deps, NEW topic \in Topics \cup {NoTopic}, DepStart(e, topic)
        PROVE  Timely'
    <2> SUFFICES ASSUME NEW d \in steady
                 PROVE  link' = "up" /\ d \in Up' /\ (known'[d] # Unknown => InTime(d)')
      BY <1>3 DEF DepStart, Timely
    <2>1. d # e /\ d \in Deps /\ link = "up"
      BY <1>0, <1>3 DEF DepStart, Timely, Up
    <2>2. wire'[d] = wire[d]
      BY <1>3, <2>1, PublishPending DEF DepStart
    <2>. QED
      BY <1>3, <2>1, <2>2, InFlightStays
      DEF DepStart, DepEvent, clientVars, checkVars, Pending, TypeOK
  <1>4. ASSUME NEW e \in Deps, DepStop(e) \/ DepCrash(e)
        PROVE  Timely'
    <2> SUFFICES ASSUME NEW d \in steady \ {e}
                 PROVE  link' = "up" /\ d \in Up' /\ (known'[d] # Unknown => InTime(d)')
      BY <1>4 DEF DepStop, DepCrash, Timely
    <2>1. d \in Deps /\ link = "up"
      BY <1>0 DEF Timely
    <2>2. wire'[d] = wire[d]
      BY <1>4, <2>1, PublishPending DEF DepStop, DepCrash
    <2>. QED
      BY <1>4, <2>1, <2>2, InFlightStays
      DEF DepStop, DepCrash, DepEvent, clientVars, checkVars, Pending, TypeOK
  <1>5. ASSUME NEW e \in Deps, DepAnswers(e)
        PROVE  Timely'
    <2> SUFFICES ASSUME NEW d \in steady
                 PROVE  link' = "up" /\ d \in Up' /\ (known'[d] # Unknown => InTime(d)')
      BY <1>5 DEF DepAnswers, Timely
    <2>1. d \in Deps /\ link = "up"
      BY <1>0 DEF Timely
    <2>2. Pending(d) => Pending(d)'
      <3>1. CASE d = e
        BY <1>5, <2>1, <3>1, PublishPending DEF DepAnswers, Pending
      <3>2. CASE d # e
        <4>1. wire'[d] = wire[d]
          BY <1>5, <2>1, <3>2, PublishPending DEF DepAnswers
        <4>. QED
          BY <1>5, <3>2, <4>1 DEF DepAnswers, Pending
      <3>. QED
        BY <3>1, <3>2
    <2>. QED
      BY <1>5, <2>1, <2>2, InFlightStays DEF DepAnswers, clientVars, checkVars
  <1>6. ASSUME NEW e \in Deps, HearAgain(e)
        PROVE  Timely'
    <2>1. Head(wire[e]).topic \in Topics \cup {NoTopic}
      BY <1>6, ReceiveType DEF HearAgain
    <2>2. \A d \in Deps \ {e} : known'[d] = known[d] /\ wire'[d] = wire[d]
      BY <1>6 DEF HearAgain, Receive, TypeOK
    <2>. QED
      BY <1>6, <2>1, <2>2, HearTimely DEF HearAgain, Receive, checkVars
  <1>7. ASSUME NEW e \in Deps, HearNew(e)
        PROVE  Timely'
    <2>1. Head(wire[e]).topic \in Topics \cup {NoTopic}
      BY <1>7, ReceiveType DEF HearNew
    <2>2. \A d \in Deps \ {e} : known'[d] = known[d] /\ wire'[d] = wire[d]
      BY <1>7 DEF HearNew, Receive, TypeOK
    <2>. QED
      BY <1>7, <2>1, <2>2, HearTimely DEF HearNew, Receive, checkVars
  <1>8. ASSUME NEW e \in Deps, HearLeaving(e)
        PROVE  Timely'
    <2>1. Head(wire[e]).topic \in Topics \cup {NoTopic}
      BY <1>8, ReceiveType DEF HearLeaving
    <2>2. /\ \A d \in Deps \ {e} : known'[d] = known[d] /\ wire'[d] = wire[d]
          /\ known'[e] = Unknown
      BY <1>8 DEF HearLeaving, Receive, TypeOK
    <2>. QED
      BY <1>8, <2>1, <2>2, HearTimely DEF HearLeaving, Receive, checkVars
  <1>9. ASSUME NEW e \in Deps, Drop(e)
        PROVE  Timely'
    <2> SUFFICES ASSUME NEW d \in steady
                 PROVE  link' = "up" /\ d \in Up' /\ (known'[d] # Unknown => InTime(d)')
      BY <1>9 DEF Drop, Timely
    <2>1. known'[d] = known[d] \/ known'[d] = Unknown
      BY <1>0, <1>9 DEF Drop, TypeOK
    <2>. QED
      BY <1>9, <2>1, InFlightStays DEF Drop, Pending
  <1>10. CASE StartupPing
    <2>1. pinged \subseteq pinged'
      BY <1>10 DEF StartupPing, Ping, PingedUp
    <2>. QED
      BY <1>10, <2>1 DEF StartupPing, clientVars, Timely, InTime, Pending, Up
  <1>11. CASE Collect
    <2> SUFFICES ASSUME NEW d \in steady
                 PROVE  link' = "up" /\ d \in Up' /\ (known'[d] # Unknown => InTime(d)')
      BY <1>11 DEF Collect, CollectWith, Timely
    <2>1. link' = "up" /\ d \in Up'
      BY <1>11 DEF Collect, CollectWith, Timely, Up
    <2>2. ASSUME known'[d] # Unknown
          PROVE  InTime(d)'
      <3>1. d \in Deps /\ known[d] # Unknown /\ InTime(d) /\ job = "idle"
        BY <1>0, <1>11, <2>2 DEF Collect, CollectWith, Timely
      <3>2. age[d] \in 0 .. MissedPings + 1
        BY <3>1 DEF TypeOK
      <3>3. age'[d] = age[d] + 1
        BY <1>11, <3>1, <3>2 DEF Collect, CollectWith, InTime
      <3>4. age[d] # 3
        BY <1>11, <3>1 DEF Collect, CollectWith, InTime, PeriodPassed, TypeOK
      <3>5. age[d] = 2 => Pending(d)' /\ d \in late'
        BY <1>11, <3>1 DEF Collect, CollectWith, InTime, Pending
      <3>6. age[d] = 1 => job' = "dropping" /\ pingDue'
        BY <1>11, <3>1, <3>3 DEF Collect, CollectWith, Missing
      <3>7. age[d] \in 0 .. 2
        BY <3>1, <3>2, <3>4 DEF InTime, MissedPings
      <3>8. CASE age[d] = 0
        BY <3>3, <3>8 DEF InTime, MissedPings
      <3>9. CASE age[d] = 1
        BY <3>3, <3>6, <3>9 DEF InTime, MissedPings
      <3>10. CASE age[d] = 2
        BY <3>3, <3>5, <3>10 DEF InTime, MissedPings
      <3>. QED
        BY <3>7, <3>8, <3>9, <3>10
    <2>. QED
      BY <2>1, <2>2
  <1>12. CASE FinishCheck
    <2> SUFFICES ASSUME NEW d \in steady
                 PROVE  link' = "up" /\ d \in Up' /\ (known'[d] # Unknown => InTime(d)')
      BY <1>12 DEF FinishCheck, Timely
    <2>1. link = "up" /\ d \in Up /\ d \in Deps
      BY <1>0 DEF Timely
    <2>2. pingDue \/ Pending(d) => Pending(d)'
      BY <1>12, <2>1 DEF FinishCheck, Ping, Pending
    <2>. QED
      BY <1>12, <2>1, <2>2 DEF FinishCheck, clientVars, Timely, InTime, Up
  <1>13. CASE UNCHANGED vars
    BY <1>13 DEF vars, Timely, InTime, Pending, Up
  <1>. QED
    BY <1>1, <1>2, <1>3, <1>4, <1>5, <1>6, <1>7, <1>8, <1>9, <1>10, <1>11, <1>12,
       <1>13 DEF Next

-----------------------------------------------------------------------------
(* The theorems *)

LEMMA InitIInv == Init => IInv
  <1> SUFFICES ASSUME Init PROVE IInv
    OBVIOUS
  <1>1. TypeOK
    BY InitType
  <1>2. PingedUp /\ Timely
    BY DEF Init, PingedUp, Timely
  <1>3. Health
    BY ConstantsAssumption DEF Init, Health, AllKnownIsHealthy, Missing
  <1>. QED
    BY <1>1, <1>2, <1>3 DEF IInv

\* The inductive invariant holds in every state of the tracker.
THEOREM Invariance == Spec => []IInv
  <1>1. IInv /\ [Next]_vars => IInv'
    BY NextType, NextPingedUp, NextHealth, NextTimely DEF IInv
  <1>. QED
    BY InitIInv, <1>1, PTL DEF Spec

\* Every variable of the tracker keeps its type (zmw_mqtt_service.py).
THEOREM TypeCorrect == Spec => []TypeOK
  <1>1. IInv => TypeOK
    BY DEF IInv
  <1>. QED
    BY <1>1, Invariance, PTL

\* As soon as all dependencies are known the service has been told, for any
\* number of dependencies that come, go, crash and change their topic
\* (zmw_mqtt_service.py, _on_service_updown).
THEOREM AllKnownIsAlwaysHealthy == Spec => []AllKnownIsHealthy
  <1>1. IInv => AllKnownIsHealthy
    BY DEF IInv, Health
  <1>. QED
    BY <1>1, Invariance, PTL

\* What a check finds stale was not up and reachable since it was last seen.
LEMMA StaleIsUnsteady ==
    ASSUME IInv, [Next]_vars, NEW d \in Deps, d \in stales' \ stales
    PROVE  d \notin steady
  <1>1. Collect
    BY DEF Next, vars, clientVars, checkVars, Connect, Disconnect, DepStart, DepStop,
        DepCrash, DepEvent, DepAnswers, HearAgain, HearNew, HearLeaving, Receive,
        Drop, StartupPing, FinishCheck
  <1> SUFFICES ASSUME d \in steady PROVE FALSE
    OBVIOUS
  <1>2. known[d] # Unknown /\ age[d] \in 0 .. MissedPings + 1 /\ InTime(d)
    BY <1>1 DEF IInv, TypeOK, Collect, CollectWith, Missing, Timely
  <1>3. age[d] + 1 > MissedPings
    BY <1>1, <1>2 DEF Collect, CollectWith, InTime
  <1>4. age[d] = 3
    BY <1>2, <1>3 DEF InTime, MissedPings
  <1>. QED
    BY <1>1, <1>2, <1>4 DEF InTime, Collect, CollectWith, PeriodPassed

\* No dependency that was up and reachable since it was last seen is found
\* stale, provided nothing stays in flight for a whole ping period
\* (zmw_mqtt_service.py, _check_deps_alive).
THEOREM NeverFalselyStale == Spec => NoFalseStale
  <1>1. IInv /\ [Next]_vars => [\A d \in Deps : d \in stales' \ stales => d \notin steady]_vars
    BY StaleIsUnsteady
  <1>. QED
    BY <1>1, Invariance, PTL DEF Spec, NoFalseStale

-----------------------------------------------------------------------------
(* The dashboard: what its steps do to the dependencies                    *)

\* A step of the dashboard is a step of the tracker or leaves it alone, but for the
\* end of the process, SIGTERM, and a service that is no dependency.
LEMMA DashStep ==
    ASSUME [DashNext]_dashVars
    PROVE  [Next]_vars \/ Ends \/ Interrupted \/ \E s \in Others : HearsOther(s)
  <1>1. CASE Boot \/ Arm \/ Ready \/ Edit \/ FirstCheck
    BY <1>1 DEF Boot, Arm, Ready, Edit, FirstCheck
  <1>2. CASE ConfigChanged \/ Kill \/ Stop \/ Die
    BY <1>2 DEF ConfigChanged, Kill, Stop, Die
  <1>3. ASSUME NEW d \in Deps, NEW topic \in Topics, NEW u \in Urls, DepStarts(d, topic, u)
        PROVE  Next
    BY <1>3 DEF DepStarts, Next
  <1>4. ASSUME NEW d \in Deps,
               DepGoes(d) \/ HearsAgain(d) \/ HearsNew(d) \/ HearsLeaving(d)
        PROVE  Next
    BY <1>4 DEF DepGoes, HearsAgain, HearsNew, HearsLeaving, Next
  <1>5. CASE Connects \/ Disconnects \/ Pings \/ Checks
    BY <1>5 DEF Connects, Disconnects, Pings, Checks, Next
  <1>6. ASSUME NEW c \in Causes, Copy(c) \/ CopyRaises(c) \/ Register(c) \/ RegisterRaises(c)
        PROVE  UNCHANGED vars
    BY <1>6 DEF Copy, CopyRaises, Register, RegisterRaises, Finishes, Timer
  <1>7. CASE UNCHANGED dashVars
    BY <1>7 DEF dashVars
  <1>. QED
    BY <1>1, <1>2, <1>3, <1>4, <1>5, <1>6, <1>7 DEF DashNext

\* The process is gone, and with it all it knew; what the dependencies and the
\* broker know of each other stays.
LEMMA EndsIInv ==
    ASSUME IInv, Ends
    PROVE  IInv'
  <1>1. TypeOK'
    <2>1. /\ known' \in [Deps -> Topics \cup {NoTopic, Unknown}]
          /\ age' \in [Deps -> 0 .. MissedPings + 1]
      BY DEF Ends, MissedPings
    <2>2. wire' \in [Deps -> Seq(Message)]
      BY DEF Ends, Silence
    <2>. QED
      BY <2>1, <2>2 DEF Ends, IInv, TypeOK
  <1>2. PingedUp' /\ Timely'
    BY DEF Ends, IInv, PingedUp, Up, Timely
  <1>3. Health'
    BY ConstantsAssumption DEF Ends, Health, AllKnownIsHealthy, Missing
  <1>. QED
    BY <1>1, <1>2, <1>3 DEF IInv

\* SIGTERM ends the connection, and nothing else.
LEMMA InterruptedIInv ==
    ASSUME IInv, Interrupted
    PROVE  IInv'
  <1>. USE DEF Interrupted, checkVars
  <1>1. TypeOK'
    <2>1. wire' \in [Deps -> Seq(Message)]
      BY DEF Silence
    <2>. QED
      BY <2>1 DEF IInv, TypeOK
  <1>2. PingedUp' /\ Timely'
    BY DEF IInv, PingedUp, Up, Timely
  <1>3. Health'
    BY DEF IInv, Health, AllKnownIsHealthy, Missing
  <1>. QED
    BY <1>1, <1>2, <1>3 DEF IInv

LEMMA HearsOtherIInv ==
    ASSUME IInv, NEW s \in Others, HearsOther(s)
    PROVE  IInv'
  <1>. USE DEF HearsOther, DepEvent, clientVars, checkVars
  <1>1. TypeOK'
    BY DepEventType DEF IInv, TypeOK
  <1>2. PingedUp' /\ Timely'
    BY DEF IInv, PingedUp, Up, Timely, InTime, Pending
  <1>3. Health'
    BY DEF IInv, Health, AllKnownIsHealthy, Missing
  <1>. QED
    BY <1>1, <1>2, <1>3 DEF IInv

LEMMA NextIInv == IInv /\ [Next]_vars => IInv'
  BY NextType, NextPingedUp, NextHealth, NextTimely DEF IInv

LEMMA DashNextIInv == IInv /\ [DashNext]_dashVars => IInv'
  BY DashStep, NextIInv, EndsIInv, InterruptedIInv, HearsOtherIInv

-----------------------------------------------------------------------------
(* The dashboard: its own state                                            *)

\* Each message in flight carries the url of its sender.
CarriedType == carried \in [Deps -> Seq(Urls)]

DashInv == IInv /\ DashTypeOK /\ CarriedType

LEMMA MapType ==
    /\ Nothing \in Map
    /\ \A s \in Services, u \in Urls, m \in Map : [m EXCEPT ![s] = u] \in Map
  BY DEF Nothing, Map

LEMMA HomeType == Home \in Urls
  BY DashboardAssumption DEF Home

LEMMA DashInitInv == DashInit => DashInv
  <1> SUFFICES ASSUME DashInit PROVE DashInv
    OBVIOUS
  <1>1. IInv
    BY InitIInv DEF DashInit
  <1>2. carried = wire /\ CarriedType
    BY DEF DashInit, Init, Silence, CarriedType
  <1>3. file \in 0 .. MaxEdits /\ read \in 0 .. file
    BY DashboardAssumption DEF DashInit
  <1>4. DashTypeOK
    BY <1>2, <1>3, MapType, HomeType DEF DashInit, DashTypeOK
  <1>. QED
    BY <1>1, <1>2, <1>4 DEF DashInv

\* What is in flight, and the urls it carries: Lengths says that they match.
Lengths == \A d \in Deps : Len(carried[d]) = Len(wire[d])

LEMMA SilenceMatches ==
    ASSUME wire' = Silence, carried' = Silence
    PROVE  Lengths' /\ CarriedType'
  BY DEF Lengths, CarriedType, Silence

\* Publishing adds one message, with its url, or neither.
LEMMA CarriesMatches ==
    ASSUME TypeOK, Lengths, CarriedType, NEW d \in Deps, NEW u \in Urls,
           NEW kind \in {"announce", "leaving"}, NEW topic \in Topics \cup {NoTopic},
           Publish(d, kind, topic) \/ UNCHANGED wire, Carries(d, u)
    PROVE  Lengths' /\ CarriedType'
  <1>1. wire[d] \in Seq(Message) /\ carried[d] \in Seq(Urls) /\ Len(carried[d]) = Len(wire[d])
    BY DEF TypeOK, CarriedType, Lengths
  <1>2. CASE wire' = wire
    BY <1>1, <1>2 DEF Carries, Lengths, CarriedType
  <1>3. CASE wire' = [wire EXCEPT ![d] = Append(@, [kind |-> kind, topic |-> topic])]
    <2>1. /\ wire'[d] = Append(wire[d], [kind |-> kind, topic |-> topic])
          /\ \A e \in Deps \ {d} : wire'[e] = wire[e]
      BY <1>3 DEF TypeOK
    <2>2. [kind |-> kind, topic |-> topic] \in Message
      BY DEF Message
    <2>3. Len(wire'[d]) = Len(wire[d]) + 1 /\ Len(wire[d]) \in Nat
      BY <1>1, <2>1, <2>2
    <2>4. carried' = [carried EXCEPT ![d] = Append(@, u)]
      BY <2>3 DEF Carries
    <2>5. Append(carried[d], u) \in Seq(Urls) /\ Len(Append(carried[d], u)) = Len(carried[d]) + 1
      BY <1>1
    <2>6. CarriedType'
      BY <2>4, <2>5 DEF CarriedType
    <2>7. ASSUME NEW e \in Deps PROVE Len(carried'[e]) = Len(wire'[e])
      <3>1. CASE e = d
        BY <1>1, <2>3, <2>4, <2>5, <3>1 DEF CarriedType
      <3>2. CASE e # d
        BY <2>1, <2>4, <3>2 DEF CarriedType, Lengths
      <3>. QED
        BY <3>1, <3>2
    <2>. QED
      BY <2>6, <2>7 DEF Lengths
  <1>. QED
    BY <1>2, <1>3 DEF Publish

\* Hearing a message removes it, with its url.
LEMMA HearsMatches ==
    ASSUME TypeOK, Lengths, CarriedType, NEW d \in Deps, NEW kind, Receive(d, kind), Hears(d)
    PROVE  /\ Lengths' /\ CarriedType'
           /\ Head(carried[d]) \in Urls
  <1>1. /\ wire[d] \in Seq(Message) /\ wire[d] # <<>>
        /\ carried[d] \in Seq(Urls) /\ carried[d] # <<>>
        /\ Len(carried[d]) = Len(wire[d])
    BY DEF TypeOK, CarriedType, Lengths, Receive, Hears
  <1>2. /\ wire' = [wire EXCEPT ![d] = Tail(wire[d])]
        /\ carried' = [carried EXCEPT ![d] = Tail(carried[d])]
    BY DEF Receive, Hears
  <1>3. /\ Tail(carried[d]) \in Seq(Urls)
        /\ Len(Tail(carried[d])) = Len(carried[d]) - 1
        /\ Len(Tail(wire[d])) = Len(wire[d]) - 1
        /\ Head(carried[d]) \in Urls
    BY <1>1, HeadTailProperties
  <1>4. CarriedType'
    BY <1>2, <1>3 DEF CarriedType
  <1>5. ASSUME NEW e \in Deps PROVE Len(carried'[e]) = Len(wire'[e])
    <2>1. CASE e = d
      BY <1>1, <1>2, <1>3, <2>1 DEF CarriedType, TypeOK
    <2>2. CASE e # d
      BY <1>2, <2>2 DEF CarriedType, Lengths, TypeOK
    <2>. QED
      BY <2>1, <2>2
  <1>. QED
    BY <1>3, <1>4, <1>5 DEF Lengths

\* The types of all but what is in flight.
RunnerTypeOK ==
    /\ proc \in {"down", "starting", "running", "restarting", "stopping"}
    /\ www \in BOOLEAN
    /\ file \in 0 .. MaxEdits
    /\ read \in 0 .. file
    /\ watch \in {"none", "armed", "fired", "done"}

ProxyTypeOK ==
    /\ seen \in Map
    /\ proxied \in Map
    /\ ready \in BOOLEAN
    /\ checked \in BOOLEAN
    /\ setup \in [Causes -> {"none", "waiting", "copying", "done"}]
    /\ copy \in [Causes -> Map]
    /\ broken \in BOOLEAN

WireTypeOK ==
    /\ url \in [Deps -> Urls]
    /\ Lengths
    /\ CarriedType

LEMMA DashTypeParts ==
    DashTypeOK /\ CarriedType <=> RunnerTypeOK /\ ProxyTypeOK /\ WireTypeOK
  BY DEF DashTypeOK, RunnerTypeOK, ProxyTypeOK, WireTypeOK, Lengths

LEMMA EndsDashType ==
    ASSUME RunnerTypeOK, WireTypeOK, Ends
    PROVE  RunnerTypeOK' /\ ProxyTypeOK' /\ WireTypeOK'
  <1>1. RunnerTypeOK'
    BY DEF Ends, RunnerTypeOK
  <1>2. ProxyTypeOK'
    BY MapType DEF Ends, ProxyTypeOK
  <1>3. WireTypeOK'
    BY SilenceMatches DEF Ends, WireTypeOK
  <1>. QED
    BY <1>1, <1>2, <1>3

LEMMA InterruptedDashType ==
    ASSUME RunnerTypeOK, ProxyTypeOK, WireTypeOK, Interrupted,
           watch' \in {watch, "done"}
    PROVE  RunnerTypeOK' /\ ProxyTypeOK' /\ WireTypeOK'
  <1>1. RunnerTypeOK'
    BY DEF Interrupted, RunnerTypeOK
  <1>2. ProxyTypeOK'
    BY DEF Interrupted, ProxyTypeOK, proxy
  <1>3. WireTypeOK'
    BY SilenceMatches DEF Interrupted, WireTypeOK
  <1>. QED
    BY <1>1, <1>2, <1>3

\* Starting, watching, the signal and the end.
LEMMA ProcessDashType ==
    ASSUME RunnerTypeOK, ProxyTypeOK, WireTypeOK,
           Boot \/ Arm \/ Ready \/ Edit \/ ConfigChanged \/ Kill \/ Stop \/ Die
    PROVE  RunnerTypeOK' /\ ProxyTypeOK' /\ WireTypeOK'
  <1>1. ASSUME UNCHANGED <<vars, proxy, world>>
        PROVE  ProxyTypeOK' /\ WireTypeOK'
    BY <1>1 DEF vars, proxy, world, ProxyTypeOK, WireTypeOK, Lengths, CarriedType
  <1>2. CASE Boot
    <2>1. RunnerTypeOK'
      BY <1>2, DashboardAssumption DEF Boot, RunnerTypeOK
    <2>. QED
      BY <1>1, <1>2, <2>1 DEF Boot
  <1>3. CASE Arm \/ Ready
    <2>1. RunnerTypeOK'
      BY <1>3 DEF Arm, Ready, RunnerTypeOK
    <2>. QED
      BY <1>1, <1>3, <2>1 DEF Arm, Ready
  <1>4. CASE Edit
    <2>1. file' \in 0 .. MaxEdits /\ read' \in 0 .. file'
      BY <1>4, DashboardAssumption DEF Edit, RunnerTypeOK
    <2>2. watch' \in {"none", "armed", "fired", "done"}
      BY <1>4 DEF Edit, RunnerTypeOK
    <2>3. RunnerTypeOK'
      BY <1>4, <2>1, <2>2 DEF Edit, RunnerTypeOK
    <2>. QED
      BY <1>1, <1>4, <2>3 DEF Edit
  <1>5. CASE ConfigChanged
    <2>1. CASE proc = "stopping" /\ watch' = "done"
               /\ UNCHANGED <<vars, proxy, world, proc, www, file, read>>
      BY <1>1, <2>1 DEF RunnerTypeOK
    <2>. QED
      BY <1>5, <2>1, EndsDashType, InterruptedDashType DEF ConfigChanged
  <1>6. CASE Kill \/ Stop \/ Die
    BY <1>6, EndsDashType, InterruptedDashType DEF Kill, Stop, Die
  <1>. QED
    BY <1>2, <1>3, <1>4, <1>5, <1>6

\* What dependencies do.
LEMMA DepDashType ==
    ASSUME TypeOK, PingedUp, RunnerTypeOK, ProxyTypeOK, WireTypeOK, NEW d \in Deps,
           DepGoes(d) \/ \E topic \in Topics, u \in Urls : DepStarts(d, topic, u)
    PROVE  RunnerTypeOK' /\ ProxyTypeOK' /\ WireTypeOK'
  <1>1. ASSUME UNCHANGED <<runner, proxy>>
        PROVE  RunnerTypeOK' /\ ProxyTypeOK'
    BY <1>1 DEF runner, proxy, RunnerTypeOK, ProxyTypeOK
  <1>2. CASE DepGoes(d)
    <2>1. url[d] \in Urls
      BY DEF WireTypeOK
    <2>2. DepAnswers(d) \/ DepStop(d) => depState[d] \in Topics \cup {NoTopic}
      BY DEF DepAnswers, DepStop, PingedUp, Up, TypeOK
    <2>3. \/ \E kind \in {"announce", "leaving"} :
                 Publish(d, kind, depState[d]) /\ depState[d] \in Topics \cup {NoTopic}
          \/ UNCHANGED wire
      BY <1>2, <2>2 DEF DepGoes, DepAnswers, DepStop, DepCrash
    <2>4. Lengths' /\ CarriedType'
      <3>1. CASE UNCHANGED wire
        BY <1>2, <3>1 DEF DepGoes, Carries, WireTypeOK, Lengths, CarriedType
      <3>. QED
        BY <1>2, <2>1, <2>3, <3>1, CarriesMatches DEF DepGoes, WireTypeOK
    <2>5. WireTypeOK'
      BY <1>2, <2>4 DEF DepGoes, WireTypeOK
    <2>. QED
      BY <1>1, <1>2, <2>5 DEF DepGoes
  <1>3. ASSUME NEW topic \in Topics, NEW u \in Urls, DepStarts(d, topic, u)
        PROVE  RunnerTypeOK' /\ ProxyTypeOK' /\ WireTypeOK'
    <2>1. Lengths' /\ CarriedType'
      BY <1>3, CarriesMatches DEF DepStarts, DepStart, WireTypeOK
    <2>2. WireTypeOK'
      BY <1>3, <2>1 DEF DepStarts, WireTypeOK
    <2>. QED
      BY <1>1, <1>3, <2>2 DEF DepStarts
  <1>. QED
    BY <1>2, <1>3

\* What the MQTT loop hears.
LEMMA HearsDashType ==
    ASSUME TypeOK, RunnerTypeOK, ProxyTypeOK, WireTypeOK, NEW d \in Deps,
           HearsAgain(d) \/ HearsNew(d) \/ HearsLeaving(d)
    PROVE  RunnerTypeOK' /\ ProxyTypeOK' /\ WireTypeOK'
  <1>1. Hears(d) /\ \E kind \in {"announce", "leaving"} : Receive(d, kind)
    BY DEF HearsAgain, HearsNew, HearsLeaving, HearAgain, HearNew, HearLeaving
  <1>2. Lengths' /\ CarriedType' /\ Head(carried[d]) \in Urls
    BY <1>1, HearsMatches DEF WireTypeOK
  <1>3. WireTypeOK'
    BY <1>1, <1>2 DEF Hears, WireTypeOK
  <1>4. proc' \in {proc, "restarting"}
    BY DEF HearsAgain, HearsNew, HearsLeaving, Moved
  <1>5. setup' \in [Causes -> {"none", "waiting", "copying", "done"}]
    BY DEF HearsAgain, HearsNew, HearsLeaving, ProxyTypeOK
  <1>6. RunnerTypeOK'
    BY <1>1, <1>4 DEF Hears, RunnerTypeOK
  <1>7. seen' \in Map
    BY <1>1, <1>2, MapType DEF Hears, ProxyTypeOK, Services
  <1>8. ProxyTypeOK'
    BY <1>1, <1>5, <1>7 DEF Hears, ProxyTypeOK
  <1>. QED
    BY <1>3, <1>6, <1>8

\* Services that are no dependencies, the connection and the scheduler.
LEMMA RestDashType ==
    ASSUME RunnerTypeOK, ProxyTypeOK, WireTypeOK,
           \/ \E s \in Others : HearsOther(s)
           \/ Connects \/ Disconnects \/ Pings \/ FirstCheck \/ Checks
           \/ UNCHANGED dashVars
    PROVE  RunnerTypeOK' /\ ProxyTypeOK' /\ WireTypeOK'
  <1>1. ASSUME UNCHANGED <<runner, proxy>>
        PROVE  RunnerTypeOK' /\ ProxyTypeOK'
    BY <1>1 DEF runner, proxy, RunnerTypeOK, ProxyTypeOK
  <1>2. ASSUME UNCHANGED <<world, wire>>
        PROVE  WireTypeOK'
    BY <1>2 DEF world, WireTypeOK, Lengths, CarriedType
  <1>3. ASSUME NEW s \in Others, HearsOther(s)
        PROVE  RunnerTypeOK' /\ ProxyTypeOK' /\ WireTypeOK'
    <2>1. seen' \in Map
      BY <1>3, MapType, HomeType DEF HearsOther, ProxyTypeOK, Services
    <2>2. ProxyTypeOK'
      BY <1>3, <2>1 DEF HearsOther, ProxyTypeOK
    <2>3. RunnerTypeOK'
      BY <1>3 DEF HearsOther, runner, RunnerTypeOK
    <2>. QED
      BY <1>2, <1>3, <2>2, <2>3 DEF HearsOther
  <1>4. CASE Connects
    BY <1>1, <1>2, <1>4 DEF Connects, Connect
  <1>5. CASE Disconnects
    <2>1. WireTypeOK'
      BY <1>5, SilenceMatches DEF Disconnects, Disconnect, Silence, WireTypeOK
    <2>. QED
      BY <1>1, <1>5, <2>1 DEF Disconnects
  <1>6. CASE Pings
    BY <1>1, <1>2, <1>6 DEF Pings, StartupPing
  <1>7. CASE FirstCheck
    <2>1. setup' \in [Causes -> {"none", "waiting", "copying", "done"}]
      BY <1>7 DEF FirstCheck, ProxyTypeOK
    <2>2. ProxyTypeOK' /\ RunnerTypeOK'
      BY <1>7, <2>1 DEF FirstCheck, runner, ProxyTypeOK, RunnerTypeOK
    <2>. QED
      BY <1>2, <1>7, <2>2 DEF FirstCheck, vars
  <1>8. CASE Checks
    <2>1. UNCHANGED wire
      BY <1>8 DEF Checks, Collect, CollectWith, FinishCheck, Drop
    <2>. QED
      BY <1>1, <1>2, <1>8, <2>1 DEF Checks
  <1>9. CASE UNCHANGED dashVars
    BY <1>1, <1>2, <1>9 DEF dashVars, vars
  <1>. QED
    BY <1>3, <1>4, <1>5, <1>6, <1>7, <1>8, <1>9

\* The timers that register the routes.
LEMMA SetupDashType ==
    ASSUME RunnerTypeOK, ProxyTypeOK, WireTypeOK, NEW c \in Causes,
           Copy(c) \/ CopyRaises(c) \/ Register(c) \/ RegisterRaises(c)
    PROVE  RunnerTypeOK' /\ ProxyTypeOK' /\ WireTypeOK'
  <1>1. Timer(c)
    BY DEF Copy, CopyRaises, Register, RegisterRaises, Finishes
  <1>2. WireTypeOK'
    BY <1>1 DEF Timer, vars, world, WireTypeOK, Lengths, CarriedType
  <1>3. RunnerTypeOK'
    BY <1>1 DEF Timer, RunnerTypeOK, Copy, CopyRaises, Register, RegisterRaises
  <1>4. /\ setup' \in [Causes -> {"none", "waiting", "copying", "done"}]
        /\ copy' \in [Causes -> Map]
    BY MapType DEF ProxyTypeOK, Copy, CopyRaises, Register, RegisterRaises, Finishes
  <1>5. proxied' \in Map
    BY DEF ProxyTypeOK, Copy, CopyRaises, Register, RegisterRaises
  <1>6. ready' \in BOOLEAN /\ broken' \in BOOLEAN
    BY DEF ProxyTypeOK, Copy, CopyRaises, Register, RegisterRaises
  <1>7. ProxyTypeOK'
    BY <1>1, <1>4, <1>5, <1>6 DEF Timer, ProxyTypeOK
  <1>. QED
    BY <1>2, <1>3, <1>7

LEMMA DashNextInv == DashInv /\ [DashNext]_dashVars => DashInv'
  <1> SUFFICES ASSUME DashInv, [DashNext]_dashVars PROVE DashInv'
    OBVIOUS
  <1>1. TypeOK /\ PingedUp /\ RunnerTypeOK /\ ProxyTypeOK /\ WireTypeOK
    BY DashTypeParts DEF DashInv, IInv
  <1>2. RunnerTypeOK' /\ ProxyTypeOK' /\ WireTypeOK'
    BY <1>1, ProcessDashType, DepDashType, HearsDashType, RestDashType, SetupDashType
    DEF DashNext
  <1>3. DashTypeOK' /\ CarriedType'
    BY <1>2 DEF DashTypeOK, RunnerTypeOK, ProxyTypeOK, WireTypeOK, Lengths
  <1>. QED
    BY <1>3, DashNextIInv DEF DashInv

-----------------------------------------------------------------------------
(* The dashboard: theorems *)

\* The inductive invariant holds in every state of the dashboard.
THEOREM DashInvariance == DashSpec => []DashInv
  <1>. QED
    BY DashInitInv, DashNextInv, PTL DEF DashSpec

\* The dashboard keeps its types; a process has read no version of its configuration
\* that does not exist yet, and each message in flight has one url (zmw_dashboard.py).
THEOREM DashTypeCorrect == DashSpec => [](TypeOK /\ DashTypeOK)
  <1>1. DashInv => TypeOK /\ DashTypeOK
    BY DEF DashInv, IInv
  <1>. QED
    BY <1>1, DashInvariance, PTL

\* A dashboard that knows all its dependencies has been told so, even though its
\* process ends, is killed while it starts, and begins anew at any time
\* (zmw_mqtt_service.py, _on_service_updown; service_runner.py).
THEOREM DashboardAlwaysHealthy == DashSpec => []AllKnownIsHealthy
  <1>1. DashInv => AllKnownIsHealthy
    BY DEF DashInv, IInv, Health
  <1>. QED
    BY <1>1, DashInvariance, PTL

\* The dashboard finds no reachable dependency stale, either: a check that goes on
\* after SIGTERM, or one that begins after a restart, relies on nothing older
\* (zmw_mqtt_service.py, _check_deps_alive).
THEOREM DashboardNeverFalselyStale == DashSpec => NoFalseStale
  <1>1. ASSUME DashInv, [DashNext]_dashVars, NEW d \in Deps, d \in stales' \ stales
        PROVE  d \notin steady
    <2>1. ~Ends /\ ~Interrupted /\ ~\E s \in Others : HearsOther(s)
      BY <1>1 DEF Ends, Interrupted, HearsOther, DepEvent, checkVars
    <2>. QED
      BY <1>1, <2>1, DashStep, StaleIsUnsteady DEF DashInv
  <1>2. DashInv /\ [DashNext]_dashVars =>
            [\A d \in Deps : d \in stales' \ stales => d \notin steady]_vars
    BY <1>1
  <1>. QED
    BY <1>2, DashInvariance, PTL DEF DashSpec, NoFalseStale

-----------------------------------------------------------------------------
(* The service monitor: the inductive invariant *)

\* The parts of TypeOK: the threads, and the errors they report.
ThreadsTypeOK ==
    /\ monitored \in SUBSET Units
    /\ timer \in Units \cup {None}
    /\ restart \in [Units -> RestartStage]
    /\ joins \in [Units -> Units \cup {None}]
    /\ follower \in [Units -> {"none", "new", "filters", "follows", "failed", "gone"}]
    /\ filter \in [Units -> SUBSET Units]
    /\ current \in Units \cup {None}
    /\ stop \in BOOLEAN
    /\ killed \in BOOLEAN
    /\ stranded \in BOOLEAN

\* Each pause has left one entry more than the history may hold.
HistoryInv ==
    /\ pauses \in Nat
    /\ history \in [old : Nat, young : Nat]
    /\ history.old + history.young <= HistoryLen + pauses

ErrorsTypeOK ==
    /\ inbox \in [Units -> Seq(Units)]
    /\ throttled \in BOOLEAN
    /\ HistoryInv
    /\ reported \in SUBSET Units
    /\ logs \in 0 .. MaxLogs
    /\ clears \in 0 .. MaxClears

\* The restart of u has yet to put its follower in place, or to find that another
\* restart is about to start one.
Restarting(u) == restart[u] \in {"waits", "sets", "finds", "joins", "checks", "clears", "assigns"}

\* Followers stop only for a restart that is under way and will clear the event, or
\* for one that broke off; and a follower is in its place for good, or will be
\* replaced, or has to be started yet.
RestartInv ==
    /\ \A u \in Units : restart[u] # "none" => u \in monitored
    /\ \A u \in Units : follower[u] # "none" \/ current = u => restart[u] \in {"starts", "gone"}
    /\ stop => stranded \/ \E u \in Units : restart[u] \in {"finds", "joins", "checks", "clears"}
    /\ monitored # {} => current # None \/ \E u \in Units : Restarting(u)
    /\ \A u \in Units : restart[u] \in {"sets", "finds", "starts"} => current # None
    /\ current # None =>
          /\ \/ \E u \in Units : Restarting(u)
             \/ FollowsAll(current)
             \/ follower[current] = "none"
             \/ stranded
          /\ follower[current] = "none" => \E u \in Units : restart[u] = "starts"

JournalInv == ThreadsTypeOK /\ ErrorsTypeOK /\ (killed \/ RestartInv)

-----------------------------------------------------------------------------
(* The threads *)

\* A restart goes on; the others stay where they are.
LEMMA GoesOn ==
    ASSUME ThreadsTypeOK, NEW u \in Units, NEW from, NEW to, Goes(u, from, to),
           to \in RestartStage
    PROVE  /\ ~killed
           /\ restart[u] = from
           /\ restart' \in [Units -> RestartStage]
           /\ restart'[u] = to
           /\ \A v \in Units \ {u} : restart'[v] = restart[v]
  BY DEF ThreadsTypeOK, Goes

LEMMA MonitorUnitInv ==
    ASSUME ThreadsTypeOK, RestartInv, NEW u \in Units, MonitorUnit(u)
    PROVE  ThreadsTypeOK' /\ RestartInv'
  <1>. USE DEF MonitorUnit, followers, thread
  <1>1. restart[u] = "none"
    BY DEF RestartInv
  <1>2. /\ restart'[u] = "waits"
        /\ \A v \in Units \ {u} : restart'[v] \in {restart[v], "gone"}
        /\ \A v \in Units : restart[v] \notin {"none", "waits"} => restart'[v] = restart[v]
    BY <1>1
  <1>3. restart' \in [Units -> RestartStage]
    BY DEF ThreadsTypeOK, RestartStage
  <1>4. ThreadsTypeOK'
    BY <1>3 DEF ThreadsTypeOK
  <1>5. \E v \in Units : Restarting(v)'
    BY <1>2 DEF Restarting
  <1>6. /\ \A v \in Units : restart'[v] # "none" => v \in monitored'
        /\ \A v \in Units : restart'[v] \in {"sets", "finds", "starts"} => current' # None
        /\ \A v \in Units : follower'[v] # "none" \/ current' = v => restart'[v] \in {"starts", "gone"}
    <2>1. \A v \in Units : restart'[v] # "none" => v = u \/ restart[v] # "none"
      OBVIOUS
    <2>. QED
      BY <1>1, <1>2, <2>1 DEF RestartInv
  <1>7. /\ stop' => stranded' \/ \E v \in Units : restart'[v] \in {"finds", "joins", "checks", "clears"}
        /\ current' # None /\ follower'[current'] = "none" => \E v \in Units : restart'[v] = "starts"
    BY <1>2 DEF RestartInv
  <1>. QED
    BY <1>4, <1>5, <1>6, <1>7 DEF RestartInv

\* A restart that goes on, without breaking off, and changes nothing else but the event.
LEMMA StillRestarting ==
    ASSUME ThreadsTypeOK, RestartInv, NEW u \in Units, NEW from, NEW to,
           Goes(u, from, to),
           from \in {"waits", "sets", "finds", "joins", "checks", "clears"},
           to \in {"sets", "finds", "joins", "checks", "clears", "assigns"},
           to \in {"sets", "finds"} => current # None,
           UNCHANGED <<monitored, follower, filter, current>>,
           \/ stop' = FALSE
           \/ /\ stranded' = stranded
              /\ \/ to \in {"finds", "joins", "checks", "clears"}
                 \/ stop' = stop /\ from = "waits"
    PROVE  RestartInv'
  <1>1. /\ restart[u] = from /\ restart'[u] = to
        /\ \A v \in Units \ {u} : restart'[v] = restart[v]
    BY GoesOn DEF RestartStage
  <1>2. Restarting(u)'
    BY <1>1 DEF Restarting
  <1>3. /\ \A v \in Units : restart'[v] # "none" => v \in monitored'
        /\ \A v \in Units : follower'[v] # "none" \/ current' = v => restart'[v] \in {"starts", "gone"}
        /\ \A v \in Units : restart'[v] \in {"sets", "finds", "starts"} => current' # None
    BY <1>1 DEF RestartInv
  <1>4. current' # None /\ follower'[current'] = "none" => \E v \in Units : restart'[v] = "starts"
    BY <1>1 DEF RestartInv
  <1>5. stop' => stranded' \/ \E v \in Units : restart'[v] \in {"finds", "joins", "checks", "clears"}
    BY <1>1 DEF RestartInv
  <1>. QED
    BY <1>2, <1>3, <1>4, <1>5 DEF RestartInv

\* A restart breaks off: the follower in place has yet to be started.
LEMMA BreaksOff ==
    ASSUME ThreadsTypeOK, RestartInv, NEW u \in Units,
           Goes(u, "finds", "gone"), follower[current] = "none", stranded' = stop,
           UNCHANGED <<monitored, follower, filter, current, stop>>
    PROVE  RestartInv'
  <1>1. /\ restart[u] = "finds" /\ restart'[u] = "gone"
        /\ \A v \in Units \ {u} : restart'[v] = restart[v]
    BY GoesOn DEF RestartStage
  <1>2. current # None /\ follower'[current'] = "none"
    BY <1>1 DEF RestartInv
  <1>3. /\ \A v \in Units : restart'[v] # "none" => v \in monitored'
        /\ \A v \in Units : follower'[v] # "none" \/ current' = v => restart'[v] \in {"starts", "gone"}
        /\ \A v \in Units : restart'[v] \in {"sets", "finds", "starts"} => current' # None
    BY <1>1 DEF RestartInv
  <1>4. \E v \in Units : restart'[v] = "starts"
    BY <1>1, <1>2 DEF RestartInv
  <1>. QED
    BY <1>2, <1>3, <1>4 DEF RestartInv

LEMMA RestartStepInv ==
    ASSUME ThreadsTypeOK, RestartInv, NEW u \in Units, RestartStep(u)
    PROVE  ThreadsTypeOK' /\ (killed' \/ RestartInv')
  <1>. USE DEF followers, thread
  <1>1. CASE Look(u)
    <2>1. Alive(current) => current # None
      BY DEF Alive
    <2>2. ThreadsTypeOK'
      BY <1>1, GoesOn DEF Look, ThreadsTypeOK, RestartStage
    <2>. QED
      BY <1>1, <2>1, <2>2, StillRestarting DEF Look
  <1>2. CASE SetStop(u)
    <2>1. ThreadsTypeOK'
      BY <1>2, GoesOn DEF SetStop, ThreadsTypeOK, RestartStage
    <2>2. current # None
      BY <1>2 DEF SetStop, Goes, RestartInv
    <2>3. /\ Goes(u, "sets", "finds")
          /\ UNCHANGED <<monitored, follower, filter, current, stranded>>
      BY <1>2 DEF SetStop
    <2>4. RestartInv'
      BY <2>3, <2>2, StillRestarting
    <2>. QED
      BY <2>1, <2>2, <2>4
  <1>3. CASE FindThread(u)
    <2>1. CASE /\ Goes(u, "finds", "joins")
               /\ joins' = [joins EXCEPT ![u] = current]
               /\ UNCHANGED stranded
      <3>1. ThreadsTypeOK'
        BY <1>3, <2>1, GoesOn DEF FindThread, ThreadsTypeOK, RestartStage
      <3>2. UNCHANGED <<monitored, follower, filter, current>>
        BY <1>3 DEF FindThread
      <3>3. RestartInv'
        BY <2>1, <3>2, StillRestarting
      <3>. QED
        BY <3>1, <3>3
    <2>2. CASE /\ Goes(u, "finds", "gone")
               /\ follower[current] = "none"
               /\ stranded' = stop
               /\ UNCHANGED joins
      <3>1. ThreadsTypeOK'
        BY <1>3, <2>2, GoesOn DEF FindThread, ThreadsTypeOK, RestartStage
      <3>. QED
        BY <1>3, <2>2, <3>1, BreaksOff DEF FindThread
    <2>. QED
      BY <1>3, <2>1, <2>2 DEF FindThread
  <1>4. CASE Join(u)
    <2>1. ThreadsTypeOK'
      BY <1>4, GoesOn DEF Join, ThreadsTypeOK, RestartStage
    <2>3. /\ Goes(u, "joins", "checks")
          /\ UNCHANGED <<monitored, follower, filter, current, stranded>>
      BY <1>4 DEF Join
    <2>4. RestartInv'
      BY <2>3, StillRestarting
    <2>. QED
      BY <2>1, <2>4
  <1>7. CASE Check(u)
    <2>1. killed' \in BOOLEAN /\ joins' \in [Units -> Units \cup {None}]
      BY <1>7 DEF Check, Alive, ThreadsTypeOK
    <2>2. ThreadsTypeOK'
      BY <1>7, <2>1, GoesOn DEF Check, ThreadsTypeOK, RestartStage
    <2>3. /\ Goes(u, "checks", "clears")
          /\ UNCHANGED <<monitored, follower, filter, current, stranded>>
      BY <1>7 DEF Check
    <2>4. RestartInv'
      BY <2>3, StillRestarting
    <2>. QED
      BY <2>2, <2>4
  <1>8. CASE ClearStop(u)
    <2>1. ThreadsTypeOK'
      BY <1>8, GoesOn DEF ClearStop, ThreadsTypeOK, RestartStage
    <2>. QED
      BY <1>8, <2>1, StillRestarting DEF ClearStop
  <1>5. CASE Assign(u)
    <2>1. /\ restart[u] = "assigns" /\ restart'[u] = "starts"
          /\ \A v \in Units \ {u} : restart'[v] = restart[v]
          /\ ThreadsTypeOK'
      BY <1>5, GoesOn DEF Assign, ThreadsTypeOK, RestartStage
    <2>2. follower[u] = "none" /\ u # None
      BY <2>1, JournalMonitorAssumption DEF RestartInv
    <2>. QED
      BY <1>5, <2>1, <2>2 DEF Assign, RestartInv
  <1>6. CASE Start(u)
    <2>1. /\ restart[u] = "starts" /\ restart'[u] = "gone"
          /\ \A v \in Units \ {u} : restart'[v] = restart[v]
      BY <1>6, GoesOn DEF Start, RestartStage
    <2>2. current \in Units
      BY <2>1 DEF RestartInv, ThreadsTypeOK
    <2>3. /\ follower' \in [Units -> {"none", "new", "filters", "follows", "failed", "gone"}]
          /\ \A v \in Units \ {current} : follower'[v] = follower[v]
          /\ follower'[current] = IF follower[current] = "none" THEN "new" ELSE follower[current]
      BY <1>6, <2>2 DEF Start, ThreadsTypeOK
    <2>4. ThreadsTypeOK'
      BY <1>6, <2>3, GoesOn DEF Start, ThreadsTypeOK, RestartStage
    <2>5. \A v \in Units : Restarting(v)' <=> Restarting(v)
      BY <2>1 DEF Restarting
    <2>6. /\ \A v \in Units : restart'[v] # "none" => v \in monitored'
          /\ \A v \in Units : follower'[v] # "none" \/ current' = v => restart'[v] \in {"starts", "gone"}
          /\ \A v \in Units : restart'[v] \in {"sets", "finds", "starts"} => current' # None
      BY <1>6, <2>1, <2>3 DEF Start, RestartInv
    <2>7. stop' => stranded' \/ \E v \in Units : restart'[v] \in {"finds", "joins", "checks", "clears"}
      BY <1>6, <2>1 DEF Start, RestartInv
    <2>8. (\E v \in Units : Restarting(v)') \/ FollowsAll(current)' \/ stranded'
      <3>1. CASE follower[current] = "none"
        BY <1>6, <2>3, <3>1 DEF Start, FollowsAll
      <3>2. CASE follower[current] # "none"
        BY <1>6, <2>2, <2>3, <2>5, <3>2, JournalMonitorAssumption DEF Start, FollowsAll, RestartInv
      <3>. QED
        BY <3>1, <3>2
    <2>9. follower'[current'] # "none"
      BY <1>6, <2>3 DEF Start
    <2>10. current' = current /\ current # None /\ monitored' = monitored
      BY <1>6, <2>2, JournalMonitorAssumption DEF Start
    <2>11. RestartInv'
      BY ONLY <2>6, <2>7, <2>8, <2>9, <2>10 DEF RestartInv
    <2>. QED
      BY <2>4, <2>11
  <1>. QED
    BY <1>1, <1>2, <1>3, <1>4, <1>5, <1>6, <1>7, <1>8 DEF RestartStep

\* A follower goes on, or ends.
LEMMA FollowerStepInv ==
    ASSUME ThreadsTypeOK, RestartInv, NEW f \in Units,
           \/ NoJournal(f) \/ AddMatches(f)
           \/ SeekTail(f) \/ Leave(f)
    PROVE  ThreadsTypeOK' /\ RestartInv'
  <1>. USE DEF NoJournal, AddMatches, SeekTail, Leave,
               Follows, restarts, thread
  <1>1. /\ ThreadsTypeOK'
        /\ \A g \in Units \ {f} : follower'[g] = follower[g] /\ filter'[g] = filter[g]
        /\ follower[f] # "none" /\ follower'[f] # "none"
        /\ UNCHANGED <<monitored, restart, current, stop, stranded>>
    BY DEF ThreadsTypeOK
  <1>2. \A v \in Units : follower'[v] # "none" <=> follower[v] # "none"
    BY <1>1
  <1>3. ASSUME current # None, ~\E u \in Units : Restarting(u), FollowsAll(current), ~stranded
        PROVE  FollowsAll(current)'
    <2>1. CASE current # f
      BY <1>1, <1>3, <2>1 DEF FollowsAll, ThreadsTypeOK
    <2>2. ~stop
      BY <1>3 DEF RestartInv, Restarting
    <2>3. CASE current = f
      BY <1>1, <1>3, <2>2, <2>3 DEF FollowsAll, ThreadsTypeOK
    <2>. QED
      BY <2>1, <2>3
  <1>4. \A u \in Units : Restarting(u)' <=> Restarting(u)
    BY <1>1 DEF Restarting
  <1>5. current # None => current \in Units
    BY DEF ThreadsTypeOK
  <1>. QED
    BY <1>1, <1>2, <1>3, <1>4, <1>5 DEF RestartInv

\* The other steps leave the threads alone.
LEMMA SameThreads ==
    ASSUME ThreadsTypeOK, killed \/ RestartInv,
           UNCHANGED <<restarts, follower, filter, thread, stranded>>
    PROVE  ThreadsTypeOK' /\ (killed' \/ RestartInv')
  BY DEF ThreadsTypeOK, RestartInv, Restarting, FollowsAll, restarts, thread

-----------------------------------------------------------------------------
(* The errors *)

LEMMA LoggedType ==
    ASSUME NEW boxes \in [Units -> Seq(Units)], NEW u \in Units
    PROVE  Logged(boxes, u) \in [Units -> Seq(Units)]
  <1>1. \A f \in Units : Append(boxes[f], u) \in Seq(Units)
    OBVIOUS
  <1>. QED
    BY <1>1 DEF Logged

LEMMA TakeType ==
    ASSUME ErrorsTypeOK, NEW f \in Units, Take(f)
    PROVE  Rest(f) \in [Units -> Seq(Units)] /\ Head(inbox[f]) \in Units
  <1>1. inbox[f] \in Seq(Units) /\ inbox[f] # <<>>
    BY DEF ErrorsTypeOK, Take
  <1>2. Tail(inbox[f]) \in Seq(Units) /\ Head(inbox[f]) \in Units
    BY <1>1, HeadTailProperties
  <1>. QED
    BY <1>2 DEF Rest, ErrorsTypeOK

\* One more young entry, for which there is room, or an old one made it.
LEMMA HistoryGrows ==
    ASSUME HistoryInv, NEW f \in Units,
           Record(f) \/ Throttle(f)
    PROVE  HistoryInv'
  <1>. DEFINE old == history.old
              young == history.young
  <1>1. /\ old \in Nat /\ young \in Nat /\ pauses \in Nat /\ HistoryLen \in Nat
        /\ old + young <= HistoryLen + pauses
        /\ history = [old |-> old, young |-> young]
    BY JournalMonitorAssumption DEF HistoryInv
  <1>2. CASE /\ Record(f) /\ Entries < HistoryLen
             /\ history' = [history EXCEPT !.young = @ + 1]
    <2>1. history' = [old |-> old, young |-> young + 1] /\ pauses' = pauses
      BY <1>1, <1>2 DEF Record
    <2>2. old + (young + 1) <= HistoryLen + pauses
      BY <1>1, <1>2 DEF Entries
    <2>3. young + 1 \in Nat
      BY <1>1
    <2>. HIDE DEF old, young
    <2>. QED
      BY <1>1, <2>1, <2>2, <2>3 DEF HistoryInv
  <1>3. CASE /\ Record(f) /\ history.old > 0
             /\ history' = [old |-> history.old - 1, young |-> history.young + 1]
    <2>1. history' = [old |-> old - 1, young |-> young + 1] /\ pauses' = pauses
      BY <1>3 DEF Record
    <2>2. /\ (old - 1) + (young + 1) <= HistoryLen + pauses
          /\ old - 1 \in Nat /\ young + 1 \in Nat
      BY <1>1, <1>3
    <2>. HIDE DEF old, young
    <2>. QED
      BY <1>1, <2>1, <2>2 DEF HistoryInv
  <1>4. CASE Throttle(f)
    <2>1. history' = [old |-> old, young |-> young + 1] /\ pauses' = pauses + 1
      BY <1>1, <1>4 DEF Throttle
    <2>2. /\ old + (young + 1) <= HistoryLen + (pauses + 1)
          /\ young + 1 \in Nat /\ pauses + 1 \in Nat
      BY <1>1
    <2>. HIDE DEF old, young
    <2>. QED
      BY <1>1, <2>1, <2>2 DEF HistoryInv
  <1>. QED
    BY <1>2, <1>3, <1>4 DEF Record

\* An error grows old, or a user clears them all.
LEMMA HistoryStays ==
    ASSUME HistoryInv, Age \/ Clear
    PROVE  HistoryInv'
  <1>. DEFINE old == history.old
              young == history.young
  <1>1. /\ old \in Nat /\ young \in Nat /\ pauses \in Nat /\ HistoryLen \in Nat \ {0}
        /\ old + young <= HistoryLen + pauses
    BY JournalMonitorAssumption DEF HistoryInv
  <1>2. CASE Age
    <2>1. history' = [old |-> old + 1, young |-> young - 1] /\ pauses' = pauses
      BY <1>2 DEF Age
    <2>2. /\ (old + 1) + (young - 1) <= HistoryLen + pauses
          /\ old + 1 \in Nat /\ young - 1 \in Nat
      BY <1>1, <1>2 DEF Age
    <2>. HIDE DEF old, young
    <2>. QED
      BY <1>1, <2>1, <2>2 DEF HistoryInv
  <1>3. CASE Clear
    <2>1. history' = [old |-> 0, young |-> 1] /\ pauses' = 0
      BY <1>3 DEF Clear
    <2>. QED
      BY <1>1, <2>1 DEF HistoryInv
  <1>. QED
    BY <1>2, <1>3

LEMMA HandleErrorInv ==
    ASSUME ErrorsTypeOK, NEW f \in Units,
           Discard(f) \/ Record(f) \/ Throttle(f)
    PROVE  ErrorsTypeOK'
  <1>1. Rest(f) \in [Units -> Seq(Units)] /\ Head(inbox[f]) \in Units
    BY TakeType DEF Discard, Record, Throttle
  <1>2. Self \in Units
    BY JournalMonitorAssumption
  <1>3. Logged(Rest(f), Self) \in [Units -> Seq(Units)]
    BY <1>1, <1>2, LoggedType
  <1>4. CASE Discard(f)
    BY <1>1, <1>4 DEF Discard, errors, bounds, ErrorsTypeOK, HistoryInv
  <1>5. CASE Record(f)
    <2>1. HistoryInv'
      BY <1>5, HistoryGrows DEF ErrorsTypeOK
    <2>2. inbox' \in [Units -> Seq(Units)] /\ reported' \in SUBSET Units
      BY <1>1, <1>3, <1>5 DEF Record, Report, ErrorsTypeOK
    <2>. QED
      BY <1>5, <2>1, <2>2 DEF Record, bounds, ErrorsTypeOK
  <1>6. CASE Throttle(f)
    <2>1. HistoryInv'
      BY <1>6, HistoryGrows DEF ErrorsTypeOK
    <2>. QED
      BY <1>3, <1>6, <2>1 DEF Throttle, bounds, ErrorsTypeOK
  <1>. QED
    BY <1>4, <1>5, <1>6

LEMMA RestErrorsInv ==
    ASSUME ErrorsTypeOK,
           \/ \E u \in Units : LogError(u)
           \/ Unthrottle \/ Age \/ Clear
    PROVE  ErrorsTypeOK'
  <1>1. ASSUME NEW u \in Units, LogError(u)
        PROVE  ErrorsTypeOK'
    <2>1. inbox' \in [Units -> Seq(Units)]
      BY <1>1, LoggedType DEF LogError, ErrorsTypeOK
    <2>2. logs' \in 0 .. MaxLogs
      BY <1>1, JournalMonitorAssumption DEF LogError, ErrorsTypeOK
    <2>. QED
      BY <1>1, <2>1, <2>2 DEF LogError, errors, ErrorsTypeOK, HistoryInv
  <1>2. CASE Unthrottle
    BY <1>2 DEF Unthrottle, followers, bounds, ErrorsTypeOK, HistoryInv
  <1>3. CASE Age
    <2>1. HistoryInv'
      BY <1>3, HistoryStays DEF ErrorsTypeOK
    <2>. QED
      BY <1>3, <2>1 DEF Age, followers, bounds, ErrorsTypeOK
  <1>4. CASE Clear
    <2>1. HistoryInv'
      BY <1>4, HistoryStays DEF ErrorsTypeOK
    <2>2. clears' \in 0 .. MaxClears
      BY <1>4, JournalMonitorAssumption DEF Clear, ErrorsTypeOK
    <2>. QED
      BY <1>4, <2>1, <2>2 DEF Clear, followers, ErrorsTypeOK
  <1>. QED
    BY <1>1, <1>2, <1>3, <1>4

LEMMA SameErrors ==
    ASSUME ErrorsTypeOK, UNCHANGED <<inbox, errors, bounds>>
    PROVE  ErrorsTypeOK'
  BY DEF ErrorsTypeOK, HistoryInv, errors, bounds

-----------------------------------------------------------------------------
(* The service monitor: theorems *)

LEMMA InitJournalInv ==
    ASSUME JournalInit
    PROVE  JournalInv
  <1>. USE JournalMonitorAssumption DEF JournalInit
  <1>1. ThreadsTypeOK
    BY DEF ThreadsTypeOK, RestartStage
  <1>2. ErrorsTypeOK
    <2>1. <<>> \in Seq(Units)
      OBVIOUS
    <2>2. HistoryInv
      BY DEF HistoryInv
    <2>3. inbox \in [Units -> Seq(Units)]
      BY <2>1
    <2>4. throttled \in BOOLEAN
      OBVIOUS
    <2>5. reported \in SUBSET Units
      OBVIOUS
    <2>6. logs \in 0 .. MaxLogs /\ clears \in 0 .. MaxClears
      OBVIOUS
    <2>. QED
      BY <2>2, <2>3, <2>4, <2>5, <2>6 DEF ErrorsTypeOK
  <1>3. RestartInv
    BY DEF RestartInv
  <1>. QED
    BY <1>1, <1>2, <1>3 DEF JournalInv

LEMMA NextJournalInv == JournalInv /\ [JournalNext]_journalVars => JournalInv'
  <1>. SUFFICES ASSUME JournalInv, [JournalNext]_journalVars
                PROVE  JournalInv'
    OBVIOUS
  <1>. USE DEF JournalInv
  <1>1. ASSUME NEW u \in Units, MonitorUnit(u) \/ RestartStep(u)
        PROVE  JournalInv'
    <2>1. ~killed
      BY <1>1 DEF MonitorUnit, RestartStep, Look, SetStop, FindThread, Join,
                  Check, ClearStop, Assign, Start, Goes
    <2>2. ErrorsTypeOK'
      BY <1>1, SameErrors
      DEF MonitorUnit, RestartStep, Look, SetStop, FindThread, Join,
          Check, ClearStop, Assign, Start, followers
    <2>. QED
      BY <1>1, <2>1, <2>2, MonitorUnitInv, RestartStepInv
  <1>2. ASSUME NEW f \in Units,
               \/ NoJournal(f) \/ AddMatches(f)
               \/ SeekTail(f) \/ Leave(f)
        PROVE  JournalInv'
    <2>1. ~killed
      BY <1>2 DEF NoJournal, AddMatches, SeekTail, Leave,
                  Follows
    <2>2. ErrorsTypeOK'
      BY <1>2, SameErrors
      DEF NoJournal, AddMatches, SeekTail, Leave
    <2>. QED
      BY <1>2, <2>1, <2>2, FollowerStepInv
  <1>3. ASSUME NEW f \in Units, Discard(f) \/ Record(f) \/ Throttle(f)
        PROVE  JournalInv'
    BY <1>3, HandleErrorInv, SameThreads DEF Discard, Record, Throttle
  <1>4. CASE \/ \E u \in Units : LogError(u)
             \/ Unthrottle \/ Age \/ Clear
    BY <1>4, RestErrorsInv, SameThreads
    DEF LogError, Unthrottle, Age, Clear, followers
  <1>5. CASE UNCHANGED journalVars
    BY <1>5, SameThreads, SameErrors DEF journalVars, followers
  <1>. QED
    BY <1>1, <1>2, <1>3, <1>4, <1>5 DEF JournalNext, FollowerStep

\* The inductive invariant holds in every state of the service monitor.
THEOREM JournalInvariance == JournalSpec => []JournalInv
  <1>. QED
    BY InitJournalInv, NextJournalInv, PTL DEF JournalSpec

\* The monitor keeps its types; its list of errors holds at most one entry more than
\* it should for each pause since it was cleared (journal_monitor.py, _handle_log).
THEOREM JournalTypeCorrect == JournalSpec => []JournalTypeOK
  <1>1. JournalInv => JournalTypeOK
    <2>. SUFFICES ASSUME JournalInv PROVE JournalTypeOK
      OBVIOUS
    <2>1. /\ history.old \in Nat /\ history.young \in Nat /\ pauses \in Nat
          /\ HistoryLen \in Nat
          /\ history.old + history.young <= HistoryLen + pauses
      BY JournalMonitorAssumption DEF JournalInv, ErrorsTypeOK, HistoryInv
    <2>2. /\ history.old \in 0 .. HistoryLen + pauses
          /\ history.young \in 0 .. HistoryLen + pauses
      BY <2>1
    <2>3. history \in [old : 0 .. HistoryLen + pauses, young : 0 .. HistoryLen + pauses]
      BY <2>2 DEF JournalInv, ErrorsTypeOK, HistoryInv
    <2>. QED
      BY <2>1, <2>3 DEF JournalInv, ThreadsTypeOK, ErrorsTypeOK, JournalTypeOK
  <1>. QED
    BY <1>1, JournalInvariance, PTL

\* For any number of units, and of restarts that overlap: once none of them is under
\* way, all units known are followed, or about to be (journal_monitor.py,
\* _restart_monitor and _monitor_journal_loop).
THEOREM SettledAlwaysFollowed == JournalSpec => []SettledIsFollowed
  <1>1. JournalInv => SettledIsFollowed
    <2>. SUFFICES ASSUME JournalInv, monitored # {}, ~killed, ~stranded,
                         \A u \in Units : restart[u] \in {"none", "gone"}
                  PROVE  ~stop /\ \E f \in Units : FollowsAll(f)
      BY DEF SettledIsFollowed
    <2>1. \A u \in Units : ~Restarting(u) /\ restart[u] # "starts"
      BY DEF Restarting
    <2>2. current # None /\ current \in Units
      BY <2>1 DEF JournalInv, RestartInv, ThreadsTypeOK
    <2>. QED
      BY <2>1, <2>2 DEF JournalInv, RestartInv
  <1>. QED
    BY <1>1, JournalInvariance, PTL

=============================================================================
