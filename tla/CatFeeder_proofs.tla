-------------------------- MODULE CatFeeder_proofs --------------------------
(***************************************************************************)
(* For any length of the history and any number of requests, outages and   *)
(* restarts: the feeder service keeps its types, a wait for an             *)
(* acknowledgement always has the timer that ends it, and a slot comes to  *)
(* one outcome.                                                            *)
(***************************************************************************)
EXTENDS CatFeeder, FiniteSetTheorems, TLAPS

-----------------------------------------------------------------------------
(* The inductive invariant *)

\* Where the check of the slot can be, and that the mark, the timer of the check
\* and the report of the unit tell the same story.
CheckInPhase ==
    /\ check = "armed" <=> slot = "timer"
    /\ check = "due" => phase = "after"
    /\ check = "expired" => phase = "far"
    /\ phase = "before" => check = "idle"
    /\ report.source = "schedule" => unit.served
    /\ "on time" \in outcome /\ phase # "far" =>
          unit.served /\ report.source # "schedule"

\* Before the check starts, a slot is fulfilled exactly if it holds the mark.
MarkTells ==
    \/ outcome = {} /\ slot = "none"
    \/ outcome = {"on time"} /\ slot = "fulfilled"

\* What has become of a slot no restart disturbed, as far as the day has gone.
OutcomeSoFar ==
    /\ phase = "before" \/ check = "due" => MarkTells
    /\ check = "armed" => outcome = {}
    /\ check = "expired" => outcome = {"missed"}
    /\ phase = "after" /\ check = "idle" => outcome = {"on time"} /\ slot = "none"
    /\ phase = "far" /\ check = "idle" => outcome = {"on time"} \/ outcome = {"missed"}
    /\ phase = "far" => slot # "fulfilled"

OutcomeInv == ~restarted => OutcomeSoFar

IInv == TypeOK /\ PendingCanExpire /\ CheckInPhase /\ OutcomeInv

-----------------------------------------------------------------------------
(* Types *)

LEMMA IdFacts ==
    /\ NoId \notin Ids
    /\ \A id \in Ids : (id + 1) % NumIds \in Ids
    /\ 0 \in Ids
  <1>1. NumIds \in Nat /\ NumIds > 0
    BY ConstantsAssumption
  <1>2. \A id \in Ids : (id + 1) % NumIds \in Ids
    BY <1>1 DEF Ids
  <1>. QED
    BY <1>1, <1>2 DEF Ids, NoId

\* The history stays a history, within its length.
LEMMA HistoryAddType ==
    ASSUME HistoryTypeOK, NEW entry \in Entry
    PROVE  /\ HistoryAdd(entries, entry) \in Seq(Entry)
           /\ Len(HistoryAdd(entries, entry)) <= HistoryLen
  <1>1. HistoryLen \in Nat \ {0}
    BY ConstantsAssumption
  <1>. entries \in Seq(Entry) /\ Len(entries) <= HistoryLen
    BY DEF HistoryTypeOK
  <1>2. CASE Len(entries) = HistoryLen
    <2>1. entries # <<>>
      BY <1>1, <1>2
    <2>2. Tail(entries) \in Seq(Entry) /\ Len(Tail(entries)) = Len(entries) - 1
      BY <2>1
    <2>3. HistoryAdd(entries, entry) = Append(Tail(entries), entry)
      BY <1>2 DEF HistoryAdd
    <2>. QED
      BY <1>1, <1>2, <2>2, <2>3
  <1>3. CASE Len(entries) # HistoryLen
    <2>1. HistoryAdd(entries, entry) = Append(entries, entry)
      BY <1>3 DEF HistoryAdd
    <2>2. Len(entries) \in Nat
      OBVIOUS
    <2>. QED
      BY <1>1, <1>3, <2>1, <2>2
  <1>. QED
    BY <1>2, <1>3

LEMMA AskType ==
    ASSUME HistoryTypeOK, NEW r \in Requester, Ask(r), UNCHANGED <<pending, armed, failing>>
    PROVE  HistoryTypeOK'
  <1>1. CASE known /\ pending = NoTimer
    <2>1. /\ lastId' = (lastId + 1) % NumIds
          /\ entries' = HistoryAdd(entries, lastId')
          /\ adding' = adding \cup {r}
      BY <1>1 DEF Ask
    <2>2. lastId' \in Ids
      BY <2>1, IdFacts DEF HistoryTypeOK
    <2>3. lastId' \in Entry
      BY <2>2 DEF Entry
    <2>4. entries' \in Seq(Entry) /\ Len(entries') <= HistoryLen
      BY <2>1, <2>3, HistoryAddType
    <2>. QED
      BY <2>1, <2>2, <2>4 DEF HistoryTypeOK
  <1>2. CASE ~(known /\ pending = NoTimer)
    <2>1. entries' = HistoryAdd(entries, NoId) /\ UNCHANGED <<lastId, adding>>
      BY <1>2 DEF Ask
    <2>2. entries' \in Seq(Entry) /\ Len(entries') <= HistoryLen
      BY <2>1, HistoryAddType DEF Entry
    <2>. QED
      BY <2>1, <2>2 DEF HistoryTypeOK
  <1>. QED
    BY <1>1, <1>2

\* Closing an entry, by an acknowledgement or with time.
LEMMA CloseType ==
    ASSUME HistoryTypeOK, NEW i, entries' = [entries EXCEPT ![i] = Closed]
    PROVE  entries' \in Seq(Entry) /\ Len(entries') <= HistoryLen
  <1>1. Closed \in Entry
    BY DEF Entry
  <1>2. /\ entries \in Seq(Entry)
        /\ entries \in [1 .. Len(entries) -> Entry]
        /\ Len(entries) \in Nat
    BY DEF HistoryTypeOK
  <1>3. entries' \in [1 .. Len(entries) -> Entry]
    BY <1>1, <1>2
  <1>4. entries' \in Seq(Entry) /\ Len(entries') = Len(entries)
    BY <1>2, <1>3
  <1>. QED
    BY <1>4 DEF HistoryTypeOK

\* Whatever a feeding is, registering it keeps the types of the history and of
\* the schedule.
LEMMA RegisterType ==
    ASSUME ScheduleTypeOK, HistoryTypeOK,
           RegisterRemote \/ RegisterScheduled \/ RegisterOther
    PROVE  ScheduleTypeOK' /\ HistoryTypeOK'
  <1>1. /\ HistoryAdd(entries, Closed) \in Seq(Entry)
        /\ Len(HistoryAdd(entries, Closed)) <= HistoryLen
    BY HistoryAddType DEF Entry
  <1>2. CASE RegisterOther
    BY <1>1, <1>2 DEF RegisterOther, ScheduleTypeOK, HistoryTypeOK, scheduleVars
  <1>3. CASE RegisterScheduled
    <2>1. CASE phase = "far"
      BY <1>2, <1>3, <2>1 DEF RegisterScheduled
    <2>2. CASE phase # "far"
      <3>1. ScheduleTypeOK'
        BY <1>3, <2>2 DEF RegisterScheduled, ScheduleTypeOK
      <3>2. HistoryTypeOK'
        BY <1>1, <1>3, <2>2 DEF RegisterScheduled, HistoryTypeOK
      <3>. QED
        BY <3>1, <3>2
    <2>. QED
      BY <2>1, <2>2
  <1>4. CASE RegisterRemote
    <2>1. entries' \in Seq(Entry) /\ Len(entries') <= HistoryLen
      <3>1. CASE Open = {}
        BY <1>1, <1>4, <3>1 DEF RegisterRemote
      <3>2. CASE Open # {}
        <4>1. PICK last : entries' = [entries EXCEPT ![last] = Closed]
          BY <1>4, <3>2 DEF RegisterRemote
        <4>. QED
          BY <4>1, CloseType
      <3>. QED
        BY <3>1, <3>2
    <2>2. HistoryTypeOK'
      BY <1>4, <2>1 DEF RegisterRemote, HistoryTypeOK
    <2>3. ScheduleTypeOK'
      BY <1>4 DEF RegisterRemote, ScheduleTypeOK, scheduleVars
    <2>. QED
      BY <2>2, <2>3
  <1>. QED
    BY <1>2, <1>3, <1>4

LEMMA InitType == Init => TypeOK
  <1>1. 0 \in 0 .. MaxRequests /\ HistoryLen \in Nat
    BY ConstantsAssumption
  <1>2. Len(<<>>) = 0 /\ <<>> \in Seq(Entry)
    OBVIOUS
  <1>. SUFFICES ASSUME Init PROVE TypeOK
    OBVIOUS
  <1>3. ScheduleTypeOK
    BY DEF Init, ScheduleTypeOK
  <1>4. HistoryTypeOK
    BY <1>1, <1>2, IdFacts DEF Init, HistoryTypeOK
  <1>5. WorldTypeOK
    BY DEF Init, WorldTypeOK
  <1>. QED
    BY <1>1, <1>3, <1>4, <1>5 DEF Init, TypeOK

\* The parts of the state an action leaves alone keep their types.
LEMMA Untouched ==
    /\ ScheduleTypeOK /\ UNCHANGED scheduleVars => ScheduleTypeOK'
    /\ HistoryTypeOK /\ UNCHANGED historyVars => HistoryTypeOK'
    /\ WorldTypeOK /\ UNCHANGED worldVars => WorldTypeOK'
    /\ requests \in 0 .. MaxRequests /\ UNCHANGED requests
          => requests' \in 0 .. MaxRequests
  BY DEF ScheduleTypeOK, HistoryTypeOK, WorldTypeOK, scheduleVars, historyVars, worldVars

LEMMA NextType == TypeOK /\ [Next]_vars => TypeOK'
  <1>. SUFFICES ASSUME ScheduleTypeOK, HistoryTypeOK, WorldTypeOK,
                       requests \in 0 .. MaxRequests, [Next]_vars
                PROVE  /\ ScheduleTypeOK' /\ HistoryTypeOK' /\ WorldTypeOK'
                       /\ requests' \in 0 .. MaxRequests
    BY DEF TypeOK
  <1>1. CASE UserAsks
    <2>1. requests' \in 0 .. MaxRequests
      BY <1>1, ConstantsAssumption DEF UserAsks
    <2>2. HistoryTypeOK'
      BY <1>1, AskType DEF UserAsks, Requester
    <2>. QED
      BY <1>1, <2>1, <2>2, Untouched DEF UserAsks
  <1>2. ASSUME NEW r \in Requester, Start(r)
        PROVE  /\ ScheduleTypeOK' /\ HistoryTypeOK' /\ WorldTypeOK'
               /\ requests' \in 0 .. MaxRequests
    <2>1. [by |-> r, event |-> lastId] \in Timer
      BY DEF Timer, HistoryTypeOK
    <2>2. HistoryTypeOK'
      BY <1>2, <2>1 DEF Start, StartWith, HistoryTypeOK
    <2>3. WorldTypeOK'
      BY <1>2 DEF Start, StartWith, HistoryTypeOK, WorldTypeOK
    <2>. QED
      BY <1>2, <2>2, <2>3, Untouched DEF Start, StartWith
  <1>3. ASSUME NEW t \in armed, AckTimeout(t)
        PROVE  /\ ScheduleTypeOK' /\ HistoryTypeOK' /\ WorldTypeOK'
               /\ requests' \in 0 .. MaxRequests
    <2>1. HistoryTypeOK'
      BY <1>3 DEF AckTimeout, HistoryTypeOK
    <2>. QED
      BY <1>3, <2>1, Untouched DEF AckTimeout
  <1>4. ASSUME NEW t \in failing, AckFailed(t)
        PROVE  /\ ScheduleTypeOK' /\ HistoryTypeOK' /\ WorldTypeOK'
               /\ requests' \in 0 .. MaxRequests
    <2>1. HistoryTypeOK'
      BY <1>4 DEF AckFailed, HistoryTypeOK
    <2>. QED
      BY <1>4, <2>1, Untouched DEF AckFailed
  <1>5. CASE GrowOld
    <2>1. PICK i \in DOMAIN entries : entries' = [entries EXCEPT ![i] = Closed]
      BY <1>5 DEF GrowOld
    <2>2. HistoryTypeOK'
      BY <1>5, <2>1, CloseType DEF GrowOld, HistoryTypeOK
    <2>. QED
      BY <1>5, <2>2, Untouched DEF GrowOld
  <1>6. CASE HandleReport
    <2>1. WorldTypeOK'
      BY <1>6 DEF HandleReport, WorldTypeOK
    <2>2. requests' \in 0 .. MaxRequests
      BY <1>6 DEF HandleReport
    <2>3. CASE UNCHANGED <<scheduleVars, historyVars>>
      BY <2>1, <2>2, <2>3, Untouched
    <2>4. CASE RegisterRemote \/ RegisterScheduled \/ RegisterOther
      BY <2>1, <2>2, <2>4, RegisterType
    <2>. QED
      BY <1>6, <2>3, <2>4 DEF HandleReport, WorldTypeOK, Feeding, Status, NoReport
  <1>7. CASE StartCheck
    <2>1. ScheduleTypeOK'
      BY <1>7 DEF StartCheck, ScheduleTypeOK
    <2>. QED
      BY <1>7, <2>1, Untouched DEF StartCheck
  <1>8. CASE CheckExpires
    <2>1. HistoryTypeOK'
      BY <1>8, HistoryAddType DEF CheckExpires, HistoryTypeOK, Entry
    <2>2. ScheduleTypeOK'
      BY <1>8 DEF CheckExpires, ScheduleTypeOK
    <2>. QED
      BY <1>8, <2>1, <2>2, Untouched DEF CheckExpires
  <1>9. CASE CheckForces
    <2>1. HistoryTypeOK'
      <3>1. CASE telegramUp
        BY <1>9, <3>1, AskType DEF CheckForces, Requester
      <3>2. CASE ~telegramUp
        BY <1>9, <3>2 DEF CheckForces, HistoryTypeOK
      <3>. QED
        BY <3>1, <3>2
    <2>2. ScheduleTypeOK'
      BY <1>9 DEF CheckForces, ScheduleTypeOK
    <2>. QED
      BY <1>9, <2>1, <2>2, Untouched DEF CheckForces
  <1>10. CASE SlotNears
    <2>1. entries' = [i \in DOMAIN entries |-> Closed]
      BY <1>10 DEF SlotNears
    <2>2. entries' \in Seq(Entry) /\ Len(entries') <= HistoryLen
      BY <2>1 DEF Entry, HistoryTypeOK
    <2>3. HistoryTypeOK'
      BY <1>10, <2>2 DEF SlotNears, HistoryTypeOK
    <2>4. WorldTypeOK'
      BY <1>10 DEF SlotNears, WorldTypeOK
    <2>5. ScheduleTypeOK'
      BY <1>10 DEF SlotNears, ScheduleTypeOK
    <2>. QED
      BY <1>10, <2>3, <2>4, <2>5 DEF SlotNears
  <1>11. CASE SlotTime \/ SlotPasses
    <2>1. ScheduleTypeOK'
      BY <1>11 DEF SlotTime, SlotPasses, ScheduleTypeOK
    <2>. QED
      BY <1>11, <2>1, Untouched DEF SlotTime, SlotPasses
  <1>12. CASE UnitServes
    <2>1. WorldTypeOK'
      <3>1. [source |-> "schedule", event |-> NoId] \in Feeding
        BY DEF Feeding
      <3>2. report' \in Feeding \cup {Status, NoReport}
        BY <1>12, <3>1 DEF UnitServes, Reports, WorldTypeOK
      <3>. QED
        BY <1>12, <3>2 DEF UnitServes, WorldTypeOK
    <2>. QED
      BY <1>12, <2>1, Untouched DEF UnitServes
  <1>13. ASSUME NEW event \in Ids, UnitObeys(event)
         PROVE  /\ ScheduleTypeOK' /\ HistoryTypeOK' /\ WorldTypeOK'
                /\ requests' \in 0 .. MaxRequests
    <2>1. WorldTypeOK'
      BY <1>13 DEF UnitObeys, Reports, Feeding, WorldTypeOK
    <2>. QED
      BY <1>13, <2>1, Untouched DEF UnitObeys
  <1>14. CASE UnitReports
    <2>1. WorldTypeOK'
      BY <1>14 DEF UnitReports, Reports, Feeding, WorldTypeOK
    <2>. QED
      BY <1>14, <2>1, Untouched DEF UnitReports
  <1>15. CASE Discover \/ TelegramUpDown
    <2>1. WorldTypeOK'
      BY <1>15 DEF Discover, TelegramUpDown, WorldTypeOK
    <2>. QED
      BY <1>15, <2>1, Untouched DEF Discover, TelegramUpDown
  <1>16. CASE Restart
    <2>1. entries' \in Seq(Entry) /\ Len(entries') <= HistoryLen /\ lastId' \in Ids
      <3>1. Len(<<>>) = 0 /\ <<>> \in Seq(Entry) /\ HistoryLen \in Nat
        BY ConstantsAssumption
      <3>2. CASE UNCHANGED <<entries, lastId>>
        BY <3>2 DEF HistoryTypeOK
      <3>3. CASE entries' = <<>> /\ lastId' = 0
        BY <3>1, <3>3, IdFacts
      <3>. QED
        BY <1>16, <3>2, <3>3 DEF Restart
    <2>2. HistoryTypeOK'
      BY <1>16, <2>1 DEF Restart, HistoryTypeOK
    <2>3. WorldTypeOK'
      BY <1>16 DEF Restart, WorldTypeOK
    <2>4. ScheduleTypeOK'
      BY <1>16 DEF Restart, ScheduleTypeOK
    <2>. QED
      BY <1>16, <2>2, <2>3, <2>4 DEF Restart
  <1>17. CASE UNCHANGED vars
    BY <1>17, Untouched DEF vars
  <1>. QED
    BY <1>1, <1>2, <1>3, <1>4, <1>5, <1>6, <1>7, <1>8, <1>9, <1>10, <1>11, <1>12,
       <1>13, <1>14, <1>15, <1>16, <1>17 DEF Next, Timeout, Clock

-----------------------------------------------------------------------------
(* A wait has a timer *)

LEMMA AskPending ==
    ASSUME PendingCanExpire, NEW r, Ask(r), UNCHANGED <<pending, armed, failing>>
    PROVE  PendingCanExpire'
  BY DEF PendingCanExpire, Ask, NoTimer

LEMMA NextPending == TypeOK /\ PendingCanExpire /\ [Next]_vars => PendingCanExpire'
  <1>. SUFFICES ASSUME TypeOK, PendingCanExpire, [Next]_vars PROVE PendingCanExpire'
    OBVIOUS
  <1>1. CASE UserAsks
    BY <1>1, AskPending DEF UserAsks
  <1>2. ASSUME NEW r \in Requester, Start(r) PROVE PendingCanExpire'
    BY <1>2 DEF Start, StartWith, PendingCanExpire
  <1>3. ASSUME NEW t \in armed, AckTimeout(t) PROVE PendingCanExpire'
    BY <1>3 DEF AckTimeout, PendingCanExpire
  <1>4. ASSUME NEW t \in failing, AckFailed(t) PROVE PendingCanExpire'
    BY <1>4 DEF AckFailed, PendingCanExpire
  <1>5. CASE HandleReport
    <2>1. CASE RegisterRemote
      BY <2>1 DEF RegisterRemote, PendingCanExpire
    <2>2. CASE RegisterScheduled \/ RegisterOther
      BY <2>2 DEF RegisterScheduled, RegisterOther, PendingCanExpire
    <2>3. CASE UNCHANGED <<scheduleVars, historyVars>>
      BY <2>3 DEF historyVars, PendingCanExpire
    <2>. QED
      BY <1>5, <2>1, <2>2, <2>3 DEF HandleReport, TypeOK, WorldTypeOK, Feeding, Status, NoReport
  <1>6. CASE CheckForces
    <2>1. CASE telegramUp
      BY <1>6, <2>1, AskPending DEF CheckForces
    <2>2. CASE ~telegramUp
      BY <1>6, <2>2 DEF CheckForces, PendingCanExpire
    <2>. QED
      BY <2>1, <2>2
  <1>7. CASE Restart
    BY <1>7 DEF Restart, PendingCanExpire
  <1>8. ASSUME UNCHANGED <<lastId, pending, armed, failing>> PROVE PendingCanExpire'
    BY <1>8 DEF PendingCanExpire
  <1>9. CASE UNCHANGED vars
    BY <1>8, <1>9 DEF vars, historyVars
  <1>10. ASSUME \/ GrowOld \/ StartCheck \/ CheckExpires \/ Clock \/ UnitServes
                \/ UnitReports \/ Discover \/ TelegramUpDown
                \/ \E event \in Ids : UnitObeys(event)
         PROVE  PendingCanExpire'
    BY <1>8, <1>10 DEF GrowOld, StartCheck, CheckExpires, Clock, SlotNears, SlotTime,
       SlotPasses, UnitServes, UnitReports, Discover, TelegramUpDown, UnitObeys,
       historyVars
  <1>. QED
    BY <1>1, <1>2, <1>3, <1>4, <1>5, <1>6, <1>7, <1>9, <1>10 DEF Next, Timeout

-----------------------------------------------------------------------------
(* One outcome *)

LEMMA InitOutcome == Init => CheckInPhase /\ OutcomeInv /\ PendingCanExpire
  BY DEF Init, CheckInPhase, OutcomeInv, PendingCanExpire, NoReport

\* What the outcome of a slot depends on besides the report of the unit.
slotVars == <<phase, slot, check, outcome, restarted>>

LEMMA SlotUntouched ==
    ASSUME CheckInPhase, OutcomeInv, UNCHANGED slotVars,
           report'.source = "schedule" =>
              report.source = "schedule" /\ unit'.served,
           unit.served => unit'.served
    PROVE  CheckInPhase' /\ OutcomeInv'
  BY DEF CheckInPhase, OutcomeInv, OutcomeSoFar, MarkTells, slotVars

LEMMA NextOutcome ==
    TypeOK /\ CheckInPhase /\ OutcomeInv /\ [Next]_vars => CheckInPhase' /\ OutcomeInv'
  <1>. SUFFICES ASSUME TypeOK, CheckInPhase, OutcomeInv, [Next]_vars
                PROVE  CheckInPhase' /\ OutcomeInv'
    OBVIOUS
  <1>1. CASE HandleReport
    <2>1. report' = NoReport /\ unit'.served = unit.served
      BY <1>1 DEF HandleReport, TypeOK, WorldTypeOK
    <2>2. report'.source # "schedule"
      BY <2>1 DEF NoReport
    <2>3. CASE UNCHANGED slotVars
      BY <2>1, <2>2, <2>3, SlotUntouched
    <2>4. CASE report.source = "schedule" /\ RegisterScheduled /\ phase # "far"
      <3>1. /\ UNCHANGED <<phase, restarted>>
            /\ slot' = IF slot = "none" THEN "fulfilled" ELSE "none"
            /\ check' = IF slot = "timer" THEN "idle" ELSE check
            /\ outcome' = outcome \cup {"on time"}
        BY <2>4 DEF RegisterScheduled
      <3>2. unit.served /\ "on time" \notin outcome
        BY <2>4 DEF CheckInPhase
      <3>3. CheckInPhase'
        BY <2>1, <2>2, <2>4, <3>1, <3>2 DEF CheckInPhase, TypeOK, ScheduleTypeOK
      <3>4. OutcomeInv'
        BY <2>4, <3>1, <3>2 DEF OutcomeInv, OutcomeSoFar, MarkTells, CheckInPhase, TypeOK, ScheduleTypeOK
      <3>. QED
        BY <3>3, <3>4
    <2>5. CASE RegisterRemote \/ RegisterOther
      BY <2>3, <2>5 DEF RegisterRemote, RegisterOther, scheduleVars, slotVars
    <2>6. CASE report.source = "schedule" /\ RegisterScheduled /\ phase = "far"
      BY <2>5, <2>6 DEF RegisterScheduled
    <2>7. CASE UNCHANGED <<scheduleVars, historyVars>>
      BY <2>3, <2>7 DEF scheduleVars, slotVars
    <2>. QED
      BY <1>1, <2>4, <2>5, <2>6, <2>7 DEF HandleReport, TypeOK, WorldTypeOK, Feeding, Status, NoReport
  <1>2. CASE StartCheck
    <2>1. UNCHANGED <<phase, outcome, restarted, unit, report>>
      BY <1>2 DEF StartCheck, worldVars
    <2>2. CASE slot = "fulfilled"
      <3>1. check = "due" /\ phase = "after" /\ check' = "idle" /\ slot' = "none"
        BY <1>2, <2>2 DEF StartCheck, CheckInPhase
      <3>2. CheckInPhase'
        BY <2>1, <3>1 DEF CheckInPhase
      <3>3. ~restarted => outcome = {"on time"}
        BY <2>2, <3>1 DEF OutcomeInv, OutcomeSoFar, MarkTells
      <3>4. OutcomeInv'
        BY <2>1, <3>1, <3>3 DEF OutcomeInv, OutcomeSoFar
      <3>. QED
        BY <3>2, <3>4
    <2>3. CASE slot # "fulfilled"
      <3>1. check = "due" /\ phase = "after" /\ check' = "armed" /\ slot' = "timer"
        BY <1>2, <2>3 DEF StartCheck, CheckInPhase
      <3>2. CheckInPhase'
        BY <2>1, <3>1 DEF CheckInPhase
      <3>3. ~restarted => outcome = {}
        BY <2>3, <3>1 DEF OutcomeInv, OutcomeSoFar, MarkTells
      <3>4. OutcomeInv'
        BY <2>1, <3>1, <3>3 DEF OutcomeInv, OutcomeSoFar
      <3>. QED
        BY <3>2, <3>4
    <2>. QED
      BY <2>2, <2>3
  <1>3. CASE CheckExpires
    <2>1. UNCHANGED <<phase, restarted, unit, report>>
      BY <1>3 DEF CheckExpires, worldVars
    <2>. QED
      BY <1>3, <2>1 DEF CheckExpires, CheckInPhase, OutcomeInv, OutcomeSoFar
  <1>4. CASE CheckForces
    <2>1. UNCHANGED <<phase, slot, outcome, restarted, unit, report>>
      BY <1>4 DEF CheckForces, worldVars
    <2>2. check = "expired" /\ check' = "idle"
      BY <1>4 DEF CheckForces
    <2>3. phase = "far" /\ slot # "timer"
      BY <2>2 DEF CheckInPhase
    <2>4. CheckInPhase'
      BY <2>1, <2>2, <2>3 DEF CheckInPhase
    <2>5. OutcomeInv'
      BY <2>1, <2>2, <2>3 DEF OutcomeInv, OutcomeSoFar
    <2>. QED
      BY <2>4, <2>5
  <1>5. CASE SlotNears
    <2>1. UNCHANGED <<slot, check, report>>
      BY <1>5 DEF SlotNears
    <2>2. /\ phase = "far" /\ check = "idle" /\ report.source # "schedule"
          /\ phase' = "before" /\ outcome' = {}
          /\ restarted' = (restarted /\ slot = "fulfilled")
      BY <1>5 DEF SlotNears
    <2>3. CheckInPhase'
      BY <2>1, <2>2 DEF CheckInPhase
    <2>4. ~restarted' => slot = "none"
      BY <2>2 DEF CheckInPhase, OutcomeInv, OutcomeSoFar, TypeOK, ScheduleTypeOK
    <2>. QED
      BY <2>1, <2>2, <2>3, <2>4 DEF OutcomeInv, OutcomeSoFar, MarkTells
  <1>6. CASE SlotTime
    <2>1. UNCHANGED <<slot, outcome, restarted, unit, report>>
      BY <1>6 DEF SlotTime, worldVars
    <2>2. phase = "before" /\ phase' = "after" /\ check' = "due"
      BY <1>6 DEF SlotTime
    <2>3. check = "idle" /\ slot # "timer"
      BY <2>2 DEF CheckInPhase
    <2>4. CheckInPhase'
      BY <2>1, <2>2, <2>3 DEF CheckInPhase
    <2>5. OutcomeInv'
      BY <2>1, <2>2, <2>3 DEF OutcomeInv, OutcomeSoFar, MarkTells
    <2>. QED
      BY <2>4, <2>5
  <1>7. CASE SlotPasses
    <2>1. UNCHANGED <<slot, check, outcome, restarted, unit, report>>
      BY <1>7 DEF SlotPasses, worldVars
    <2>2. phase = "after" /\ check # "due" /\ phase' = "far"
      BY <1>7 DEF SlotPasses
    <2>3. check \in {"idle", "armed"}
      BY <2>2 DEF CheckInPhase, TypeOK, ScheduleTypeOK
    <2>4. CheckInPhase'
      BY <2>1, <2>2, <2>3 DEF CheckInPhase
    <2>5. OutcomeInv'
      BY <2>1, <2>2, <2>3 DEF OutcomeInv, OutcomeSoFar, CheckInPhase
    <2>. QED
      BY <2>4, <2>5
  <1>8. CASE UnitServes
    <2>1. UNCHANGED slotVars /\ phase # "far" /\ ~unit.served
      BY <1>8 DEF UnitServes, scheduleVars, slotVars
    <2>2. unit'.served
      BY <1>8 DEF UnitServes, TypeOK, WorldTypeOK
    <2>3. "on time" \notin outcome
      BY <2>1 DEF CheckInPhase
    <2>. QED
      BY <2>1, <2>2, <2>3 DEF CheckInPhase, OutcomeInv, OutcomeSoFar, MarkTells, slotVars
  <1>9. CASE Restart
    <2>1. /\ slot' = "none" /\ check' = "idle" /\ restarted'
          /\ UNCHANGED <<phase, outcome, unit, report>>
      BY <1>9 DEF Restart
    <2>. QED
      BY <2>1 DEF CheckInPhase, OutcomeInv
  <1>10. ASSUME NEW event \in Ids, UnitObeys(event) PROVE CheckInPhase' /\ OutcomeInv'
    <2>1. UNCHANGED slotVars
      BY <1>10 DEF UnitObeys, scheduleVars, slotVars
    <2>2. /\ unit'.served = unit.served
          /\ report'.source = "schedule" => report.source = "schedule"
      BY <1>10 DEF UnitObeys, Reports, TypeOK, WorldTypeOK, NoReport
    <2>. QED
      BY <2>1, <2>2, SlotUntouched DEF CheckInPhase
  <1>11. CASE UnitReports
    <2>1. UNCHANGED slotVars /\ UNCHANGED unit
      BY <1>11 DEF UnitReports, scheduleVars, slotVars
    <2>2. report'.source = "schedule" => report.source = "schedule"
      BY <1>11 DEF UnitReports, Reports, Status, NoReport
    <2>. QED
      BY <2>1, <2>2, SlotUntouched DEF CheckInPhase
  <1>12. ASSUME NEW r \in Requester, Start(r) PROVE CheckInPhase' /\ OutcomeInv'
    <2>1. UNCHANGED slotVars /\ UNCHANGED report /\ unit'.served = unit.served
      BY <1>12 DEF Start, StartWith, scheduleVars, slotVars, TypeOK, WorldTypeOK
    <2>. QED
      BY <2>1, SlotUntouched DEF CheckInPhase
  <1>13. ASSUME UNCHANGED slotVars, UNCHANGED <<unit, report>>
         PROVE  CheckInPhase' /\ OutcomeInv'
    BY <1>13, SlotUntouched DEF CheckInPhase
  <1>14. CASE Timeout
    BY <1>13, <1>14 DEF Timeout, AckTimeout, AckFailed, scheduleVars, worldVars, slotVars
  <1>15. CASE UserAsks \/ GrowOld \/ Discover \/ TelegramUpDown
    BY <1>13, <1>15 DEF UserAsks, GrowOld, Discover, TelegramUpDown, scheduleVars,
       worldVars, slotVars
  <1>16. CASE UNCHANGED vars
    BY <1>13, <1>16 DEF vars, scheduleVars, worldVars, slotVars
  <1>. QED
    BY <1>1, <1>2, <1>3, <1>4, <1>5, <1>6, <1>7, <1>8, <1>9, <1>10, <1>11, <1>12,
       <1>14, <1>15, <1>16 DEF Next, Clock

LEMMA OutcomeIsOne == IInv => OneOutcome
  <1>. SUFFICES ASSUME IInv, ~restarted
                PROVE  /\ Cardinality(outcome) <= 1
                       /\ phase = "far" /\ check = "idle" => outcome # {}
    BY DEF OneOutcome
  <1>1. outcome \in {{}, {"on time"}, {"missed"}}
    BY DEF IInv, TypeOK, ScheduleTypeOK, CheckInPhase, OutcomeInv, OutcomeSoFar, MarkTells
  <1>2. Cardinality(outcome) <= 1
    <2>1. CASE outcome = {}
      BY <2>1, FS_EmptySet
    <2>2. ASSUME NEW made, outcome = {made} PROVE Cardinality(outcome) <= 1
      BY <2>2, FS_Singleton
    <2>. QED
      BY <1>1, <2>1, <2>2
  <1>3. phase = "far" /\ check = "idle" => outcome # {}
    BY DEF IInv, OutcomeInv, OutcomeSoFar
  <1>. QED
    BY <1>2, <1>3

-----------------------------------------------------------------------------
(* The theorems *)

\* The inductive invariant holds: types, the timer of a wait, and where the slot,
\* its check and the report of the unit can be together.
THEOREM Invariance == Spec => []IInv
  <1>1. Init => IInv
    BY InitType, InitOutcome DEF IInv
  <1>2. IInv /\ [Next]_vars => IInv'
    BY NextType, NextPending, NextOutcome DEF IInv
  <1>. QED
    BY <1>1, <1>2, PTL DEF Spec

\* Every variable of the feeder service keeps its type.
THEOREM TypeCorrect == Spec => []TypeOK
  <1>1. IInv => TypeOK
    BY DEF IInv
  <1>. QED
    BY <1>1, Invariance, PTL

\* However threads overlap in register_request, the wait for an acknowledgement
\* has a timer that will end it, so that requests are not refused for ever.
THEOREM PendingAlwaysExpires == Spec => []PendingCanExpire
  <1>1. IInv => PendingCanExpire
    BY DEF IInv
  <1>. QED
    BY <1>1, Invariance, PTL

\* A slot no restart disturbs is on time or missed, never both, and never neither.
THEOREM AlwaysOneOutcome == Spec => []OneOutcome
  <1>. QED
    BY OutcomeIsOne, Invariance, PTL

=============================================================================
