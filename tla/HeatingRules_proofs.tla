------------------------ MODULE HeatingRules_proofs ------------------------
(***************************************************************************)
(* What the heating service guarantees for any number of slots in a day    *)
(* and any sequence of requests, ticks, crashes and Telegram outages,      *)
(* whatever the rules do (module Heating); then the configured rules, for  *)
(* any day, any window and any temperatures: they implement the arbitrary  *)
(* ones, so that the theorems hold with them, and they heat for a reason.  *)
(***************************************************************************)
EXTENDS HeatingRules, TLAPS

-----------------------------------------------------------------------------
(* Lemmas about slots *)

\* A slot written with set_policy is a slot, and its policy decides its state.
LEMMA SetPolicySlot ==
    ASSUME NEW slot \in Slot, NEW input \in PolicyInput, NEW reason \in Reason
    PROVE  SetPolicy(slot, input, reason) \in Slot
  BY DEF SetPolicy, GuessValue, Slot, AllowOn, PolicyInput

LEMMA FreshSlotType == FreshSlot \in Slot
  BY DEF FreshSlot, Slot, AllowOn, Reason

\* A policy that is already canonical is taken as it is.
LEMMA SlotPolicyInput ==
    ASSUME NEW slot \in Slot
    PROVE  slot.allow_on \in PolicyInput /\ slot.reason \in Reason
  BY DEF Slot, PolicyInput

LEMMA ToggleSlotType ==
    ASSUME NEW slot \in Slot
    PROVE  Toggle(slot, "Set by web UI") \in Slot
  BY SetPolicySlot DEF Toggle, PolicyInput, AllowOn, Reason, UserReason

LEMMA SetFromRuleSlot ==
    ASSUME NEW slot \in Slot, NEW on \in BOOLEAN
    PROVE  SetFromRule(slot, on, "Rule") \in Slot
  BY DEF SetFromRule, Slot, Reason

LEMMA RestoredSlot ==
    ASSUME NEW slot \in Slot
    PROVE  Restored(slot) \in Slot
  BY SetPolicySlot, SlotPolicyInput, FreshSlotType DEF Restored

\* The slot a day restarts from is the same after it was saved and read again.
LEMMA RestoredTwice ==
    ASSUME NEW slot \in Slot
    PROVE  Restored(Restored(slot)) = Restored(slot)
  BY DEF Restored, SetPolicy, GuessValue, FreshSlot, Slot, AllowOn

\* A slot whose policy decides its state.
Decided(slot) ==
    /\ slot.allow_on = "Always" => slot.request_on
    /\ slot.allow_on = "Never"  => ~slot.request_on

LEMMA SetPolicyDecided ==
    ASSUME NEW slot \in Slot, NEW input \in PolicyInput, NEW reason \in Reason
    PROVE  Decided(SetPolicy(slot, input, reason))
  BY DEF Decided, SetPolicy, GuessValue, Slot, AllowOn, PolicyInput

LEMMA SetFromRuleDecided ==
    ASSUME NEW slot \in Slot, Decided(slot), NEW on \in BOOLEAN
    PROVE  Decided(SetFromRule(slot, on, "Rule"))
  BY DEF Decided, SetFromRule, Slot

LEMMA ToggleDecided ==
    ASSUME NEW slot \in Slot
    PROVE  Decided(Toggle(slot, "Set by web UI"))
  BY SetPolicyDecided DEF Toggle, PolicyInput, AllowOn, Reason, UserReason

LEMMA FreshSlotDecided == Decided(FreshSlot)
  BY DEF Decided, FreshSlot

-----------------------------------------------------------------------------
(* Lemmas about days and about the output side *)

LEMMA SlotArithmetic ==
    ASSUME NEW i \in Int
    PROVE  i % NumSlots \in Slots
  BY ConstantsAssumption DEF Slots

LEMMA FreshDayType == FreshDay \in Day
  BY FreshSlotType DEF FreshDay, Day

LEMMA ResetDayType ==
    ASSUME NEW input \in PolicyInput
    PROVE  ResetDay(input) \in Day
  <1>1. SetPolicy(FreshSlot, input, "Scheduled") \in Slot
    BY FreshSlotType, SetPolicySlot DEF Reason
  <1>. QED
    BY <1>1 DEF ResetDay, Day

LEMMA NotifyType ==
    ASSUME NEW o \in Output, NEW slot \in Slot
    PROVE  Notify(o, slot) \in Output
  <1>1. NotifyFails(o, slot) \in BOOLEAN
    BY DEF NotifyFails
  <1>2. OnOff(slot.request_on) \in {"on", "off"}
    BY DEF OnOff
  <1>3. [o EXCEPT !.applied = slot] \in Output
    BY DEF Output
  <1>. QED
    BY <1>1, <1>2, <1>3 DEF Notify, Output

\* The output side agrees with the slot that was last reported to it.
Agrees(o, slot) ==
    /\ ~known => ~o.raised
    /\ ~o.raised => o.applied = slot
    /\ known /\ ~o.raised => o.boiler = OnOff(slot.request_on)

\* Reporting a slot makes the output side agree with it, whatever it agreed
\* with before.
LEMMA NotifyAgrees ==
    ASSUME NEW o \in Output, NEW slot \in Slot, NEW old \in Slot,
           Agrees(o, old)
    PROVE  Agrees(Notify(o, slot), slot)
  <1>1. CASE slot = o.applied
    BY <1>1 DEF Agrees, Notify
  <1>2. CASE slot # o.applied /\ ~known
    <2>1. Notify(o, slot) = [o EXCEPT !.applied = slot]
      BY <1>2 DEF Notify
    <2>. QED
      BY <1>2, <2>1 DEF Agrees, Output
  <1>3. CASE slot # o.applied /\ known
    BY <1>3 DEF Agrees, Notify
  <1>. QED
    BY <1>1, <1>2, <1>3

-----------------------------------------------------------------------------
(* The inductive invariant *)

\* The template holds only what a restart would read back.
TemplateNormal == \A s \in Slots : Restored(template[s]) = template[s]

\* Decided slots, an output side that agrees with the active slot while the
\* process runs, and a template that is on disk.
IInv ==
    /\ TypeOK
    /\ running \/ ~known
    /\ \A s \in Slots : Decided(sched[s])
    /\ running => Agrees(out, sched[active])
    /\ TemplateNormal
    /\ TemplateOnDisk

LEMMA InitIInv == Init => IInv
  <1> SUFFICES ASSUME Init PROVE IInv
    OBVIOUS
  <1>1. FreshDay \in Day /\ ResetDay("Never") \in Day
    BY FreshDayType, ResetDayType DEF PolicyInput, AllowOn
  <1>2. 0 \in 0 .. MaxRequests /\ 0 \in 0 .. MaxCrashes
    BY ConstantsAssumption
  <1>3. TypeOK
    BY <1>1, <1>2, FreshSlotType DEF Init, TypeOK, Output, Disk, Saved
  <1>4. \A s \in Slots : Decided(sched[s])
    BY FreshSlotDecided DEF Init, FreshDay
  <1>5. Agrees(out, sched[active])
    BY DEF Init, FreshDay, Agrees
  <1>6. \A s \in Slots : Restored(ResetDay("Never")[s]) = ResetDay("Never")[s]
    BY DEF ResetDay, Restored, SetPolicy, GuessValue, AllowOn, FreshSlot
  <1>7. TemplateNormal /\ TemplateOnDisk
    BY <1>6 DEF Init, TemplateNormal, TemplateOnDisk, Saved
  <1>. QED
    BY <1>3, <1>4, <1>5, <1>7 DEF IInv, Init

-----------------------------------------------------------------------------
(* Each action preserves the invariant *)

LEMMA AdvanceClockIInv == IInv /\ AdvanceClock => IInv'
  <1> SUFFICES ASSUME IInv, AdvanceClock PROVE IInv'
    OBVIOUS
  <1>1. clock' \in Slots
    BY SlotArithmetic DEF AdvanceClock, IInv, TypeOK, Slots
  <1>2. expired' \in SUBSET Slots
    BY DEF AdvanceClock, IInv, TypeOK
  <1>3. TypeOK'
    BY <1>1, <1>2 DEF AdvanceClock, IInv, TypeOK
  <1>. QED
    BY <1>3 DEF AdvanceClock, IInv, Agrees, TemplateNormal, TemplateOnDisk

LEMMA TelegramIInv == IInv /\ TelegramUpDown => IInv'
  BY DEF TelegramUpDown, IInv, TypeOK, Agrees, TemplateNormal, TemplateOnDisk

LEMMA CrashIInv == IInv /\ Crash => IInv'
  <1> SUFFICES ASSUME IInv, Crash PROVE IInv'
    OBVIOUS
  <1>1. disk' \in Disk
    <2>1. [valid |-> FALSE, active |-> FreshDay, template |-> FreshDay] \in Disk
      BY FreshDayType DEF Disk
    <2>2. disk \in Disk
      BY DEF IInv, TypeOK
    <2>. QED
      BY <2>1, <2>2 DEF Crash
  <1>2. crashes' \in 0 .. MaxCrashes
    BY ConstantsAssumption DEF Crash, IInv, TypeOK
  <1>3. TypeOK'
    BY <1>1, <1>2 DEF Crash, IInv, TypeOK
  <1>. QED
    BY <1>3 DEF Crash, IInv, TemplateNormal, TemplateOnDisk

LEMMA DiscoverIInv == IInv /\ Discover => IInv'
  <1> SUFFICES ASSUME IInv, Discover PROVE IInv'
    OBVIOUS
  <1>1. OnOff(sched[active].request_on) \in {"on", "off"}
    BY DEF OnOff
  <1>2. /\ out' \in Output
        /\ out'.applied = out.applied
        /\ out'.raised = out.raised
        /\ out'.boiler = OnOff(sched[active].request_on)
    BY <1>1 DEF Discover, IInv, TypeOK, Output
  <1>3. TypeOK'
    BY <1>2 DEF Discover, IInv, TypeOK
  <1>4. Agrees(out, sched[active])'
    BY <1>2 DEF Discover, IInv, Agrees
  <1>. QED
    BY <1>3, <1>4 DEF Discover, IInv, TemplateNormal, TemplateOnDisk

LEMMA RestartIInv == IInv /\ Restart => IInv'
  <1> SUFFICES ASSUME IInv, Restart PROVE IInv'
    OBVIOUS
  <1>1. disk.active \in Day /\ disk.template \in Day
    BY DEF IInv, TypeOK, Disk
  <1>2. ASSUME NEW day \in Day
        PROVE  [s \in Slots |-> Restored(day[s])] \in Day
    BY RestoredSlot DEF Day
  <1>3. sched' \in Day /\ template' \in Day
    BY <1>1, <1>2, FreshDayType DEF Restart
  <1>4. sched'[active'] \in Slot
    BY <1>3 DEF Restart, IInv, TypeOK, Day
  <1>5. out' \in Output
    BY <1>4 DEF Restart, IInv, TypeOK, Output
  <1>6. TypeOK'
    BY <1>3, <1>5 DEF Restart, IInv, TypeOK
  <1>7. ASSUME NEW s \in Slots
        PROVE  Decided(sched'[s])
    <2>1. CASE disk.valid
      <3>1. sched'[s] = Restored(disk.active[s]) /\ disk.active[s] \in Slot
        BY <1>1, <2>1 DEF Restart, Day
      <3>. QED
        BY <3>1, SetPolicyDecided, SlotPolicyInput, FreshSlotType DEF Restored
    <2>2. CASE ~disk.valid
      BY <2>2, FreshSlotDecided DEF Restart, FreshDay
    <2>. QED
      BY <2>1, <2>2
  <1>8. ASSUME NEW s \in Slots
        PROVE  Restored(template'[s]) = template'[s]
    <2>1. CASE disk.valid
      <3>1. /\ template'[s] = Restored(disk.template[s])
            /\ disk.template[s] \in Slot
        BY <1>1, <2>1 DEF Restart, Day
      <3>. QED
        BY <3>1, RestoredTwice
    <2>2. CASE ~disk.valid
      <3>1. template'[s] = FreshSlot
        BY <2>2 DEF Restart, FreshDay
      <3>2. Restored(FreshSlot) = FreshSlot
        BY DEF Restored, SetPolicy, GuessValue, FreshSlot, AllowOn
      <3>. QED
        BY <3>1, <3>2
    <2>. QED
      BY <2>1, <2>2
  <1>9. Agrees(out, sched[active])'
    BY DEF Restart, IInv, Agrees
  <1>10. TemplateOnDisk'
    BY DEF Restart, TemplateOnDisk
  <1>. QED
    BY <1>6, <1>7, <1>8, <1>9, <1>10 DEF IInv, TemplateNormal, Restart

LEMMA TickIInv == IInv /\ Tick => IInv'
  <1> SUFFICES ASSUME IInv, Tick PROVE IInv'
    OBVIOUS
  <1>1. PICK slot \in RuleResults(Advanced(sched)[clock]) :
           /\ sched' = [Advanced(sched) EXCEPT ![clock] = slot]
           /\ out' = Notify(out, slot)
           /\ disk' = IF NotifyFails(out, slot) THEN disk ELSE Saved(sched', template)
    BY DEF Tick, TickTo
  <1>2. /\ ResetPassed(sched) \in Day
        /\ \A s \in Slots : Decided(ResetPassed(sched)[s])
    BY FreshSlotType, FreshSlotDecided DEF ResetPassed, Day, IInv, TypeOK
  <1>3. LastSlot \in Slots
    BY SlotArithmetic, ConstantsAssumption DEF LastSlot, IInv, TypeOK, Slots
  <1>4. template[LastSlot].allow_on \in PolicyInput /\ template[LastSlot].reason \in Reason
    BY <1>3, SlotPolicyInput DEF IInv, TypeOK, Day
  <1>5. /\ Advanced(sched) \in Day
        /\ \A s \in Slots : Decided(Advanced(sched)[s])
    <2> DEFINE last == SetPolicy(ResetPassed(sched)[LastSlot],
                                 template[LastSlot].allow_on, template[LastSlot].reason)
    <2>1. last \in Slot /\ Decided(last)
      BY <1>2, <1>3, <1>4, SetPolicySlot, SetPolicyDecided DEF Day
    <2>2. CASE Lag = 0
      BY <2>2 DEF Advanced, IInv, TypeOK
    <2>3. CASE Lag # 0
      <3>1. Advanced(sched) = [ResetPassed(sched) EXCEPT ![LastSlot] = last]
        BY <2>3 DEF Advanced
      <3>. QED
        BY <3>1, <2>1, <1>2, <1>3 DEF Day
    <2>. QED
      BY <2>2, <2>3
  <1>6. slot \in Slot /\ Decided(slot)
    <2>1. Advanced(sched)[clock] \in Slot /\ Decided(Advanced(sched)[clock])
      BY <1>5 DEF IInv, TypeOK, Day
    <2>. QED
      BY <1>1, <2>1, SetFromRuleSlot, SetFromRuleDecided DEF RuleResults
  <1>7. /\ sched' \in Day
        /\ \A s \in Slots : Decided(sched'[s])
        /\ sched'[active'] = slot
    BY <1>1, <1>5, <1>6 DEF Day, Tick, TickTo, IInv, TypeOK
  <1>8. disk' \in Disk
    BY <1>1, <1>7 DEF Saved, Disk, IInv, TypeOK
  <1>9. out' \in Output
    BY <1>1, <1>6, NotifyType DEF IInv, TypeOK
  <1>10. expired' \in SUBSET Slots
    BY DEF Tick, TickTo, StillThere, IInv, TypeOK
  <1>11. TypeOK'
    BY <1>7, <1>8, <1>9, <1>10 DEF Tick, TickTo, IInv, TypeOK
  <1>12. Agrees(out, sched[active])'
    <2>1. sched[active] \in Slot /\ out \in Output /\ Agrees(out, sched[active])
      BY DEF IInv, TypeOK, Day, Tick, TickTo
    <2>2. Agrees(Notify(out, slot), slot)
      BY <1>6, <2>1, NotifyAgrees
    <2>. QED
      BY <1>1, <1>7, <2>2 DEF Agrees, Tick, TickTo
  <1>13. TemplateOnDisk'
    BY <1>1 DEF Tick, TickTo, TemplateOnDisk, TemplateNormal, Saved, IInv
  <1>. QED
    BY <1>7, <1>11, <1>12, <1>13 DEF Tick, TickTo, IInv, TemplateNormal

-----------------------------------------------------------------------------
(* User requests *)

LEMMA RequestType ==
    ASSUME IInv, Request
    PROVE  requests' \in 0 .. MaxRequests
  BY ConstantsAssumption DEF Request, IInv, TypeOK

\* A request that rewrites the active schedule with slots that are decided.
LEMMA RewriteIInv ==
    ASSUME IInv, Request, NEW day \in Day, Rewrite(day),
           \A s \in Slots : Decided(day[s])
    PROVE  IInv'
  <1>1. /\ sched[active] \in Slot
        /\ day[active] \in Slot
        /\ out \in Output
        /\ Agrees(out, sched[active])
    BY DEF IInv, TypeOK, Day, Request
  <1>2. out' \in Output
    BY <1>1, NotifyType DEF Rewrite
  <1>3. requests' \in 0 .. MaxRequests
    BY RequestType
  <1>4. expired' \in SUBSET Slots
    BY DEF Rewrite, StillThere, IInv, TypeOK
  <1>5. TypeOK'
    BY <1>2, <1>3, <1>4 DEF Rewrite, IInv, TypeOK
  <1>6. Agrees(out, sched[active])'
    <2>1. Agrees(Notify(out, day[active]), day[active])
      BY <1>1, NotifyAgrees
    <2>. QED
      BY <2>1 DEF Rewrite, Agrees
  <1>7. \A s \in Slots : Decided(sched'[s])
    BY DEF Rewrite
  <1>. QED
    BY <1>5, <1>6, <1>7 DEF Rewrite, IInv, TemplateNormal, TemplateOnDisk

LEMMA ToggleSlotIInv ==
    ASSUME IInv, NEW s \in Slots, ToggleSlot(s)
    PROVE  IInv'
  <1> DEFINE day == [sched EXCEPT ![s] = Toggle(@, "Set by web UI")]
  <1>1. sched \in Day /\ sched[s] \in Slot
    BY DEF IInv, TypeOK, Day
  <1>2. Toggle(sched[s], "Set by web UI") \in Slot
    BY <1>1, ToggleSlotType
  <1>3. Decided(Toggle(sched[s], "Set by web UI"))
    BY <1>1, ToggleDecided
  <1>4. day \in Day
    BY <1>1, <1>2 DEF Day
  <1>5. \A t \in Slots : Decided(day[t])
    BY <1>1, <1>3 DEF Day, IInv
  <1>6. Request /\ Rewrite(day)
    BY DEF ToggleSlot
  <1>. QED
    BY <1>4, <1>5, <1>6, RewriteIInv

\* A day in which some slots are written by the user is a day of decided slots.
LEMMA OverrideDay ==
    ASSUME IInv, NEW Chosen \in SUBSET Slots, NEW input \in AllowOn,
           NEW reason \in UserReason
    PROVE  LET day == [s \in Slots |-> IF s \in Chosen
                                        THEN SetPolicy(sched[s], input, reason)
                                        ELSE sched[s]]
           IN  day \in Day /\ \A s \in Slots : Decided(day[s])
  <1>1. \A s \in Slots : sched[s] \in Slot /\ Decided(sched[s])
    BY DEF IInv, TypeOK, Day
  <1>2. input \in PolicyInput /\ reason \in Reason
    BY DEF PolicyInput, Reason
  <1>3. \A s \in Slots : /\ SetPolicy(sched[s], input, reason) \in Slot
                         /\ Decided(SetPolicy(sched[s], input, reason))
    BY <1>1, <1>2, SetPolicySlot, SetPolicyDecided
  <1>. QED
    BY <1>1, <1>3 DEF Day

LEMMA BoostIInv ==
    ASSUME IInv, NEW n \in BoostLengths, Boost(n)
    PROVE  IInv'
  <1> DEFINE chosen == {s \in Slots : Distance(active, s) < n /\ sched[s].allow_on # "Always"}
             day == [s \in Slots |-> IF s \in chosen
                                      THEN SetPolicy(sched[s], "Always", "User boost")
                                      ELSE sched[s]]
  <1>1. day \in Day /\ \A s \in Slots : Decided(day[s])
    BY OverrideDay DEF AllowOn, UserReason
  <1>2. day = [s \in Slots |->
                  IF Distance(active, s) < n /\ sched[s].allow_on # "Always"
                  THEN SetPolicy(sched[s], "Always", "User boost") ELSE sched[s]]
    OBVIOUS
  <1>3. Request /\ Rewrite(day)
    BY <1>2 DEF Boost
  <1>. QED
    BY <1>1, <1>3, RewriteIInv

LEMMA OffNowIInv ==
    ASSUME IInv, OffNow
    PROVE  IInv'
  <1> DEFINE Off(s) == /\ Distance(active, s) < OffNowMaxSlots
                       /\ \A t \in Slots :
                             Distance(active, t) <= Distance(active, s)
                               => sched[t].allow_on # "Never"
             chosen == {s \in Slots : Off(s)}
             day == [s \in Slots |-> IF s \in chosen
                                      THEN SetPolicy(sched[s], "Never", "User requested off")
                                      ELSE sched[s]]
  <1>1. day \in Day /\ \A s \in Slots : Decided(day[s])
    BY OverrideDay DEF AllowOn, UserReason
  <1>2. day = [s \in Slots |-> IF Off(s)
                               THEN SetPolicy(sched[s], "Never", "User requested off")
                               ELSE sched[s]]
    OBVIOUS
  <1>3. Request /\ Rewrite(day)
    BY <1>2 DEF OffNow
  <1>. QED
    BY <1>1, <1>3, RewriteIInv

\* Whatever set_policy writes over a fresh slot is what a restart reads back.
LEMMA ScheduledNormal ==
    ASSUME NEW input \in PolicyInput
    PROVE  LET slot == SetPolicy(FreshSlot, input, "Scheduled")
           IN  slot \in Slot /\ Restored(slot) = slot
  <1>1. SetPolicy(FreshSlot, input, "Scheduled") \in Slot
    BY FreshSlotType, SetPolicySlot DEF Reason
  <1>. QED
    BY <1>1 DEF Restored, SetPolicy, GuessValue, FreshSlot, AllowOn

LEMMA SetTemplateIInv ==
    ASSUME IInv, NEW day \in Day, SetTemplate(day),
           \A s \in Slots : Restored(day[s]) = day[s]
    PROVE  IInv'
  <1>1. requests' \in 0 .. MaxRequests
    BY RequestType DEF SetTemplate
  <1>2. disk' \in Disk
    BY DEF SetTemplate, Saved, Disk, IInv, TypeOK
  <1>3. TypeOK'
    BY <1>1, <1>2 DEF SetTemplate, IInv, TypeOK
  <1>4. TemplateNormal' /\ TemplateOnDisk'
    BY DEF SetTemplate, Saved, TemplateNormal, TemplateOnDisk
  <1>. QED
    BY <1>3, <1>4 DEF SetTemplate, IInv, Agrees

LEMMA SetTemplateSlotIInv ==
    ASSUME IInv, NEW s \in Slots, NEW input \in PolicyInput, SetTemplateSlot(s, input)
    PROVE  IInv'
  <1> DEFINE slot == SetPolicy(FreshSlot, input, "Scheduled")
             day  == [template EXCEPT ![s] = slot]
  <1>1. slot \in Slot /\ Restored(slot) = slot
    BY ScheduledNormal
  <1>2. template \in Day /\ \A t \in Slots : Restored(template[t]) = template[t]
    BY DEF IInv, TypeOK, TemplateNormal
  <1>3. SetTemplate(day)
    BY DEF SetTemplateSlot
  <1>4. day \in Day /\ \A t \in Slots : Restored(day[t]) = day[t]
    <2> HIDE DEF slot
    <2>. QED
      BY <1>1, <1>2 DEF Day
  <1> HIDE DEF day
  <1>. QED
    BY <1>3, <1>4, SetTemplateIInv

LEMMA ResetTemplateIInv ==
    ASSUME IInv, NEW input \in PolicyInput, ResetTemplate(input)
    PROVE  IInv'
  <1>1. ResetDay(input) \in Day
    BY ResetDayType
  <1>2. \A s \in Slots : Restored(ResetDay(input)[s]) = ResetDay(input)[s]
    BY ScheduledNormal DEF ResetDay
  <1>. QED
    BY <1>1, <1>2, SetTemplateIInv DEF ResetTemplate

LEMMA ApplyTemplateIInv ==
    ASSUME IInv, ApplyTemplate
    PROVE  IInv'
  <1> DEFINE New(s)   == SetPolicy(sched[s], template[s].allow_on, template[s].reason)
             before   == IF active = 0 THEN out ELSE Notify(out, sched[active])
             failedAt == IF active # 0 /\ NotifyFails(out, sched[active]) THEN 0
                         ELSE IF NotifyFails(before, New(active)) THEN active
                         ELSE NumSlots
  <1>1. /\ Request
        /\ sched' = [s \in Slots |-> IF s <= failedAt THEN New(s) ELSE sched[s]]
        /\ out' = IF failedAt < active THEN before ELSE Notify(before, New(active))
        /\ disk' = IF failedAt = NumSlots THEN Saved(sched', template) ELSE disk
        /\ expired' = StillThere(expired, sched')
        /\ UNCHANGED <<clock, active, template, known, running, telegramUp, crashes>>
    BY DEF ApplyTemplate
  <1>2. \A s \in Slots : New(s) \in Slot /\ Decided(New(s))
    <2> TAKE s \in Slots
    <2>1. sched[s] \in Slot /\ template[s] \in Slot
      BY DEF IInv, TypeOK, Day
    <2>. QED
      BY <2>1, SlotPolicyInput, SetPolicySlot, SetPolicyDecided
  <1>3. /\ active \in Slots /\ active < NumSlots /\ active >= 0
        /\ active \in Int /\ NumSlots \in Int
        /\ sched[active] \in Slot
        /\ out \in Output
        /\ Agrees(out, sched[active])
    BY <1>1, ConstantsAssumption DEF IInv, TypeOK, Day, Request, Slots
  <1>4. before \in Output /\ Agrees(before, sched[active])
    BY <1>3, NotifyType, NotifyAgrees
  <1>5. failedAt \in {0, active, NumSlots}
    OBVIOUS
  <1>6. failedAt < active => failedAt = 0
    BY <1>3, <1>5
  <1> HIDE DEF New, before, failedAt
  <1>7. /\ sched' \in Day
        /\ \A s \in Slots : Decided(sched'[s])
    BY <1>1, <1>2 DEF IInv, TypeOK, Day
  <1>8. out' \in Output /\ Agrees(out', sched'[active])
    <2>1. CASE failedAt < active
      BY <1>1, <1>3, <1>4, <1>6, <2>1
    <2>2. CASE ~(failedAt < active)
      <3>1. sched'[active] = New(active) /\ out' = Notify(before, New(active))
        BY <1>1, <1>3, <1>5, <2>2
      <3>2. New(active) \in Slot
        BY <1>2, <1>3
      <3>. QED
        BY <3>1, <3>2, <1>3, <1>4, NotifyType, NotifyAgrees
    <2>. QED
      BY <2>1, <2>2
  <1>9. TypeOK'
    <2>1. requests' \in 0 .. MaxRequests
      BY <1>1, RequestType
    <2>2. disk' \in Disk
      BY <1>1, <1>7 DEF Saved, Disk, IInv, TypeOK
    <2>3. expired' \in SUBSET Slots
      BY <1>1 DEF StillThere, IInv, TypeOK
    <2>. QED
      BY <1>1, <1>7, <1>8, <2>1, <2>2, <2>3 DEF IInv, TypeOK
  <1>10. Agrees(out, sched[active])'
    BY <1>1, <1>8 DEF Agrees
  <1>11. TemplateOnDisk'
    BY <1>1 DEF TemplateOnDisk, TemplateNormal, Saved, IInv
  <1>. QED
    BY <1>1, <1>7, <1>9, <1>10, <1>11 DEF IInv, TemplateNormal

-----------------------------------------------------------------------------
(* The theorems *)

LEMMA NextIInv == IInv /\ [Next]_vars => IInv'
  <1> SUFFICES ASSUME IInv, [Next]_vars PROVE IInv'
    OBVIOUS
  <1>1. CASE AdvanceClock
    BY <1>1, AdvanceClockIInv
  <1>2. CASE TelegramUpDown
    BY <1>2, TelegramIInv
  <1>3. CASE Crash
    BY <1>3, CrashIInv
  <1>4. CASE Restart
    BY <1>4, RestartIInv
  <1>5. CASE Discover
    BY <1>5, DiscoverIInv
  <1>6. CASE Tick
    BY <1>6, TickIInv
  <1>7. CASE UserRequest
    BY <1>7, ToggleSlotIInv, BoostIInv, OffNowIInv, SetTemplateSlotIInv,
       ResetTemplateIInv, ApplyTemplateIInv DEF UserRequest
  <1>8. CASE UNCHANGED vars
    BY <1>8 DEF vars, IInv, TypeOK, Agrees, TemplateNormal, TemplateOnDisk
  <1>. QED
    BY <1>1, <1>2, <1>3, <1>4, <1>5, <1>6, <1>7, <1>8 DEF Next

THEOREM Invariance == Spec => []IInv
  BY InitIInv, NextIInv, PTL DEF Spec

\* Every variable keeps its type: in particular no slot ever holds a policy the
\* enum AllowOn does not have, whatever the web interface or the file contain.
THEOREM TypeCorrect == Spec => []TypeOK
  <1>1. IInv => TypeOK
    BY DEF IInv
  <1>. QED
    BY <1>1, Invariance, PTL

\* No rule, toggle, boost, template or restart leaves an ALWAYS slot off or a
\* NEVER slot on (schedule.py, ScheduleSlot), for a day of any number of slots.
THEOREM PolicyAlwaysDecides == Spec => []PolicyDecides
  <1>1. IInv => PolicyDecides
    BY DEF IInv, PolicyDecides, Decided
  <1>. QED
    BY <1>1, Invariance, PTL

\* The relay is in the state the active slot requests whenever no handler is
\* running, the boiler is known and the last notification did not fail
\* (schedule.py, _on_state_may_change; zmw_heating.py, _on_boiler_discovered).
THEOREM BoilerAlwaysFollowsSchedule == Spec => []BoilerFollowsSchedule
  <1>1. IInv => BoilerFollowsSchedule
    BY DEF IInv, BoilerFollowsSchedule, Agrees
  <1>. QED
    BY <1>1, Invariance, PTL

\* Every template change that was acknowledged is what a restart reads back
\* (schedule_builder.py, save_state and _from_persist).
THEOREM TemplateAlwaysOnDisk == Spec => []TemplateOnDisk
  <1>1. IInv => TemplateOnDisk
    BY DEF IInv
  <1>. QED
    BY <1>1, Invariance, PTL

-----------------------------------------------------------------------------
(* Overrides end with their slot *)

\* Going round the day: what Distance is without the modulus.
LEMMA DistanceIs ==
    ASSUME NEW a \in Slots, NEW b \in Slots
    PROVE  /\ Distance(a, b) = IF a <= b THEN b - a ELSE b - a + NumSlots
           /\ Distance(a, b) \in Slots
  BY ConstantsAssumption DEF Distance, Slots

LEMMA NextSlotIs ==
    ASSUME NEW a \in Slots
    PROVE  (a + 1) % NumSlots = IF a = NumSlots - 1 THEN 0 ELSE a + 1
  BY ConstantsAssumption DEF Slots

\* What a restart or the template puts in a slot is never an override.
NoOverride(day) == \A s \in Slots : day[s].reason \notin UserReason

\* The schedule lags behind the clock by the slots that wait for their reset, and
\* an override that has had its time is in one of them.
ExpiredInv ==
    /\ NoOverride(template)
    /\ NoOverride(disk.template)
    /\ ~running => expired = {}
    /\ running => /\ Lag <= MaxLag
                  /\ \A s \in expired : /\ Distance(active, s) < Lag
                                        /\ sched[s].reason \in UserReason

LEMMA InitExpired == Init => ExpiredInv
  <1> SUFFICES ASSUME Init PROVE ExpiredInv
    OBVIOUS
  <1>1. Lag = 0
    BY DistanceIs DEF Init, Lag, Slots
  <1>2. NoOverride(ResetDay("Never"))
    BY DEF NoOverride, ResetDay, SetPolicy, UserReason
  <1>. QED
    BY <1>1, <1>2, ConstantsAssumption DEF Init, ExpiredInv, Saved

LEMMA AdvanceClockExpired == TypeOK /\ ExpiredInv /\ AdvanceClock => ExpiredInv'
  <1> SUFFICES ASSUME TypeOK, ExpiredInv, AdvanceClock PROVE ExpiredInv'
    OBVIOUS
  <1>1. NoOverride(template)' /\ NoOverride(disk.template)'
    BY DEF ExpiredInv, AdvanceClock, NoOverride
  <1>2. CASE ~running
    BY <1>1, <1>2 DEF ExpiredInv, AdvanceClock
  <1>3. CASE running
    <2>1. Lag' = Lag + 1 /\ Lag' <= MaxLag
      <3>1. clock \in Slots /\ active \in Slots /\ active' = active
        BY DEF TypeOK, AdvanceClock
      <3>2. clock' = (IF clock = NumSlots - 1 THEN 0 ELSE clock + 1) /\ clock' \in Slots
        BY <3>1, NextSlotIs, ConstantsAssumption DEF AdvanceClock, Slots
      <3>3. Lag < MaxLag /\ MaxLag < NumSlots
        BY <1>3, ConstantsAssumption DEF AdvanceClock
      <3>4. Lag = IF active <= clock THEN clock - active ELSE clock - active + NumSlots
        BY <3>1, DistanceIs DEF Lag
      <3>5. Lag' = IF active <= clock' THEN clock' - active ELSE clock' - active + NumSlots
        BY <3>1, <3>2, DistanceIs DEF Lag
      <3>. QED
        BY <3>1, <3>2, <3>3, <3>4, <3>5, ConstantsAssumption DEF Slots
    <2>2. ASSUME NEW s \in expired'
          PROVE  Distance(active, s)' < Lag' /\ sched'[s].reason \in UserReason
      <3>1. active' = active /\ sched' = sched /\ Distance(active, s)' = Distance(active, s)
        BY DEF AdvanceClock, Distance
      <3>2. Lag \in Nat
        BY DistanceIs DEF Lag, TypeOK, Slots
      <3>3. CASE s \in expired
        <4>1. s \in Slots
          BY <3>3 DEF TypeOK
        <4>. QED
          BY <1>3, <2>1, <3>1, <3>2, <3>3, <4>1, DistanceIs DEF ExpiredInv, TypeOK, Slots
      <3>4. CASE s = clock /\ sched[clock].reason \in UserReason
        BY <2>1, <3>1, <3>2, <3>4 DEF Lag
      <3>. QED
        BY <3>3, <3>4 DEF AdvanceClock
    <2>. QED
      BY <1>1, <1>3, <2>1, <2>2 DEF ExpiredInv, AdvanceClock
  <1>. QED
    BY <1>2, <1>3

\* What was not rewritten is still the override it was.
LEMMA KeepsExpired ==
    ASSUME ExpiredInv, running, running' = running, active' = active, clock' = clock,
           NoOverride(template)', NoOverride(disk.template)',
           expired' \subseteq {s \in expired : sched'[s] = sched[s]}
    PROVE  ExpiredInv'
  BY DEF ExpiredInv, Lag, Distance

LEMMA TickExpired == TypeOK /\ ExpiredInv /\ Tick => ExpiredInv'
  <1> SUFFICES ASSUME TypeOK, ExpiredInv,
                      NEW slot \in RuleResults(Advanced(sched)[clock]), TickTo(slot)
               PROVE  ExpiredInv'
    BY DEF Tick
  <1>1. running /\ running' /\ template' = template /\ clock' = clock /\ active' = clock
    BY DEF TickTo
  <1>2. NoOverride(template)' /\ NoOverride(disk.template)'
    BY <1>1 DEF ExpiredInv, TickTo, Saved, NoOverride
  <1>3. clock \in Slots /\ active \in Slots /\ expired \subseteq Slots
    BY DEF TypeOK
  <1>4. Lag' = 0
    BY <1>1, <1>3, DistanceIs DEF Lag, Slots
  <1>5. ASSUME NEW s \in expired PROVE sched'[s] # sched[s]
    <2>1. s \in Slots /\ Distance(active, s) < Lag /\ sched[s].reason \in UserReason
      BY <1>1, <1>3, <1>5 DEF ExpiredInv
    <2>2. s # clock /\ Lag # 0
      <3>1. Distance(active, s) \in Slots /\ Distance(active, clock) \in Slots
        BY <1>3, <2>1, DistanceIs
      <3>. QED
        BY <2>1, <3>1 DEF Lag, Slots
    <2>3. sched'[s] = Advanced(sched)[s]
      BY <1>3, <2>1, <2>2 DEF TickTo, Advanced, ResetPassed, TypeOK, Day
    <2>4. ResetPassed(sched)[s] = FreshSlot
      BY <2>1 DEF ResetPassed
    <2>5. Advanced(sched)[s].reason \in {FreshSlot.reason, template[s].reason}
      BY <2>1, <2>2, <2>4 DEF Advanced, ResetPassed, SetPolicy
    <2>6. FreshSlot.reason \notin UserReason /\ template[s].reason \notin UserReason
      BY <2>1 DEF FreshSlot, UserReason, ExpiredInv, NoOverride
    <2>. QED
      BY <2>1, <2>3, <2>5, <2>6
  <1>6. expired' = {}
    BY <1>5 DEF TickTo, StillThere
  <1>. QED
    BY <1>1, <1>2, <1>4, <1>6, ConstantsAssumption DEF ExpiredInv

LEMMA RestartExpired == TypeOK /\ ExpiredInv /\ Restart => ExpiredInv'
  <1> SUFFICES ASSUME TypeOK, ExpiredInv, Restart PROVE ExpiredInv'
    OBVIOUS
  <1>1. NoOverride(template)'
    BY DEF ExpiredInv, Restart, NoOverride, Restored, SetPolicy, FreshDay, FreshSlot, UserReason
  <1>2. NoOverride(disk.template)'
    BY DEF ExpiredInv, Restart, NoOverride
  <1>3. Lag' = 0
    <2>1. clock' \in Slots /\ active' = clock'
      BY DEF Restart, TypeOK
    <2>. QED
      BY <2>1, DistanceIs DEF Lag, Slots
  <1>4. expired' = {}
    BY DEF Restart, ExpiredInv
  <1>. QED
    BY <1>1, <1>2, <1>3, <1>4, ConstantsAssumption DEF ExpiredInv

LEMMA RequestExpired == ExpiredInv /\ UserRequest => ExpiredInv'
  <1> SUFFICES ASSUME ExpiredInv, UserRequest PROVE ExpiredInv'
    OBVIOUS
  <1>1. ASSUME NEW day, Request, Rewrite(day) PROVE ExpiredInv'
    <2>1. NoOverride(template)' /\ NoOverride(disk.template)'
      BY <1>1 DEF Rewrite, ExpiredInv, NoOverride
    <2>. QED
      BY <1>1, <2>1, KeepsExpired DEF Rewrite, Request, StillThere
  <1>2. ASSUME NEW day, SetTemplate(day), NoOverride(day) PROVE ExpiredInv'
    <2>1. NoOverride(template)' /\ NoOverride(disk.template)'
      BY <1>2 DEF SetTemplate, Saved, NoOverride
    <2>. QED
      BY <1>2, <2>1, KeepsExpired DEF SetTemplate, Request
  <1>3. ASSUME NEW s \in Slots, ToggleSlot(s) PROVE ExpiredInv'
    BY <1>1, <1>3 DEF ToggleSlot
  <1>4. ASSUME NEW n \in BoostLengths, Boost(n) PROVE ExpiredInv'
    BY <1>1, <1>4 DEF Boost
  <1>5. CASE OffNow
    BY <1>1, <1>5 DEF OffNow
  <1>6. ASSUME NEW s \in Slots, NEW input \in PolicyInput, SetTemplateSlot(s, input)
        PROVE  ExpiredInv'
    <2>1. SetPolicy(FreshSlot, input, "Scheduled").reason \notin UserReason
      BY DEF SetPolicy, UserReason
    <2>2. NoOverride([template EXCEPT ![s] = SetPolicy(FreshSlot, input, "Scheduled")])
      BY <2>1 DEF ExpiredInv, NoOverride
    <2>. QED
      BY <1>2, <1>6, <2>2 DEF SetTemplateSlot
  <1>7. ASSUME NEW input \in PolicyInput, ResetTemplate(input) PROVE ExpiredInv'
    <2>1. NoOverride(ResetDay(input))
      BY DEF NoOverride, ResetDay, SetPolicy, UserReason
    <2>. QED
      BY <1>2, <1>7, <2>1 DEF ResetTemplate
  <1>8. CASE ApplyTemplate
    <2>1. NoOverride(template)' /\ NoOverride(disk.template)'
      BY <1>8 DEF ApplyTemplate, ExpiredInv, Saved, NoOverride
    <2>2. /\ running /\ running' = running /\ active' = active /\ clock' = clock
          /\ expired' = StillThere(expired, sched')
      BY <1>8 DEF ApplyTemplate, Request
    <2>. QED
      BY <2>1, <2>2, KeepsExpired DEF StillThere
  <1>. QED
    BY <1>3, <1>4, <1>5, <1>6, <1>7, <1>8 DEF UserRequest

LEMMA NextExpired == TypeOK /\ ExpiredInv /\ [Next]_vars => ExpiredInv'
  <1> SUFFICES ASSUME TypeOK, ExpiredInv, [Next]_vars PROVE ExpiredInv'
    OBVIOUS
  <1>1. CASE AdvanceClock
    BY <1>1, AdvanceClockExpired
  <1>2. CASE TelegramUpDown \/ Discover
    BY <1>2 DEF TelegramUpDown, Discover, ExpiredInv, Lag, Distance, NoOverride
  <1>3. CASE Crash
    <2>1. NoOverride(FreshDay)
      BY DEF NoOverride, FreshDay, FreshSlot, UserReason
    <2>. QED
      BY <1>3, <2>1 DEF Crash, ExpiredInv, NoOverride
  <1>4. CASE Restart
    BY <1>4, RestartExpired
  <1>5. CASE Tick
    BY <1>5, TickExpired
  <1>6. CASE UserRequest
    BY <1>6, RequestExpired
  <1>7. CASE UNCHANGED vars
    BY <1>7 DEF vars, ExpiredInv, Lag, Distance, NoOverride
  <1>. QED
    BY <1>1, <1>2, <1>3, <1>4, <1>5, <1>6, <1>7 DEF Next

\* An override the user put in a slot is not in force once its slot has passed and
\* the schedule caught up, however many slots a late tick skips and wherever
\* midnight falls (schedule.py, tick; schedule_builder.py, tick).
THEOREM OverridesAlwaysEnd == Spec => []NoExpiredOverride
  <1>1. TypeOK /\ ExpiredInv => NoExpiredOverride
    <2> SUFFICES ASSUME TypeOK, ExpiredInv, running, active = clock, active \in expired
                 PROVE  FALSE
      BY DEF NoExpiredOverride
    <2>1. Distance(active, active) \in Slots /\ active \in expired
      BY DistanceIs DEF TypeOK
    <2>2. Distance(active, active) < Distance(active, active)
      BY <2>1 DEF ExpiredInv, Lag
    <2>. QED
      BY <2>1, <2>2 DEF Slots
  <1>2. Spec => []TypeOK
    BY TypeCorrect
  <1>. QED
    BY <1>1, <1>2, InitExpired, NextExpired, PTL DEF Spec

-----------------------------------------------------------------------------
(* The rules implement RuleResults *)

LEMMA SetFromRuleTwice ==
    ASSUME NEW slot \in Slot, NEW a \in BOOLEAN, NEW b \in BOOLEAN
    PROVE  SetFromRule(SetFromRule(slot, a, "Rule"), b, "Rule")
             = SetFromRule(slot, b, "Rule")
  BY DEF SetFromRule, Slot

LEMMA SetFromRuleState ==
    ASSUME NEW slot \in Slot, NEW on \in BOOLEAN, slot.allow_on = "Rule"
    PROVE  SetFromRule(slot, on, "Rule").request_on = on
  BY DEF SetFromRule, Slot

LEMMA SetFromRulePolicy ==
    ASSUME NEW slot \in Slot, NEW on \in BOOLEAN
    PROVE  SetFromRule(slot, on, "Rule").allow_on = slot.allow_on
  BY DEF SetFromRule, Slot

\* What the chain of rules decides: the window first, then the range.
Decision(r) ==
    \/ clock \in Window /\ WantsHeat(r.bedroom)
    \/ Some(r, "cold") /\ ~Some(r, "hot")

LEMMA WantsHeatType ==
    ASSUME NEW temp, ruleActive \in BOOLEAN
    PROVE  WantsHeat(temp) \in BOOLEAN
  BY DEF WantsHeat, BelowMin, BelowMax

LEMMA ApplyDecision ==
    ASSUME NEW slot \in Slot, NEW r \in Readings, ruleActive \in BOOLEAN
    PROVE  Apply(slot, r) = SetFromRule(slot, Decision(r), "Rule")
  <1> DEFINE ranged == CheckTempsWithinRange(DefaultOff(slot), r)
  <1>1. DefaultOff(slot) = SetFromRule(slot, FALSE, "Rule")
    BY DEF DefaultOff
  <1>2. DefaultOff(slot) \in Slot
    BY <1>1, SetFromRuleSlot
  <1>3. Some(r, "cold") \in BOOLEAN /\ Some(r, "hot") \in BOOLEAN
    BY DEF Some
  <1>4. ranged = SetFromRule(slot, Some(r, "cold") /\ ~Some(r, "hot"), "Rule")
    <2>1. CASE Some(r, "hot") = Some(r, "cold")
      <3>1. (Some(r, "cold") /\ ~Some(r, "hot")) = FALSE
        BY <2>1, <1>3
      <3>. QED
        BY <2>1, <3>1, <1>1 DEF CheckTempsWithinRange
    <2>2. CASE Some(r, "hot") # Some(r, "cold")
      <3>1. (Some(r, "cold") /\ ~Some(r, "hot")) = Some(r, "cold")
        BY <2>2, <1>3
      <3>2. ranged = SetFromRule(DefaultOff(slot), Some(r, "cold"), "Rule")
        BY <2>2 DEF CheckTempsWithinRange
      <3>3. ranged = SetFromRule(slot, Some(r, "cold"), "Rule")
        BY <3>2, <1>1, <1>3, SetFromRuleTwice
      <3>. QED
        BY <3>1, <3>3
    <2>. QED
      BY <2>1, <2>2
  <1>5. WantsHeat(r.bedroom) \in BOOLEAN
    BY WantsHeatType
  <1>6. CASE clock \in Window /\ WantsHeat(r.bedroom)
    <2>1. Apply(slot, r) = SetFromRule(ranged, TRUE, "Rule")
      BY <1>6 DEF Apply, ScheduledMinTargetTemp
    <2>2. Decision(r) = TRUE
      BY <1>6 DEF Decision
    <2>3. (Some(r, "cold") /\ ~Some(r, "hot")) \in BOOLEAN
      OBVIOUS
    <2>. QED
      BY <2>1, <2>2, <2>3, <1>4, SetFromRuleTwice
  <1>7. CASE ~(clock \in Window /\ WantsHeat(r.bedroom))
    <2>1. Apply(slot, r) = ranged
      BY <1>7 DEF Apply, ScheduledMinTargetTemp
    <2>2. Decision(r) = (Some(r, "cold") /\ ~Some(r, "hot"))
      BY <1>7, <1>3 DEF Decision
    <2>. QED
      BY <2>1, <2>2, <1>4
  <1>. QED
    BY <1>6, <1>7

LEMMA NewSlotType ==
    ASSUME IInv
    PROVE  NewSlot \in Slot
  <1>1. ResetPassed(sched) \in Day
    BY FreshSlotType DEF ResetPassed, Day, IInv, TypeOK
  <1>2. LastSlot \in Slots
    BY SlotArithmetic, ConstantsAssumption DEF LastSlot, IInv, TypeOK, Slots
  <1> DEFINE last == SetPolicy(ResetPassed(sched)[LastSlot],
                               template[LastSlot].allow_on, template[LastSlot].reason)
  <1>3. last \in Slot
    <2>1. template[LastSlot].allow_on \in PolicyInput /\ template[LastSlot].reason \in Reason
      BY <1>2, SlotPolicyInput DEF IInv, TypeOK, Day
    <2>. QED
      BY <2>1, <1>1, <1>2, SetPolicySlot DEF Day
  <1>4. Advanced(sched) \in Day
    <2>1. CASE Lag = 0
      BY <2>1 DEF Advanced, IInv, TypeOK
    <2>2. CASE Lag # 0
      <3>1. Advanced(sched) = [ResetPassed(sched) EXCEPT ![LastSlot] = last]
        BY <2>2 DEF Advanced
      <3>. QED
        BY <3>1, <1>1, <1>2, <1>3 DEF Day
    <2>. QED
      BY <2>1, <2>2
  <1>. QED
    BY <1>4 DEF NewSlot, Day, IInv, TypeOK

\* A tick with readings is one of the ticks of Heating.
LEMMA RuledTickIsTick ==
    ASSUME IInv, ruleActive \in BOOLEAN, NEW r \in Readings, RuledTick(r)
    PROVE  Tick
  <1>1. Apply(NewSlot, r) = SetFromRule(NewSlot, Decision(r), "Rule")
    BY NewSlotType, ApplyDecision
  <1>2. Decision(r) \in BOOLEAN
    BY DEF Decision
  <1>3. Apply(NewSlot, r) \in RuleResults(NewSlot)
    BY <1>1, <1>2 DEF RuleResults
  <1>4. TickTo(Apply(NewSlot, r))
    BY DEF RuledTick
  <1>. QED
    BY <1>3, <1>4 DEF Tick, NewSlot

-----------------------------------------------------------------------------
(* The inductive invariant: the rule is active exactly when the bedroom asked *)
(* for heat in this window, or when it missed what should have ended it.     *)

RulesInv ==
    /\ ruleActive \in BOOLEAN
    /\ asked \in BOOLEAN
    /\ stale \in BOOLEAN
    /\ ruleActive <=> asked \/ stale

LEMMA RuledTickInv ==
    ASSUME RulesInv, NEW r \in Readings, RuledTick(r)
    PROVE  RulesInv'
  <1> DEFINE reached == r.bedroom # "none" /\ ~BelowMax(r.bedroom)
             unseen  == NewSlot.allow_on # "Rule"
  <1>1. /\ ruleActive' = StaysActive(NewSlot, r)
        /\ asked' = (/\ InWindow /\ ~reached
                     /\ asked \/ (~unseen /\ BelowMin(r.bedroom)))
        /\ stale' = (/\ ruleActive'
                     /\ stale \/ (unseen /\ (~InWindow \/ reached)))
    BY DEF RuledTick
  <1>2. StaysActive(NewSlot, r) \in BOOLEAN
    BY WantsHeatType DEF StaysActive, RulesInv
  <1>3. ruleActive' \in BOOLEAN /\ asked' \in BOOLEAN /\ stale' \in BOOLEAN
    BY <1>1, <1>2
  <1>4. CASE unseen
    <2>1. ruleActive' = ruleActive
      BY <1>1, <1>4 DEF StaysActive
    <2>. QED
      BY <1>1, <1>3, <1>4, <2>1 DEF RulesInv
  <1>5. CASE ~unseen /\ InWindow
    <2>1. ruleActive' = WantsHeat(r.bedroom)
      BY <1>1, <1>5, WantsHeatType DEF StaysActive, InWindow, RulesInv
    <2>2. BelowMin(r.bedroom) => BelowMax(r.bedroom) /\ r.bedroom # "none"
      BY DEF BelowMin, BelowMax
    <2>3. CASE r.bedroom = "none"
      <3>1. ruleActive' = ruleActive /\ ~BelowMin(r.bedroom) /\ ~reached
        BY <2>1, <2>2, <2>3 DEF WantsHeat
      <3>. QED
        BY <1>1, <1>3, <1>5, <3>1 DEF RulesInv
    <2>4. CASE r.bedroom # "none"
      <3>1. ruleActive' = (BelowMin(r.bedroom) \/ (ruleActive /\ BelowMax(r.bedroom)))
        BY <2>1, <2>4 DEF WantsHeat
      <3>. QED
        BY <1>1, <1>3, <1>5, <2>2, <2>4, <3>1 DEF RulesInv
    <2>. QED
      BY <2>3, <2>4
  <1>6. CASE ~unseen /\ ~InWindow
    <2>1. ruleActive' = FALSE
      BY <1>1, <1>6 DEF StaysActive, InWindow
    <2>. QED
      BY <1>1, <1>3, <1>6, <2>1 DEF RulesInv
  <1>. QED
    BY <1>4, <1>5, <1>6

LEMMA NextRulesInv ==
    IInv /\ RulesInv /\ [NextRules]_allVars => RulesInv' /\ [Next]_vars
  <1> SUFFICES ASSUME IInv, RulesInv, [NextRules]_allVars
               PROVE  RulesInv' /\ [Next]_vars
    OBVIOUS
  <1>1. CASE (AdvanceClock \/ TelegramUpDown \/ Crash \/ Discover) /\ UNCHANGED ruleVars
    BY <1>1 DEF ruleVars, RulesInv, Next
  <1>2. CASE UserRequest /\ UNCHANGED ruleVars
    BY <1>2 DEF ruleVars, RulesInv, Next
  <1>3. CASE RestartRules
    BY <1>3 DEF RestartRules, RulesInv, Next
  <1>4. CASE \E r \in Readings : RuledTick(r)
    <2>1. PICK r \in Readings : RuledTick(r)
      BY <1>4
    <2>2. RulesInv'
      BY <2>1, RuledTickInv
    <2>3. Tick
      BY <2>1, RuledTickIsTick DEF RulesInv
    <2>. QED
      BY <2>2, <2>3 DEF Next
  <1>5. CASE UNCHANGED allVars
    BY <1>5 DEF allVars, ruleVars, RulesInv
  <1>. QED
    BY <1>1, <1>2, <1>3, <1>4, <1>5 DEF NextRules

LEMMA InitRulesInv == InitRules => Init /\ RulesInv
  BY DEF InitRules, RulesInv

THEOREM RulesInvariance == SpecRules => [](IInv /\ RulesInv)
  <1>1. InitRules => IInv /\ RulesInv
    BY InitRulesInv, InitIInv
  <1>2. IInv /\ RulesInv /\ [NextRules]_allVars => (IInv /\ RulesInv)'
    BY NextRulesInv, NextIInv
  <1>. QED
    BY <1>1, <1>2, PTL DEF SpecRules

-----------------------------------------------------------------------------
(* The theorems *)

\* Every behaviour with the configured rules (rules.py) is one that Heating
\* allows, for any window and any temperatures.
THEOREM RulesImplementHeating == SpecRules => ImplementsHeating
  <1>1. InitRules => Init
    BY InitRulesInv
  <1>2. IInv /\ RulesInv /\ [NextRules]_allVars => [Next]_vars
    BY NextRulesInv
  <1>. QED
    BY <1>1, <1>2, RulesInvariance, PTL DEF SpecRules, ImplementsHeating

\* So what is proved with arbitrary rules holds with these: an ALWAYS slot is
\* never off, a NEVER slot never on.
THEOREM RulesRespectPolicy == SpecRules => []PolicyDecides
  <1>1. IInv => PolicyDecides
    BY DEF IInv, PolicyDecides, Decided
  <1>. QED
    BY <1>1, RulesInvariance, PTL

\* A tick leaves a slot for rules on exactly when a sensor gives a reason to, or
\* when the rule missed what should have ended its heating (rules.py, the chain
\* of apply methods).
THEOREM AlwaysHeatedForAReason == SpecRules => HeatedForAReason
  <1> DEFINE Reasoned ==
        \A r \in Readings :
          sched'[active'].allow_on = "Rule" /\ RuledTick(r) =>
             (sched'[active'].request_on <=>
                 \/ /\ InWindow
                    /\ \/ BelowMin(r.bedroom)
                       \/ /\ r.bedroom \in {"none", "mid"}
                          /\ asked' \/ stale'
                 \/ Some(r, "cold") /\ ~Some(r, "hot"))
  <1>1. IInv /\ RulesInv /\ [NextRules]_allVars => [Reasoned]_allVars
    <2> SUFFICES ASSUME IInv, RulesInv, NEW r \in Readings,
                        sched'[active'].allow_on = "Rule", RuledTick(r)
                 PROVE  sched'[active'].request_on <=>
                          \/ /\ InWindow
                             /\ \/ BelowMin(r.bedroom)
                                \/ /\ r.bedroom \in {"none", "mid"}
                                   /\ asked' \/ stale'
                          \/ Some(r, "cold") /\ ~Some(r, "hot")
      OBVIOUS
    <2>1. NewSlot \in Slot
      BY NewSlotType
    <2>2. Apply(NewSlot, r) = SetFromRule(NewSlot, Decision(r), "Rule")
      BY <2>1, ApplyDecision DEF RulesInv
    <2>3. Decision(r) \in BOOLEAN
      BY DEF Decision
    <2>4. sched'[active'] = Apply(NewSlot, r)
      <3>1. TickTo(Apply(NewSlot, r))
        BY DEF RuledTick
      <3>2. sched' = [Advanced(sched) EXCEPT ![clock] = Apply(NewSlot, r)] /\ active' = clock
        BY <3>1 DEF TickTo
      <3>3. clock \in DOMAIN Advanced(sched)
        BY DEF Advanced, ResetPassed, IInv, TypeOK, Day
      <3>. QED
        BY <3>2, <3>3
    <2>5. NewSlot.allow_on = "Rule"
      BY <2>1, <2>2, <2>3, <2>4, SetFromRulePolicy
    <2>6. sched'[active'].request_on <=> Decision(r)
      BY <2>1, <2>2, <2>3, <2>4, <2>5, SetFromRuleState
    <2>7. RulesInv' /\ ruleActive' = StaysActive(NewSlot, r)
      BY RuledTickInv DEF RuledTick
    <2>8. ruleActive' = (clock \in Window /\ WantsHeat(r.bedroom))
      BY <2>5, <2>7 DEF StaysActive
    <2>9. Decision(r) <=> ruleActive' \/ (Some(r, "cold") /\ ~Some(r, "hot"))
      BY <2>8, WantsHeatType DEF Decision, RulesInv
    <2>10. ruleActive' <=> /\ InWindow
                           /\ \/ BelowMin(r.bedroom)
                              \/ /\ r.bedroom \in {"none", "mid"}
                                 /\ asked' \/ stale'
      <3>1. r.bedroom \in Reading
        BY DEF Readings
      <3>2. ruleActive' <=> asked' \/ stale'
        BY <2>7 DEF RulesInv
      <3>3. r.bedroom \in {"warm", "hot"} => ~WantsHeat(r.bedroom)
        BY DEF WantsHeat, BelowMin, BelowMax
      <3>4. BelowMin(r.bedroom) => WantsHeat(r.bedroom)
        BY DEF WantsHeat, BelowMin
      <3>5. BelowMin(r.bedroom) \/ r.bedroom \in {"none", "mid", "warm", "hot"}
        BY <3>1 DEF Reading, BelowMin
      <3>. QED
        BY <2>8, <3>2, <3>3, <3>4, <3>5 DEF InWindow
    <2>. QED
      BY <2>6, <2>9, <2>10
  <1>. QED
    BY <1>1, RulesInvariance, PTL DEF SpecRules, HeatedForAReason

=============================================================================
