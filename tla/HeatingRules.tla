---------------------------- MODULE HeatingRules ----------------------------
(***************************************************************************)
(* The heating service with the rules of its configuration template        *)
(* (rules.py): DefaultOff, then CheckTempsWithinRange over a sensor in the *)
(* kitchen and one in a bedroom, then ScheduledMinTargetTemp on the        *)
(* bedroom for part of the day.  Module Heating lets the rules do anything *)
(* to the slot in force; here they do what the code does.                  *)
(***************************************************************************)
EXTENDS Heating

CONSTANT Window  \* the slots between start_time and end_time of the schedule

ASSUME WindowAssumption == Window \subseteq Slots

VARIABLES
    ruleActive,  \* ScheduledMinTargetTemp._is_active
    asked,       \* history: the bedroom fell below its target in this window,
                 \* and has not been seen at it since
    stale,       \* history: the window ended, or the target was reached, in a
                 \* slot the rule does not look at
    warm         \* history: at the last tick no sensor was too cold or silent

ruleVars == <<ruleActive, asked, stale, warm>>

-----------------------------------------------------------------------------
(* Readings *)

\* safe_read_sensor turns a sensor that is missing, or says something that is no
\* number or no sensible temperature, into None.  Cold is below min_temp, low
\* below target_min_temp, mid below target_max_temp, hot above max_temp; the
\* configuration template keeps these four in this order.
Reading == {"none", "cold", "low", "mid", "warm", "hot"}

Readings == [kitchen : {"none", "cold", "hot"}, bedroom : Reading]

Some(r, temp) == r.kitchen = temp \/ r.bedroom = temp

\* temp < target_min_temp
BelowMin(temp) == temp \in {"cold", "low"}

\* temp < target_max_temp
BelowMax(temp) == temp \in {"cold", "low", "mid"}

-----------------------------------------------------------------------------
(* The rules: each takes the slot in force and returns what it becomes *)

\* DefaultOff.apply
DefaultOff(slot) == SetFromRule(slot, FALSE, "Rule")

\* CheckTempsWithinRange.apply: sensors that disagree cancel each other out.
CheckTempsWithinRange(slot, r) ==
    IF Some(r, "hot") = Some(r, "cold") THEN slot
    ELSE SetFromRule(slot, Some(r, "cold"), "Rule")

WantsHeatAgain(temp) == BelowMax(temp)

AlwaysScheduled(slot, r) ==
    IF clock \in Window /\ BelowMin(r.bedroom)
    THEN SetFromRuleIgnoringPolicy(slot, TRUE, "Rule")
    ELSE slot

\* ScheduledMinTargetTemp.apply: the heating starts below the minimum and goes
\* on until the maximum; a sensor gone silent meanwhile keeps it on.
WantsHeat(temp) ==
    IF temp = "none" THEN ruleActive
    ELSE BelowMin(temp) \/ (ruleActive /\ BelowMax(temp))

ScheduledMinTargetTemp(slot, r) ==
    IF clock \in Window /\ WantsHeat(r.bedroom)
    THEN SetFromRule(slot, TRUE, "Rule")
    ELSE slot

\* The rule looks at nothing, its own state included, in a slot that is not for
\* rules.
StaysActive(slot, r) ==
    IF slot.allow_on # "Rule" THEN ruleActive
    ELSE clock \in Window /\ WantsHeat(r.bedroom)

\* ScheduleBuilder.tick applies the rules in the order of the configuration.
Apply(slot, r) ==
    ScheduledMinTargetTemp(CheckTempsWithinRange(DefaultOff(slot), r), r)

-----------------------------------------------------------------------------

NewSlot == Advanced(sched)[clock]

InWindow == clock \in Window

\* A tick with readings r.  Everything but the rule's state is TickTo's.
RuledTick(r) ==
    LET reached == r.bedroom # "none" /\ ~BelowMax(r.bedroom)
        unseen  == NewSlot.allow_on # "Rule"
    IN  /\ TickTo(Apply(NewSlot, r))
        /\ ruleActive' = StaysActive(NewSlot, r)
        /\ asked' = (/\ InWindow /\ ~reached
                     /\ asked \/ (~unseen /\ BelowMin(r.bedroom)))
        /\ stale' = (/\ ruleActive'
                     /\ stale \/ (unseen /\ (~InWindow \/ reached)))
        /\ warm' = (reached /\ r.kitchen # "cold")

\* A new process has new rules.
RestartRules ==
    /\ Restart
    /\ ruleActive' = FALSE
    /\ asked' = FALSE
    /\ stale' = FALSE
    /\ UNCHANGED warm

InitRules ==
    /\ Init
    /\ ruleActive = FALSE
    /\ asked = FALSE
    /\ stale = FALSE
    /\ warm = FALSE

NextRules ==
    \/ (AdvanceClock \/ TelegramUpDown \/ Crash \/ Discover) /\ UNCHANGED ruleVars
    \/ UserRequest /\ UNCHANGED ruleVars
    \/ RestartRules
    \/ \E r \in Readings : RuledTick(r)

allVars == <<vars, ruleVars>>

\* The fairness of Heating; temperatures owe nothing.
SpecRules ==
    /\ InitRules
    /\ [][NextRules]_allVars
    /\ WF_allVars(AdvanceClock /\ UNCHANGED ruleVars)
    /\ WF_allVars(RestartRules)
    /\ WF_allVars(Discover /\ UNCHANGED ruleVars)
    /\ WF_allVars(\E r \in Readings : RuledTick(r))

-----------------------------------------------------------------------------
(* Properties *)

\* What is proved of Heating, where the rules are arbitrary, holds with these
\* rules: every step is one of Heating's, and no rule touches a slot whose policy
\* is not RULE.
ImplementsHeating == Init /\ [][Next]_vars

\* A tick leaves a slot for rules on exactly when there is a reason: in the
\* window, the bedroom is below its target, or it asked for heat and has not
\* been seen at its maximum since; otherwise, a sensor is too cold and none is
\* too hot.  Where this needs "stale", the rule works with a state it should have
\* given up: it looks at neither the clock nor the sensor in other slots.
HeatedForAReason ==
    [][\A r \in Readings :
          sched'[active'].allow_on = "Rule" /\ RuledTick(r) =>
             (sched'[active'].request_on <=>
                 \/ /\ InWindow
                    /\ \/ BelowMin(r.bedroom)
                       \/ /\ r.bedroom \in {"none", "mid"}
                          /\ asked' \/ stale'
                 \/ Some(r, "cold") /\ ~Some(r, "hot"))]_allVars

\* No override outlives its day.  The boiler ends up off and stays off when the
\* template is all off, whatever the sensors say, and also when the template has
\* no slot that is always on and the house is warm; the service has to stay up,
\* and its notifications to stop failing.
EndsOff ==
    <>[](/\ running /\ known /\ ~out.raised
         /\ \/ \A s \in Slots : template[s].allow_on = "Never"
            \/ warm /\ \A s \in Slots : template[s].allow_on # "Always")
        => <>[](out.boiler = "off")

=============================================================================
