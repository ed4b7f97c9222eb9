---------------------------- MODULE ScheduleSlot ----------------------------
(***************************************************************************)
(* One slot of the heating schedule (zmw_heating/schedule.py, class        *)
(* ScheduleSlot): a policy, the state the slot asks of the boiler, and the *)
(* reason shown to the user.  Pure operators, shared by the active         *)
(* schedule and by the template.                                           *)
(***************************************************************************)

AllowOn == {"Always", "Never", "Rule"}

\* Reasons, up to what the code tells apart: the wording of a rule's message
\* is one value.  UserReason marks what a user put in a slot by hand.
UserReason == {"Set by web UI", "User boost", "User requested off"}
Reason     == UserReason \cup {"Default", "Scheduled", "Rule"}

Slot == [allow_on : AllowOn, request_on : BOOLEAN, reason : Reason]

\* What the web interface may send as a policy, and what a saved file holds.
PolicyInput == AllowOn \cup {"on", "off", "bogus"}

\* guess_value: on and off are synonyms, anything unknown is NEVER.
GuessValue(input) ==
    IF input \in AllowOn THEN input
    ELSE IF input = "on" THEN "Always" ELSE "Never"

FreshSlot == [allow_on |-> "Never", request_on |-> FALSE, reason |-> "Default"]

\* set_policy: RULE keeps whatever the slot was requesting.
SetPolicy(slot, input, reason) ==
    LET allow_on == GuessValue(input)
    IN  [allow_on   |-> allow_on,
         request_on |-> \/ allow_on = "Always"
                        \/ (allow_on = "Rule" /\ slot.request_on),
         reason     |-> reason]

SetFromRuleIgnoringPolicy(slot, request_on, reason) ==
    [slot EXCEPT !.request_on = request_on, !.reason = reason]

\* set_from_rule: rules have no say over a slot that is ALWAYS or NEVER.
SetFromRule(slot, request_on, reason) ==
    IF slot.allow_on # "Rule"
    THEN slot
    ELSE [slot EXCEPT !.request_on = request_on, !.reason = reason]

\* toggle: leaves the slot unconditionally on or off.
Toggle(slot, reason) ==
    IF slot.allow_on = "Always" \/ (slot.allow_on = "Rule" /\ slot.request_on)
    THEN SetPolicy(slot, "Never", reason)
    ELSE SetPolicy(slot, "Always", reason)

=============================================================================
