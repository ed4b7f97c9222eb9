------------------------------- MODULE Heating -------------------------------
(***************************************************************************)
(* The heating service: the active schedule and its template               *)
(* (schedule.py, schedule_builder.py) and the service that drives the      *)
(* boiler relay with them (zmw_heating.py).  Every web request, scheduler  *)
(* job and MQTT callback is one action; requests that overlap inside the   *)
(* process are not modelled here.                                          *)
(*                                                                         *)
(* The environment moves the wall clock, crashes and restarts the process, *)
(* and takes the ZmwTelegram service up and down.                          *)
(***************************************************************************)
EXTENDS Integers, ScheduleSlot

CONSTANTS
    NumSlots,        \* slots in a day; 96 in the code
    BoostLengths,    \* lengths of a boost, in slots; 4 * (0..12) in the code
    OffNowMaxSlots,  \* OFF_NOW_MAX_SLOTS; 20 in the code
    MaxLag,          \* bound: slots the clock may gain on the scheduler
    MaxRequests,     \* bound: user requests in a behaviour
    MaxCrashes       \* bound: crashes in a behaviour

ASSUME ConstantsAssumption ==
    /\ NumSlots \in Nat \ {0}
    /\ BoostLengths \subseteq Nat
    /\ OffNowMaxSlots \in Nat
    /\ MaxLag \in 0 .. NumSlots - 1
    /\ MaxRequests \in Nat
    /\ MaxCrashes \in Nat

Slots == 0 .. NumSlots - 1

VARIABLES
    clock,       \* the slot the wall clock is in
    sched,       \* Schedule._sched of the active schedule
    active,      \* Schedule._active_slot_idx
    template,    \* the slots of ScheduleBuilder._template
    out,         \* the output side: what was applied, and the relay itself
    known,       \* ZmwHeating._boiler is not None
    running,     \* the process is up
    disk,        \* schedule_persist_file
    telegramUp,  \* message_svc("ZmwTelegram") would not raise
    expired,     \* history: user overrides whose slot has passed
    requests,    \* bound: user requests so far
    crashes      \* bound: crashes so far

vars == <<clock, sched, active, template, out, known, running, disk,
          telegramUp, expired, requests, crashes>>

-----------------------------------------------------------------------------
(* Types *)

OnOff(b) == IF b THEN "on" ELSE "off"

\* applied is _applied_slot; curr is _curr_val, None until the first set;
\* boiler is the relay; raised says the last state-change callback failed.
Output == [applied : Slot, curr : {"unset", "on", "off"},
           boiler : {"on", "off"}, raised : BOOLEAN]

Day == [Slots -> Slot]

\* A write cut short by a crash leaves a file that is not valid.
Disk == [valid : BOOLEAN, active : Day, template : Day]

FreshDay == [s \in Slots |-> FreshSlot]

\* The slot `n` slots after the active one is at distance n of it.
Distance(from, to) == (to - from) % NumSlots

Lag == Distance(active, clock)

-----------------------------------------------------------------------------
(* Telling the boiler *)

\* _on_boiler_state_should_change sends a Telegram message when the boiler
\* turns on or off, except the first time; message_svc raises without Telegram.
NotifyFails(o, slot) ==
    /\ known
    /\ slot # o.applied
    /\ slot.request_on # o.applied.request_on
    /\ o.curr # "unset"
    /\ ~telegramUp

\* _on_state_may_change: the callback sets the relay, then tells Telegram; only
\* when it returns is the slot remembered as applied.
Notify(o, slot) ==
    IF slot = o.applied
    THEN o
    ELSE IF ~known
    THEN [o EXCEPT !.applied = slot]
    ELSE [applied |-> IF NotifyFails(o, slot) THEN o.applied ELSE slot,
          curr    |-> OnOff(slot.request_on),
          boiler  |-> OnOff(slot.request_on),
          raised  |-> NotifyFails(o, slot)]

\* save_state
Saved(day, tmpl) == [valid |-> TRUE, active |-> day, template |-> tmpl]

-----------------------------------------------------------------------------
(* Initial state: the first start of the service, with no file to read *)

ResetDay(input) ==
    [s \in Slots |-> SetPolicy(FreshSlot, input, "Scheduled")]

Init ==
    /\ clock \in Slots
    /\ sched = FreshDay
    /\ active = clock
    /\ template = ResetDay("Never")
    /\ out = [applied |-> FreshSlot, curr |-> "unset",
              boiler |-> "off", raised |-> FALSE]
    /\ known = FALSE
    /\ running = TRUE
    /\ disk = Saved(FreshDay, ResetDay("Never"))
    /\ telegramUp = TRUE
    /\ expired = {}
    /\ requests = 0
    /\ crashes = 0

-----------------------------------------------------------------------------
(* The environment *)

\* An expired override goes when something else is written in its slot.
StillThere(slots, day) == {s \in slots : day[s] = sched[s]}

\* The clock enters the next slot.  An override the user put in the slot it
\* leaves has had its time.
AdvanceClock ==
    /\ running => Lag < MaxLag
    /\ clock' = (clock + 1) % NumSlots
    /\ expired' = IF running /\ sched[clock].reason \in UserReason
                  THEN expired \cup {clock} ELSE expired
    /\ UNCHANGED <<sched, active, template, out, known, running, disk,
                   telegramUp, requests, crashes>>

TelegramUpDown ==
    /\ telegramUp' = ~telegramUp
    /\ UNCHANGED <<clock, sched, active, template, out, known, running, disk,
                   expired, requests, crashes>>

\* The relay keeps its state.  A crash inside save_state leaves the file,
\* which is opened for truncation, empty or cut short.  The service ends itself
\* the same way when the network no longer has the boiler.
Crash ==
    /\ running
    /\ crashes < MaxCrashes
    /\ crashes' = crashes + 1
    /\ running' = FALSE
    /\ known' = FALSE
    /\ expired' = {}
    /\ \/ disk' = disk
       \/ disk' = [valid |-> FALSE, active |-> FreshDay, template |-> FreshDay]
    /\ UNCHANGED <<clock, sched, active, template, out, telegramUp, requests>>

DiscoverOnly ==
    /\ running
    /\ ~known
    /\ known' = TRUE
    /\ UNCHANGED <<clock, sched, active, template, out, running, disk, telegramUp,
                   expired, requests, crashes>>

\* The network announces the boiler, and _on_boiler_discovered runs: it applies
\* the pending state, which is the live active slot.
Discover ==
    /\ running
    /\ ~known
    /\ known' = TRUE
    /\ out' = [out EXCEPT !.curr = OnOff(sched[active].request_on),
                          !.boiler = OnOff(sched[active].request_on)]
    /\ UNCHANGED <<clock, sched, active, template, running, disk, telegramUp,
                   expired, requests, crashes>>

\* from_json puts each slot back with set_slot, on a new schedule: policy and
\* reason come back, the requested state does not.
Restored(slot) == SetPolicy(FreshSlot, slot.allow_on, slot.reason)

\* systemd starts the process again; a file that does not parse is ignored.
Restart ==
    /\ ~running
    /\ running' = TRUE
    /\ active' = clock
    /\ sched' = IF disk.valid
                THEN [s \in Slots |-> Restored(disk.active[s])] ELSE FreshDay
    /\ template' = IF disk.valid
                   THEN [s \in Slots |-> Restored(disk.template[s])] ELSE FreshDay
    /\ out' = [applied |-> sched'[active'], curr |-> "unset",
               boiler |-> out.boiler, raised |-> FALSE]
    /\ UNCHANGED <<clock, known, disk, telegramUp, expired, requests, crashes>>

-----------------------------------------------------------------------------
(* The scheduler job *)

ResetNothing(day) == day

\* Schedule.tick: every slot from the active one up to now is reset.
ResetPassed(day) ==
    [s \in Slots |-> IF Distance(active, s) < Lag THEN FreshSlot ELSE day[s]]

LastSlot == (clock + NumSlots - 1) % NumSlots

\* ScheduleBuilder.tick copies the template to the last slot only.
Advanced(day) ==
    IF Lag = 0 THEN day
    ELSE [ResetPassed(day) EXCEPT
            ![LastSlot] = SetPolicy(@, template[LastSlot].allow_on,
                                    template[LastSlot].reason)]

\* The rules may leave the slot alone or ask for on or off.
RuleResults(slot) ==
    {slot} \cup {SetFromRule(slot, on, "Rule") : on \in BOOLEAN}

\* ZmwHeating._tick, every few minutes once the boiler is known.  State changes
\* are held back until the rules have run; a callback that fails skips the save.
TickTo(slot) ==
    /\ running
    /\ known
    /\ active' = clock
    /\ sched' = [Advanced(sched) EXCEPT ![clock] = slot]
    /\ out' = Notify(out, slot)
    /\ disk' = IF NotifyFails(out, slot) THEN disk ELSE Saved(sched', template)
    /\ expired' = StillThere(expired, sched')
    /\ UNCHANGED <<clock, template, known, running, telegramUp, requests, crashes>>

Tick == \E slot \in RuleResults(Advanced(sched)[clock]) : TickTo(slot)

-----------------------------------------------------------------------------
(* User requests *)

Request ==
    /\ running
    /\ requests < MaxRequests
    /\ requests' = requests + 1

\* A request that rewrites slots and then reports the active one.
Rewrite(day) ==
    /\ sched' = day
    /\ out' = Notify(out, day[active])
    /\ expired' = StillThere(expired, day)
    /\ UNCHANGED <<clock, active, template, known, running, disk, telegramUp, crashes>>

\* /slot_toggle
ToggleSlot(s) ==
    /\ Request
    /\ Rewrite([sched EXCEPT ![s] = Toggle(@, "Set by web UI")])

\* /boost, and the Telegram command: slots already ALWAYS keep their reason.
Boost(n) ==
    /\ Request
    /\ Rewrite([s \in Slots |->
                  IF Distance(active, s) < n /\ sched[s].allow_on # "Always"
                  THEN SetPolicy(sched[s], "Always", "User boost") ELSE sched[s]])

\* /off_now: up to the first slot that is NEVER, or OFF_NOW_MAX_SLOTS.
OffNow ==
    /\ Request
    /\ Rewrite([s \in Slots |->
                  IF /\ Distance(active, s) < OffNowMaxSlots
                     /\ \A t \in Slots :
                           Distance(active, t) <= Distance(active, s)
                             => sched[t].allow_on # "Never"
                  THEN SetPolicy(sched[s], "Never", "User requested off")
                  ELSE sched[s]])

SetTemplateUnsaved(day) ==
    /\ Request
    /\ template' = day
    /\ UNCHANGED <<clock, sched, active, out, known, running, disk, telegramUp,
                   expired, crashes>>

SetTemplate(day) ==
    /\ Request
    /\ template' = day
    /\ disk' = Saved(sched, day)
    /\ UNCHANGED <<clock, sched, active, out, known, running, telegramUp,
                   expired, crashes>>

\* /template_slot_set
SetTemplateSlot(s, input) ==
    SetTemplate([template EXCEPT ![s] = SetPolicy(FreshSlot, input, "Scheduled")])

\* /template_reset
ResetTemplate(input) == SetTemplate(ResetDay(input))

\* apply_template_to_today sets the slots in order and reports after each one:
\* first the old active slot, if slots come before it, then the new one.  A
\* report that fails ends the loop, with neither the later slots nor the save.
ApplyTemplate ==
    LET New(s)   == SetPolicy(sched[s], template[s].allow_on, template[s].reason)
        before   == IF active = 0 THEN out ELSE Notify(out, sched[active])
        failedAt == IF active # 0 /\ NotifyFails(out, sched[active]) THEN 0
                    ELSE IF NotifyFails(before, New(active)) THEN active
                    ELSE NumSlots
    IN  /\ Request
        /\ sched' = [s \in Slots |-> IF s <= failedAt THEN New(s) ELSE sched[s]]
        /\ out' = IF failedAt < active THEN before ELSE Notify(before, New(active))
        /\ disk' = IF failedAt = NumSlots THEN Saved(sched', template) ELSE disk
        /\ expired' = StillThere(expired, sched')
        /\ UNCHANGED <<clock, active, template, known, running, telegramUp, crashes>>

-----------------------------------------------------------------------------

UserRequest ==
    \/ \E s \in Slots : ToggleSlot(s)
    \/ \E n \in BoostLengths : Boost(n)
    \/ OffNow
    \/ \E s \in Slots, input \in PolicyInput : SetTemplateSlot(s, input)
    \/ \E input \in PolicyInput : ResetTemplate(input)
    \/ ApplyTemplate

Next ==
    \/ AdvanceClock
    \/ TelegramUpDown
    \/ Crash
    \/ Restart
    \/ Discover
    \/ Tick
    \/ UserRequest

\* Time passes, systemd restarts the service, the network announces the boiler,
\* and the scheduler runs its jobs.  Users and Telegram owe nothing.
Fairness ==
    /\ WF_vars(AdvanceClock)
    /\ WF_vars(Restart)
    /\ WF_vars(Discover)
    /\ WF_vars(Tick)

Spec == Init /\ [][Next]_vars /\ Fairness

-----------------------------------------------------------------------------
(* Properties *)

\* The state; every slot, in memory, in the template and on disk, is one of Day.
TypeOK ==
    /\ clock \in Slots
    /\ sched \in Day
    /\ active \in Slots
    /\ template \in Day
    /\ out \in Output
    /\ known \in BOOLEAN
    /\ running \in BOOLEAN
    /\ disk \in Disk
    /\ telegramUp \in BOOLEAN
    /\ expired \in SUBSET Slots
    /\ requests \in 0 .. MaxRequests
    /\ crashes \in 0 .. MaxCrashes

\* README "Always on/off will always turn the boiler on/off": no rule, toggle,
\* boost, template or restart leaves an ALWAYS slot off or a NEVER slot on.
PolicyDecides ==
    \A s \in Slots : /\ sched[s].allow_on = "Always" => sched[s].request_on
                     /\ sched[s].allow_on = "Never"  => ~sched[s].request_on

\* Between handlers the relay is in the state the active slot requests, through
\* restarts and boiler discovery, unless the last notification failed.
BoilerFollowsSchedule ==
    running /\ known /\ ~out.raised =>
        out.boiler = OnOff(sched[active].request_on)

\* An override the user put in a slot ends with the slot: when the schedule has
\* caught up with the clock, however many slots it skipped, the slot in force is
\* not one whose override has already had its time.  (Within one run of the
\* process: the slots a restart reads back from disk carry no date.)
NoExpiredOverride ==
    running /\ active = clock => active \notin expired

\* Durability of the template: whatever was acknowledged is what a restart would
\* read, as long as no write was cut short.
TemplateOnDisk ==
    running /\ disk.valid =>
        \A s \in Slots : Restored(disk.template[s]) = template[s]

\* README "Always on/off will always turn the boiler on/off at the specified time",
\* and Telegram is used "if the service is running".
AlwaysOnOffAtItsTime ==
    running /\ known /\ active = clock /\ sched[active].allow_on # "Rule" =>
        out.boiler = OnOff(sched[active].allow_on = "Always")

=============================================================================
