------------------------------ MODULE Telegram ------------------------------
(***************************************************************************)
(* The Telegram bridge (zmw_telegram.py) and the bot it is built on        *)
(* (PyTelegramBot).  Three threads use the bot: the scheduler polls for    *)
(* what users sent, the MQTT thread sends messages, and a timer flushes    *)
(* the commands that services registered.  Each of them first connects,    *)
(* and may be the one that builds the bot or tells Telegram the commands.  *)
(* A step of a thread ends where it waits for an answer from Telegram.     *)
(***************************************************************************)
EXTENDS Integers, Sequences

CONSTANTS
    Cmd,          \* the commands that exist
    OwnCmds,      \* known from the start: ping
    LateCmds,     \* what TelBot.__init__ leaves to the first flush: stfu
    MaxRequests,  \* bound: registrations and messages of services
    MaxUpdates,   \* bound: commands that users send
    MaxRestarts,  \* bound: restarts of the process
    MaxOutages    \* bound: changes of the network that are not for the better

ASSUME CmdsAssumption ==
    /\ OwnCmds \subseteq Cmd /\ LateCmds \subseteq Cmd
    /\ MaxUpdates \in Nat

Threads == {"poll", "flush", "mqtt"}

\* Each thread can have seen that there is no bot yet.
Bots == 1 .. 3

VARIABLES
    net,      \* what a request meets: an answer, nothing, or 429
    bot,      \* TelegramLongpollBot._t: the last of the bots built; 0 is None
    known,    \* _known_commands of each of them
    offset,   \* _updates_offset of each of them; None and 0 ask the same
    conn,     \* _cmds_set and _meta_set
    commands, \* TelegramLongpollBot._commands
    pending,  \* _pending_cmds, and whether it holds a command twice
    thread,   \* where each thread waits, for which bot, with which commands
    sent,     \* what users sent, in order: an update's id is its place
    confirmed,\* how many of them Telegram has forgotten
    runs,     \* history: how often each update was run
    due,      \* history: updates sent when the bot knew their command
    asked,    \* history: commands registered with this process
    lost,     \* history: those of a batch that could not be registered
    count     \* bounds: requests, restarts, outages; and bots built in excess

vars == <<net, bot, known, offset, conn, commands, pending, thread, sent,
          confirmed, runs, due, asked, lost, count>>

users  == <<sent, confirmed, runs, due>>
tables == <<commands, pending, asked, lost>>

-----------------------------------------------------------------------------

Idle == [at |-> "idle", bot |-> 0, batch |-> {}]

Thread == [at    : {"idle", "getMe", "setCommands", "setMeta", "work"},
           bot   : {0} \cup Bots,
           batch : SUBSET Cmd]

\* A new process: TelBot.__init__ has started the flush timer.
NewTables  == [b \in Bots |-> {}]
NewOffsets == [b \in Bots |-> 0]
NewFlags   == [cmds |-> FALSE, meta |-> FALSE]
NewPending == [cmds |-> LateCmds, twice |-> FALSE]
NewThreads == [t \in Threads |-> Idle]

Init ==
    /\ bot = 0
    /\ known = NewTables
    /\ offset = NewOffsets
    /\ conn = NewFlags
    /\ commands = OwnCmds
    /\ pending = NewPending
    /\ thread = NewThreads
    /\ asked = OwnCmds \cup LateCmds
    /\ lost = {}
    /\ due = {}
    /\ net = "up"
    /\ sent = <<>>
    /\ confirmed = 0
    /\ runs = [i \in 1 .. MaxUpdates |-> 0]
    /\ count = [requests |-> 0, restarts |-> 0, outages |-> 0, extra |-> 0]

-----------------------------------------------------------------------------
(* Connecting: each operator is what a thread does after an answer, up to its *)
(* next request                                                            *)

Goto(t, at, b, batch) ==
    thread' = [thread EXCEPT ![t] = [at |-> at, bot |-> b, batch |-> batch]]

\* An exception, or the end of the call, ends what the thread was doing: the job
\* runs again later, the MQTT callback and the timer do not.
End(t) == thread' = [thread EXCEPT ![t] = Idle]

\* What the thread connected for.  TelegramBot.add_commands extends its table
\* before it tells Telegram.  Nothing depends on what Telegram answers to that, or
\* to a message.
ServeUntold(t, b, batch) ==
    /\ IF t = "poll" THEN Goto(t, "work", b, {}) ELSE End(t)
    /\ UNCHANGED known

Serve(t, b, batch) ==
    /\ known' = [known EXCEPT ![b] = @ \cup batch]
    /\ IF t = "poll" THEN Goto(t, "work", b, {}) ELSE End(t)

\* _set_meta, tried only once.
SetMeta(t, b, batch, flags) ==
    /\ conn' = [flags EXCEPT !.meta = TRUE]
    /\ IF flags.meta
       THEN Serve(t, b, batch)
       ELSE Goto(t, "setMeta", b, batch) /\ UNCHANGED known

\* _set_cmds.  Without a bot it is None.set_commands, which raises; with one,
\* set_commands replaces its table before it tells Telegram.
SetCmds(t, b, batch, cmds) ==
    IF conn.cmds THEN SetMeta(t, b, batch, conn)
    ELSE IF b = 0 THEN End(t) /\ UNCHANGED <<conn, known>>
    ELSE /\ known' = [known EXCEPT ![b] = cmds]
         /\ Goto(t, "setCommands", b, batch)
         /\ UNCHANGED conn

\* connect, which starts with _build_base_bot.
Connect(t, batch, cmds) ==
    IF bot = 0
    THEN Goto(t, "getMe", 0, batch) /\ UNCHANGED <<conn, known>>
    ELSE SetCmds(t, bot, batch, cmds)

-----------------------------------------------------------------------------
(* The answers *)

\* getMe: the bot that was built replaces any that another thread built.
GetMe(t) ==
    /\ thread[t].at = "getMe"
    /\ IF net = "up"
       THEN /\ bot' = bot + 1
            /\ count' = [count EXCEPT !.extra = @ + (IF bot > 0 THEN 1 ELSE 0)]
            /\ due' = IF bot > 0 THEN {} ELSE due
       ELSE UNCHANGED <<bot, count, due>>
    /\ SetCmds(t, bot', thread[t].batch, commands)
    /\ UNCHANGED <<net, offset, tables, sent, confirmed, runs>>

CommandsSet(t) ==
    /\ thread[t].at = "setCommands"
    /\ IF net = "down"
       THEN End(t) /\ UNCHANGED <<conn, known>>
       ELSE SetMeta(t, bot, thread[t].batch, [conn EXCEPT !.cmds = @ \/ net = "up"])
    /\ UNCHANGED <<net, bot, offset, tables, users, count>>

MetaSet(t) ==
    /\ thread[t].at = "setMeta"
    /\ IF net = "down"
       THEN End(t) /\ UNCHANGED known
       ELSE Serve(t, bot, thread[t].batch)
    /\ UNCHANGED <<net, bot, offset, conn, tables, users, count>>

-----------------------------------------------------------------------------
(* Polling *)

\* The scheduler runs one instance of the job at a time.
Poll ==
    /\ thread["poll"].at = "idle"
    /\ Connect("poll", {}, commands)
    /\ UNCHANGED <<net, bot, offset, tables, users, count>>

\* getUpdates(offset) makes Telegram forget what comes before the offset.
Forgotten(b) == IF offset[b] > confirmed THEN offset[b] - 1 ELSE confirmed

SameOffset(ids) == IF ids = {} THEN 0 ELSE Len(sent)

AheadOffset(ids) == Len(sent) + (IF ids = {} THEN 2 ELSE 1)

NextOffset(ids) == IF ids = {} THEN 0 ELSE Len(sent) + 1

\* _telegram_sanitize_user_message: of what users sent, the commands the bot knows.
Understood(b, ids) == {i \in ids : sent[i] \in known[b]}

\* poll_updates runs the commands it knows, drops the rest, and remembers the
\* offset that will confirm them.  What the bot does not know is lost.
Updates ==
    LET b   == thread["poll"].bot
        ids == Forgotten(b) + 1 .. Len(sent)
        run == Understood(b, ids)
    IN  /\ thread["poll"].at = "work"
        /\ net = "up"
        /\ confirmed' = Forgotten(b)
        /\ runs' = [i \in DOMAIN runs |-> IF i \in run THEN runs[i] + 1 ELSE runs[i]]
        /\ offset' = [offset EXCEPT ![b] = NextOffset(ids)]
        /\ End("poll")
        /\ UNCHANGED <<net, bot, known, conn, tables, sent, due, count>>

\* Offline the question may have arrived or not; the answer does not.
PollFails ==
    /\ thread["poll"].at = "work"
    /\ net # "up"
    /\ \/ UNCHANGED confirmed
       \/ net = "down" /\ confirmed' = Forgotten(thread["poll"].bot)
    /\ End("poll")
    /\ UNCHANGED <<net, bot, known, offset, conn, tables, sent, runs, due, count>>

-----------------------------------------------------------------------------
(* Services *)

Request ==
    /\ count.requests < MaxRequests
    /\ count' = [count EXCEPT !.requests = @ + 1]

\* register_command: commands wait for the flush, whose timer starts again.
Register(c) ==
    /\ Request
    /\ pending' = [cmds  |-> pending.cmds \cup {c},
                   twice |-> pending.twice \/ c \in pending.cmds]
    /\ asked' = asked \cup {c}
    /\ UNCHANGED <<net, bot, known, offset, conn, commands, lost, thread, users>>

\* send_text and send_photo.
Send ==
    /\ Request
    /\ thread["mqtt"].at = "idle"
    /\ Connect("mqtt", {}, commands)
    /\ UNCHANGED <<net, bot, offset, tables, users>>

\* _validate_telegram_cmds raises for a command that is in the batch twice.
Invalid == pending.twice

\* _flush_pending_commands takes the batch; if the validation raises, all of it is
\* lost.
Flush ==
    /\ pending.cmds # {}
    /\ thread["flush"].at = "idle"
    /\ pending' = [cmds |-> {}, twice |-> FALSE]
    /\ IF Invalid
       THEN /\ lost' = lost \cup pending.cmds
            /\ UNCHANGED <<commands, known, conn, thread>>
       ELSE /\ lost' = lost \ pending.cmds
            /\ commands' = commands \cup pending.cmds
            /\ Connect("flush", pending.cmds, commands')
    /\ UNCHANGED <<net, bot, offset, asked, users, count>>

-----------------------------------------------------------------------------
(* The environment *)

UserSends(c) ==
    /\ Len(sent) < MaxUpdates
    /\ sent' = Append(sent, c)
    /\ due' = IF bot # 0 /\ c \in known[bot] THEN due \cup {Len(sent')} ELSE due
    /\ UNCHANGED <<net, bot, known, offset, conn, tables, thread, confirmed,
                   runs, count>>

NetChanges(to) ==
    /\ net # to
    /\ net' = to
    /\ IF to = "up" THEN UNCHANGED count
       ELSE /\ count.outages < MaxOutages
            /\ count' = [count EXCEPT !.outages = @ + 1]
    /\ UNCHANGED <<bot, known, offset, conn, tables, thread, users>>

\* Telegram keeps what was not confirmed; everything else starts again.
Restart ==
    /\ count.restarts < MaxRestarts
    /\ count' = [count EXCEPT !.restarts = @ + 1]
    /\ bot' = 0
    /\ known' = NewTables
    /\ offset' = NewOffsets
    /\ conn' = NewFlags
    /\ commands' = OwnCmds
    /\ pending' = NewPending
    /\ thread' = NewThreads
    /\ asked' = OwnCmds \cup LateCmds
    /\ lost' = {}
    /\ due' = {}
    /\ UNCHANGED <<net, sent, confirmed, runs>>

-----------------------------------------------------------------------------

ThreadStep(t) == GetMe(t) \/ CommandsSet(t) \/ MetaSet(t)

Polling == Poll \/ Updates \/ PollFails

Next ==
    \/ \E t \in Threads : ThreadStep(t)
    \/ Polling
    \/ Flush
    \/ Send
    \/ Restart
    \/ \E c \in Cmd : Register(c) \/ UserSends(c)
    \/ \E to \in {"up", "down", "limited"} : NetChanges(to)

\* Requests come back, the scheduler polls again, timers fire.  Users, services
\* and the network owe nothing.
Fairness ==
    /\ \A t \in Threads : WF_vars(ThreadStep(t))
    /\ WF_vars(Polling)
    /\ WF_vars(Flush)

Spec == Init /\ [][Next]_vars /\ Fairness

-----------------------------------------------------------------------------
(* Properties *)

\* The state; Telegram is never made to forget an update it has not got yet.
TypeOK ==
    /\ net \in {"up", "down", "limited"}
    /\ bot \in {0} \cup Bots
    /\ known \in [Bots -> SUBSET Cmd]
    /\ offset \in [Bots -> 0 .. MaxUpdates + 1]
    /\ conn \in [cmds : BOOLEAN, meta : BOOLEAN]
    /\ commands \subseteq Cmd
    /\ pending \in [cmds : SUBSET Cmd, twice : BOOLEAN]
    /\ thread \in [Threads -> Thread]
    /\ sent \in Seq(Cmd) /\ Len(sent) <= MaxUpdates
    /\ confirmed \in 0 .. Len(sent)
    /\ due \subseteq 1 .. Len(sent)
    /\ asked \subseteq Cmd /\ lost \subseteq Cmd

\* An update is run again only after a restart, or when a second bot was built,
\* which starts from the first update that is not confirmed.
RunOnce ==
    \A i \in DOMAIN runs : runs[i] <= 1 + count.restarts + count.extra

\* Once the network stays up, every command a service registered is one the bot
\* serves, whatever failed while it was registered: unless its batch could not be
\* validated, or a second bot was built, which nobody tells the commands.
CommandsAreServed ==
    <>[](net = "up") =>
        \A c \in Cmd :
            <>[](c \in asked \ lost => bot # 0 /\ (c \in known[bot] \/ bot > 1))

\* And what a user sent when the bot knew the command is run, unless the process
\* restarts or the bot is replaced first.
DueIsRun ==
    <>[](net = "up") =>
        \A i \in 1 .. MaxUpdates : (i \in due) ~> (i \notin due \/ runs[i] > 0)

=============================================================================
