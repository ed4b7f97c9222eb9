---------------------------- MODULE Messages_proofs ----------------------------
(***************************************************************************)
(* What is proved of two modules that messages drive: Telegram, for any    *)
(* commands, any number of requests, updates, outages and restarts; and in *)
(* the second part Doorman, for any set of lights, any number of timers    *)
(* and any sequence of messages, midnights and crashes.                    *)
(***************************************************************************)
EXTENDS Telegram, Doorman, SequenceTheorems, TLAPS

-----------------------------------------------------------------------------
(* The bots: the inductive invariant *)

\* How often an update may have been run.
Allowed == 1 + count.restarts + count.extra

Flags == [cmds : BOOLEAN, meta : BOOLEAN]

Known == [Bots -> SUBSET Cmd]

\* The parts of TypeOK, with the types of history and bounds: what threads and bots
\* have, what users and Telegram have, and the tables of commands.
BotTypeOK ==
    /\ bot \in {0} \cup Bots
    /\ known \in Known
    /\ conn \in Flags
    /\ thread \in [Threads -> Thread]

UserTypeOK ==
    /\ sent \in Seq(Cmd) /\ Len(sent) <= MaxUpdates
    /\ confirmed \in 0 .. Len(sent)
    /\ due \subseteq 1 .. Len(sent)
    /\ offset \in [Bots -> 0 .. MaxUpdates + 1]
    /\ runs \in [1 .. MaxUpdates -> Nat]
    /\ count \in [requests : Nat, restarts : Nat, outages : Nat, extra : Nat]

TablesTypeOK ==
    /\ net \in {"up", "down", "limited"}
    /\ commands \subseteq Cmd
    /\ pending \in [cmds : SUBSET Cmd, twice : BOOLEAN]
    /\ asked \subseteq Cmd /\ lost \subseteq Cmd

Asks(t) == IF thread[t].at = "getMe" THEN 1 ELSE 0

\* Each thread can still build a bot that has seen there was none; whoever is past
\* that has one.
BotInv ==
    /\ bot + Asks("poll") + Asks("flush") + Asks("mqtt") <= 3
    /\ conn.cmds => bot > 0
    /\ \A t \in Threads : thread[t].at \in {"setCommands", "setMeta", "work"} => bot > 0
    /\ \A t \in Threads : thread[t].at = "work" => t = "poll" /\ thread[t].bot \in 1 .. bot

\* No bot is ahead of what users sent, and one that is not built asks for all of it.
OffsetInv ==
    /\ \A b \in Bots : offset[b] <= Len(sent) + 1
    /\ \A b \in Bots : b > bot => offset[b] = 0

Offset(b) == IF b = 0 THEN 0 ELSE offset[b]

\* What b would be sent has been run so seldom that it may be run another n times.
MayRun(b, n) ==
    \A i \in 1 .. MaxUpdates :
        i > confirmed /\ i >= Offset(b) => runs[i] + n <= Allowed

\* What the bot would be sent now, it may run.  A poll that is under way for a bot
\* that has been replaced will have run it before the present bot is sent it.
RunInv ==
    /\ \A i \in 1 .. MaxUpdates : i > Len(sent) => runs[i] = 0
    /\ MayRun(bot, 1)
    /\ thread["poll"].at = "work" =>
          MayRun(thread["poll"].bot, 1 + (bot - thread["poll"].bot))

TelegramInv ==
    /\ BotTypeOK /\ UserTypeOK /\ TablesTypeOK
    /\ BotInv /\ OffsetInv /\ RunInv /\ RunOnce

-----------------------------------------------------------------------------
(* Connecting *)

\* Where a thread goes that has a bot, or none.
Goes(t, b) ==
    \E next \in Thread :
        /\ thread' = [thread EXCEPT ![t] = next]
        /\ next.at # "getMe"
        /\ next.at # "idle" => b > 0
        /\ next.at = "work" => t = "poll" /\ next.bot = b

LEMMA IdleIsThread == Idle \in Thread /\ Idle.at = "idle"
  BY DEF Idle, Thread

LEMMA GotoGoes ==
    ASSUME NEW t \in Threads, NEW b \in Bots, NEW batch \in SUBSET Cmd,
           NEW at \in {"setCommands", "setMeta", "work"}, at = "work" => t = "poll",
           Goto(t, at, b, batch)
    PROVE  Goes(t, b)
  <1>. DEFINE next == [at |-> at, bot |-> b, batch |-> batch]
  <1>1. next \in Thread /\ next.at = at /\ next.bot = b
    BY DEF Thread
  <1>2. thread' = [thread EXCEPT ![t] = next]
    BY DEF Goto
  <1>3. b > 0
    BY DEF Bots
  <1>. HIDE DEF next
  <1>. QED
    BY <1>1, <1>2, <1>3 DEF Goes

LEMMA EndGoes ==
    ASSUME NEW t \in Threads, NEW b, End(t)
    PROVE  Goes(t, b)
  BY IdleIsThread DEF End, Goes

LEMMA ServeGoes ==
    ASSUME NEW t \in Threads, NEW b \in Bots, NEW batch \in SUBSET Cmd, known \in Known,
           Serve(t, b, batch)
    PROVE  known' \in Known /\ Goes(t, b)
  <1>1. known' \in Known
    BY DEF Serve, Known
  <1>2. CASE t = "poll"
    BY <1>1, <1>2, GotoGoes DEF Serve
  <1>3. CASE t # "poll"
    BY <1>1, <1>3, EndGoes DEF Serve
  <1>. QED
    BY <1>2, <1>3

LEMMA SetMetaGoes ==
    ASSUME NEW t \in Threads, NEW b \in Bots, NEW batch \in SUBSET Cmd, NEW flags \in Flags,
           known \in Known, SetMeta(t, b, batch, flags)
    PROVE  known' \in Known /\ conn' \in Flags /\ Goes(t, b)
  <1>1. conn' \in Flags
    BY DEF SetMeta, Flags
  <1>2. CASE flags.meta
    BY <1>1, <1>2, ServeGoes DEF SetMeta
  <1>3. CASE ~flags.meta
    BY <1>1, <1>3, GotoGoes DEF SetMeta
  <1>. QED
    BY <1>2, <1>3

LEMMA SetCmdsGoes ==
    ASSUME NEW t \in Threads, NEW b \in {0} \cup Bots, NEW batch \in SUBSET Cmd,
           NEW cmds \in SUBSET Cmd, known \in Known, conn \in Flags, conn.cmds => b > 0,
           SetCmds(t, b, batch, cmds)
    PROVE  known' \in Known /\ conn' \in Flags /\ (conn'.cmds => b > 0) /\ Goes(t, b)
  <1>1. CASE conn.cmds
    <2>1. b \in Bots /\ b > 0
      BY <1>1 DEF Bots
    <2>. QED
      BY <1>1, <2>1, SetMetaGoes DEF SetCmds
  <1>2. CASE ~conn.cmds /\ b = 0
    BY <1>2, EndGoes DEF SetCmds
  <1>3. CASE ~conn.cmds /\ b # 0
    <2>1. b \in Bots /\ b > 0
      BY <1>3 DEF Bots
    <2>2. known' \in Known /\ conn' = conn
      BY <1>3 DEF SetCmds, Known
    <2>3. Goes(t, b)
      BY <1>3, <2>1, GotoGoes DEF SetCmds
    <2>. QED
      BY <2>1, <2>2, <2>3
  <1>. QED
    BY <1>1, <1>2, <1>3

\* Connecting starts with the question for a bot, if there is none.
LEMMA ConnectGoes ==
    ASSUME NEW t \in Threads, NEW batch \in SUBSET Cmd, NEW cmds \in SUBSET Cmd,
           known \in Known, conn \in Flags, bot \in {0} \cup Bots, conn.cmds => bot > 0,
           Connect(t, batch, cmds)
    PROVE  /\ known' \in Known /\ conn' \in Flags /\ (conn'.cmds => bot > 0)
           /\ Goes(t, bot) \/ (bot = 0 /\ Goto(t, "getMe", 0, batch))
  <1>1. CASE bot = 0
    BY <1>1 DEF Connect
  <1>2. CASE bot # 0
    BY <1>2, SetCmdsGoes DEF Connect
  <1>. QED
    BY <1>1, <1>2

-----------------------------------------------------------------------------
(* Threads and bots *)

\* A thread that goes on with the bot, perhaps one that it has just built.
LEMMA GoesBots ==
    ASSUME BotTypeOK, BotInv, NEW t \in Threads, Goes(t, bot'),
           known' \in Known, conn' \in Flags, conn'.cmds => bot' > 0,
           bot' \in Nat, bot <= bot', bot' <= bot + Asks(t)
    PROVE  BotTypeOK' /\ BotInv'
  <1>1. PICK next \in Thread :
            /\ thread' = [thread EXCEPT ![t] = next]
            /\ next.at # "getMe"
            /\ next.at # "idle" => bot' > 0
            /\ next.at = "work" => t = "poll" /\ next.bot = bot'
    BY DEF Goes
  <1>2. thread \in [Threads -> Thread] /\ bot \in Nat
    BY DEF BotTypeOK, Bots
  <1>3. thread'[t] = next /\ \A u \in Threads \ {t} : thread'[u] = thread[u]
    BY <1>1, <1>2
  <1>4. bot' + Asks("poll")' + Asks("flush")' + Asks("mqtt")' <= 3
    <2>1. Asks(t)' = 0 /\ \A u \in Threads \ {t} : Asks(u)' = Asks(u)
      BY <1>1, <1>3 DEF Asks
    <2>2. \A u \in Threads : Asks(u) \in {0, 1}
      BY DEF Asks
    <2>3. CASE t = "poll"
      BY <1>2, <2>1, <2>2, <2>3 DEF BotInv, Threads
    <2>4. CASE t = "flush"
      BY <1>2, <2>1, <2>2, <2>4 DEF BotInv, Threads
    <2>5. CASE t = "mqtt"
      BY <1>2, <2>1, <2>2, <2>5 DEF BotInv, Threads
    <2>. QED
      BY <2>3, <2>4, <2>5 DEF Threads
  <1>5. bot' \in {0} \cup Bots
    <2>1. Asks("poll")' \in {0, 1} /\ Asks("flush")' \in {0, 1} /\ Asks("mqtt")' \in {0, 1}
      BY DEF Asks
    <2>. QED
      BY <1>4, <2>1 DEF Bots
  <1>6. thread' \in [Threads -> Thread]
    BY <1>1, <1>2
  <1>7. ASSUME NEW u \in Threads
        PROVE  /\ thread'[u].at \in {"setCommands", "setMeta", "work"} => bot' > 0
               /\ thread'[u].at = "work" => u = "poll" /\ thread'[u].bot \in 1 .. bot'
    <2>1. CASE u = t
      BY <1>1, <1>3, <2>1
    <2>2. CASE u # t
      BY <1>2, <1>3, <2>2 DEF BotInv
    <2>. QED
      BY <2>1, <2>2
  <1>. QED
    BY <1>4, <1>5, <1>6, <1>7 DEF BotTypeOK, BotInv

\* A thread that asks whether there is a bot.
LEMMA AskBots ==
    ASSUME BotTypeOK, BotInv, NEW t \in Threads, NEW batch \in SUBSET Cmd,
           bot = 0, bot' = bot, Goto(t, "getMe", 0, batch),
           known' \in Known, conn' \in Flags, conn'.cmds => bot > 0
    PROVE  BotTypeOK' /\ BotInv'
  <1>. DEFINE next == [at |-> "getMe", bot |-> 0, batch |-> batch]
  <1>1. next \in Thread /\ next.at = "getMe"
    BY DEF Thread
  <1>2. thread' = [thread EXCEPT ![t] = next]
    BY DEF Goto
  <1>. HIDE DEF next
  <1>3. thread \in [Threads -> Thread]
    BY DEF BotTypeOK
  <1>4. thread' \in [Threads -> Thread]
    BY <1>1, <1>2, <1>3
  <1>5. \A u \in Threads : thread'[u] = IF u = t THEN next ELSE thread[u]
    BY <1>2, <1>3
  <1>6. \A u \in Threads : thread'[u].at \notin {"setCommands", "setMeta", "work"}
    BY <1>1, <1>5 DEF BotInv
  <1>7. bot' + Asks("poll")' + Asks("flush")' + Asks("mqtt")' <= 3
    BY DEF Asks
  <1>. QED
    BY <1>4, <1>6, <1>7 DEF BotTypeOK, BotInv

-----------------------------------------------------------------------------
(* Runs *)

LEMMA AllowedIsNat ==
    ASSUME UserTypeOK PROVE Allowed \in Nat \ {0}
  BY DEF UserTypeOK, Allowed

\* What has not been run more often than allowed, before it is confirmed or while
\* it is, may still be run.
LEMMA MayStillRun ==
    ASSUME UserTypeOK, NEW b \in {0} \cup Bots, NEW n \in Nat, MayRun(b, n),
           runs' = runs, confirmed' \in Nat, confirmed <= confirmed',
           NEW more \in Nat, Allowed' = Allowed + more, Offset(b)' = Offset(b)
    PROVE  MayRun(b, n + more)'
  <1>. SUFFICES ASSUME NEW i \in 1 .. MaxUpdates, i > confirmed', i >= Offset(b)'
                PROVE  runs'[i] + (n + more) <= Allowed'
    BY DEF MayRun
  <1>1. runs[i] \in Nat /\ confirmed \in Nat /\ i \in Nat
    BY CmdsAssumption DEF UserTypeOK
  <1>2. i > confirmed
    BY <1>1
  <1>3. runs[i] + n <= Allowed
    BY <1>2 DEF MayRun
  <1>. QED
    BY <1>1, <1>3, AllowedIsNat

\* Steps of a thread that goes on with the bot, or asks for one.
LEMMA SameRuns ==
    ASSUME BotTypeOK, UserTypeOK, BotInv, OffsetInv, RunInv, RunOnce,
           UNCHANGED <<bot, offset, runs>>, Allowed' = Allowed,
           confirmed' \in Nat, confirmed <= confirmed',
           Len(sent') \in Nat, Len(sent) <= Len(sent'),
           \/ thread'["poll"].at # "work"
           \/ thread'["poll"].bot = bot
           \/ thread'["poll"] = thread["poll"]
    PROVE  RunInv' /\ OffsetInv' /\ RunOnce'
  <1>1. bot \in Nat /\ \A b \in {0} \cup Bots : Offset(b)' = Offset(b)
    BY DEF BotTypeOK, Bots, Offset
  <1>2. ASSUME NEW b \in {0} \cup Bots, NEW n \in Nat, MayRun(b, n)
        PROVE  MayRun(b, n)'
    <2>1. MayRun(b, n + 0)'
      BY <1>1, <1>2, MayStillRun, AllowedIsNat
    <2>. QED
      BY <2>1
  <1>3. MayRun(bot, 1)'
    BY <1>2 DEF RunInv, BotTypeOK
  <1>4. ASSUME thread'["poll"].at = "work"
        PROVE  MayRun(thread["poll"].bot, 1 + (bot - thread["poll"].bot))'
    <2>1. CASE thread'["poll"].bot = bot
      <3>1. 1 + (bot - bot) = 1
        BY <1>1
      <3>. QED
        BY <1>3, <2>1, <3>1 DEF MayRun, Offset, Allowed
    <2>2. CASE thread'["poll"] = thread["poll"]
      <3>1. thread["poll"].bot \in 1 .. bot
        BY <1>4, <2>2 DEF BotInv, Threads
      <3>2. /\ thread["poll"].bot \in {0} \cup Bots
            /\ 1 + (bot - thread["poll"].bot) \in Nat
        <4>1. bot \in Nat /\ bot <= 3
          BY DEF BotTypeOK, Bots
        <4>2. DEFINE asking == thread["poll"].bot
        <4>3. asking \in Nat /\ 1 <= asking /\ asking <= bot
          BY <3>1, <4>1
        <4>. HIDE DEF asking
        <4>4. asking \in Bots /\ 1 + (bot - asking) \in Nat
          BY <4>1, <4>3 DEF Bots
        <4>. QED
          BY <4>4 DEF asking
      <3>3. MayRun(thread["poll"].bot, 1 + (bot - thread["poll"].bot))
        BY <1>4, <2>2 DEF RunInv
      <3>. QED
        BY <1>2, <2>2, <3>2, <3>3 DEF MayRun, Offset, Allowed
    <2>. QED
      BY <1>4, <2>1, <2>2
  <1>5. \A i \in 1 .. MaxUpdates : i > Len(sent') => runs'[i] = 0
    <2>1. Len(sent) \in Nat
      BY DEF UserTypeOK
    <2>. QED
      BY <2>1, CmdsAssumption DEF RunInv
  <1>6. OffsetInv'
    <2>1. Len(sent) \in Nat /\ \A b \in Bots : offset[b] \in Nat
      BY CmdsAssumption DEF UserTypeOK
    <2>. QED
      BY <2>1 DEF OffsetInv
  <1>7. RunOnce'
    <2>1. 1 + count'.restarts + count'.extra = 1 + count.restarts + count.extra
      BY DEF Allowed
    <2>. QED
      BY <2>1 DEF RunOnce
  <1>. QED
    BY <1>3, <1>4, <1>5, <1>6, <1>7 DEF RunInv

-----------------------------------------------------------------------------
(* The actions *)

\* A thread connects, and so goes on with the bot there is or asks for one.
LEMMA ConnectInv ==
    ASSUME TelegramInv, NEW t \in Threads, NEW batch \in SUBSET Cmd, NEW cmds \in SUBSET Cmd,
           Connect(t, batch, cmds), UNCHANGED <<bot, offset, users>>,
           count' \in [requests : Nat, restarts : Nat, outages : Nat, extra : Nat],
           count'.restarts = count.restarts, count'.extra = count.extra
    PROVE  BotTypeOK' /\ UserTypeOK' /\ BotInv' /\ OffsetInv' /\ RunInv' /\ RunOnce'
  <1>1. /\ known' \in Known /\ conn' \in Flags /\ (conn'.cmds => bot > 0)
        /\ Goes(t, bot) \/ (bot = 0 /\ Goto(t, "getMe", 0, batch))
    BY ConnectGoes DEF TelegramInv, BotTypeOK, BotInv
  <1>2. bot' = bot /\ bot \in Nat /\ thread \in [Threads -> Thread]
    BY DEF TelegramInv, BotTypeOK, Bots
  <1>3. BotTypeOK' /\ BotInv'
    <2>1. CASE Goes(t, bot)
      <3>1. Goes(t, bot') /\ bot' <= bot + Asks(t)
        BY <1>2, <2>1 DEF Asks
      <3>. QED
        BY <1>1, <1>2, <3>1, GoesBots DEF TelegramInv
    <2>2. CASE bot = 0 /\ Goto(t, "getMe", 0, batch)
      BY <1>1, <1>2, <2>2, AskBots DEF TelegramInv
    <2>. QED
      BY <1>1, <2>1, <2>2
  <1>4. UserTypeOK'
    BY DEF TelegramInv, UserTypeOK, users
  <1>5. \/ thread'["poll"].at # "work"
        \/ thread'["poll"].bot = bot
        \/ thread'["poll"] = thread["poll"]
    <2>1. CASE Goes(t, bot)
      <3>1. PICK next \in Thread : /\ thread' = [thread EXCEPT ![t] = next]
                                   /\ next.at = "work" => t = "poll" /\ next.bot = bot
        BY <2>1 DEF Goes
      <3>. QED
        BY <1>2, <3>1
    <2>2. CASE Goto(t, "getMe", 0, batch)
      BY <1>2, <2>2 DEF Goto
    <2>. QED
      BY <1>1, <2>1, <2>2
  <1>6. Allowed' = Allowed
    BY DEF Allowed
  <1>7. confirmed' \in Nat /\ confirmed <= confirmed' /\ Len(sent') \in Nat /\ sent' = sent
    BY DEF TelegramInv, UserTypeOK, users
  <1>. QED
    BY <1>2, <1>3, <1>4, <1>5, <1>6, <1>7, SameRuns DEF TelegramInv, users

\* What Telegram answers to a thread that has a bot.
LEMMA AnswerInv ==
    ASSUME TelegramInv, NEW t \in Threads, CommandsSet(t) \/ MetaSet(t)
    PROVE  TelegramInv'
  <1>1. bot > 0 /\ bot \in Bots /\ thread[t].batch \in SUBSET Cmd
    BY DEF TelegramInv, BotInv, BotTypeOK, CommandsSet, MetaSet, Thread
  <1>2. known \in Known /\ conn \in Flags /\ thread \in [Threads -> Thread]
    BY DEF TelegramInv, BotTypeOK
  <1>3. known' \in Known /\ conn' \in Flags /\ Goes(t, bot)
    <2>1. CASE net = "down"
      BY <1>2, <2>1, EndGoes DEF CommandsSet, MetaSet
    <2>2. CASE CommandsSet(t) /\ net # "down"
      <3>. DEFINE flags == [conn EXCEPT !.cmds = @ \/ net = "up"]
      <3>1. flags \in Flags
        BY <1>2 DEF Flags
      <3>2. SetMeta(t, bot, thread[t].batch, flags)
        BY <2>2 DEF CommandsSet
      <3>. HIDE DEF flags
      <3>. QED
        BY <1>1, <1>2, <3>1, <3>2, SetMetaGoes
    <2>3. CASE MetaSet(t) /\ net # "down"
      BY <1>1, <1>2, <2>3, ServeGoes DEF MetaSet
    <2>. QED
      BY <2>1, <2>2, <2>3
  <1>4. UNCHANGED <<net, bot, offset, tables, users, count>>
    BY DEF CommandsSet, MetaSet
  <1>5. bot' = bot /\ bot \in Nat /\ bot' <= bot + Asks(t)
    BY <1>1, <1>4 DEF Asks, Bots
  <1>6. BotTypeOK' /\ BotInv'
    BY <1>1, <1>3, <1>5, GoesBots DEF TelegramInv
  <1>7. \/ thread'["poll"].at # "work"
        \/ thread'["poll"].bot = bot
        \/ thread'["poll"] = thread["poll"]
    <2>1. PICK next \in Thread : /\ thread' = [thread EXCEPT ![t] = next]
                                 /\ next.at = "work" => t = "poll" /\ next.bot = bot
      BY <1>3 DEF Goes
    <2>. QED
      BY <1>2, <2>1
  <1>8. UserTypeOK' /\ TablesTypeOK'
    BY <1>4 DEF TelegramInv, UserTypeOK, TablesTypeOK, users, tables
  <1>9. confirmed' \in Nat /\ confirmed <= confirmed' /\ Len(sent') \in Nat /\ sent' = sent
    BY <1>4 DEF TelegramInv, UserTypeOK, users
  <1>10. Allowed' = Allowed
    BY <1>4 DEF Allowed
  <1>11. RunInv' /\ OffsetInv' /\ RunOnce'
    BY <1>4, <1>7, <1>9, <1>10, SameRuns DEF TelegramInv, users
  <1>. QED
    BY <1>6, <1>8, <1>11 DEF TelegramInv

\* A bot is built, and may replace one: then everything unconfirmed may be run once
\* more.
LEMMA GetMeInv ==
    ASSUME TelegramInv, NEW t \in Threads, GetMe(t)
    PROVE  TelegramInv'
  <1>1. /\ thread[t].batch \in SUBSET Cmd /\ commands \in SUBSET Cmd
        /\ known \in Known /\ conn \in Flags /\ thread \in [Threads -> Thread]
        /\ bot \in Nat /\ bot \in {0} \cup Bots
    BY DEF TelegramInv, BotTypeOK, TablesTypeOK, Thread, Bots
  <1>2. UNCHANGED <<net, offset, tables, sent, confirmed, runs>>
        /\ SetCmds(t, bot', thread[t].batch, commands)
    BY DEF GetMe
  <1>3. Asks(t) = 1
    BY DEF GetMe, Asks
  <1>4. bot' = bot \/ bot' = bot + 1
    BY DEF GetMe
  <1>5. bot' \in {0} \cup Bots
    <2>1. Asks("poll") \in {0, 1} /\ Asks("flush") \in {0, 1} /\ Asks("mqtt") \in {0, 1}
      BY DEF Asks
    <2>2. bot + 1 <= 3
      BY <1>1, <1>3, <2>1 DEF TelegramInv, BotInv, Threads
    <2>. QED
      BY <1>1, <1>4, <2>2 DEF Bots
  <1>6. /\ known' \in Known /\ conn' \in Flags /\ (conn'.cmds => bot' > 0) /\ Goes(t, bot')
    <2>1. conn.cmds => bot' > 0
      BY <1>1, <1>4 DEF TelegramInv, BotInv
    <2>. QED
      BY <1>1, <1>2, <1>5, <2>1, SetCmdsGoes
  <1>7. BotTypeOK' /\ BotInv'
    BY <1>1, <1>3, <1>4, <1>6, GoesBots DEF TelegramInv
  <1>8. count' \in [requests : Nat, restarts : Nat, outages : Nat, extra : Nat]
        /\ due' \subseteq 1 .. Len(sent)
        /\ \/ bot' = bot /\ count' = count
           \/ bot' = bot + 1 /\ bot = 0 /\ Allowed' = Allowed
           \/ bot' = bot + 1 /\ bot > 0 /\ Allowed' = Allowed + 1
    <2>1. /\ count \in [requests : Nat, restarts : Nat, outages : Nat, extra : Nat]
          /\ due \subseteq 1 .. Len(sent)
      BY DEF TelegramInv, UserTypeOK
    <2>2. CASE net # "up"
      BY <2>1, <2>2 DEF GetMe
    <2>3. CASE net = "up" /\ bot = 0
      <3>1. /\ bot' = bot + 1 /\ due' = due
            /\ count' = [count EXCEPT !.extra = @ + 0]
        BY <1>1, <2>3 DEF GetMe
      <3>. QED
        BY <2>1, <2>3, <3>1 DEF Allowed
    <2>4. CASE net = "up" /\ bot > 0
      <3>1. /\ bot' = bot + 1 /\ due' = {}
            /\ count' = [count EXCEPT !.extra = @ + 1]
        BY <1>1, <2>4 DEF GetMe
      <3>. QED
        BY <2>1, <2>4, <3>1 DEF Allowed
    <2>. QED
      BY <1>1, <2>2, <2>3, <2>4
  <1>9. UserTypeOK' /\ TablesTypeOK'
    BY <1>2, <1>8 DEF TelegramInv, UserTypeOK, TablesTypeOK, tables
  <1>10. PICK next \in Thread : /\ thread' = [thread EXCEPT ![t] = next]
                                /\ next.at = "work" => t = "poll" /\ next.bot = bot'
    BY <1>6 DEF Goes
  <1>11. \/ thread'["poll"].at # "work"
         \/ thread'["poll"].bot = bot'
         \/ thread'["poll"] = thread["poll"]
    BY <1>1, <1>10
  <1>12. CASE bot' = bot /\ count' = count
    <2>1. Allowed' = Allowed
      BY <1>12 DEF Allowed
    <2>2. confirmed' \in Nat /\ confirmed <= confirmed' /\ Len(sent') \in Nat /\ sent' = sent
      BY <1>2 DEF TelegramInv, UserTypeOK
    <2>3. RunInv' /\ OffsetInv' /\ RunOnce'
      BY <1>2, <1>11, <1>12, <2>1, <2>2, SameRuns DEF TelegramInv
    <2>. QED
      BY <1>7, <1>9, <2>3 DEF TelegramInv
  <1>13. CASE bot' = bot + 1
    <2>1. bot' \in Bots /\ offset'[bot'] = 0 /\ Offset(bot)' = 0
      <3>1. bot' \in Bots /\ bot' > bot
        BY <1>1, <1>5, <1>13
      <3>. QED
        BY <1>2, <3>1 DEF TelegramInv, OffsetInv, Offset
    <2>2. \A i \in 1 .. MaxUpdates : runs[i] \in Nat /\ runs[i] <= Allowed
      BY DEF TelegramInv, UserTypeOK, RunOnce, Allowed
    <2>3. Allowed \in Nat /\ Allowed' \in Nat
      BY <1>9 DEF TelegramInv, UserTypeOK, Allowed
    <2>4. MayRun(bot, 1)'
      <3>1. CASE bot = 0 /\ Allowed' = Allowed
        <4>1. MayRun(0, 1) /\ Offset(0) = 0
          BY <3>1 DEF TelegramInv, RunInv, Offset
        <4>2. \A i \in 1 .. MaxUpdates : i >= 0
          BY CmdsAssumption
        <4>. QED
          BY <1>2, <2>1, <3>1, <4>1, <4>2 DEF MayRun
      <3>2. CASE bot > 0 /\ Allowed' = Allowed + 1
        <4>1. \A i \in 1 .. MaxUpdates : runs[i] + 1 <= Allowed + 1
          BY <2>2, <2>3
        <4>. QED
          BY <1>2, <3>2, <4>1 DEF MayRun
      <3>. QED
        BY <1>1, <1>8, <1>13, <3>1, <3>2
    <2>5. ASSUME thread'["poll"].at = "work"
          PROVE  MayRun(thread["poll"].bot, 1 + (bot - thread["poll"].bot))'
      <3>1. CASE thread'["poll"].bot = bot'
        <4>1. 1 + (bot' - thread'["poll"].bot) = 1
          BY <1>1, <1>13, <3>1
        <4>. QED
          BY <2>4, <3>1, <4>1 DEF MayRun, Offset, Allowed
      <3>2. CASE thread'["poll"] = thread["poll"]
        <4>1. thread["poll"].bot \in 1 .. bot /\ bot > 0
          BY <1>1, <2>5, <3>2 DEF TelegramInv, BotInv, Threads
        <4>2. PICK b \in {0} \cup Bots, n \in Nat : b = thread["poll"].bot /\ n = 1 + (bot - b)
          BY <1>1, <4>1 DEF Bots
        <4>3. MayRun(b, n)
          BY <2>5, <3>2, <4>2 DEF TelegramInv, RunInv
        <4>4. Allowed' = Allowed + 1
          BY <1>8, <1>13, <4>1, <1>1
        <4>5. Offset(b)' = Offset(b) /\ confirmed' \in Nat /\ confirmed <= confirmed'
          BY <1>2, <3>2 DEF Offset, TelegramInv, UserTypeOK
        <4>6. MayRun(b, n + 1)'
          BY <1>2, <4>3, <4>4, <4>5, MayStillRun DEF TelegramInv
        <4>7. thread'["poll"].bot = b /\ n + 1 = 1 + (bot' - b)
          BY <1>1, <1>13, <3>2, <4>1, <4>2
        <4>. QED
          BY <4>6, <4>7 DEF MayRun, Offset, Allowed
      <3>3. CASE thread'["poll"].at # "work"
        BY <2>5, <3>3
      <3>. QED
        BY <1>11, <3>1, <3>2, <3>3
    <2>6. \A i \in 1 .. MaxUpdates : i > Len(sent') => runs'[i] = 0
      BY <1>2 DEF TelegramInv, RunInv
    <2>7. OffsetInv'
      BY <1>1, <1>2, <1>13 DEF TelegramInv, OffsetInv, Bots
    <2>8. RunOnce'
      <3>1. Allowed <= Allowed'
        BY <1>8, <2>3, <1>13, <1>1
      <3>2. \A i \in 1 .. MaxUpdates : runs[i] <= Allowed'
        BY <2>2, <2>3, <3>1
      <3>3. DOMAIN runs = 1 .. MaxUpdates
        BY DEF TelegramInv, UserTypeOK
      <3>. QED
        BY <1>2, <3>2, <3>3 DEF RunOnce, Allowed
    <2>. QED
      BY <1>7, <1>9, <2>4, <2>5, <2>6, <2>7, <2>8 DEF TelegramInv, RunInv
  <1>. QED
    BY <1>8, <1>12, <1>13

LEMMA PollInv == TelegramInv /\ Poll => TelegramInv'
  <1>. SUFFICES ASSUME TelegramInv, Poll PROVE TelegramInv'
    OBVIOUS
  <1>1. "poll" \in Threads /\ {} \in SUBSET Cmd /\ commands \in SUBSET Cmd
    BY DEF Threads, TelegramInv, TablesTypeOK
  <1>2. count' \in [requests : Nat, restarts : Nat, outages : Nat, extra : Nat]
    BY DEF TelegramInv, UserTypeOK, Poll
  <1>3. BotTypeOK' /\ UserTypeOK' /\ BotInv' /\ OffsetInv' /\ RunInv' /\ RunOnce'
    BY <1>1, <1>2, ConnectInv DEF Poll
  <1>4. TablesTypeOK'
    BY DEF TelegramInv, TablesTypeOK, Poll, tables
  <1>. QED
    BY <1>3, <1>4 DEF TelegramInv

LEMMA RequestType ==
    ASSUME UserTypeOK, Request
    PROVE  /\ count' \in [requests : Nat, restarts : Nat, outages : Nat, extra : Nat]
           /\ count'.restarts = count.restarts /\ count'.extra = count.extra
  BY DEF UserTypeOK, Request

LEMMA SendInv == TelegramInv /\ Send => TelegramInv'
  <1>. SUFFICES ASSUME TelegramInv, Send PROVE TelegramInv'
    OBVIOUS
  <1>1. "mqtt" \in Threads /\ {} \in SUBSET Cmd /\ commands \in SUBSET Cmd
    BY DEF Threads, TelegramInv, TablesTypeOK
  <1>2. /\ count' \in [requests : Nat, restarts : Nat, outages : Nat, extra : Nat]
        /\ count'.restarts = count.restarts /\ count'.extra = count.extra
    BY RequestType DEF TelegramInv, Send
  <1>3. BotTypeOK' /\ UserTypeOK' /\ BotInv' /\ OffsetInv' /\ RunInv' /\ RunOnce'
    BY <1>1, <1>2, ConnectInv DEF Send
  <1>4. TablesTypeOK'
    BY DEF TelegramInv, TablesTypeOK, Send, tables
  <1>. QED
    BY <1>3, <1>4 DEF TelegramInv

\* The threads, the bots and what was run stay as they are.
LEMMA RestInv ==
    ASSUME TelegramInv, UNCHANGED <<bot, known, conn, thread, offset, runs, confirmed>>,
           UserTypeOK', TablesTypeOK', Len(sent) <= Len(sent'),
           count'.restarts = count.restarts, count'.extra = count.extra
    PROVE  TelegramInv'
  <1>1. BotTypeOK' /\ BotInv'
    BY DEF TelegramInv, BotTypeOK, BotInv, Asks
  <1>2. confirmed' \in Nat /\ confirmed <= confirmed' /\ Len(sent') \in Nat
    BY DEF TelegramInv, UserTypeOK
  <1>3. Allowed' = Allowed
    BY DEF Allowed
  <1>4. RunInv' /\ OffsetInv' /\ RunOnce'
    BY <1>2, <1>3, SameRuns DEF TelegramInv
  <1>. QED
    BY <1>1, <1>4 DEF TelegramInv

LEMMA RegisterInv == ASSUME TelegramInv, NEW c \in Cmd, Register(c) PROVE TelegramInv'
  <1>1. UNCHANGED <<bot, known, conn, thread, offset, runs, confirmed, sent, due>>
    BY DEF Register, users
  <1>2. /\ count' \in [requests : Nat, restarts : Nat, outages : Nat, extra : Nat]
        /\ count'.restarts = count.restarts /\ count'.extra = count.extra
    BY RequestType DEF TelegramInv, Register
  <1>3. UserTypeOK' /\ Len(sent) <= Len(sent')
    BY <1>1, <1>2 DEF TelegramInv, UserTypeOK
  <1>4. pending' \in [cmds : SUBSET Cmd, twice : BOOLEAN]
    <2>1. pending.cmds \cup {c} \in SUBSET Cmd /\ (pending.twice \/ c \in pending.cmds) \in BOOLEAN
      BY DEF TelegramInv, TablesTypeOK
    <2>. QED
      BY <2>1 DEF Register
  <1>5. TablesTypeOK'
    BY <1>4 DEF TelegramInv, TablesTypeOK, Register
  <1>. QED
    BY <1>1, <1>2, <1>3, <1>5, RestInv

LEMMA NetChangesInv ==
    ASSUME TelegramInv, NEW to \in {"up", "down", "limited"}, NetChanges(to)
    PROVE  TelegramInv'
  <1>1. UNCHANGED <<bot, known, conn, thread, offset, runs, confirmed, sent, due>>
        /\ TablesTypeOK'
    BY DEF NetChanges, users, tables, TelegramInv, TablesTypeOK
  <1>2. /\ count' \in [requests : Nat, restarts : Nat, outages : Nat, extra : Nat]
        /\ count'.restarts = count.restarts /\ count'.extra = count.extra
    BY DEF TelegramInv, UserTypeOK, NetChanges
  <1>3. UserTypeOK' /\ Len(sent) <= Len(sent')
    BY <1>1, <1>2 DEF TelegramInv, UserTypeOK
  <1>. QED
    BY <1>1, <1>2, <1>3, RestInv

LEMMA UserSendsInv == ASSUME TelegramInv, NEW c \in Cmd, UserSends(c) PROVE TelegramInv'
  <1>1. UNCHANGED <<bot, known, conn, thread, offset, runs, confirmed, count>> /\ TablesTypeOK'
    BY DEF UserSends, tables, TelegramInv, TablesTypeOK
  <1>2. sent \in Seq(Cmd) /\ Len(sent) \in Nat /\ Len(sent) < MaxUpdates
    BY DEF TelegramInv, UserTypeOK, UserSends
  <1>3. sent' \in Seq(Cmd) /\ Len(sent') = Len(sent) + 1
    BY <1>2 DEF UserSends
  <1>4. due' \subseteq 1 .. Len(sent')
    <2>1. due \subseteq 1 .. Len(sent) /\ due' \subseteq due \cup {Len(sent')}
      BY DEF TelegramInv, UserTypeOK, UserSends
    <2>. QED
      BY <1>2, <1>3, <2>1
  <1>5. UserTypeOK'
    <2>1. confirmed \in 0 .. Len(sent)
      BY DEF TelegramInv, UserTypeOK
    <2>2. confirmed' \in 0 .. Len(sent') /\ Len(sent') <= MaxUpdates
      BY <1>1, <1>2, <1>3, <2>1, CmdsAssumption
    <2>. QED
      BY <1>1, <1>3, <1>4, <2>2 DEF TelegramInv, UserTypeOK
  <1>. QED
    BY <1>1, <1>2, <1>3, <1>5, RestInv

\* A batch is lost, or the thread that flushes it connects.
LEMMA FlushInv == TelegramInv /\ Flush => TelegramInv'
  <1>. SUFFICES ASSUME TelegramInv, Flush PROVE TelegramInv'
    OBVIOUS
  <1>1. pending.cmds \in SUBSET Cmd
    BY DEF TelegramInv, TablesTypeOK
  <1>2. UNCHANGED <<net, bot, offset, asked, users, count>>
        /\ pending' = [cmds |-> {}, twice |-> FALSE]
    BY DEF Flush
  <1>3. CASE Invalid
    <2>1. UNCHANGED <<commands, known, conn, thread>> /\ lost' = lost \cup pending.cmds
      BY <1>3 DEF Flush
    <2>2. TablesTypeOK'
      BY <1>1, <1>2, <2>1 DEF TelegramInv, TablesTypeOK
    <2>3. UserTypeOK' /\ Len(sent) <= Len(sent')
      BY <1>2 DEF TelegramInv, UserTypeOK, users
    <2>. QED
      BY <1>2, <2>1, <2>2, <2>3, RestInv DEF users
  <1>4. CASE ~Invalid
    <2>1. /\ commands' = commands \cup pending.cmds /\ lost' = lost \ pending.cmds
          /\ Connect("flush", pending.cmds, commands')
      BY <1>4 DEF Flush
    <2>2. TablesTypeOK' /\ commands' \in SUBSET Cmd
      BY <1>1, <1>2, <2>1 DEF TelegramInv, TablesTypeOK
    <2>3. "flush" \in Threads
      BY DEF Threads
    <2>4. count' \in [requests : Nat, restarts : Nat, outages : Nat, extra : Nat]
      BY <1>2 DEF TelegramInv, UserTypeOK
    <2>5. BotTypeOK' /\ UserTypeOK' /\ BotInv' /\ OffsetInv' /\ RunInv' /\ RunOnce'
      BY <1>1, <1>2, <2>1, <2>2, <2>3, <2>4, ConnectInv
    <2>. QED
      BY <2>2, <2>5 DEF TelegramInv
  <1>. QED
    BY <1>3, <1>4

\* The thread that polls is done.
LEMMA PollEnds ==
    ASSUME BotTypeOK, BotInv, thread["poll"].at = "work", End("poll"),
           UNCHANGED <<bot, known, conn>>
    PROVE  /\ BotTypeOK' /\ BotInv' /\ thread'["poll"].at = "idle"
           /\ thread["poll"].bot \in 1 .. bot /\ thread["poll"].bot \in Bots
  <1>1. "poll" \in Threads /\ bot \in Nat /\ bot' = bot /\ bot' <= bot + Asks("poll")
    BY DEF Threads, BotTypeOK, Bots, Asks
  <1>2. Goes("poll", bot')
    BY <1>1, EndGoes
  <1>3. BotTypeOK' /\ BotInv'
    BY <1>1, <1>2, GoesBots DEF BotTypeOK, BotInv
  <1>4. thread["poll"].bot \in 1 .. bot
    BY <1>1 DEF BotInv
  <1>5. thread["poll"].bot \in Bots
    BY <1>4 DEF BotTypeOK, Bots
  <1>6. thread'["poll"].at = "idle"
    BY <1>1, IdleIsThread DEF End, BotTypeOK
  <1>. QED
    BY <1>3, <1>4, <1>5, <1>6

LEMMA ForgottenIs ==
    ASSUME UserTypeOK, OffsetInv, NEW b \in Bots
    PROVE  /\ Forgotten(b) \in 0 .. Len(sent) /\ confirmed <= Forgotten(b)
           /\ offset[b] <= Forgotten(b) + 1
  <1>1. offset[b] \in Nat /\ offset[b] <= Len(sent) + 1 /\ Len(sent) \in Nat
        /\ confirmed \in 0 .. Len(sent)
    BY CmdsAssumption DEF UserTypeOK, OffsetInv
  <1>. QED
    BY <1>1 DEF Forgotten

LEMMA PollFailsInv == TelegramInv /\ PollFails => TelegramInv'
  <1>. SUFFICES ASSUME TelegramInv, PollFails PROVE TelegramInv'
    OBVIOUS
  <1>1. UNCHANGED <<net, bot, known, offset, conn, tables, sent, runs, due, count>>
        /\ thread["poll"].at = "work" /\ End("poll")
    BY DEF PollFails
  <1>2. BotTypeOK' /\ BotInv' /\ thread'["poll"].at = "idle" /\ thread["poll"].bot \in Bots
    BY <1>1, PollEnds DEF TelegramInv
  <1>3. confirmed' \in 0 .. Len(sent) /\ confirmed <= confirmed' /\ confirmed' \in Nat
    <2>1. confirmed \in 0 .. Len(sent) /\ Len(sent) \in Nat
      BY DEF TelegramInv, UserTypeOK
    <2>. QED
      BY <1>2, <2>1, ForgottenIs DEF TelegramInv, PollFails
  <1>4. UserTypeOK' /\ TablesTypeOK'
    BY <1>1, <1>3 DEF TelegramInv, UserTypeOK, TablesTypeOK, tables
  <1>5. Allowed' = Allowed /\ Len(sent') \in Nat /\ sent' = sent
    BY <1>1 DEF Allowed, TelegramInv, UserTypeOK
  <1>6. RunInv' /\ OffsetInv' /\ RunOnce'
    BY <1>1, <1>2, <1>3, <1>5, SameRuns DEF TelegramInv
  <1>. QED
    BY <1>2, <1>4, <1>6 DEF TelegramInv

\* What a bot is sent it runs, and then asks for what follows; the one that has
\* replaced it may be sent the same once more.
LEMMA UpdatesInv == TelegramInv /\ Updates => TelegramInv'
  <1>. SUFFICES ASSUME TelegramInv, Updates PROVE TelegramInv'
    OBVIOUS
  <1>1. thread["poll"].at = "work" /\ End("poll")
        /\ UNCHANGED <<net, bot, known, conn, tables, sent, due, count>>
    BY DEF Updates
  <1>2. BotTypeOK' /\ BotInv' /\ thread'["poll"].at = "idle"
        /\ thread["poll"].bot \in 1 .. bot /\ thread["poll"].bot \in Bots
    BY <1>1, PollEnds DEF TelegramInv
  <1>3. PICK b \in Bots : b = thread["poll"].bot
    BY <1>2
  <1>4. PICK f \in 0 .. Len(sent) :
            f = Forgotten(b) /\ confirmed <= f /\ offset[b] <= f + 1
    BY ForgottenIs DEF TelegramInv
  <1>. DEFINE ids == f + 1 .. Len(sent)
              run == Understood(b, ids)
  <1>5. /\ confirmed' = f
        /\ runs' = [i \in DOMAIN runs |-> IF i \in run THEN runs[i] + 1 ELSE runs[i]]
        /\ offset' = [offset EXCEPT ![b] = NextOffset(ids)]
    BY <1>3, <1>4 DEF Updates
  <1>6. /\ Len(sent) \in Nat /\ Len(sent) <= MaxUpdates /\ confirmed \in Nat /\ f \in Nat
        /\ b \in Nat /\ bot \in Nat /\ 1 <= b /\ b <= bot
        /\ offset \in [Bots -> 0 .. MaxUpdates + 1]
        /\ runs \in [1 .. MaxUpdates -> Nat]
    <2>1. /\ Len(sent) \in Nat /\ Len(sent) <= MaxUpdates /\ confirmed \in Nat
          /\ offset \in [Bots -> 0 .. MaxUpdates + 1]
          /\ runs \in [1 .. MaxUpdates -> Nat]
      BY DEF TelegramInv, UserTypeOK
    <2>2. b \in Nat /\ bot \in Nat /\ 1 <= b /\ b <= bot
      BY <1>2, <1>3 DEF TelegramInv, BotTypeOK, Bots
    <2>3. f \in Nat
      BY <2>1
    <2>. QED
      BY <2>1, <2>2, <2>3
  <1>7. run \subseteq ids /\ \A i \in ids : f < i /\ i <= Len(sent) /\ i \in Nat
    BY <1>6 DEF Understood
  <1>8. NextOffset(ids) \in 0 .. Len(sent) + 1
    BY <1>6 DEF NextOffset
  <1>9. ids # {} => NextOffset(ids) = Len(sent) + 1
    BY DEF NextOffset
  <1>10. ids = {} => f = Len(sent)
    <2>1. f < Len(sent) => Len(sent) \in ids
      BY <1>6
    <2>. QED
      BY <1>6, <2>1
  <1>. HIDE DEF ids, run
  <1>11. runs' \in [1 .. MaxUpdates -> Nat]
         /\ \A i \in 1 .. MaxUpdates :
               runs'[i] = IF i \in run THEN runs[i] + 1 ELSE runs[i]
    BY <1>5, <1>6
  <1>12. Allowed' = Allowed /\ Allowed \in Nat
    BY <1>1, AllowedIsNat DEF Allowed, TelegramInv
  <1>13. UserTypeOK'
    <2>1. offset' \in [Bots -> 0 .. MaxUpdates + 1]
      <3>1. NextOffset(ids) \in 0 .. MaxUpdates + 1
        BY <1>6, <1>8, CmdsAssumption
      <3>. QED
        BY <1>5, <1>6, <3>1
    <2>2. confirmed' \in 0 .. Len(sent')
      BY <1>1, <1>5
    <2>. QED
      BY <1>1, <1>11, <2>1, <2>2 DEF TelegramInv, UserTypeOK
  <1>14. \A i \in 1 .. MaxUpdates :
            i \in run => confirmed < i /\ offset[b] <= i /\ runs[i] + (1 + (bot - b)) <= Allowed
    <2>. SUFFICES ASSUME NEW i \in 1 .. MaxUpdates, i \in run
                  PROVE  confirmed < i /\ offset[b] <= i /\ runs[i] + (1 + (bot - b)) <= Allowed
      OBVIOUS
    <2>1. confirmed < i /\ offset[b] <= i /\ i \in Nat /\ offset[b] \in Nat
      <3>1. f < i /\ i \in Nat /\ offset[b] \in Nat
        BY <1>6, <1>7, CmdsAssumption
      <3>. QED
        BY <1>4, <1>6, <3>1
    <2>2. i > confirmed /\ i >= Offset(b)
      BY <1>6, <2>1 DEF Offset
    <2>3. MayRun(b, 1 + (bot - b))
      BY <1>1, <1>3 DEF TelegramInv, RunInv
    <2>. QED
      BY <2>1, <2>2, <2>3 DEF MayRun
  <1>15. RunOnce'
    <2>1. ASSUME NEW i \in 1 .. MaxUpdates PROVE runs'[i] <= Allowed
      <3>1. runs[i] \in Nat /\ runs[i] <= Allowed
        BY <1>6 DEF TelegramInv, RunOnce, Allowed
      <3>2. CASE i \in run
        BY <1>6, <1>11, <1>12, <1>14, <3>1, <3>2
      <3>3. CASE i \notin run
        BY <1>11, <3>1, <3>3
      <3>. QED
        BY <3>2, <3>3
    <2>2. DOMAIN runs' = 1 .. MaxUpdates
      BY <1>11
    <2>. QED
      BY <1>1, <2>1, <2>2 DEF RunOnce, Allowed
  <1>16. \A i \in 1 .. MaxUpdates : i > Len(sent) => runs'[i] = 0
    <2>1. ASSUME NEW i \in 1 .. MaxUpdates, i > Len(sent) PROVE i \notin run
      BY <1>6, <1>7, <2>1
    <2>. QED
      BY <1>11, <2>1 DEF TelegramInv, RunInv
  <1>17. ASSUME NEW i \in 1 .. MaxUpdates, i > f, i >= Offset(bot)'
         PROVE  runs'[i] + 1 <= Allowed
    <2>1. i \in Nat /\ runs[i] \in Nat
      BY <1>6, CmdsAssumption
    <2>2. CASE b = bot
      <3>1. Offset(bot)' = NextOffset(ids)
        BY <1>1, <1>5, <1>6, <2>2 DEF Offset
      <3>2. i > Len(sent)
        BY <1>6, <1>9, <1>10, <1>17, <2>1, <3>1
      <3>3. runs'[i] = 0
        BY <1>16, <3>2
      <3>. QED
        BY <1>12, <3>3, AllowedIsNat DEF TelegramInv
    <2>3. CASE b # bot
      <3>1. CASE i \in run
        BY <1>6, <1>11, <1>12, <1>14, <2>1, <2>3, <3>1
      <3>2. CASE i \notin run
        <4>1. Offset(bot)' = Offset(bot)
          BY <1>1, <1>5, <1>6, <2>3 DEF Offset
        <4>2. i > confirmed /\ i >= Offset(bot)
          BY <1>4, <1>6, <1>17, <2>1, <4>1
        <4>. QED
          BY <1>11, <3>2, <4>2 DEF TelegramInv, RunInv, MayRun
      <3>. QED
        BY <3>1, <3>2
    <2>. QED
      BY <2>2, <2>3
  <1>18. RunInv'
    <2>1. MayRun(bot, 1)'
      BY <1>5, <1>12, <1>17 DEF MayRun
    <2>. QED
      BY <1>1, <1>2, <1>16, <2>1 DEF RunInv
  <1>19. OffsetInv'
    <2>1. ASSUME NEW c \in Bots
          PROVE  offset'[c] <= Len(sent) + 1 /\ (c > bot => offset'[c] = 0)
      <3>1. CASE c = b
        BY <1>5, <1>6, <1>8, <3>1
      <3>2. CASE c # b
        BY <1>5, <1>6, <3>2 DEF TelegramInv, OffsetInv
      <3>. QED
        BY <3>1, <3>2
    <2>. QED
      BY <1>1, <2>1 DEF OffsetInv
  <1>20. TablesTypeOK'
    BY <1>1 DEF TelegramInv, TablesTypeOK, tables
  <1>. QED
    BY <1>2, <1>13, <1>15, <1>18, <1>19, <1>20 DEF TelegramInv

\* A new process has nothing to go by, but may run everything once more.
NewProcess ==
    /\ bot = 0 /\ known = NewTables /\ offset = NewOffsets /\ conn = NewFlags
    /\ thread = NewThreads /\ Len(sent) \in Nat

NewProcessInv ==
    /\ BotTypeOK /\ BotInv /\ OffsetInv
    /\ offset \in [Bots -> 0 .. MaxUpdates + 1]
    /\ thread["poll"].at = "idle"

LEMMA NewProcessIs == NewProcess => NewProcessInv
  <1>. SUFFICES ASSUME NewProcess PROVE NewProcessInv
    OBVIOUS
  <1>. USE DEF NewProcess, NewProcessInv
  <1>1. known \in Known /\ conn \in Flags
    BY DEF NewTables, NewFlags, Known, Flags
  <1>2. thread \in [Threads -> Thread] /\ \A t \in Threads : thread[t].at = "idle"
    BY IdleIsThread DEF NewThreads
  <1>3. \A b \in Bots : offset[b] = 0
    BY DEF NewOffsets
  <1>4. offset \in [Bots -> 0 .. MaxUpdates + 1]
    <2>1. 0 \in 0 .. MaxUpdates + 1
      BY CmdsAssumption
    <2>. QED
      BY <2>1 DEF NewOffsets
  <1>5. "poll" \in Threads /\ "flush" \in Threads /\ "mqtt" \in Threads
    BY DEF Threads
  <1>6. bot + Asks("poll") + Asks("flush") + Asks("mqtt") <= 3
    BY <1>2, <1>5 DEF Asks
  <1>7. ~conn.cmds
    BY DEF NewFlags
  <1>8. BotInv
    BY <1>2, <1>6, <1>7 DEF BotInv
  <1>9. BotTypeOK
    BY <1>1, <1>2 DEF BotTypeOK
  <1>10. OffsetInv
    BY <1>3 DEF OffsetInv
  <1>. QED
    BY <1>2, <1>4, <1>5, <1>8, <1>9, <1>10

LEMMA NewPendingType == NewPending \in [cmds : SUBSET Cmd, twice : BOOLEAN]
  BY CmdsAssumption DEF NewPending

LEMMA RestartInv == TelegramInv /\ Restart => TelegramInv'
  <1>. SUFFICES ASSUME TelegramInv, Restart PROVE TelegramInv'
    OBVIOUS
  <1>1. UNCHANGED <<net, sent, confirmed, runs>> /\ due' = {} /\ bot' = 0
        /\ count' = [count EXCEPT !.restarts = @ + 1]
    BY DEF Restart
  <1>2. Len(sent') \in Nat
    BY <1>1 DEF TelegramInv, UserTypeOK
  <1>3. BotTypeOK' /\ BotInv' /\ OffsetInv' /\ thread'["poll"].at = "idle"
        /\ offset' \in [Bots -> 0 .. MaxUpdates + 1]
    <2>1. NewProcess'
      BY <1>2 DEF Restart, NewProcess, NewTables, NewOffsets, NewFlags, NewThreads, Idle
    <2>2. NewProcessInv'
      BY <2>1, NewProcessIs, PTL
    <2>. QED
      BY <2>2 DEF NewProcessInv
  <1>4. UserTypeOK' /\ Allowed' = Allowed + 1
    <2>1. count \in [requests : Nat, restarts : Nat, outages : Nat, extra : Nat]
      BY DEF TelegramInv, UserTypeOK
    <2>2. /\ count' \in [requests : Nat, restarts : Nat, outages : Nat, extra : Nat]
          /\ Allowed' = Allowed + 1
      BY <1>1, <2>1 DEF Allowed
    <2>. QED
      BY <1>1, <1>3, <2>2 DEF TelegramInv, UserTypeOK
  <1>5. TablesTypeOK'
    BY NewPendingType, CmdsAssumption DEF TelegramInv, TablesTypeOK, Restart
  <1>6. \A i \in 1 .. MaxUpdates : runs[i] \in Nat /\ runs[i] <= Allowed /\ Allowed \in Nat
    BY AllowedIsNat DEF TelegramInv, UserTypeOK, RunOnce, Allowed
  <1>7. RunOnce'
    <2>1. \A i \in 1 .. MaxUpdates : runs'[i] <= Allowed'
      BY <1>1, <1>4, <1>6
    <2>2. DOMAIN runs' = 1 .. MaxUpdates
      BY <1>4 DEF UserTypeOK
    <2>. QED
      BY <2>1, <2>2 DEF RunOnce, Allowed
  <1>8. MayRun(bot, 1)'
    <2>1. \A i \in 1 .. MaxUpdates : runs'[i] + 1 <= Allowed'
      BY <1>1, <1>4, <1>6
    <2>. QED
      BY <2>1 DEF MayRun
  <1>9. RunInv'
    BY <1>1, <1>3, <1>8 DEF TelegramInv, RunInv
  <1>. QED
    BY <1>3, <1>4, <1>5, <1>7, <1>9 DEF TelegramInv

LEMMA InitInv == Init => TelegramInv
  <1>. SUFFICES ASSUME Init PROVE TelegramInv
    OBVIOUS
  <1>1. sent = <<>> /\ Len(sent) = 0 /\ confirmed = 0 /\ due = {}
        /\ runs = [i \in 1 .. MaxUpdates |-> 0]
        /\ count = [requests |-> 0, restarts |-> 0, outages |-> 0, extra |-> 0]
    BY DEF Init
  <1>2. BotTypeOK /\ BotInv /\ OffsetInv /\ thread["poll"].at = "idle"
        /\ offset \in [Bots -> 0 .. MaxUpdates + 1]
    <2>1. NewProcess
      BY <1>1 DEF Init, NewProcess
    <2>. QED
      BY <2>1, NewProcessIs DEF NewProcessInv
  <1>3. UserTypeOK
    <2>1. sent \in Seq(Cmd) /\ Len(sent) <= MaxUpdates /\ confirmed \in 0 .. Len(sent)
      BY <1>1, CmdsAssumption
    <2>2. /\ runs \in [1 .. MaxUpdates -> Nat]
          /\ count \in [requests : Nat, restarts : Nat, outages : Nat, extra : Nat]
      BY <1>1
    <2>. QED
      BY <1>1, <1>2, <2>1, <2>2 DEF UserTypeOK
  <1>4. TablesTypeOK
    BY NewPendingType, CmdsAssumption DEF Init, TablesTypeOK
  <1>5. Allowed = 1
    BY <1>1 DEF Allowed
  <1>6. RunOnce
    BY <1>1 DEF RunOnce
  <1>7. RunInv
    BY <1>1, <1>2, <1>5 DEF RunInv, MayRun
  <1>. QED
    BY <1>2, <1>3, <1>4, <1>6, <1>7 DEF TelegramInv

LEMMA NextInv == TelegramInv /\ [Next]_vars => TelegramInv'
  <1>. SUFFICES ASSUME TelegramInv, [Next]_vars PROVE TelegramInv'
    OBVIOUS
  <1>1. ASSUME NEW t \in Threads, ThreadStep(t) PROVE TelegramInv'
    BY <1>1, GetMeInv, AnswerInv DEF ThreadStep
  <1>2. CASE Polling
    BY <1>2, PollInv, UpdatesInv, PollFailsInv DEF Polling
  <1>3. CASE UNCHANGED vars
    <2>1. UNCHANGED <<bot, known, conn, thread, offset, runs, confirmed, sent, count>>
      BY <1>3 DEF vars
    <2>2. UserTypeOK' /\ TablesTypeOK' /\ Len(sent) <= Len(sent')
      BY <1>3 DEF vars, TelegramInv, UserTypeOK, TablesTypeOK
    <2>. QED
      BY <2>1, <2>2, RestInv
  <1>. QED
    BY <1>1, <1>2, <1>3, FlushInv, SendInv, RestartInv, RegisterInv, UserSendsInv, NetChangesInv
    DEF Next

-----------------------------------------------------------------------------
(* Theorems *)

\* The inductive invariant holds in every state of the bridge.
THEOREM Invariance == Spec => []TelegramInv
  BY InitInv, NextInv, PTL DEF Spec

\* The bridge keeps its types.  That is also: no thread ever works with a bot that
\* was not built, and Telegram is never made to forget an update it has not got
\* yet (pytelegrambot.py, poll_updates).
THEOREM TypeCorrect == Spec => []TypeOK
  <1>1. TelegramInv => TypeOK
    BY DEF TelegramInv, BotTypeOK, UserTypeOK, TablesTypeOK, TypeOK, Known, Flags
  <1>. QED
    BY <1>1, Invariance, PTL

\* pytelegrambot.py, poll_updates: a command that a user sent is run again only
\* after a restart, or when one of the three threads replaced the bot of another,
\* however long polls, outages and restarts fall.
THEOREM RunsAlwaysCounted == Spec => []RunOnce
  <1>1. TelegramInv => RunOnce
    BY DEF TelegramInv
  <1>. QED
    BY <1>1, Invariance, PTL

-----------------------------------------------------------------------------
(* The door service: the inductive invariants *)

\* While a stop has its lights off and has not forgotten them, no light is the
\* scene's; and a light somebody was seen to use is on.
LightsInv ==
    /\ used \subseteq lit
    /\ Locked => overlapped \/ owned = {}

SceneInv == SceneTypeOK /\ SceneHasTimer /\ ManagedIsOurs /\ LightsInv

\* A motion whose scene is being looked after has still to be counted.
Room == events - (IF handler = "motion" THEN 1 ELSE 0)

Kinds == {"press", "motion"}

Tally == [press : Nat, motion : Nat]

Stats == [count : Tally, date : Nat, moving : BOOLEAN, open : BOOLEAN]

ServiceTypeOK ==
    /\ handler \in {"none", "open", "motion"}
    /\ stats \in Stats
    /\ disk \in [count : Tally, date : Nat]
    /\ today \in Nat
    /\ resetDue \in BOOLEAN
    /\ wanted \in {"no", "now", "before"}
    /\ alive \in BOOLEAN
    /\ seen \in Tally
    /\ late \in BOOLEAN
    /\ credit \in Nat
    /\ events \in 0 .. MaxEvents

\* Whatever is counted is an event; and a photo that is asked for has not been sent.
BoundInv ==
    /\ \A kind \in Kinds : /\ stats.count[kind] <= Room
                           /\ disk.count[kind] <= Room
                           /\ seen[kind] <= Room
    /\ today <= Room
    /\ credit <= Room
    /\ wanted = "now" => credit > 0

\* A restart only believes counters of today, so that those have to be right on
\* disk; older ones mean that nothing was recorded since midnight, or too early.
CountInv ==
    /\ mqtt # "idle" => alive
    /\ stats.date <= today /\ disk.date <= today
    /\ disk.date = today =>
          \A kind \in Kinds : /\ disk.count[kind] <= seen[kind]
                              /\ disk.count[kind] = seen[kind] \/ late
    /\ disk.date < today => \A kind \in Kinds : seen[kind] = 0 \/ late
    /\ resetDue => alive /\ stats.date < today /\ disk.date < today
    /\ alive /\ ~resetDue => stats.date = today

ServiceInv == ServiceTypeOK /\ BoundInv /\ CountInv /\ CountsAreTodays

DoormanInv == SceneInv /\ ServiceInv

-----------------------------------------------------------------------------
(* The scene *)

LEMMA NewTimerIsIdle ==
    ASSUME CanArm PROVE NewTimer \in TimerIds /\ Spent(NewTimer)
  BY DEF CanArm, NewTimer

\* What the steps that are not the scene's leave alone.
SceneRests ==
    /\ UNCHANGED scene
    /\ mqtt' \in {"idle", "cancel", "done", mqtt}
    /\ mqtt = "rearm" => mqtt' = "rearm"

\* A timer is started, by a door that opens or by what petted the last one.
SceneArms ==
    /\ ArmTimer(timers)
    /\ running' \in BOOLEAN
    /\ mqtt' \in {"done", "start"}
    /\ UNCHANGED <<lit, managed, grace, used, owned, overlapped>>

SceneCrashes ==
    /\ managed' = {} /\ running' = FALSE /\ grace' = FALSE /\ timer' = 0
    /\ timers' = [t \in TimerIds |-> "gone"]
    /\ used' = lit /\ owned' = {} /\ overlapped' = FALSE /\ mqtt' = "idle"
    /\ UNCHANGED lit

LEMMA MaybeStartSteps ==
    ASSUME NEW dark \in BOOLEAN, SceneTypeOK, mqtt = "idle", MaybeStart(dark)
    PROVE  SceneRests \/ SceneArms
  <1>1. CASE ~dark \/ timer # 0
    BY <1>1 DEF MaybeStart, SceneRests
  <1>2. CASE dark /\ timer = 0
    BY <1>2 DEF MaybeStart, SceneArms
  <1>. QED
    BY <1>1, <1>2

\* What a step does to the scene.
LEMMA SceneSteps ==
    ASSUME SceneTypeOK, [DoormanNext]_doormanVars
    PROVE  \/ SceneRests \/ SceneArms \/ SceneCrashes
           \/ CancelTimer \/ StartLights
           \/ \E l \in Lights, on \in BOOLEAN : LightUpdate(l, on)
           \/ GraceEnds
           \/ \E t \in TimerIds : TimerStep(t)
  <1>1. ASSUME NEW dark \in BOOLEAN, DoorOpens(dark) PROVE SceneRests \/ SceneArms
    BY <1>1, MaybeStartSteps DEF DoorOpens, Message
  <1>2. ASSUME MotionDetected PROVE SceneRests
    BY <1>2 DEF MotionDetected, Message, MaybePet, SceneRests
  <1>3. ASSUME Recorded PROVE SceneRests
    BY <1>3 DEF Recorded, SceneRests
  <1>4. ASSUME SceneStep PROVE CancelTimer \/ SceneArms \/ StartLights
    BY <1>4 DEF SceneStep, RearmTimer, SceneArms, SceneTypeOK
  <1>5. ASSUME DoorCloses \/ MotionEnds \/ DoorbellPressed \/ DoorSnapCommand \/ SnapTimesOut
               \/ SnapReady \/ Midnight \/ NightlyReset \/ DoormanRestart \/ UNCHANGED doormanVars
        PROVE  SceneRests
    <2>1. UNCHANGED <<scene, mqtt>>
      BY <1>5 DEF DoorCloses, MotionEnds, DoorbellPressed, DoorSnapCommand, SnapTimesOut,
                  SnapReady, Midnight, NightlyReset, DoormanRestart, doormanVars
    <2>. QED
      BY <2>1 DEF SceneRests
  <1>6. ASSUME Crash PROVE SceneCrashes
    BY <1>6 DEF Crash, SceneCrashes
  <1>. QED
    BY <1>1, <1>2, <1>3, <1>4, <1>5, <1>6 DEF DoormanNext, Timers

LEMMA InitScene == DoormanInit => SceneInv
  <1>. SUFFICES ASSUME DoormanInit PROVE SceneInv
    OBVIOUS
  <1>1. 0 \in 0 .. MaxTimers
    BY DoorOpenSceneAssumption
  <1>2. SceneTypeOK
    BY <1>1 DEF DoormanInit, SceneInit, SceneTypeOK, Steps
  <1>3. ~Locked
    BY DEF DoormanInit, SceneInit, Locked
  <1>4. SceneHasTimer /\ ManagedIsOurs /\ LightsInv
    BY <1>3 DEF DoormanInit, SceneInit, SceneHasTimer, ManagedIsOurs, LightsInv
  <1>. QED
    BY <1>2, <1>4 DEF SceneInv

LEMMA SceneArmsInv ==
    ASSUME SceneInv, SceneArms PROVE SceneInv'
  <1>. DEFINE n == NewTimer
  <1>1. n \in TimerIds /\ timers[n] = "gone"
    BY NewTimerIsIdle DEF SceneArms, ArmTimer, Spent
  <1>2. timer' = n /\ timers' = [timers EXCEPT ![n] = "waits"]
    BY DEF SceneArms, ArmTimer
  <1>. HIDE DEF n
  <1>3. timers \in [TimerIds -> Steps] /\ timers' \in [TimerIds -> Steps]
    BY <1>1, <1>2 DEF SceneInv, SceneTypeOK, Steps
  <1>4. SceneTypeOK'
    BY <1>1, <1>2, <1>3, DoorOpenSceneAssumption DEF SceneInv, SceneTypeOK, SceneArms, TimerIds
  <1>5. SceneHasTimer'
    BY <1>1, <1>2, <1>3 DEF SceneHasTimer
  <1>6. Locked' => Locked
    BY <1>1, <1>2, <1>3 DEF Locked
  <1>7. ManagedIsOurs' /\ LightsInv'
    BY <1>6 DEF SceneArms, SceneInv, ManagedIsOurs, LightsInv
  <1>. QED
    BY <1>4, <1>5, <1>7 DEF SceneInv

LEMMA CancelTimerInv ==
    ASSUME SceneInv, CancelTimer PROVE SceneInv'
  <1>1. timers' \in [TimerIds -> Steps]
    BY DEF CancelTimer, SceneInv, SceneTypeOK, Steps
  <1>2. SceneTypeOK'
    BY <1>1 DEF CancelTimer, SceneInv, SceneTypeOK
  <1>3. SceneHasTimer'
    BY DEF CancelTimer, SceneInv, SceneHasTimer
  <1>4. Locked' => Locked
    BY DEF CancelTimer, SceneInv, SceneTypeOK, Locked
  <1>5. ManagedIsOurs' /\ LightsInv'
    BY <1>4 DEF CancelTimer, SceneInv, ManagedIsOurs, LightsInv
  <1>. QED
    BY <1>2, <1>3, <1>5 DEF SceneInv

LEMMA StartLightsInv ==
    ASSUME SceneInv, StartLights PROVE SceneInv'
  <1>1. SceneTypeOK' /\ SceneHasTimer'
    BY DEF StartLights, SceneInv, SceneTypeOK, SceneHasTimer, Locked
  <1>2. ManagedIsOurs'
    BY DEF StartLights, SceneInv, SceneTypeOK, ManagedIsOurs, LightsInv
  <1>3. LightsInv'
    BY DEF StartLights, SceneInv, SceneTypeOK, LightsInv, Locked
  <1>. QED
    BY <1>1, <1>2, <1>3 DEF SceneInv

LEMMA LightUpdateInv ==
    ASSUME SceneInv, NEW l \in Lights, NEW on \in BOOLEAN, LightUpdate(l, on) PROVE SceneInv'
  <1>1. UNCHANGED <<running, grace, timer, timers, mqtt, overlapped>> /\ ~Locked
    BY DEF LightUpdate
  <1>2. ~Locked'
    BY <1>1 DEF Locked
  <1>3. /\ lit' \subseteq Lights /\ managed' \subseteq managed /\ owned' \subseteq owned
        /\ used' \subseteq Lights /\ used' \subseteq lit'
    BY DEF LightUpdate, SceneInv, SceneTypeOK, LightsInv, ManagedIsOurs
  <1>4. used' \cap managed' = {}
    BY DEF LightUpdate, SceneInv, ManagedIsOurs
  <1>5. owned \subseteq managed => owned' \subseteq managed'
    BY DEF LightUpdate
  <1>6. SceneTypeOK' /\ SceneHasTimer'
    BY <1>1, <1>3 DEF SceneInv, SceneTypeOK, SceneHasTimer
  <1>7. ManagedIsOurs' /\ LightsInv'
    BY <1>1, <1>2, <1>3, <1>4, <1>5 DEF SceneInv, ManagedIsOurs, LightsInv
  <1>. QED
    BY <1>6, <1>7 DEF SceneInv

LEMMA TimerStepInv ==
    ASSUME SceneInv, NEW t \in TimerIds, TimerStep(t) PROVE SceneInv'
  <1>. USE DEF SceneInv, Becomes
  <1>1. CASE Expire(t) \/ Timeout(t)
    <2>1. \E to \in {"clears", "stops"} : /\ timers' = [timers EXCEPT ![t] = to]
                                          /\ timers[t] \in {"waits", "clears"}
      BY <1>1 DEF Expire, Timeout
    <2>2. /\ timer' \in {timer, 0}
          /\ UNCHANGED <<lit, managed, running, grace, mqtt, used, owned, overlapped>>
      BY <1>1 DEF Expire, Timeout
    <2>3. SceneTypeOK' /\ SceneHasTimer'
      BY <2>1, <2>2, DoorOpenSceneAssumption DEF SceneTypeOK, SceneHasTimer, Steps
    <2>4. Locked' => Locked
      BY <2>1 DEF SceneTypeOK, Locked
    <2>5. ManagedIsOurs' /\ LightsInv'
      BY <2>2, <2>4 DEF ManagedIsOurs, LightsInv
    <2>. QED
      BY <2>3, <2>5
  <1>2. CASE StopLights(t)
    <2>1. SceneTypeOK' /\ SceneHasTimer'
      BY <1>2 DEF StopLights, SceneTypeOK, SceneHasTimer, Steps
    <2>2. ManagedIsOurs' /\ LightsInv'
      BY <1>2 DEF StopLights, ManagedIsOurs, LightsInv
    <2>. QED
      BY <2>1, <2>2
  <1>3. CASE StopForgets(t)
    <2>1. SceneTypeOK' /\ SceneHasTimer'
      BY <1>3 DEF StopForgets, SceneTypeOK, SceneHasTimer, Steps
    <2>2. Locked
      BY <1>3 DEF StopForgets, Locked
    <2>3. ManagedIsOurs' /\ LightsInv'
      BY <1>3, <2>2 DEF StopForgets, ManagedIsOurs, LightsInv
    <2>. QED
      BY <2>1, <2>3
  <1>. QED
    BY <1>1, <1>2, <1>3 DEF TimerStep

LEMMA NextScene == SceneInv /\ [DoormanNext]_doormanVars => SceneInv'
  <1>. SUFFICES ASSUME SceneInv, [DoormanNext]_doormanVars PROVE SceneInv'
    OBVIOUS
  <1>1. CASE SceneRests
    BY <1>1 DEF SceneRests, scene, SceneInv, SceneTypeOK, SceneHasTimer, ManagedIsOurs, LightsInv,
                Locked
  <1>2. CASE SceneCrashes
    <2>1. 0 \in 0 .. MaxTimers
      BY DoorOpenSceneAssumption
    <2>2. SceneTypeOK'
      BY <1>2, <2>1 DEF SceneCrashes, SceneInv, SceneTypeOK, Steps
    <2>3. ~Locked'
      BY <1>2 DEF SceneCrashes, Locked
    <2>4. SceneHasTimer' /\ ManagedIsOurs' /\ LightsInv'
      BY <1>2, <2>3 DEF SceneCrashes, SceneHasTimer, ManagedIsOurs, LightsInv
    <2>. QED
      BY <2>2, <2>4 DEF SceneInv
  <1>3. CASE GraceEnds
    BY <1>3 DEF GraceEnds, SceneInv, SceneTypeOK, SceneHasTimer, ManagedIsOurs, LightsInv, Locked
  <1>. QED
    BY <1>1, <1>2, <1>3, SceneSteps, SceneArmsInv, CancelTimerInv, StartLightsInv, LightUpdateInv,
       TimerStepInv
    DEF SceneInv

-----------------------------------------------------------------------------
(* The counters of the day *)

\* What _save_state leaves on disk.
Saved(s) == [count |-> s.count, date |-> s.date]

Zero == [press |-> 0, motion |-> 0]

LEMMA SavedType ==
    ASSUME NEW s \in Stats
    PROVE  /\ Saved(s) \in [count : Tally, date : Nat]
           /\ Saved(s).count = s.count /\ Saved(s).date = s.date
  BY DEF Saved, Stats

LEMMA OneMore ==
    ASSUME NEW n \in Tally, NEW kind \in Kinds
    PROVE  LET m == [n EXCEPT ![kind] = @ + 1]
           IN  /\ m \in Tally
               /\ m[kind] = n[kind] + 1
               /\ \A k \in Kinds : k # kind => m[k] = n[k]
  BY DEF Tally, Kinds

\* What a step does to the counters.  A handler that is done and counts a motion
\* settles what was pending.
CountsRest ==
    /\ UNCHANGED <<disk, today, resetDue, seen, late, alive>>
    /\ stats' \in Stats /\ stats'.count = stats.count /\ stats'.date = stats.date
    /\ mqtt' # "idle" => alive

\* What is in progress changes, and is saved with the rest.
CountsSaved ==
    /\ alive
    /\ UNCHANGED <<today, resetDue, seen, late, alive>>
    /\ stats' \in Stats /\ stats'.count = stats.count /\ stats'.date = stats.date
    /\ disk' = Saved(stats')

CountsOne(kind) ==
    /\ alive
    /\ UNCHANGED <<today, resetDue, alive>>
    /\ stats' \in Stats /\ stats'.count = [stats.count EXCEPT ![kind] = @ + 1]
    /\ stats'.date = stats.date
    /\ disk' = Saved(stats')
    /\ seen' = [seen EXCEPT ![kind] = @ + 1]
    /\ late' = (late \/ resetDue)

LEMMA CountIsOne ==
    ASSUME ServiceTypeOK, alive, NEW kind \in Kinds, NEW s \in Stats,
           s.count = stats.count, s.date = stats.date, Count(kind, s),
           UNCHANGED <<today, resetDue, alive>>
    PROVE  CountsOne(kind)
  <1>. DEFINE n == [stats.count EXCEPT ![kind] = @ + 1]
  <1>1. stats' = [s EXCEPT !.count = n] /\ disk' = Saved(stats')
    BY DEF Count, Record, Save, Saved, Stats
  <1>2. n \in Tally
    BY OneMore DEF ServiceTypeOK, Stats
  <1>3. /\ seen' = [seen EXCEPT ![kind] = @ + 1]
        /\ late' = (late \/ resetDue)
    BY DEF Count
  <1>. HIDE DEF n
  <1>4. stats' \in Stats /\ stats'.count = n /\ stats'.date = stats.date
    BY <1>1, <1>2 DEF Stats
  <1>. QED
    BY <1>1, <1>3, <1>4 DEF CountsOne, n

CountsReset ==
    /\ resetDue
    /\ resetDue' = FALSE
    /\ stats' \in Stats /\ stats'.count = Zero /\ stats'.date = today
    /\ disk' = Saved(stats')
    /\ UNCHANGED <<today, seen, late, alive>>

CountsLoaded ==
    /\ ~alive /\ alive'
    /\ stats' \in Stats /\ stats'.date = today
    /\ stats'.count = (IF disk.date = today THEN disk.count ELSE Zero)
    /\ UNCHANGED <<disk, today, resetDue, seen, late>>

CountsLost ==
    /\ alive' = FALSE /\ resetDue' = FALSE /\ mqtt' = "idle"
    /\ UNCHANGED <<stats, disk, today, seen, late>>

CountsNewDay ==
    /\ ~resetDue
    /\ today' = today + 1
    /\ resetDue' = alive
    /\ seen' = Zero
    /\ late' = FALSE
    /\ UNCHANGED <<stats, disk, alive, mqtt>>

Keeps == Room' \in Int /\ Room' >= Room

Takes == Room' \in Int /\ Room' >= Room + 1

LEMMA RoomType == ServiceTypeOK => Room \in Int
  BY DoormanAssumption DEF ServiceTypeOK, Room

LEMMA StatsChange ==
    ASSUME NEW s \in Stats, NEW b \in BOOLEAN
    PROVE  /\ [s EXCEPT !.moving = b] \in Stats
           /\ [s EXCEPT !.moving = b].count = s.count
           /\ [s EXCEPT !.moving = b].date = s.date
           /\ [s EXCEPT !.open = b] \in Stats
           /\ [s EXCEPT !.open = b].count = s.count
           /\ [s EXCEPT !.open = b].date = s.date
  BY DEF Stats

LEMMA EndSteps ==
    ASSUME ServiceTypeOK, alive, NEW what \in {"moving", "open"}, Ends(what),
           UNCHANGED <<today, resetDue, seen, late, alive>>
    PROVE  CountsRest \/ CountsSaved
  <1>1. CASE ~stats[what]
    BY <1>1 DEF Ends, CountsRest, ServiceTypeOK
  <1>2. CASE stats[what]
    <2>1. stats' = [stats EXCEPT ![what] = FALSE] /\ disk' = Saved(stats')
      BY <1>2 DEF Ends, Record, Save, Saved, ServiceTypeOK, Stats
    <2>2. stats' \in Stats /\ stats'.count = stats.count /\ stats'.date = stats.date
      BY <2>1 DEF ServiceTypeOK, Stats
    <2>. QED
      BY <2>1, <2>2 DEF CountsSaved
  <1>. QED
    BY <1>1, <1>2

LEMMA RecordedSteps ==
    ASSUME ServiceTypeOK, CountInv, Recorded
    PROVE  \/ CountsSaved /\ Keeps
           \/ \E kind \in Kinds : CountsOne(kind) /\ Takes
  <1>1. alive /\ UNCHANGED <<today, resetDue, alive, events>> /\ handler' = "none"
    BY DEF Recorded, CountInv
  <1>2. CASE handler = "open"
    <2>1. /\ stats' = [stats EXCEPT !.open = TRUE] /\ disk' = Saved(stats')
          /\ UNCHANGED <<seen, late>>
      BY <1>2 DEF Recorded, Record, Save, Saved, ServiceTypeOK, Stats
    <2>2. CountsSaved
      BY <1>1, <2>1, StatsChange DEF CountsSaved, ServiceTypeOK
    <2>3. Keeps
      BY <1>1, <1>2, DoormanAssumption DEF Keeps, Room, ServiceTypeOK
    <2>. QED
      BY <2>2, <2>3
  <1>3. CASE handler = "motion"
    <2>1. Count("motion", [stats EXCEPT !.moving = TRUE])
      BY <1>3 DEF Recorded
    <2>2. CountsOne("motion")
      BY <1>1, <2>1, StatsChange, CountIsOne DEF ServiceTypeOK, Kinds
    <2>3. Takes
      BY <1>1, <1>3, DoormanAssumption DEF Takes, Room, ServiceTypeOK
    <2>. QED
      BY <2>2, <2>3 DEF Kinds
  <1>. QED
    BY <1>2, <1>3 DEF Recorded

LEMMA PressedSteps ==
    ASSUME ServiceTypeOK, CountInv, DoorbellPressed
    PROVE  \/ CountsRest /\ Keeps
           \/ \E kind \in Kinds : CountsOne(kind) /\ Takes
  <1>1. alive /\ UNCHANGED <<mqtt, today, resetDue, alive, handler>>
    BY DEF DoorbellPressed, Message, Event
  <1>2. events' = events + 1
    BY DEF DoorbellPressed, Message, Event
  <1>3. Takes /\ Keeps
    BY <1>1, <1>2, DoormanAssumption DEF Takes, Keeps, Room, ServiceTypeOK
  <1>4. CASE Count("press", stats)
    BY <1>1, <1>3, <1>4, CountIsOne DEF ServiceTypeOK, Kinds
  <1>5. CASE UNCHANGED <<stats, disk, seen, late>>
    BY <1>1, <1>3, <1>5 DEF CountsRest, ServiceTypeOK
  <1>. QED
    BY <1>4, <1>5 DEF DoorbellPressed

LEMMA MessageRoom ==
    ASSUME ServiceTypeOK, Event, handler' \in {handler, "none", "open", "motion"}
    PROVE  Keeps
  BY DoormanAssumption DEF Event, Keeps, Room, ServiceTypeOK

\* What a step does to the counters and to the room there is for events.
LEMMA CountSteps ==
    ASSUME ServiceTypeOK, CountInv, [DoormanNext]_doormanVars
    PROVE  \/ (CountsRest \/ CountsSaved \/ CountsReset \/ CountsLoaded \/ CountsLost) /\ Keeps
           \/ (\E kind \in Kinds : CountsOne(kind)) /\ Takes
           \/ CountsNewDay /\ Takes
  <1>. USE DEF CountInv
  <1>1. ASSUME NEW dark \in BOOLEAN, DoorOpens(dark) PROVE CountsRest /\ Keeps
    BY <1>1, MessageRoom DEF DoorOpens, Message, Event, CountsRest, ServiceTypeOK
  <1>2. ASSUME DoorCloses PROVE (CountsRest \/ CountsSaved) /\ Keeps
    BY <1>2, MessageRoom, EndSteps DEF DoorCloses, Message, Event
  <1>3. ASSUME MotionDetected PROVE CountsRest /\ Keeps
    BY <1>3, MessageRoom DEF MotionDetected, Message, Event, CountsRest, ServiceTypeOK
  <1>4. ASSUME SceneStep PROVE CountsRest /\ Keeps
    <2>1. mqtt # "idle"
      BY <1>4 DEF SceneStep, CancelTimer, RearmTimer, StartLights
    <2>2. CountsRest
      BY <1>4, <2>1 DEF SceneStep, CountsRest, ServiceTypeOK
    <2>3. Keeps
      BY <1>4, DoormanAssumption DEF SceneStep, Keeps, Room, ServiceTypeOK
    <2>. QED
      BY <2>2, <2>3
  <1>5. ASSUME MotionEnds PROVE (CountsRest \/ CountsSaved) /\ Keeps
    BY <1>5, MessageRoom, EndSteps DEF MotionEnds, Message, Event
  <1>6. ASSUME DoorSnapCommand \/ SnapReady PROVE CountsRest /\ Keeps
    BY <1>6, MessageRoom DEF DoorSnapCommand, SnapReady, Message, Event, CountsRest, ServiceTypeOK
  <1>7. ASSUME UNCHANGED service \/ SnapTimesOut, mqtt' = mqtt PROVE CountsRest /\ Keeps
    <2>1. UNCHANGED <<handler, stats, disk, today, resetDue, alive, seen, late, events>>
      BY <1>7 DEF service, SnapTimesOut
    <2>. QED
      BY <1>7, <2>1, RoomType DEF CountsRest, Keeps, Room, ServiceTypeOK
  <1>8. ASSUME Midnight PROVE CountsNewDay /\ Takes
    BY <1>8, DoormanAssumption
    DEF Midnight, CountsNewDay, Takes, Room, ServiceTypeOK, NoCount, Zero
  <1>9. ASSUME NightlyReset PROVE CountsReset /\ Keeps
    <2>1. stats' = [stats EXCEPT !.count = Zero, !.date = today] /\ disk' = Saved(stats')
      BY <1>9 DEF NightlyReset, Record, Save, Saved, NoCount, Zero
    <2>2. stats' \in Stats /\ stats'.count = Zero /\ stats'.date = today
      BY <2>1 DEF ServiceTypeOK, Stats, Tally, Zero
    <2>3. CountsReset
      BY <1>9, <2>1, <2>2 DEF NightlyReset, CountsReset
    <2>4. Keeps
      BY <1>9, DoormanAssumption DEF NightlyReset, Keeps, Room, ServiceTypeOK
    <2>. QED
      BY <2>3, <2>4
  <1>10. ASSUME Crash PROVE CountsLost /\ Keeps
    BY <1>10, MessageRoom DEF Crash, CountsLost
  <1>11. ASSUME DoormanRestart PROVE CountsLoaded /\ Keeps
    <2>1. stats' = [count |-> IF disk.date = today THEN disk.count ELSE Zero,
                    date |-> today, moving |-> FALSE, open |-> FALSE]
      BY <1>11 DEF DoormanRestart, NoCount, Zero
    <2>2. stats' \in Stats
      BY <2>1 DEF ServiceTypeOK, Stats, Tally, Zero
    <2>3. CountsLoaded
      BY <1>11, <2>1, <2>2 DEF DoormanRestart, CountsLoaded
    <2>4. Keeps
      BY <1>11, DoormanAssumption DEF DoormanRestart, Keeps, Room, ServiceTypeOK
    <2>. QED
      BY <2>3, <2>4
  <1>12. ASSUME NEW l \in Lights, NEW on \in BOOLEAN, LightUpdate(l, on) PROVE mqtt' = mqtt
    BY <1>12 DEF LightUpdate
  <1>13. ASSUME NEW t \in TimerIds, TimerStep(t) PROVE mqtt' = mqtt
    BY <1>13 DEF TimerStep, Expire, Timeout, StopLights, StopForgets
  <1>14. ASSUME GraceEnds PROVE mqtt' = mqtt
    BY <1>14 DEF GraceEnds
  <1>15. ASSUME SnapTimesOut PROVE mqtt' = mqtt
    BY <1>15 DEF SnapTimesOut
  <1>16. ASSUME UNCHANGED doormanVars PROVE mqtt' = mqtt /\ UNCHANGED service
    BY <1>16 DEF doormanVars, service
  <1>. QED
    BY <1>1, <1>2, <1>3, <1>4, <1>5, <1>6, <1>7, <1>8, <1>9, <1>10, <1>11, <1>12, <1>13, <1>14,
       <1>15, <1>16, RecordedSteps, PressedSteps
    DEF DoormanNext, Timers

LEMMA NextServiceType ==
    ASSUME ServiceTypeOK, CountInv, [DoormanNext]_doormanVars
    PROVE  /\ stats' \in Stats /\ disk' \in [count : Tally, date : Nat] /\ today' \in Nat
           /\ resetDue' \in BOOLEAN /\ alive' \in BOOLEAN
           /\ seen' \in Tally /\ late' \in BOOLEAN
  <1>. USE DEF ServiceTypeOK
  <1>1. CASE CountsRest \/ CountsLost
    BY <1>1 DEF CountsRest, CountsLost
  <1>2. CASE CountsSaved
    BY <1>2, SavedType DEF CountsSaved
  <1>3. ASSUME NEW kind \in Kinds, CountsOne(kind)
        PROVE  /\ stats' \in Stats /\ disk' \in [count : Tally, date : Nat] /\ today' \in Nat
               /\ resetDue' \in BOOLEAN /\ alive' \in BOOLEAN
               /\ seen' \in Tally /\ late' \in BOOLEAN
    BY <1>3, SavedType, OneMore DEF CountsOne
  <1>4. CASE CountsReset
    BY <1>4, SavedType DEF CountsReset
  <1>5. CASE CountsLoaded
    BY <1>5 DEF CountsLoaded
  <1>6. CASE CountsNewDay
    <2>1. Zero \in Tally /\ today + 1 \in Nat
      BY DEF Zero, Tally
    <2>. QED
      BY <1>6, <2>1 DEF CountsNewDay
  <1>. QED
    BY <1>1, <1>2, <1>3, <1>4, <1>5, <1>6, CountSteps

LEMMA NextCountInv ==
    ASSUME ServiceTypeOK, CountInv, CountsAreTodays, [DoormanNext]_doormanVars
    PROVE  CountInv' /\ CountsAreTodays'
  <1>. USE DEF CountInv, CountsAreTodays, Kinds
  <1>1. /\ stats.date \in Nat /\ disk.date \in Nat /\ today \in Nat
        /\ \A kind \in Kinds : /\ stats.count[kind] \in Nat /\ disk.count[kind] \in Nat
                               /\ seen[kind] \in Nat
    BY DEF ServiceTypeOK, Stats, Tally
  <1>2. CASE CountsRest \/ CountsLost
    BY <1>2 DEF CountsRest, CountsLost
  <1>3. CASE CountsSaved
    <2>1. disk'.count = stats.count /\ disk'.date = stats.date
      BY <1>3, SavedType DEF CountsSaved
    <2>. QED
      BY <1>1, <1>3, <2>1 DEF CountsSaved
  <1>4. ASSUME NEW kind \in Kinds, CountsOne(kind) PROVE CountInv' /\ CountsAreTodays'
    <2>1. /\ disk'.count = stats'.count /\ disk'.date = stats.date /\ stats'.date = stats.date
          /\ alive /\ alive' /\ today' = today /\ (resetDue' <=> resetDue)
          /\ late' <=> late \/ resetDue
      BY <1>4, SavedType DEF CountsOne
    <2>2. /\ stats'.count[kind] = stats.count[kind] + 1
          /\ \A k \in Kinds : k # kind => stats'.count[k] = stats.count[k]
      <3>1. stats.count \in Tally /\ stats'.count = [stats.count EXCEPT ![kind] = @ + 1]
        BY <1>4 DEF CountsOne, ServiceTypeOK, Stats
      <3>. HIDE DEF Kinds
      <3>. QED
        BY <3>1, OneMore
    <2>3. /\ seen'[kind] = seen[kind] + 1
          /\ \A k \in Kinds : k # kind => seen'[k] = seen[k]
      BY <1>4, OneMore DEF CountsOne, ServiceTypeOK
    <2>4. ~resetDue => \A k \in Kinds : /\ stats'.count[k] <= seen'[k]
                                        /\ stats'.count[k] = seen'[k] \/ late
      BY <1>1, <2>1, <2>2, <2>3
    <2>5. CASE resetDue
      BY <1>1, <2>1, <2>5
    <2>6. CASE ~resetDue
      BY <1>1, <2>1, <2>4, <2>6
    <2>. QED
      BY <2>5, <2>6
  <1>5. CASE CountsReset
    <2>1. disk'.count = Zero /\ disk'.date = today /\ stats'.count = Zero /\ stats'.date = today
      BY <1>5, SavedType DEF CountsReset
    <2>2. \A k \in Kinds : Zero[k] = 0
      BY DEF Zero
    <2>3. \A k \in Kinds : 0 <= seen[k] /\ (seen[k] = 0 \/ late)
      BY <1>1, <1>5 DEF CountsReset
    <2>. QED
      BY <1>1, <1>5, <2>1, <2>2, <2>3 DEF CountsReset
  <1>6. CASE CountsLoaded
    <2>1. \A k \in Kinds : Zero[k] = 0
      BY DEF Zero
    <2>2. \A k \in Kinds : /\ stats'.count[k] <= seen[k]
                           /\ stats'.count[k] = seen[k] \/ late
      <3>1. CASE disk.date = today
        BY <1>6, <3>1 DEF CountsLoaded
      <3>2. CASE disk.date < today
        BY <1>1, <1>6, <2>1, <3>2 DEF CountsLoaded
      <3>. QED
        BY <1>1, <3>1, <3>2
    <2>. QED
      BY <1>1, <1>6, <2>2 DEF CountsLoaded
  <1>7. CASE CountsNewDay
    <2>1. \A k \in Kinds : seen'[k] = 0
      BY <1>7 DEF CountsNewDay, Zero
    <2>2. today' = today + 1 /\ disk' = disk /\ stats' = stats
      BY <1>7 DEF CountsNewDay
    <2>3. disk.date < today' /\ stats.date < today' /\ disk.date # today'
      BY <1>1, <2>2
    <2>. QED
      BY <1>1, <1>7, <2>1, <2>2, <2>3 DEF CountsNewDay
  <1>. QED
    BY <1>2, <1>3, <1>4, <1>5, <1>6, <1>7, CountSteps

\* What a step does to the photos that are asked for.
LEMMA CreditSteps ==
    ASSUME ServiceTypeOK, [DoormanNext]_doormanVars
    PROVE  /\ wanted' \in {"no", "now", "before"} /\ events' \in 0 .. MaxEvents
           /\ handler' \in {"none", "open", "motion"}
           /\ \/ credit' = credit /\ wanted' \in {wanted, "no", "before"}
              \/ wanted = "now" /\ credit' = credit - 1 /\ wanted' = "no"
              \/ credit' = credit + 1 /\ Takes
  <1>. DEFINE P == /\ wanted' \in {"no", "now", "before"} /\ events' \in 0 .. MaxEvents
                   /\ handler' \in {"none", "open", "motion"}
                   /\ \/ credit' = credit /\ wanted' \in {wanted, "no", "before"}
                      \/ wanted = "now" /\ credit' = credit - 1 /\ wanted' = "no"
                      \/ credit' = credit + 1 /\ Takes
  <1>. USE DEF ServiceTypeOK
  <1>1. ASSUME events' = events + 1, events < MaxEvents PROVE events' \in 0 .. MaxEvents
    BY <1>1, DoormanAssumption
  <1>2. ASSUME NEW dark \in BOOLEAN, DoorOpens(dark) PROVE P
    BY <1>1, <1>2 DEF DoorOpens, Message, Event
  <1>3. CASE DoorCloses \/ MotionEnds \/ DoorbellPressed
    BY <1>1, <1>3 DEF DoorCloses, MotionEnds, DoorbellPressed, Message, Event
  <1>4. CASE MotionDetected
    BY <1>1, <1>4 DEF MotionDetected, Message, Event
  <1>5. CASE SceneStep \/ Recorded \/ SnapTimesOut \/ NightlyReset \/ DoormanRestart
    BY <1>5 DEF SceneStep, Recorded, SnapTimesOut, NightlyReset, DoormanRestart
  <1>6. CASE DoorSnapCommand
    <2>1. Takes
      BY <1>6, DoormanAssumption DEF DoorSnapCommand, Message, Event, Takes, Room
    <2>. QED
      BY <1>1, <1>6, <2>1 DEF DoorSnapCommand, Message, Event
  <1>7. CASE SnapReady
    BY <1>1, <1>7 DEF SnapReady, Message, Event
  <1>8. CASE Midnight
    BY <1>1, <1>8 DEF Midnight
  <1>9. CASE Crash
    BY <1>1, <1>9 DEF Crash, Event
  <1>10. CASE UNCHANGED service
    BY <1>10 DEF service
  <1>. QED
    BY <1>2, <1>3, <1>4, <1>5, <1>6, <1>7, <1>8, <1>9, <1>10 DEF DoormanNext, Timers, doormanVars, service

LEMMA NextBound ==
    ASSUME ServiceTypeOK, BoundInv, CountInv, [DoormanNext]_doormanVars
    PROVE  BoundInv'
  <1>. USE DEF BoundInv
  <1>1. /\ today \in Nat /\ credit \in Nat /\ Room \in Int
        /\ \A kind \in Kinds : /\ stats.count[kind] \in Nat /\ disk.count[kind] \in Nat
                               /\ seen[kind] \in Nat
    BY RoomType DEF ServiceTypeOK, Stats, Tally, Kinds
  <1>2. Room' \in Int /\ Room' >= Room
    BY <1>1, CountSteps DEF Keeps, Takes
  <1>3. credit' <= Room' /\ (wanted' = "now" => credit' > 0)
    BY <1>1, <1>2, CreditSteps DEF Takes
  <1>. DEFINE Fits == /\ today' <= Room'
                      /\ \A k \in Kinds : /\ stats'.count[k] <= Room'
                                          /\ disk'.count[k] <= Room'
                                          /\ seen'[k] <= Room'
  <1>4. Fits
    <2>1. \A k \in Kinds : Zero[k] = 0
      BY DEF Zero, Kinds
    <2>2. CASE CountsRest \/ CountsLost
      BY <1>1, <1>2, <2>2 DEF CountsRest, CountsLost
    <2>3. CASE CountsSaved
      BY <1>1, <1>2, <2>3, SavedType DEF CountsSaved
    <2>4. ASSUME NEW kind \in Kinds, CountsOne(kind), Takes PROVE Fits
      <3>1. \A k \in Kinds : stats'.count[k] \in {stats.count[k], stats.count[k] + 1}
        BY <2>4, OneMore DEF CountsOne, ServiceTypeOK, Stats
      <3>2. \A k \in Kinds : seen'[k] \in {seen[k], seen[k] + 1}
        BY <2>4, OneMore DEF CountsOne, ServiceTypeOK
      <3>3. disk'.count = stats'.count /\ today' = today
        BY <2>4, SavedType DEF CountsOne
      <3>. QED
        BY <1>1, <1>2, <2>4, <3>1, <3>2, <3>3 DEF Takes
    <2>5. CASE CountsReset
      BY <1>1, <1>2, <2>1, <2>5, SavedType DEF CountsReset
    <2>6. CASE CountsLoaded
      BY <1>1, <1>2, <2>1, <2>6 DEF CountsLoaded
    <2>7. CASE CountsNewDay /\ Takes
      BY <1>1, <1>2, <2>1, <2>7 DEF CountsNewDay, Takes
    <2>. QED
      BY <2>2, <2>3, <2>4, <2>5, <2>6, <2>7, CountSteps
  <1>. QED
    BY <1>3, <1>4

LEMMA InitService == DoormanInit => ServiceInv
  <1>. SUFFICES ASSUME DoormanInit PROVE ServiceInv
    OBVIOUS
  <1>1. ServiceTypeOK /\ Room = 0
    <2>1. events \in 0 .. MaxEvents /\ Room = 0
      BY DoormanAssumption DEF DoormanInit, Room
    <2>2. NoCount \in Tally
      BY DEF NoCount, Tally
    <2>. QED
      BY <2>1, <2>2 DEF DoormanInit, ServiceTypeOK, Stats
  <1>2. BoundInv /\ CountInv /\ CountsAreTodays
    BY <1>1 DEF DoormanInit, NoCount, BoundInv, CountInv, CountsAreTodays, Kinds
  <1>. QED
    BY <1>1, <1>2 DEF ServiceInv

LEMMA NextService == ServiceInv /\ [DoormanNext]_doormanVars => ServiceInv'
  <1>. SUFFICES ASSUME ServiceInv, [DoormanNext]_doormanVars PROVE ServiceInv'
    OBVIOUS
  <1>1. CountInv' /\ CountsAreTodays' /\ BoundInv'
    BY NextCountInv, NextBound DEF ServiceInv
  <1>2. credit' \in Nat
    BY CreditSteps DEF ServiceInv, ServiceTypeOK, BoundInv
  <1>. QED
    BY <1>1, <1>2, NextServiceType, CreditSteps DEF ServiceInv, ServiceTypeOK

-----------------------------------------------------------------------------
(* Theorems *)

THEOREM DoormanInvariance == DoormanSpec => []DoormanInv
  <1>1. DoormanInit => DoormanInv
    BY InitScene, InitService DEF DoormanInv
  <1>2. DoormanInv /\ [DoormanNext]_doormanVars => DoormanInv'
    BY NextScene, NextService DEF DoormanInv
  <1>. QED
    BY <1>1, <1>2, PTL DEF DoormanSpec

\* The service keeps its types.  That is also "First snap to arrive will be sent,
\* others will be ignored": it never sends more photos than it was asked for.
THEOREM DoormanTypeCorrect == DoormanSpec => []DoormanTypeOK
  <1>1. DoormanInv => DoormanTypeOK
    <2>. SUFFICES ASSUME DoormanInv PROVE DoormanTypeOK
      OBVIOUS
    <2>1. Room <= events /\ Room \in Int /\ events \in 0 .. MaxEvents
      BY DoormanAssumption DEF DoormanInv, ServiceInv, ServiceTypeOK, Room
    <2>. QED
      BY <2>1, DoormanAssumption
      DEF DoormanInv, SceneInv, ServiceInv, ServiceTypeOK, BoundInv, CountInv, DoormanTypeOK, Stats,
          Tally, Counts, Counter, Kinds
  <1>. QED
    BY <1>1, DoormanInvariance, PTL

\* door_open_scene.py: the scene never runs without a thread that will end it,
\* whatever doors, motions and timers do meanwhile.
THEOREM SceneAlwaysHasTimer == DoormanSpec => []SceneHasTimer
  <1>1. DoormanInv => SceneHasTimer
    BY DEF DoormanInv, SceneInv
  <1>. QED
    BY <1>1, DoormanInvariance, PTL

\* door_open_scene.py, _light_received_mqtt_update, "it will stop being managed": the
\* scene manages no light somebody else was seen to use, and forgets none of its own
\* unless a start ran into a stop.
THEOREM ManagedAlwaysOurs == DoormanSpec => []ManagedIsOurs
  <1>1. DoormanInv => ManagedIsOurs
    BY DEF DoormanInv, SceneInv
  <1>. QED
    BY <1>1, DoormanInvariance, PTL

\* door_stats.py, _load_state: the counters never include an event of another day
\* and miss none of this one, whenever the process crashes and starts again.
THEOREM CountsAlwaysTodays == DoormanSpec => []CountsAreTodays
  <1>1. DoormanInv => CountsAreTodays
    BY DEF DoormanInv, ServiceInv
  <1>. QED
    BY <1>1, DoormanInvariance, PTL

=============================================================================
