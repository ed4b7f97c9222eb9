----------------------------- MODULE ReolinkHost -----------------------------
(***************************************************************************)
(* The session of the camera service with one camera: the class Host of    *)
(* reolink_aio (api.py) as reolink.py uses it.  It logs in when it has to, *)
(* sends commands, and keeps a subscription to motion events; a command    *)
(* that fails may log in again, drop the subscription, or be retried.      *)
(*                                                                         *)
(* All of it runs on one asyncio loop.  A coroutine is a stack of frames,  *)
(* one per function that has not returned; it runs alone until it waits,   *)
(* for a lock or for the camera, and only there others may run.  The       *)
(* camera is no NVR, and only webhooks ("push") are used.                  *)
(***************************************************************************)
EXTENDS Naturals, Sequences, FiniteSets, SequencesExt

CONSTANTS
    Retries,      \* RETRY_ATTEMPTS; 3 in the code
    MaxIds,       \* bound: sessions, and subscriptions, that exist at a time
    MaxIncidents  \* bound: faults of camera or network, and snapshots and polls

ASSUME HostAssumption ==
    /\ Retries \in Nat \ {0}
    /\ MaxIds \in Nat \ {0}
    /\ MaxIncidents \in Nat

VARIABLES
    stack,        \* the frames of each coroutine, innermost last
    ret,          \* what the function that returned just now returned
    turn,         \* the coroutine that runs, or Nobody, or Stopped
    sendq,        \* _send_mutex: who holds it, then who waits
    loginq,       \* _login_mutex
    open,         \* _aiohttp_session is open
    cut,          \* coroutines whose connection was closed under them
    token,        \* _token; 0 is None
    lease,        \* _lease_time: "none", "fresh" for 300 s or more, or "old"
    port,         \* _port is not None
    manager,      \* _subscription_manager_url; 0 is none
    term,         \* renewtimer(): "fresh" (over 100 s), "low", "over" or "none"
    suburl,       \* _subscribe_url is not None
    sessions,     \* the sessions the camera knows
    subs,         \* the subscriptions it holds
    conn,         \* of ReolinkDoorbell: "connecting", "failed", "up", "leaving", "left"
    astray,       \* history: a session or subscription whose start or end the
                  \* camera and the service do not agree on, for a lost answer
    crossed,      \* history: an unsubscribe and another change of the
                  \* subscription overtook each other
    incidents

exec    == <<stack, ret, turn>>
locks   == <<sendq, loginq>>
aio     == <<open, cut>>
session == <<token, lease>>
events  == <<manager, term>>
camera  == <<sessions, subs>>
vars == <<exec, locks, aio, session, port, events, suburl, camera, conn,
          astray, crossed, incidents>>

\* "main" connects and disconnects, "check" is _check_cam_subscription, "snap"
\* the thread of a webhook or a request, and "poll" that of a watchdog.
Coroutines == {"main", "check", "snap", "poll"}
Nobody  == "nobody"
Stopped == "stopped"

Ids == 1 .. MaxIds

\* A List is one request with several commands.
Commands == {"List", "NetPort", "Enc", "Snap", "Poll", "Login", "Logout"}
Events   == {"subscribe", "renew", "unsubscribe"}

-----------------------------------------------------------------------------
(* Coroutines *)

Frame(fn) == [fn |-> fn, at |-> "start", cmd |-> "none", retry |-> 0, id |-> 0,
              then |-> "none"]

Busy(c) == stack[c] # <<>>
Top(c)  == Last(stack[c])
frame   == Top(turn)

\* The coroutine that runs is at this place of this function.
At(fn, place) ==
    turn \in Coroutines /\ Busy(turn) /\ frame.fn = fn /\ frame.at = place

\* The function it called has returned, with one of these results.
Back(fn, place, kinds) == At(fn, place) /\ ret.kind \in kinds

Ok     == {"ok"}
Broken == {"payload", "closed"}   \* ClientPayloadError, RuntimeError: no ReolinkError
Failed == {"error", "api", "timeout", "lost", "creds", "unsupported", "subscription"}

NoResult == [kind |-> "none", id |-> 0]

Waits(c, f) ==
    /\ stack' = [stack EXCEPT ![c] = Append(Front(@), f)]
    /\ turn' = Nobody
    /\ ret' = NoResult

Goto(f) ==
    /\ stack' = [stack EXCEPT ![turn] = Append(Front(@), f)]
    /\ ret' = NoResult
    /\ UNCHANGED turn

CallThen(place, next, callee) ==
    /\ stack' = [stack EXCEPT ![turn] =
                    Front(@) \o <<[frame EXCEPT !.at = place, !.then = next], callee>>]
    /\ ret' = NoResult
    /\ UNCHANGED turn

Call(place, callee) == CallThen(place, frame.then, callee)

\* Coroutine c leaves its innermost function, and runs on; when there is no
\* outer one it has ended.
Leave(c, kind, id) ==
    /\ stack' = [stack EXCEPT ![c] = Front(@)]
    /\ IF Len(stack[c]) = 1
       THEN turn' = Nobody /\ ret' = NoResult
       ELSE turn' = c /\ ret' = [kind |-> kind, id |-> id]

Return(kind, id) == Leave(turn, kind, id)

PassOn == Return(ret.kind, ret.id)

-----------------------------------------------------------------------------
(* One request: the lock, the post, and the body of the answer *)

\* "async with mutex".
Post(cmd, id) ==
    LET f == [Frame("post") EXCEPT !.cmd = cmd, !.id = id]
    IN  /\ stack' = [stack EXCEPT ![turn] = Front(@) \o
                <<[frame EXCEPT !.at = "posted"],
                  [f EXCEPT !.at = IF sendq = <<>> THEN "sent" ELSE "queued",
                            !.then = cmd]>>]
        /\ sendq' = Append(sendq, turn)
        /\ turn' = Nobody
        /\ ret' = NoResult

\* All requests about events share templates.HEADERS, which is read when one is
\* posted: it holds the action of the last to have joined the queue.
Label == LET queued == SelectSeq(sendq, LAMBDA c : Top(c).cmd \in Events)
         IN  IF queued = <<>> THEN "none" ELSE Top(Last(queued)).cmd

\* The lock is free again.  Meanwhile the session may have been closed.
PostQueued(c) ==
    /\ turn = Nobody
    /\ sendq # <<>> /\ Head(sendq) = c /\ Top(c).at = "queued"
    /\ IF open
       THEN /\ Waits(c, [Top(c) EXCEPT !.at = "sent", !.then = Label])
            /\ UNCHANGED sendq
       ELSE /\ Leave(c, "closed", 0)
            /\ sendq' = Tail(sendq)
    /\ UNCHANGED <<loginq, aio, session, port, events, suburl, camera, conn,
                   astray, crossed, incidents>>

\* Ids that some frame still holds are not given again.
Held == {f.id : f \in UNION {Range(stack[c]) : c \in Coroutines}}

\* The least one that is not in use, as long as there is one.
NewId(used) == LET unused == Ids \ (used \cup Held)
               IN  {i \in unused : \A j \in unused : i <= j}

\* What a request does to the camera, and what it then answers.
Refused(f) ==
    \/ f.cmd \in Commands \ {"Login", "Logout"} /\ f.id \notin sessions
    \/ f.cmd \in {"renew", "unsubscribe"} /\ f.id \notin subs

Mislabelled(f) == f.cmd \in Events /\ f.then # f.cmd

Served(f, id) ==
    /\ sessions' = CASE f.cmd = "Login"  -> sessions \cup {id}
                     [] f.cmd = "Logout" -> sessions \ {f.id}
                     [] OTHER            -> sessions
    /\ subs' = CASE f.cmd = "subscribe"   -> subs \cup {id}
                 [] f.cmd = "unsubscribe" -> subs \ {f.id}
                 [] OTHER                 -> subs

Creates(f) == f.cmd \in {"Login", "subscribe"}
Ends(f)    == f.cmd \in {"Logout", "unsubscribe"}

Given(f) == IF f.cmd = "Login" THEN NewId(sessions \cup {token})
            ELSE IF f.cmd = "subscribe" THEN NewId(subs \cup {manager})
            ELSE {0}

\* Answers that are no use, by the command they answer: gateway is a 502, bad any
\* other status or content type, garbled no JSON, null a JSON null, fewer a list
\* that is too short, empty an image of no bytes, none a login without a token.
Unhelpful(cmd) ==
    {"bad"}
    \cup (IF cmd \in Commands THEN {"gateway"} ELSE {"unsupported"})
    \cup (IF cmd \in {"List", "NetPort", "Enc", "Poll", "Login"} THEN {"garbled", "null"} ELSE {})
    \cup (IF cmd = "List" THEN {"fewer"} ELSE {})
    \cup (IF cmd = "Snap" THEN {"empty"} ELSE {})
    \cup (IF cmd = "Login" THEN {"none", "creds"} ELSE {})

Happens == incidents < MaxIncidents /\ incidents' = incidents + 1

\* The lock is released when the headers are there, and the body is read after
\* that.  Only around changes of the subscription does this make a difference.
Answer(c, kind, id) ==
    /\ sendq' = Tail(sendq)
    /\ IF Top(c).cmd \in Events
       THEN /\ Waits(c, [Top(c) EXCEPT !.at = "answered", !.then = kind, !.id = id])
            /\ UNCHANGED cut
       ELSE /\ Leave(c, kind, id)
            /\ cut' = cut \ {c}

\* The camera answers, or does not.  A request with the action of another one in
\* its header is served or refused.
Respond(c) ==
    LET f == Top(c)
    IN  /\ turn = Nobody
        /\ sendq # <<>> /\ Head(sendq) = c /\ f.at = "sent"
        /\ \/ /\ c \notin cut /\ ~Refused(f)
              /\ \E id \in Given(f) : Served(f, id) /\ Answer(c, "ok", id)
              /\ UNCHANGED <<astray, incidents>>
           \/ /\ c \notin cut
              /\ Refused(f) \/ Mislabelled(f)
              /\ Answer(c, IF f.cmd \in Commands THEN "denied" ELSE "bad", 0)
              /\ astray' = (astray \/ (Ends(f) /\ ~Refused(f)))
              /\ UNCHANGED <<camera, incidents>>
           \/ /\ c \notin cut /\ ~Refused(f)
              /\ Happens
              /\ \E kind \in Unhelpful(f.cmd) : Answer(c, kind, 0)
              /\ astray' = (astray \/ Ends(f))
              /\ UNCHANGED camera
           \/ /\ f.cmd \in {"subscribe", "renew"} /\ c \notin cut /\ ~Refused(f)
              /\ Happens
              /\ \E id \in Given(f) : Served(f, id) /\ Answer(c, "odd", id)
              /\ UNCHANGED astray
           \/ /\ IF c \in cut THEN UNCHANGED incidents ELSE Happens
              /\ \E kind \in {"lost", "timeout"} : Answer(c, kind, 0)
              /\ \/ /\ UNCHANGED camera
                    /\ astray' = (astray \/ Ends(f))
                 \/ /\ ~Refused(f)
                    /\ \E id \in Given(f) : Served(f, id)
                    /\ astray' = (astray \/ Creates(f))
    /\ UNCHANGED <<loginq, open, session, port, events, suburl, conn, crossed>>

\* The body has been read; a connection that was closed cuts it short.
PostAnswered(c) ==
    /\ turn = Nobody
    /\ Busy(c) /\ Top(c).fn = "post" /\ Top(c).at = "answered"
    /\ \/ /\ Leave(c, Top(c).then, Top(c).id)
          /\ UNCHANGED astray
       \/ /\ c \in cut
          /\ Leave(c, "payload", 0)
          /\ astray' = (astray \/ Top(c).id # 0)
    /\ cut' = cut \ {c}
    /\ UNCHANGED <<locks, open, session, port, events, suburl, camera, conn,
                   crossed, incidents>>

-----------------------------------------------------------------------------
(* Sending a command: send and send_chunk *)

Send(cmd, retry) == [Frame("send") EXCEPT !.cmd = cmd, !.retry = retry]

Expire(unsub) ==
    [Frame("expire") EXCEPT !.then = IF unsub THEN "unsubscribe" ELSE "none"]

Exhausted == frame.retry <= 1

OnlyExec == UNCHANGED <<locks, aio, session, port, events, suburl, camera,
                        conn, astray, crossed, incidents>>

LoggedIn == token # 0 /\ lease = "fresh"

\* All but the login itself wait for one, before the try; with a token that is
\* good for a while it returns at once.
SendStart ==
    /\ At("send", "start") \/ Back("send", "login", Ok)
    /\ IF frame.at = "start" /\ frame.cmd \notin {"Login", "Logout"} /\ ~LoggedIn
       THEN /\ Call("login", Frame("login"))
            /\ UNCHANGED <<sendq, open>>
       ELSE /\ Post(frame.cmd, token)
            /\ open' = TRUE
    /\ UNCHANGED <<loginq, cut, session, port, events, suburl, camera, conn,
                   astray, crossed, incidents>>

SendNoLogin ==
    /\ Back("send", "login", Broken \cup Failed)
    /\ PassOn
    /\ OnlyExec

Again == Goto([frame EXCEPT !.at = "start", !.retry = @ - 1])

\* The except clauses.  What the connection did is retried, even when an inner
\* attempt reports it; anything else expires the session, and unsubscribes
\* unless the camera answered with an error or a type of its own.
Handle(kind) ==
    IF /\ ~Exhausted
       /\ kind \in {"lost", "timeout", "payload"} \/ (kind = "closed" /\ ~open)
    THEN Again
    ELSE CallThen("handled", IF kind \in {"lost", "payload"} THEN "error" ELSE kind,
                  Expire(kind # "api"))

\* Inside the try: expire the session, then try again or fail.
Clean(next, unsub) == CallThen("cleaned", next, Expire(unsub))

SendPosted ==
    /\ Back("send", "posted", STRING)
    /\ CASE ret.kind \in {"ok", "empty", "none"} -> PassOn
         [] ret.kind = "denied"  -> IF Exhausted THEN Handle("creds") ELSE Clean("again", TRUE)
         [] ret.kind = "gateway" -> IF Exhausted THEN Handle("api") ELSE Clean("again", TRUE)
         [] ret.kind = "garbled" -> IF Exhausted THEN Handle("api") ELSE Clean("again", FALSE)
         [] ret.kind = "bad"     -> Handle("api")
         [] ret.kind = "null"    -> Clean("fail", FALSE)
         [] ret.kind = "fewer"   -> IF Exhausted THEN Handle("error")
                                    ELSE IF frame.retry = 2
                                    THEN Call("apart", Send("NetPort", 2))
                                    ELSE Clean("again", FALSE)
         [] OTHER                -> Handle(ret.kind)
    /\ OnlyExec

SendCleaned ==
    /\ Back("send", "cleaned", STRING)
    /\ IF ret.kind # "ok" THEN Handle(ret.kind)
       ELSE IF frame.then = "fail" THEN Handle("error")
       ELSE Call("again", Send(frame.cmd, frame.retry - 1))
    /\ OnlyExec

\* The attempt inside the try, or the commands of a list sent one by one.
SendAgain ==
    /\ Back("send", "again", STRING) \/ Back("send", "apart", STRING)
    /\ IF ret.kind \in {"ok", "empty", "none"} THEN PassOn
       ELSE Handle(IF frame.at = "apart" /\ ret.kind \notin Broken THEN "error" ELSE ret.kind)
    /\ OnlyExec

SendHandled ==
    /\ Back("send", "handled", STRING)
    /\ IF ret.kind = "ok" THEN Return(frame.then, 0) ELSE PassOn
    /\ OnlyExec

-----------------------------------------------------------------------------
(* Logging in and out *)

Acquire ==
    /\ loginq' = Append(loginq, turn)
    /\ IF loginq = <<>>
       THEN Goto([frame EXCEPT !.at = "locked"])
       ELSE Waits(turn, [frame EXCEPT !.at = "waits"])

Release == loginq' = Tail(loginq)

OnlyLogin == UNCHANGED <<sendq, aio, events, suburl, camera, conn, astray,
                         crossed, incidents>>

LoginStart ==
    /\ At("login", "start")
    /\ IF ~port
       THEN /\ port' = TRUE
            /\ Call("https", Frame("login"))
            /\ UNCHANGED loginq
       ELSE Acquire /\ UNCHANGED port
    /\ UNCHANGED session
    /\ OnlyLogin

\* _login_try_ports: the Host stays on port 80 after a login that failed on 443.
LoginTriesPorts ==
    /\ Back("login", "https", STRING)
    /\ IF ret.kind = "error"
       THEN Call("http", Frame("login")) ELSE PassOn
    /\ UNCHANGED <<loginq, session, port>>
    /\ OnlyLogin

LoginTried ==
    /\ Back("login", "http", STRING)
    /\ PassOn
    /\ UNCHANGED <<loginq, session, port>>
    /\ OnlyLogin

\* _login_mutex comes to the next in its queue.
Locks(c) ==
    /\ turn = Nobody
    /\ loginq # <<>> /\ Head(loginq) = c /\ Top(c).at = "waits"
    /\ stack' = [stack EXCEPT ![c] = Append(Front(@), [Last(@) EXCEPT !.at = "locked"])]
    /\ turn' = c
    /\ UNCHANGED <<ret, loginq, session, port>>
    /\ OnlyLogin

LoginLockedAtOnce ==
    /\ At("login", "locked")
    /\ IF LoggedIn
       THEN Return("ok", 0) /\ Release
       ELSE Call("in", Send("Login", Retries)) /\ UNCHANGED loginq
    /\ UNCHANGED <<session, port>>
    /\ OnlyLogin

\* Another coroutine may have logged in meanwhile; otherwise the old session is
\* ended before a new one is asked for.
LoginLocked ==
    /\ At("login", "locked")
    /\ IF LoggedIn
       THEN Return("ok", 0) /\ Release
       ELSE /\ IF token # 0 THEN Call("out", Send("Logout", Retries))
                            ELSE Call("in", Send("Login", Retries))
            /\ UNCHANGED loginq
    /\ UNCHANGED <<session, port>>
    /\ OnlyLogin

ClearToken == token' = 0 /\ lease' = "none"

\* logout(login_mutex_owned=True): whatever the camera says the token is gone.
LoginLoggedOut ==
    /\ Back("login", "out", STRING)
    /\ IF ret.kind \in Broken
       THEN PassOn /\ Release /\ UNCHANGED session
       ELSE Call("in", Send("Login", Retries)) /\ ClearToken /\ UNCHANGED loginq
    /\ UNCHANGED port
    /\ OnlyLogin

LoginLoggedIn ==
    /\ Back("login", "in", STRING)
    /\ Release
    /\ CASE ret.kind = "ok"   -> /\ token' = ret.id /\ lease' = "fresh"
                                 /\ Return("ok", 0)
         [] ret.kind = "none" -> ClearToken /\ Return("error", 0)
         [] OTHER             -> /\ UNCHANGED session
                                 /\ Return(IF ret.kind = "api" THEN "error" ELSE ret.kind, 0)
    /\ UNCHANGED port
    /\ OnlyLogin

\* Closing the session cuts the connections of the requests in flight.
InFlight(c) == Busy(c) /\ Top(c).fn = "post" /\ Top(c).at \in {"sent", "answered"}

Close ==
    /\ open' = FALSE
    /\ cut' = cut \cup {c \in Coroutines : InFlight(c)}

OnlyLogout == UNCHANGED <<sendq, port, events, suburl, camera, conn, astray,
                          crossed, incidents>>

\* logout, as disconnect and the recovery of the subscription call it.
LogoutStart ==
    /\ At("logout", "start")
    /\ Acquire
    /\ UNCHANGED <<aio, session>>
    /\ OnlyLogout

LogoutLocked ==
    /\ At("logout", "locked")
    /\ token # 0
    /\ Call("out", Send("Logout", Retries))
    /\ UNCHANGED <<loginq, aio, session>>
    /\ OnlyLogout

LogoutDone ==
    /\ Back("logout", "out", STRING) \/ (At("logout", "locked") /\ token = 0)
    /\ Release
    /\ IF frame.at = "out" /\ ret.kind \in Broken
       THEN PassOn /\ UNCHANGED <<aio, session>>
       ELSE Return("ok", 0) /\ ClearToken /\ Close
    /\ OnlyLogout

\* expire_session
ExpireStart ==
    /\ At("expire", "start")
    /\ lease' = IF lease = "none" THEN "none" ELSE "old"
    /\ IF frame.then = "unsubscribe"
       THEN Call("unsubscribed", Frame("unsubscribe")) /\ UNCHANGED aio
       ELSE Return("ok", 0) /\ Close
    /\ UNCHANGED <<token, loginq>>
    /\ OnlyLogout

ExpireDone ==
    /\ Back("expire", "unsubscribed", STRING)
    /\ IF ret.kind \in Broken THEN UNCHANGED aio ELSE Close
    /\ PassOn
    /\ UNCHANGED <<session, loginq>>
    /\ OnlyLogout

-----------------------------------------------------------------------------
(* The subscription to events *)

Subscribed == manager # 0 /\ term \in {"fresh", "low"}

OnlySubSend == UNCHANGED <<session, port, camera, conn, incidents>>

OnlyEvents == UNCHANGED <<locks, session, port, camera, conn, incidents>>

SubSend(cmd, id) == [Frame("subsend") EXCEPT !.cmd = cmd, !.id = id]

\* subscription_send; the first one may have to ask for the port.
SubSendStart ==
    /\ At("subsend", "start")
    /\ IF suburl
       THEN Post(frame.cmd, frame.id) /\ open' = TRUE
       ELSE Call("asked", Send("NetPort", Retries)) /\ UNCHANGED <<sendq, open>>
    /\ UNCHANGED <<loginq, cut, events, suburl, astray, crossed>>
    /\ OnlySubSend

SubSendAsked ==
    /\ Back("subsend", "asked", STRING)
    /\ IF ret.kind # "ok"
       THEN PassOn /\ UNCHANGED <<suburl, sendq, open>>
       ELSE /\ suburl' \in BOOLEAN
            /\ IF suburl'
               THEN Post(frame.cmd, frame.id) /\ open' = TRUE
               ELSE Return("unsupported", 0) /\ UNCHANGED <<sendq, open>>
    /\ UNCHANGED <<loginq, cut, events, astray, crossed>>
    /\ OnlySubSend

SubSendPosted ==
    /\ Back("subsend", "posted", STRING)
    /\ IF ret.kind = "bad" THEN Return("api", 0)
       ELSE IF ret.kind = "lost" THEN Return("error", 0) ELSE PassOn
    /\ OnlyExec

UnsubscribeAnyway ==
    /\ At("unsubscribe", "start")
    /\ stack' = [stack EXCEPT ![turn] = Front(@) \o
          <<[frame EXCEPT !.at = "sent", !.id = manager], SubSend("unsubscribe", manager)>>]
    /\ ret' = NoResult
    /\ UNCHANGED <<turn, term, aio, manager, suburl, astray, crossed>>
    /\ OnlyEvents

\* unsubscribe: what the service remembers is dropped after the camera has answered,
\* whatever it said.
UnsubscribeStart ==
    /\ At("unsubscribe", "start")
    /\ IF manager = 0
       THEN /\ Return("ok", 0)
            /\ term' = "none"
       ELSE /\ stack' = [stack EXCEPT ![turn] = Front(@) \o
                  <<[frame EXCEPT !.at = "sent", !.id = manager],
                    SubSend("unsubscribe", manager)>>]
            /\ ret' = NoResult
            /\ UNCHANGED <<turn, term>>
    /\ UNCHANGED <<aio, manager, suburl, astray, crossed>>
    /\ OnlyEvents

Forget == manager' = 0 /\ term' = "none"

UnsubscribeSent ==
    /\ Back("unsubscribe", "sent", STRING)
    /\ IF ret.kind \in Broken
       THEN PassOn /\ UNCHANGED <<events, crossed>>
       ELSE /\ Return("ok", 0)
            /\ Forget
            /\ crossed' = (crossed \/ manager \notin {0, frame.id})
    /\ UNCHANGED <<aio, suburl, astray>>
    /\ OnlyEvents

\* subscribe; retry is 1 in the second attempt.
SubscribeStart ==
    /\ At("subscribe", "start")
    /\ Call("sent", SubSend("subscribe", 0))
    /\ UNCHANGED <<aio, events, suburl, astray, crossed>>
    /\ OnlyEvents

UndoSubscribe ==
    IF frame.retry = 0
    THEN Call("undone", Frame("unsubscribe"))
    ELSE Return("subscription", 0)

\* An answer may miss the address of the subscription, or its times: the service
\* knows the subscription in the second case only.
SubscribeSent ==
    /\ Back("subscribe", "sent", STRING)
    /\ CASE ret.kind = "ok" ->
              /\ Return("ok", 0)
              /\ manager' = ret.id /\ term' = "fresh"
              /\ UNCHANGED astray
         [] ret.kind = "odd" ->
              /\ UndoSubscribe
              /\ manager' \in {manager, ret.id}
              /\ astray' = (astray \/ manager' = manager)
              /\ UNCHANGED term
         [] ret.kind \in Failed \ {"unsupported"} ->
              UndoSubscribe /\ UNCHANGED <<events, astray>>
         [] OTHER -> PassOn /\ UNCHANGED <<events, astray>>
    /\ UNCHANGED <<aio, suburl, crossed>>
    /\ OnlyEvents

SubscribeUndone ==
    /\ Back("subscribe", "undone", STRING)
    /\ IF ret.kind = "ok" THEN Goto([frame EXCEPT !.at = "start", !.retry = 1]) ELSE PassOn
    /\ OnlyExec

\* renew
RenewStart ==
    /\ At("renew", "start")
    /\ IF Subscribed
       THEN /\ stack' = [stack EXCEPT ![turn] = Front(@) \o
                  <<[frame EXCEPT !.at = "sent", !.id = manager], SubSend("renew", manager)>>]
            /\ ret' = NoResult
            /\ UNCHANGED turn
       ELSE Return("subscription", 0)
    /\ UNCHANGED <<aio, events, suburl, astray, crossed>>
    /\ OnlyEvents

RenewSentAnyhow ==
    /\ Back("renew", "sent", STRING)
    /\ IF ret.kind \in Broken THEN PassOn /\ UNCHANGED term
                              ELSE Return("ok", 0) /\ term' = "fresh"
    /\ UNCHANGED <<aio, manager, suburl, astray, crossed>>
    /\ OnlyEvents

RenewSent ==
    /\ Back("renew", "sent", STRING)
    /\ CASE ret.kind = "ok" ->
              /\ Return("ok", 0)
              /\ term' = "fresh"
              /\ crossed' = (crossed \/ manager # frame.id)
         [] ret.kind \in Broken -> PassOn /\ UNCHANGED <<term, crossed>>
         [] OTHER -> Call("undone", Frame("unsubscribe")) /\ UNCHANGED <<term, crossed>>
    /\ UNCHANGED <<aio, manager, suburl, astray>>
    /\ OnlyEvents

RenewUndone ==
    /\ Back("renew", "undone", STRING)
    /\ IF ret.kind = "ok" THEN Return("subscription", 0) ELSE PassOn
    /\ OnlyExec

-----------------------------------------------------------------------------
(* What reolink.py asks for *)

\* A coroutine is handed to the loop, and runs.
Begin(c, fn) ==
    /\ turn = Nobody
    /\ ~Busy(c)
    /\ stack' = [stack EXCEPT ![c] = <<Frame(fn)>>]
    /\ turn' = c
    /\ UNCHANGED ret

End == Return("ok", 0)

OnlyConn == UNCHANGED <<locks, aio, session, port, events, camera, astray,
                        crossed, incidents>>

\* Asks for something in one list, and passes on whatever went wrong; what the camera
\* sent may also be nothing that can be made sense of.
Asks(fn, cmd) ==
    \/ At(fn, "start") /\ Call("sent", Send(cmd, Retries))
    \/ Back(fn, "sent", Ok) /\ (End \/ Return("error", 0))
    \/ Back(fn, "sent", Broken \cup Failed) /\ PassOn

\* get_host_data asks for the data of the host, and then of its channel.  The camera
\* may give an error for GetNetPort, and no port for events.
HostData ==
    /\ \/ At("data", "start") /\ Call("host", Send("List", Retries)) /\ UNCHANGED suburl
       \/ /\ Back("data", "host", Ok)
          /\ Call("channels", Send("List", Retries)) \/ Return("error", 0)
          /\ suburl' \in BOOLEAN
       \/ /\ Back("data", "channels", Ok)
          /\ End \/ Return("error", 0)
          /\ UNCHANGED suburl
       \/ /\ \E place \in {"host", "channels"} : Back("data", place, Broken \cup Failed)
          /\ PassOn
          /\ UNCHANGED suburl
    /\ UNCHANGED conn
    /\ OnlyConn

GetStates == Asks("states", "List") /\ OnlyExec

\* get_state, of "GetEnc".
GetState == Asks("state", "Enc") /\ OnlyExec

\* _check_rtsp_url, of one address after another: the first is as good as any if none
\* answers; what is no RTSPError is not caught.
CheckUrls == End \/ Return("payload", 0)

\* get_rtsp_stream_source; the encoding may be known from the lists.
RtspSource ==
    /\ \/ At("rtsp", "start") /\ (Call("asked", Frame("state")) \/ CheckUrls)
       \/ Back("rtsp", "asked", Ok \cup Failed) /\ CheckUrls
       \/ Back("rtsp", "asked", Broken) /\ PassOn
    /\ OnlyExec

\* _connect_to_cam: learn all about the camera, and subscribe anew.
Connecting ==
    /\ \/ At("connect", "start") /\ Call("data", Frame("data")) /\ UNCHANGED conn
       \/ Back("connect", "data", Ok) /\ Call("states", Frame("states")) /\ UNCHANGED conn
       \/ Back("connect", "states", Ok) /\ Call("cleaned", Frame("unsubscribe")) /\ UNCHANGED conn
       \/ Back("connect", "cleaned", Ok) /\ Call("subscribed", Frame("subscribe")) /\ UNCHANGED conn
       \/ Back("connect", "subscribed", Ok) /\ Call("offered", Frame("rtsp")) /\ UNCHANGED conn
       \/ Back("connect", "offered", Ok) /\ End /\ conn' = "up"
    /\ UNCHANGED suburl
    /\ OnlyConn

ConnectFails ==
    /\ \E place \in {"data", "states", "cleaned", "subscribed", "offered"} :
          Back("connect", place, Broken \cup Failed)
    /\ End
    /\ conn' = "failed"
    /\ UNCHANGED suburl
    /\ OnlyConn

\* The job _check_cam_subscription, while there is less than 100 s left.
CheckStart ==
    /\ conn = "up"
    /\ term # "fresh"
    /\ Begin("check", "check")
    /\ OnlyExec

\* _renew_async: renew, or subscribe anew; what neither SubscriptionError nor
\* RuntimeError describes ends it.
Checking ==
    /\ \/ At("check", "start") /\ Call("renewed", Frame("renew"))
       \/ /\ Back("check", "renewed", {"subscription", "closed"})
          /\ Call("dropped", Frame("unsubscribe"))
       \/ Back("check", "dropped", Ok) /\ Call("subscribed", Frame("subscribe"))
       \/ /\ \/ Back("check", "dropped", {"closed"})
             \/ Back("check", "subscribed", {"subscription", "closed"})
          /\ Call("cleaned", Frame("unsubscribe"))
       \/ Back("check", "cleaned", Ok) /\ Call("gone", Frame("logout"))
       \/ Back("check", "renewed", {"ok", "payload"}) /\ End
       \/ Back("check", "dropped", {"payload"}) /\ End
       \/ Back("check", "subscribed", {"ok", "unsupported", "payload"}) /\ End
    /\ OnlyExec

\* _reconnect, on the loop, waits for a coroutine that only this loop could run.
CheckStops ==
    /\ Back("check", "cleaned", Broken) \/ Back("check", "gone", STRING)
    /\ turn' = Stopped
    /\ UNCHANGED <<stack, ret>>
    /\ OnlyExec

\* get_snapshot and get_ai_state_all_ch.  An empty picture expires the session.
RequestStart(c, fn) ==
    /\ conn = "up"
    /\ Happens
    /\ Begin(c, fn)
    /\ UNCHANGED <<locks, aio, session, port, events, suburl, camera, conn,
                   astray, crossed>>

Snapping ==
    /\ \/ At("snap", "start") /\ Call("sent", Send("Snap", Retries))
       \/ Back("snap", "sent", {"empty"}) /\ Call("expired", Expire(FALSE))
       \/ Back("snap", "sent", STRING \ {"empty"}) /\ End
       \/ Back("snap", "expired", STRING) /\ End
    /\ OnlyExec

Polling ==
    /\ \/ At("poll", "start") /\ Call("sent", Send("Poll", Retries))
       \/ Back("poll", "sent", STRING) /\ End
    /\ OnlyExec

\* disconnect removes the job of the check and then waits for _async_deinit.
Disconnect ==
    /\ conn = "up"
    /\ Begin("main", "deinit")
    /\ conn' = "leaving"
    /\ UNCHANGED suburl
    /\ OnlyConn

Disconnecting ==
    /\ \/ At("deinit", "start") /\ Call("dropped", Frame("unsubscribe")) /\ UNCHANGED conn
       \/ Back("deinit", "dropped", Ok) /\ Call("gone", Frame("logout")) /\ UNCHANGED conn
       \/ Back("deinit", "dropped", Broken) /\ End /\ UNCHANGED conn
       \/ Back("deinit", "gone", Ok) /\ End /\ conn' = "left"
       \/ Back("deinit", "gone", Broken) /\ End /\ UNCHANGED conn
    /\ UNCHANGED suburl
    /\ OnlyConn

\* Then the loop stops, with whatever it has not finished.
LoopStops ==
    /\ conn = "left"
    /\ turn = Nobody
    /\ turn' = Stopped
    /\ UNCHANGED <<stack, ret>>
    /\ OnlyExec

-----------------------------------------------------------------------------
(* Time, and the camera *)

OnlyTime == UNCHANGED <<exec, locks, aio, port, manager, suburl, conn, astray,
                        crossed>>

\* Leases are long: requests that are sent before one ends and those after it are
\* kept apart by the order in which coroutines begin, not by when the lease ends.
Quiet == turn = Nobody /\ \A c \in Coroutines : ~Busy(c)

LeaseEnds ==
    /\ Quiet
    /\ lease = "fresh"
    /\ lease' = "old"
    /\ UNCHANGED <<token, term, camera, incidents>>
    /\ OnlyTime

TermPasses ==
    /\ Quiet
    /\ term \in {"fresh", "low"}
    /\ term' = IF term = "fresh" THEN "low" ELSE "over"
    /\ UNCHANGED <<session, camera, incidents>>
    /\ OnlyTime

\* What nobody renews ends by itself.
CameraForgets ==
    /\ Quiet
    /\ sessions' = sessions \cap {token}
    /\ subs' = IF term = "over" THEN {} ELSE subs \cap {manager}
    /\ camera' # camera
    /\ UNCHANGED <<session, term, incidents>>
    /\ OnlyTime

\* The camera restarts, and knows nothing.
CameraRestarts ==
    /\ turn = Nobody
    /\ Happens
    /\ sessions' = {}
    /\ subs' = {}
    /\ UNCHANGED <<session, term>>
    /\ OnlyTime

-----------------------------------------------------------------------------

Init ==
    /\ stack = [c \in Coroutines |-> IF c = "main" THEN <<Frame("connect")>> ELSE <<>>]
    /\ ret = NoResult
    /\ turn = "main"
    /\ sendq = <<>> /\ loginq = <<>>
    /\ open = TRUE /\ cut = {}
    /\ token = 0 /\ lease = "none" /\ port = FALSE
    /\ manager = 0 /\ term = "none"
    /\ suburl = FALSE
    /\ sessions = {} /\ subs = {}
    /\ conn = "connecting"
    /\ astray = FALSE /\ crossed = FALSE
    /\ incidents = 0

\* The steps of the coroutine that runs.
Run ==
    \/ SendStart \/ SendNoLogin \/ SendPosted \/ SendCleaned \/ SendAgain \/ SendHandled
    \/ LoginStart \/ LoginTriesPorts \/ LoginTried \/ LoginLocked \/ LoginLoggedOut
    \/ LoginLoggedIn
    \/ LogoutStart \/ LogoutLocked \/ LogoutDone
    \/ ExpireStart \/ ExpireDone
    \/ SubSendStart \/ SubSendAsked \/ SubSendPosted
    \/ UnsubscribeStart \/ UnsubscribeSent
    \/ SubscribeStart \/ SubscribeSent \/ SubscribeUndone
    \/ RenewStart \/ RenewSent \/ RenewUndone
    \/ HostData \/ GetStates \/ GetState \/ RtspSource \/ Connecting \/ ConnectFails
    \/ Checking \/ CheckStops \/ Snapping \/ Polling \/ Disconnecting

\* What wakes one that waits.
Wake(c) == PostQueued(c) \/ Respond(c) \/ PostAnswered(c) \/ Locks(c)

Next ==
    \/ Run
    \/ \E c \in Coroutines : Wake(c)
    \/ CheckStart
    \/ RequestStart("snap", "snap")
    \/ RequestStart("poll", "poll")
    \/ Disconnect
    \/ LoopStops
    \/ LeaseEnds \/ TermPasses \/ CameraForgets \/ CameraRestarts

\* The loop runs what can run, each request is answered or times out, the scheduler
\* runs its job, and time passes.
Fairness ==
    /\ WF_vars(Run)
    /\ \A c \in Coroutines : WF_vars(Wake(c))
    /\ WF_vars(CheckStart)
    /\ WF_vars(TermPasses)

Spec == Init /\ [][Next]_vars /\ Fairness

-----------------------------------------------------------------------------
(* Properties *)

Kinds == {"ok", "none", "empty", "odd", "denied", "gateway", "bad", "garbled", "null",
          "fewer"} \cup Broken \cup Failed

\* The state, and: no coroutine is twice in the queue of a lock, which it would wait
\* for as long as it holds it, although logging in needs the lock that logging out
\* needs too, and a failed request, inside a login or not, sends others.
TypeOK ==
    /\ \A c \in Coroutines : \A f \in Range(stack[c]) :
          f.cmd \in Commands \cup Events \cup {"none"} /\ f.retry \in 0 .. Retries
    /\ ret.kind \in Kinds
    /\ turn \in Coroutines \cup {Nobody, Stopped}
    /\ \A q \in {sendq, loginq} : Range(q) \subseteq Coroutines /\ IsInjective(q)
    /\ cut \subseteq Coroutines
    /\ token \in {0} \cup Ids /\ lease \in {"none", "fresh", "old"}
    /\ token = 0 <=> lease = "none"
    /\ manager \in {0} \cup Ids /\ term \in {"none", "fresh", "low", "over"}
    /\ sessions \subseteq Ids /\ subs \subseteq Ids

\* The camera allows few sessions and calls every subscriber: whatever fails, is
\* retried or overlaps, it holds no session and no subscription but the ones the
\* service knows of, once nobody is at work.  The exceptions: the camera's answer
\* got lost, or an unsubscribe dropped a newer subscription than it meant.
NoneLeftBehind ==
    Quiet /\ ~astray =>
        /\ sessions \subseteq {token}
        /\ crossed \/ subs \subseteq {manager}

\* Once connected the service does not stay without events for good, whatever the
\* order of failures, renewals and unsubscribes: in the end a check finds out.
EventsComeBack ==
    []<>((manager \in subs) \/ turn = Stopped \/ conn # "up")

=============================================================================
