-------------------------- MODULE ReolinkHost_proofs --------------------------
(***************************************************************************)
(* What the session with a camera guarantees for any number of retries,    *)
(* answers and faults, and any coroutines of the service: none of the      *)
(* camera's sessions and subscriptions is left behind.                     *)
(***************************************************************************)
EXTENDS ReolinkHost, SequenceTheorems, TLAPS

-----------------------------------------------------------------------------
(* The inductive invariant *)

\* A coroutine is a stack of frames.  What the camera holds is known from where the frames
\* are: which of them waits for a token or a subscription, and which is about to end one.

\* The functions that have frames.
Functions == {"connect", "data", "states", "state", "rtsp", "check", "snap", "poll", "deinit",
              "renew", "subscribe", "unsubscribe", "subsend", "expire", "logout", "login",
              "send", "post"}

\* Answers that come with what was asked for.
Results == {"ok", "odd"}

\* f waits for a call of fn, with this command.
Calls(f, fn, cmd) ==
    \/ fn = "post" /\ f.fn \in {"send", "subsend"} /\ f.at = "posted" /\ cmd = f.cmd
    \/ /\ fn = "send"
       /\ \/ f.fn = "send" /\ f.at = "again" /\ cmd = f.cmd
          \/ f.fn = "send" /\ f.at = "apart" /\ cmd = "NetPort"
          \/ f.fn = "subsend" /\ f.at = "asked" /\ cmd = "NetPort"
          \/ f.fn = "login" /\ f.at = "in" /\ cmd = "Login"
          \/ f.fn \in {"login", "logout"} /\ f.at = "out" /\ cmd = "Logout"
          \/ f.fn = "data" /\ f.at \in {"host", "channels"} /\ cmd = "List"
          \/ f.fn = "states" /\ f.at = "sent" /\ cmd = "List"
          \/ f.fn = "state" /\ f.at = "sent" /\ cmd = "Enc"
          \/ f.fn = "snap" /\ f.at = "sent" /\ cmd = "Snap"
          \/ f.fn = "poll" /\ f.at = "sent" /\ cmd = "Poll"
    \/ /\ fn = "subsend" /\ cmd = f.fn
       /\ f.fn \in Events /\ f.at = "sent"
    \/ /\ cmd = "none"
       /\ \/ fn = "login" /\ f.fn = "send" /\ f.at = "login"
          \/ fn = "login" /\ f.fn = "login" /\ f.at \in {"https", "http"}
          \/ fn = "expire" /\ f.fn = "send" /\ f.at \in {"cleaned", "handled"}
          \/ fn = "expire" /\ f.fn = "snap" /\ f.at = "expired"
          \/ fn = "unsubscribe" /\ f.fn = "expire" /\ f.at = "unsubscribed"
          \/ fn = "unsubscribe" /\ f.fn \in {"subscribe", "renew"} /\ f.at = "undone"
          \/ fn = "unsubscribe" /\ f.fn = "connect" /\ f.at = "cleaned"
          \/ fn = "unsubscribe" /\ f.fn = "check" /\ f.at \in {"dropped", "cleaned"}
          \/ fn = "unsubscribe" /\ f.fn = "deinit" /\ f.at = "dropped"
          \/ fn = "subscribe" /\ f.fn \in {"connect", "check"} /\ f.at = "subscribed"
          \/ fn = "renew" /\ f.fn = "check" /\ f.at = "renewed"
          \/ fn = "logout" /\ f.fn \in {"check", "deinit"} /\ f.at = "gone"
          \/ fn = "data" /\ f.fn = "connect" /\ f.at = "data"
          \/ fn = "states" /\ f.fn = "connect" /\ f.at = "states"
          \/ fn = "rtsp" /\ f.fn = "connect" /\ f.at = "offered"
          \/ fn = "state" /\ f.fn = "rtsp" /\ f.at = "asked"

\* What c may begin with.
Root(c) == CASE c = "main" -> {"connect", "deinit"} [] OTHER -> {c}

\* f holds _login_mutex
Holds(f) == \/ f.fn = "login" /\ f.at \in {"locked", "in", "out"}
            \/ f.fn = "logout" /\ f.at \in {"locked", "out"}

\* f is in the queue of _login_mutex, at its head or further down.
Queues(f) == Holds(f) \/ (f.fn \in {"login", "logout"} /\ f.at = "waits")

\* What a function that holds it leads to.
Inside(f) ==
    \/ f.fn = "send" /\ f.cmd \in {"Login", "Logout"} /\ f.at \notin {"login", "apart"}
    \/ f.fn \in {"post", "expire", "unsubscribe"}
    \/ f.fn = "subsend" /\ f.cmd = "unsubscribe"

IsFrame(f) ==
    /\ f = [fn |-> f.fn, at |-> f.at, cmd |-> f.cmd, retry |-> f.retry, id |-> f.id,
            then |-> f.then]
    /\ f.fn \in Functions
    /\ f.cmd \in Commands \cup Events \cup {"none"}
    /\ f.retry \in 0 .. Retries
    /\ f.id \in {0} \cup Ids

\* Only one coroutine at a time subscribes: the one that connects, or the check later.
Subscriber(c) == (c = "main" /\ conn = "connecting") \/ (c = "check" /\ conn # "connecting")

\* The camera has ended the session of the token, or its answer to that got lost.
Gone == astray \/ token \notin sessions

\* What is true of a frame of c
Local(c, f) ==
    /\ f.fn = "post" => f.at \in {"queued", "sent", "answered"}
    /\ f.at = "waits" => f.fn \in {"login", "logout"}
    /\ f.at \in {"queued", "answered"} => f.fn = "post"
    /\ f.fn = "send" => f.cmd \in Commands
    /\ f.fn = "subsend" => f.cmd \in Events
    /\ f.fn \notin {"send", "subsend", "post"} => f.cmd = "none"
    /\ f.fn \in {"connect", "data"} => c = "main" /\ conn = "connecting"
    /\ f.fn = "check" => c = "check"
    /\ f.fn = "deinit" => c = "main" /\ conn # "connecting"
    /\ f.fn = "subscribe" \/ f.cmd = "subscribe" => Subscriber(c)
    /\ f.fn = "subscribe" /\ f.at \in {"start", "sent"} => manager = 0
    /\ f.fn = "connect" /\ f.at \in {"start", "data"} => manager = 0
    /\ f.fn = "connect" /\ f.at = "offered" => suburl
    /\ f.fn = "subsend" /\ f.at = "asked" =>
          f.cmd = "subscribe" /\ conn = "connecting" /\ ~suburl
    /\ f.fn = "subsend" /\ f.cmd # "subscribe" => suburl
    /\ f.fn = "subsend" /\ f.at = "posted" => suburl
    /\ f.fn = "send" /\ f.at = "handled" => f.then \in Kinds \ {"ok", "odd"}
    /\ f.fn = "send" /\ f.at = "cleaned" => f.then = "fail" \/ f.retry >= 2
    /\ f.fn = "post" /\ f.at = "answered" => f.then \in Kinds
    /\ f.fn = "login" /\ f.at = "in" => token = 0
    /\ f.fn = "send" /\ f.cmd = "Logout" =>
          /\ f.at \in {"again", "cleaned", "apart"} => Gone
          /\ f.at = "handled" => Gone \/ f.then \in Broken
    /\ f.fn = "post" /\ f.cmd = "Logout" => f.id = token
    /\ f.fn = "post" /\ f.at = "answered" =>
          /\ f.cmd \in Events
          /\ f.cmd = "subscribe" /\ f.then \in Results => f.id \in Ids

\* About a whole stack
Nested(s) ==
    /\ \A i \in 1 .. Len(s) - 1 : Calls(s[i], s[i+1].fn, s[i+1].cmd)
    /\ \A i, j \in 1 .. Len(s) : i < j =>
          /\ Holds(s[i]) => Inside(s[j])
          /\ s[i].fn = "unsubscribe" =>
                /\ s[j].fn \in {"subsend", "post"} /\ s[j].cmd = "unsubscribe"
                /\ s[j].id = s[i].id \/ s[j].at = "answered"
    /\ \A j \in 1 .. Len(s) : s[j].cmd \in {"Login", "Logout"} =>
          \E i \in 1 .. j - 1 : Holds(s[i]) /\ s[i].at = (IF s[j].cmd = "Login" THEN "in" ELSE "out")

IsStack(s) == s \in Seq(Range(s))

Shape(c, s) ==
    /\ IsStack(s)
    /\ \A i \in 1 .. Len(s) : IsFrame(s[i])
    /\ s # <<>> => s[1].fn \in Root(c)
    /\ Nested(s)

\* Each stack begins with what its coroutine is for, and nests as the functions call each
\* other.
StackInv ==
    /\ stack = [c \in Coroutines |-> stack[c]]
    /\ \A c \in Coroutines : Shape(c, stack[c])

\* Each frame has found what it relies on.
LocalInv == \A c \in Coroutines : \A i \in 1 .. Len(stack[c]) : Local(c, stack[c][i])

\* What is known when fn, for this command, has returned r.
Result(fn, cmd, r) ==
    /\ cmd \in Commands => r.kind # "odd"
    /\ cmd = "Logout" => r.kind \in Broken \/ Gone
    /\ cmd = "Login" /\ r.kind = "ok" => r.id \in Ids
    /\ fn \in {"expire", "unsubscribe"} => r.kind \in {"ok"} \cup Broken
    /\ fn = "unsubscribe" /\ r.kind = "ok" => manager = 0
    /\ cmd = "subscribe" /\ r.kind \in Results => r.id \in Ids /\ suburl
    /\ fn = "subscribe" /\ r.kind = "ok" => suburl
    /\ fn = "post" /\ cmd \in {"Login", "Logout"} => r.kind # "fewer"
    /\ fn = "post" /\ cmd = "Logout" => r.kind = "closed" \/ Gone

\* The coroutine that runs waits for a result with an id.
AwaitsLogin(f) == \E fn \in {"post", "send"} : Calls(f, fn, "Login")
AwaitsSub(f)   == \E fn \in {"post", "subsend"} : Calls(f, fn, "subscribe")

\* The coroutine that runs has got what it waited for.
RetInv ==
    /\ turn \in Coroutines \cup {Nobody, Stopped}
    /\ ret.kind \in Kinds /\ ret.id \in {0} \cup Ids
    /\ turn \in Coroutines =>
         /\ Busy(turn)
         /\ \A fn \in Functions, cmd \in Commands \cup Events \cup {"none"} :
               Calls(frame, fn, cmd) => Result(fn, cmd, ret)

\* c is in the queue of _send_mutex.
Posts(c) == Busy(c) /\ Top(c).fn = "post" /\ Top(c).at \in {"queued", "sent"}

Queueing(c) == \E i \in 1 .. Len(stack[c]) : Queues(stack[c][i])
Holding(c)  == \E i \in 1 .. Len(stack[c]) : Holds(stack[c][i])

\* Who queues for a lock is in its queue, once, and the head of _login_mutex holds it.
LockInv ==
    /\ \A q \in {sendq, loginq} : q \in Seq(Coroutines) /\ IsInjective(q)
    /\ \A c \in Coroutines :
          /\ c \in Range(sendq) <=> Posts(c)
          /\ c \in Range(loginq) <=> Queueing(c)
          /\ Holding(c) => Head(loginq) = c

\* The types of the rest.
Rest ==
    /\ cut \subseteq Coroutines
    /\ token \in {0} \cup Ids /\ lease \in {"none", "fresh", "old"}
    /\ token = 0 <=> lease = "none"
    /\ manager \in {0} \cup Ids /\ term \in {"none", "fresh", "low", "over"}
    /\ sessions \subseteq Ids /\ subs \subseteq Ids
    /\ suburl \in BOOLEAN

\* A token has come, and the login that asked for it has still to store it.
Arrived(s) == turn \in Coroutines /\ ret.kind = "ok" /\ ret.id = s /\ AwaitsLogin(frame)

\* The camera holds no session but that of the token and one that is on its way.
SessionInv == astray \/ \A s \in sessions : s = token \/ Arrived(s)

\* The camera has granted c the subscription s, and the body of the answer is to be read.
Answered(c, s) ==
    /\ Busy(c) /\ Top(c).fn = "post" /\ Top(c).at = "answered" /\ Top(c).cmd = "subscribe"
    /\ Top(c).then \in Results /\ Top(c).id = s

Coming(s) ==
    \/ \E c \in Coroutines : Answered(c, s)
    \/ turn \in Coroutines /\ ret.kind \in Results /\ ret.id = s /\ AwaitsSub(frame)

\* The unsubscribe of c has not reached the camera, or fails without an answer.
Pending(c) ==
    \/ Top(c).fn = "subsend" /\ Top(c).at = "start"
    \/ Top(c).fn = "post" /\ Top(c).at \in {"queued", "sent"}
    \/ turn = c /\ ret.kind \in Broken

\* The camera holds no subscription but the one the service knows and one on its way,
\* unless an unsubscribe overtook another change.
SubInv == astray \/ crossed \/ \A s \in subs : s = manager \/ Coming(s)

Dropping(f, s) == f.fn = "unsubscribe" /\ f.at = "sent" /\ f.id = s

Drops(c, s) == \E i \in 1 .. Len(stack[c]) : Dropping(stack[c][i], s)

\* A subscription that some unsubscribe has asked to drop is gone when the answer is there.
UnsubInv == astray \/ \A c \in Coroutines, s \in subs : Drops(c, s) => Pending(c)

\* The address of events is known once connected, and nobody is busy before.
ConnInv ==
    /\ manager # 0 => suburl
    /\ conn \notin {"connecting", "failed"} => suburl
    /\ conn = "connecting" => \A c \in Coroutines \ {"main"} : ~Busy(c)
    /\ conn = "failed" => \A c \in Coroutines : ~Busy(c)

HostInv ==
    /\ StackInv /\ LocalInv /\ RetInv /\ LockInv
    /\ Rest /\ SessionInv /\ SubInv /\ UnsubInv /\ ConnInv

-----------------------------------------------------------------------------
(* Sequences, and the shape of a stack *)

LEMMA StackIs ==
    ASSUME NEW S, NEW s \in Seq(S)
    PROVE  IsStack(s)
  <1>1. /\ Len(s) \in Nat
        /\ s = [i \in 1 .. Len(s) |-> s[i]]
        /\ DOMAIN s = 1 .. Len(s)
    OBVIOUS
  <1>2. \A i \in 1 .. Len(s) : s[i] \in Range(s)
    BY <1>1 DEF Range
  <1>. QED
    BY <1>1, <1>2 DEF IsStack

LEMMA FrontIs ==
    ASSUME NEW S, NEW s \in Seq(S), s # <<>>
    PROVE  /\ Len(s) \in Nat \ {0}
           /\ Front(s) \in Seq(S)
           /\ Len(Front(s)) = Len(s) - 1
           /\ \A i \in 1 .. Len(s) - 1 : Front(s)[i] = s[i]
  <1>1. Len(s) \in Nat \ {0}
    BY EmptySeq
  <1>2. \A i \in 1 .. Len(s) - 1 : s[i] \in S
    BY <1>1, ElementOfSeq
  <1>. DEFINE n == Len(s) - 1
  <1>3. n \in Nat /\ 1 \in Int /\ n \in Int /\ (\A i \in 1 .. n : s[i] \in S)
    BY <1>1, <1>2
  <1>. HIDE DEF n
  <1>4. /\ SubSeq(s, 1, n) \in Seq(S)
        /\ Len(SubSeq(s, 1, n)) = IF 1 <= n THEN n - 1 + 1 ELSE 0
        /\ \A i \in 1 .. n - 1 + 1 : SubSeq(s, 1, n)[i] = s[1 + i - 1]
    BY <1>3, SubSeqProperties
  <1>5. /\ Len(SubSeq(s, 1, n)) = n
        /\ \A i \in 1 .. n : SubSeq(s, 1, n)[i] = s[i]
    BY <1>3, <1>4
  <1>. QED
    BY <1>1, <1>4, <1>5 DEF Front, n

\* The stack when its innermost frame is replaced, calls another, or returns.
LEMMA ReplaceTop ==
    ASSUME NEW s, IsStack(s), s # <<>>, NEW f
    PROVE  LET t == Append(Front(s), f)
           IN  /\ IsStack(t) /\ t # <<>>
               /\ Len(s) \in Nat \ {0}
               /\ Len(t) = Len(s)
               /\ t[Len(s)] = f
               /\ \A i \in 1 .. Len(s) - 1 : t[i] = s[i]
  <1>. DEFINE S == Range(s) \cup {f}
              t == Append(Front(s), f)
  <1>1. s \in Seq(S) /\ Len(s) \in Nat \ {0}
    BY EmptySeq DEF IsStack
  <1>2. /\ Front(s) \in Seq(S)
        /\ Len(Front(s)) = Len(s) - 1
        /\ \A i \in 1 .. Len(s) - 1 : Front(s)[i] = s[i]
    BY <1>1, FrontIs
  <1>3. /\ t \in Seq(S)
        /\ Len(t) = Len(s)
        /\ t[Len(s)] = f
        /\ \A i \in 1 .. Len(s) - 1 : t[i] = s[i]
    BY <1>1, <1>2
  <1>. QED
    BY <1>1, <1>3, StackIs

LEMMA PushTop ==
    ASSUME NEW s, IsStack(s), s # <<>>, NEW f, NEW g
    PROVE  LET t == Front(s) \o <<f, g>>
           IN  /\ IsStack(t) /\ t # <<>>
               /\ Len(s) \in Nat \ {0}
               /\ Len(t) = Len(s) + 1
               /\ t[Len(s)] = f
               /\ t[Len(s) + 1] = g
               /\ \A i \in 1 .. Len(s) - 1 : t[i] = s[i]
  <1>. DEFINE S == Range(s) \cup {f, g}
              t == Front(s) \o <<f, g>>
  <1>1. s \in Seq(S) /\ Len(s) \in Nat \ {0}
    BY EmptySeq DEF IsStack
  <1>2. /\ Front(s) \in Seq(S)
        /\ Len(Front(s)) = Len(s) - 1
        /\ \A i \in 1 .. Len(s) - 1 : Front(s)[i] = s[i]
    BY <1>1, FrontIs
  <1>4. <<f, g>> \in Seq(S) /\ Len(<<f, g>>) = 2 /\ <<f, g>>[1] = f /\ <<f, g>>[2] = g
    OBVIOUS
  <1>3. /\ t \in Seq(S)
        /\ Len(t) = Len(s) + 1
        /\ t[Len(s)] = f
        /\ t[Len(s) + 1] = g
        /\ \A i \in 1 .. Len(s) - 1 : t[i] = s[i]
    BY <1>1, <1>2, <1>4
  <1>5. t # <<>>
    BY <1>1, <1>3
  <1>6. IsStack(t)
    BY <1>3, StackIs
  <1>. QED
    BY <1>1, <1>3, <1>5, <1>6

LEMMA PopTop ==
    ASSUME NEW s, IsStack(s), s # <<>>
    PROVE  LET t == Front(s)
           IN  /\ IsStack(t)
               /\ Len(s) \in Nat \ {0}
               /\ Len(t) = Len(s) - 1
               /\ t = <<>> <=> Len(s) = 1
               /\ \A i \in 1 .. Len(s) - 1 : t[i] = s[i]
  <1>1. s \in Seq(Range(s)) /\ Len(s) \in Nat \ {0}
    BY EmptySeq DEF IsStack
  <1>2. /\ Front(s) \in Seq(Range(s))
        /\ Len(Front(s)) = Len(s) - 1
        /\ \A i \in 1 .. Len(s) - 1 : Front(s)[i] = s[i]
    BY <1>1, FrontIs
  <1>. QED
    BY <1>1, <1>2, StackIs

\* All three keep its shape.
LEMMA ShapeReplace ==
    ASSUME NEW c, NEW s, Shape(c, s), s # <<>>, NEW f, IsFrame(f),
           f.fn = Last(s).fn, f.cmd = Last(s).cmd,
           f.id = Last(s).id \/ f.at = "answered" \/ Last(s).fn \notin {"subsend", "post"},
           Last(s).at # "answered",
           Inside(Last(s)) => Inside(f)
    PROVE  Shape(c, Append(Front(s), f))
  <1>. DEFINE t == Append(Front(s), f)
              n == Len(s)
  <1>1. /\ IsStack(t) /\ t # <<>>
        /\ n \in Nat \ {0} /\ Len(t) = n
        /\ t[n] = f
        /\ \A i \in 1 .. n - 1 : t[i] = s[i]
    BY ReplaceTop DEF Shape
  <1>. HIDE DEF t, n
  <1>2. /\ f.fn = s[n].fn /\ f.cmd = s[n].cmd
        /\ f.id = s[n].id \/ f.at = "answered" \/ s[n].fn \notin {"subsend", "post"}
        /\ s[n].at # "answered"
        /\ Inside(s[n]) => Inside(f)
    BY DEF n, Last
  <1>3. \A i \in 1 .. n : IsFrame(t[i]) /\ t[i].fn = s[i].fn /\ t[i].cmd = s[i].cmd
    BY <1>1, <1>2 DEF Shape, n
  <1>4. t[1].fn \in Root(c)
    BY <1>1, <1>3 DEF Shape
  <1>5. \A i \in 1 .. n - 1 : Calls(t[i], t[i+1].fn, t[i+1].cmd)
    BY <1>1, <1>3 DEF Shape, Nested, n
  <1>6. ASSUME NEW i \in 1 .. n, NEW j \in 1 .. n, i < j
        PROVE  /\ Holds(t[i]) => Inside(t[j])
               /\ t[i].fn = "unsubscribe" =>
                     /\ t[j].fn \in {"subsend", "post"} /\ t[j].cmd = "unsubscribe"
                     /\ t[j].id = t[i].id \/ t[j].at = "answered"
    <2>1. /\ Holds(s[i]) => Inside(s[j])
          /\ s[i].fn = "unsubscribe" =>
                /\ s[j].fn \in {"subsend", "post"} /\ s[j].cmd = "unsubscribe"
                /\ s[j].id = s[i].id \/ s[j].at = "answered"
      BY <1>6 DEF Shape, Nested, n
    <2>2. t[i] = s[i]
      BY <1>1, <1>6
    <2>3. CASE j = n
      <3>1. t[j] = f
        BY <2>3, <1>1
      <3>. QED
        BY <2>1, <2>2, <2>3, <3>1, <1>2
    <2>4. CASE j # n
      BY <2>1, <2>2, <2>4, <1>1
    <2>. QED
      BY <2>3, <2>4
  <1>7. ASSUME NEW j \in 1 .. n, t[j].cmd \in {"Login", "Logout"}
        PROVE  \E i \in 1 .. j - 1 :
                  Holds(t[i]) /\ t[i].at = (IF t[j].cmd = "Login" THEN "in" ELSE "out")
    <2>1. PICK i \in 1 .. j - 1 :
                  Holds(s[i]) /\ s[i].at = (IF s[j].cmd = "Login" THEN "in" ELSE "out")
      BY <1>3, <1>7 DEF Shape, Nested, n
    <2>. QED
      BY <2>1, <1>1, <1>3
  <1>8. Nested(t)
    BY <1>1, <1>5, <1>6, <1>7 DEF Nested
  <1>. QED
    BY <1>1, <1>3, <1>4, <1>8 DEF Shape, t

LEMMA ShapePush ==
    ASSUME NEW c, NEW s, Shape(c, s), s # <<>>,
           NEW f, IsFrame(f), NEW g, IsFrame(g),
           f.fn = Last(s).fn, f.cmd = Last(s).cmd,
           f.id = Last(s).id \/ Last(s).fn \notin {"subsend", "post"},
           Last(s).at # "answered",
           Calls(f, g.fn, g.cmd),
           Inside(Last(s)) => Inside(f) /\ Inside(g),
           Holds(f) => Inside(g),
           f.fn = "unsubscribe" => g.fn = "subsend" /\ g.cmd = "unsubscribe" /\ g.id = f.id,
           f.fn = "subsend" /\ f.cmd = "unsubscribe" =>
               g.fn = "post" /\ g.cmd = "unsubscribe" /\ g.id = f.id,
           g.cmd \in {"Login", "Logout"} =>
               \/ g.cmd = f.cmd
               \/ Holds(f) /\ f.at = (IF g.cmd = "Login" THEN "in" ELSE "out")
    PROVE  Shape(c, Front(s) \o <<f, g>>)
  <1>. DEFINE t == Front(s) \o <<f, g>>
              n == Len(s)
  <1>1. /\ IsStack(t) /\ t # <<>>
        /\ n \in Nat \ {0} /\ Len(t) = n + 1
        /\ t[n] = f /\ t[n + 1] = g
        /\ \A i \in 1 .. n - 1 : t[i] = s[i]
    BY PushTop DEF Shape
  <1>. HIDE DEF t, n
  <1>2. /\ f.fn = s[n].fn /\ f.cmd = s[n].cmd
        /\ f.id = s[n].id \/ s[n].fn \notin {"subsend", "post"}
        /\ s[n].at # "answered"
        /\ Inside(s[n]) => Inside(f) /\ Inside(g)
    BY DEF n, Last
  <1>3. /\ \A i \in 1 .. n : IsFrame(t[i]) /\ t[i].fn = s[i].fn /\ t[i].cmd = s[i].cmd
        /\ \A i \in 1 .. n + 1 : IsFrame(t[i])
    BY <1>1, <1>2 DEF Shape, n
  <1>4. t[1].fn \in Root(c)
    BY <1>1, <1>3 DEF Shape
  <1>5. \A i \in 1 .. n : Calls(t[i], t[i+1].fn, t[i+1].cmd)
    <2>1. \A i \in 1 .. n - 1 : Calls(t[i], t[i+1].fn, t[i+1].cmd)
      BY <1>1, <1>3 DEF Shape, Nested, n
    <2>. QED
      BY <2>1, <1>1
  <1>. DEFINE Below(i, j) ==
                  /\ Holds(t[i]) => Inside(t[j])
                  /\ t[i].fn = "unsubscribe" =>
                        /\ t[j].fn \in {"subsend", "post"} /\ t[j].cmd = "unsubscribe"
                        /\ t[j].id = t[i].id \/ t[j].at = "answered"
  <1>6. ASSUME NEW i \in 1 .. n + 1, NEW j \in 1 .. n + 1, i < j
        PROVE  Below(i, j)
    <2>1. CASE j <= n - 1
      BY <2>1, <1>1, <1>6 DEF Shape, Nested, n
    <2>2. ASSUME i < n
          PROVE  /\ Holds(s[i]) => Inside(s[n])
                 /\ s[i].fn = "unsubscribe" =>
                      /\ s[n].fn \in {"subsend", "post"} /\ s[n].cmd = "unsubscribe"
                      /\ s[n].id = s[i].id \/ s[n].at = "answered"
      BY <2>2, <1>1 DEF Shape, Nested, n
    <2>5. s[n].fn # "post"
      BY <1>2 DEF Calls, Events
    <2>3. CASE j = n
      <3>1. i < n /\ t[i] = s[i] /\ t[j] = f
        BY <2>3, <1>6, <1>1
      <3>2. Holds(t[i]) => Inside(t[j])
        BY <3>1, <2>2, <1>2
      <3>3. s[i].fn = "unsubscribe" => f.id = s[i].id \/ f.at = "answered"
        <4>. SUFFICES ASSUME s[i].fn = "unsubscribe" PROVE f.id = s[i].id \/ f.at = "answered"
          OBVIOUS
        <4>1. s[n].fn = "subsend"
          BY <2>2, <2>5, <3>1
        <4>2. s[n].at # "answered" => f.id = s[i].id
          BY <2>2, <3>1, <4>1, <1>2
        <4>. QED
          BY <2>2, <3>1, <4>1, <4>2, <1>2
      <3>. QED
        BY <3>1, <3>2, <3>3, <2>2, <1>2
    <2>4. CASE j = n + 1
      <3>1. t[j] = g
        BY <2>4, <1>1
      <3>2. CASE i = n
        BY <3>1, <3>2, <1>1
      <3>3. CASE i < n
        <4>1. t[i] = s[i]
          BY <3>3, <1>1
        <4>. QED
          BY <4>1, <3>1, <3>3, <2>2, <2>5, <1>2
      <3>. QED
        BY <3>2, <3>3, <2>4, <1>1, <1>6
    <2>. QED
      BY <2>1, <2>3, <2>4, <1>1
  <1>7. ASSUME NEW j \in 1 .. n + 1, t[j].cmd \in {"Login", "Logout"}
        PROVE  \E i \in 1 .. j - 1 :
                  Holds(t[i]) /\ t[i].at = (IF t[j].cmd = "Login" THEN "in" ELSE "out")
    <2>1. ASSUME NEW k \in 1 .. n, s[k].cmd \in {"Login", "Logout"}
          PROVE  \E i \in 1 .. k - 1 :
                    Holds(t[i]) /\ t[i].at = (IF s[k].cmd = "Login" THEN "in" ELSE "out")
      <3>1. PICK i \in 1 .. k - 1 :
                    Holds(s[i]) /\ s[i].at = (IF s[k].cmd = "Login" THEN "in" ELSE "out")
        BY <2>1 DEF Shape, Nested, n
      <3>. QED
        BY <3>1, <1>1
    <2>2. CASE j <= n
      BY <2>1, <2>2, <1>3, <1>7, <1>1
    <2>3. CASE j = n + 1 /\ g.cmd = f.cmd
      <3>1. PICK i \in 1 .. n - 1 :
                    Holds(t[i]) /\ t[i].at = (IF s[n].cmd = "Login" THEN "in" ELSE "out")
        BY <2>1, <2>3, <1>1, <1>2, <1>7
      <3>. QED
        BY <3>1, <2>3, <1>1, <1>2
    <2>4. CASE j = n + 1 /\ g.cmd # f.cmd
      BY <2>4, <1>1, <1>7
    <2>. QED
      BY <2>2, <2>3, <2>4, <1>1
  <1>8. Nested(t)
    BY <1>1, <1>5, <1>6, <1>7 DEF Nested
  <1>. QED
    BY <1>1, <1>3, <1>4, <1>8 DEF Shape, t

LEMMA ShapePop ==
    ASSUME NEW c, NEW s, Shape(c, s), s # <<>>
    PROVE  Shape(c, Front(s))
  <1>. DEFINE t == Front(s)
              n == Len(s)
  <1>1. /\ IsStack(t)
        /\ n \in Nat \ {0} /\ Len(t) = n - 1
        /\ t = <<>> <=> n = 1
        /\ \A i \in 1 .. n - 1 : t[i] = s[i]
    BY PopTop DEF Shape
  <1>. HIDE DEF t, n
  <1>2. \A i \in 1 .. n - 1 : IsFrame(t[i])
    BY <1>1 DEF Shape, n
  <1>3. t # <<>> => t[1].fn \in Root(c)
    BY <1>1 DEF Shape
  <1>4. ASSUME NEW j \in 1 .. n - 1, t[j].cmd \in {"Login", "Logout"}
        PROVE  \E i \in 1 .. j - 1 :
                  Holds(t[i]) /\ t[i].at = (IF t[j].cmd = "Login" THEN "in" ELSE "out")
    <2>2. j \in 1 .. n /\ t[j] = s[j]
      BY <1>1
    <2>1. PICK i \in 1 .. j - 1 :
                  Holds(s[i]) /\ s[i].at = (IF s[j].cmd = "Login" THEN "in" ELSE "out")
      BY <2>2, <1>4 DEF Shape, Nested, n
    <2>3. i \in 1 .. n - 1 /\ t[i] = s[i]
      BY <1>1
    <2>. QED
      BY <2>1, <2>2, <2>3
  <1>5. ASSUME NEW i \in 1 .. n - 1, NEW j \in 1 .. n - 1, i < j
        PROVE  /\ Holds(t[i]) => Inside(t[j])
               /\ t[i].fn = "unsubscribe" =>
                     /\ t[j].fn \in {"subsend", "post"} /\ t[j].cmd = "unsubscribe"
                     /\ t[j].id = t[i].id \/ t[j].at = "answered"
    <2>1. i \in 1 .. n /\ j \in 1 .. n /\ t[i] = s[i] /\ t[j] = s[j]
      BY <1>1
    <2>2. /\ Holds(s[i]) => Inside(s[j])
          /\ s[i].fn = "unsubscribe" =>
                /\ s[j].fn \in {"subsend", "post"} /\ s[j].cmd = "unsubscribe"
                /\ s[j].id = s[i].id \/ s[j].at = "answered"
      BY <2>1, <1>5 DEF Shape, Nested, n
    <2>. QED
      BY <2>1, <2>2
  <1>6. \A i \in 1 .. n - 2 : Calls(t[i], t[i+1].fn, t[i+1].cmd)
    BY <1>1 DEF Shape, Nested, n
  <1>7. Nested(t)
    <2>1. \A i \in 1 .. Len(t) - 1 : Calls(t[i], t[i+1].fn, t[i+1].cmd)
      BY <1>1, <1>6
    <2>2. \A i, j \in 1 .. Len(t) : i < j =>
              /\ Holds(t[i]) => Inside(t[j])
              /\ t[i].fn = "unsubscribe" =>
                    /\ t[j].fn \in {"subsend", "post"} /\ t[j].cmd = "unsubscribe"
                    /\ t[j].id = t[i].id \/ t[j].at = "answered"
      BY <1>1, <1>5
    <2>3. \A j \in 1 .. Len(t) : t[j].cmd \in {"Login", "Logout"} =>
              \E i \in 1 .. j - 1 :
                  Holds(t[i]) /\ t[i].at = (IF t[j].cmd = "Login" THEN "in" ELSE "out")
      BY <1>1, <1>4
    <2>. QED
      BY ONLY <2>1, <2>2, <2>3 DEF Nested
  <1>. QED
    BY <1>1, <1>2, <1>3, <1>7 DEF Shape, t

-----------------------------------------------------------------------------
(* Moves of a coroutine *)

Replaces(c, f)  == stack' = [stack EXCEPT ![c] = Append(Front(@), f)]
Pushes(c, f, g) == stack' = [stack EXCEPT ![c] = Front(@) \o <<f, g>>]
Pops(c)         == stack' = [stack EXCEPT ![c] = Front(@)]

\* A frame waits for one function.
LEMMA CalleeUnique ==
    ASSUME NEW f, NEW fn, NEW cmd, NEW fn2, NEW cmd2,
           Calls(f, fn, cmd), Calls(f, fn2, cmd2)
    PROVE  fn = fn2 /\ cmd = cmd2
  BY DEF Calls, Events

\* What may happen around a frame that does not know of it.
Benign ==
    /\ conn' = conn /\ suburl' = suburl /\ token' = token
    /\ manager' \in {manager, 0}
    /\ astray => astray'
    /\ token \notin sessions => astray' \/ token \notin sessions'

\* No frame loses what it relies on.
LEMMA LocalKept ==
    ASSUME Benign
    PROVE  \A c \in Coroutines : \A f : Local(c, f) => Local(c, f)'
  BY DEF Benign, Local, Gone, Subscriber

\* The same three moves, of the stack of c among the others.
LEMMA StackReplaced ==
    ASSUME StackInv, NEW c \in Coroutines, Busy(c), NEW f, Replaces(c, f)
    PROVE  /\ stack' = [d \in Coroutines |-> stack'[d]]
           /\ \A d \in Coroutines \ {c} : stack'[d] = stack[d]
           /\ Len(stack[c]) \in Nat \ {0}
           /\ stack'[c] = Append(Front(stack[c]), f)
           /\ stack'[c] # <<>>
           /\ Len(stack'[c]) = Len(stack[c])
           /\ stack'[c][Len(stack[c])] = f
           /\ \A i \in 1 .. Len(stack[c]) - 1 : stack'[c][i] = stack[c][i]
  <1>1. /\ stack' = [d \in Coroutines |-> stack'[d]]
        /\ \A d \in Coroutines \ {c} : stack'[d] = stack[d]
        /\ stack'[c] = Append(Front(stack[c]), f)
    BY DEF Replaces, StackInv
  <1>2. IsStack(stack[c]) /\ stack[c] # <<>>
    BY DEF StackInv, Shape, Busy
  <1>. QED
    BY <1>1, <1>2, ReplaceTop

LEMMA StackPushed ==
    ASSUME StackInv, NEW c \in Coroutines, Busy(c), NEW f, NEW g, Pushes(c, f, g)
    PROVE  /\ stack' = [d \in Coroutines |-> stack'[d]]
           /\ \A d \in Coroutines \ {c} : stack'[d] = stack[d]
           /\ Len(stack[c]) \in Nat \ {0}
           /\ stack'[c] = Front(stack[c]) \o <<f, g>>
           /\ stack'[c] # <<>>
           /\ Len(stack'[c]) = Len(stack[c]) + 1
           /\ stack'[c][Len(stack[c])] = f
           /\ stack'[c][Len(stack[c]) + 1] = g
           /\ \A i \in 1 .. Len(stack[c]) - 1 : stack'[c][i] = stack[c][i]
  <1>1. /\ stack' = [d \in Coroutines |-> stack'[d]]
        /\ \A d \in Coroutines \ {c} : stack'[d] = stack[d]
        /\ stack'[c] = Front(stack[c]) \o <<f, g>>
    BY DEF Pushes, StackInv
  <1>. DEFINE s == stack[c]
              t == Front(s) \o <<f, g>>
  <1>2. IsStack(s) /\ s # <<>>
    BY DEF StackInv, Shape, Busy
  <1>. HIDE DEF s
  <1>3. /\ IsStack(t) /\ t # <<>>
        /\ Len(s) \in Nat \ {0}
        /\ Len(t) = Len(s) + 1
        /\ t[Len(s)] = f
        /\ t[Len(s) + 1] = g
        /\ \A i \in 1 .. Len(s) - 1 : t[i] = s[i]
    BY <1>2, PushTop
  <1>. QED
    BY <1>1, <1>3 DEF s

LEMMA StackPopped ==
    ASSUME StackInv, NEW c \in Coroutines, Busy(c), Pops(c)
    PROVE  /\ stack' = [d \in Coroutines |-> stack'[d]]
           /\ \A d \in Coroutines \ {c} : stack'[d] = stack[d]
           /\ Len(stack[c]) \in Nat \ {0}
           /\ stack'[c] = Front(stack[c])
           /\ stack'[c] = <<>> <=> Len(stack[c]) = 1
           /\ Len(stack'[c]) = Len(stack[c]) - 1
           /\ \A i \in 1 .. Len(stack[c]) - 1 : stack'[c][i] = stack[c][i]
  <1>1. /\ stack' = [d \in Coroutines |-> stack'[d]]
        /\ \A d \in Coroutines \ {c} : stack'[d] = stack[d]
        /\ stack'[c] = Front(stack[c])
    BY DEF Pops, StackInv
  <1>2. IsStack(stack[c]) /\ stack[c] # <<>>
    BY DEF StackInv, Shape, Busy
  <1>. QED
    BY <1>1, <1>2, PopTop

\* f may take the place of the innermost frame of c.
Fits(c, f) ==
    /\ IsFrame(f)
    /\ f.fn = Top(c).fn /\ f.cmd = Top(c).cmd
    /\ Top(c).at # "answered"
    /\ f.id = Top(c).id \/ f.at = "answered" \/ Top(c).fn \notin {"subsend", "post"}
    /\ Inside(Top(c)) => Inside(f)

\* g may be called from f, in the place of the innermost frame of c.
FitsOn(c, f, g) ==
    /\ Fits(c, f) /\ f.at # "answered"
    /\ IsFrame(g)
    /\ Calls(f, g.fn, g.cmd)
    /\ Inside(Top(c)) \/ Holds(f) => Inside(g)
    /\ f.fn = "unsubscribe" => g.fn = "subsend" /\ g.cmd = "unsubscribe" /\ g.id = f.id
    /\ f.fn = "subsend" /\ f.cmd = "unsubscribe" =>
           g.fn = "post" /\ g.cmd = "unsubscribe" /\ g.id = f.id
    /\ g.cmd \in {"Login", "Logout"} =>
           \/ g.cmd = f.cmd
           \/ Holds(f) /\ f.at = (IF g.cmd = "Login" THEN "in" ELSE "out")

\* They keep all stacks in shape, and what holds of their frames.
LEMMA ReplaceShape ==
    ASSUME StackInv, NEW c \in Coroutines, Busy(c), NEW f, Replaces(c, f), Fits(c, f)
    PROVE  StackInv'
  <1>1. Shape(c, Append(Front(stack[c]), f))
    BY ShapeReplace DEF StackInv, Fits, Busy, Top
  <1>2. /\ stack' = [d \in Coroutines |-> stack'[d]]
        /\ \A d \in Coroutines \ {c} : stack'[d] = stack[d]
        /\ stack'[c] = Append(Front(stack[c]), f)
    BY StackReplaced
  <1>3. \A d \in Coroutines : Shape(d, stack'[d])
    BY <1>1, <1>2 DEF StackInv
  <1>. QED
    BY <1>2, <1>3 DEF StackInv

LEMMA PushShape ==
    ASSUME StackInv, NEW c \in Coroutines, Busy(c), NEW f, NEW g, Pushes(c, f, g),
           FitsOn(c, f, g)
    PROVE  StackInv'
  <1>1. Shape(c, Front(stack[c]) \o <<f, g>>)
    <2>1. Shape(c, stack[c]) /\ stack[c] # <<>>
      BY DEF StackInv, Busy
    <2>. QED
      BY <2>1, ShapePush DEF Fits, FitsOn, Top
  <1>2. /\ stack' = [d \in Coroutines |-> stack'[d]]
        /\ \A d \in Coroutines \ {c} : stack'[d] = stack[d]
        /\ stack'[c] = Front(stack[c]) \o <<f, g>>
    BY StackPushed
  <1>3. \A d \in Coroutines : Shape(d, stack'[d])
    BY <1>1, <1>2 DEF StackInv
  <1>. QED
    BY <1>2, <1>3 DEF StackInv

LEMMA PopShape ==
    ASSUME StackInv, NEW c \in Coroutines, Busy(c), Pops(c)
    PROVE  StackInv'
  <1>1. Shape(c, Front(stack[c]))
    BY ShapePop DEF StackInv, Busy
  <1>. QED
    BY <1>1, StackPopped DEF StackInv

LEMMA ReplaceLocal ==
    ASSUME StackInv, LocalInv, NEW c \in Coroutines, Busy(c), NEW f, Replaces(c, f),
           Benign, Local(c, f)'
    PROVE  LocalInv'
  <1>1. \A d \in Coroutines : \A g : Local(d, g) => Local(d, g)'
    BY LocalKept
  <1>2. ASSUME NEW d \in Coroutines, NEW i \in 1 .. Len(stack'[d]), NEW g, g = stack'[d][i]
        PROVE  Local(d, g)'
    <2>1. CASE d # c
      BY <1>1, <1>2, <2>1, StackReplaced DEF LocalInv
    <2>2. CASE d = c /\ i = Len(stack[c])
      BY <1>2, <2>2, StackReplaced
    <2>3. CASE d = c /\ i # Len(stack[c])
      BY <1>1, <1>2, <2>3, StackReplaced DEF LocalInv
    <2>. QED
      BY <2>1, <2>2, <2>3
  <1>. QED
    BY <1>2 DEF LocalInv, Local, Gone, Subscriber

LEMMA PushLocal ==
    ASSUME StackInv, LocalInv, NEW c \in Coroutines, Busy(c), NEW f, NEW g, Pushes(c, f, g),
           Benign, Local(c, f)', Local(c, g)'
    PROVE  LocalInv'
  <1>1. \A d \in Coroutines : \A h : Local(d, h) => Local(d, h)'
    BY LocalKept
  <1>3. /\ \A d \in Coroutines \ {c} : stack'[d] = stack[d]
        /\ Len(stack[c]) \in Nat \ {0}
        /\ Len(stack'[c]) = Len(stack[c]) + 1
        /\ stack'[c][Len(stack[c])] = f
        /\ stack'[c][Len(stack[c]) + 1] = g
        /\ \A i \in 1 .. Len(stack[c]) - 1 : stack'[c][i] = stack[c][i]
    BY StackPushed
  <1>2. ASSUME NEW d \in Coroutines, NEW i \in 1 .. Len(stack'[d]), NEW h, h = stack'[d][i]
        PROVE  Local(d, h)'
    <2>1. CASE d # c
      BY <1>1, <1>2, <1>3, <2>1 DEF LocalInv
    <2>2. CASE d = c /\ i \in {Len(stack[c]), Len(stack[c]) + 1}
      BY <1>2, <1>3, <2>2
    <2>3. CASE d = c /\ i \notin {Len(stack[c]), Len(stack[c]) + 1}
      <3>1. i \in 1 .. Len(stack[c]) - 1
        BY <1>3, <2>3
      <3>2. i \in 1 .. Len(stack[c]) /\ h = stack[c][i]
        BY <1>2, <1>3, <2>3, <3>1
      <3>. QED
        BY <1>1, <2>3, <3>2 DEF LocalInv
    <2>. QED
      BY <2>1, <2>2, <2>3
  <1>. QED
    BY <1>2 DEF LocalInv, Local, Gone, Subscriber

LEMMA PopLocal ==
    ASSUME StackInv, LocalInv, NEW c \in Coroutines, Busy(c), Pops(c), Benign
    PROVE  LocalInv'
  <1>1. \A d \in Coroutines : \A h : Local(d, h) => Local(d, h)'
    BY LocalKept
  <1>2. ASSUME NEW d \in Coroutines, NEW i \in 1 .. Len(stack'[d]), NEW h, h = stack'[d][i]
        PROVE  Local(d, h)'
    <2>1. CASE d # c
      BY <1>1, <1>2, <2>1, StackPopped DEF LocalInv
    <2>2. CASE d = c
      BY <1>1, <1>2, <2>2, StackPopped DEF LocalInv
    <2>. QED
      BY <2>1, <2>2
  <1>. QED
    BY <1>2 DEF LocalInv, Local, Gone, Subscriber

\* The frame below the innermost one waits for it, and is no request.
LEMMA Caller ==
    ASSUME StackInv, NEW c \in Coroutines, Busy(c), Len(stack[c]) # 1
    PROVE  /\ Len(stack[c]) - 1 \in 1 .. Len(stack[c])
           /\ Calls(stack[c][Len(stack[c]) - 1], Top(c).fn, Top(c).cmd)
           /\ stack[c][Len(stack[c]) - 1].fn # "post"
  <1>1. Len(stack[c]) \in Nat \ {0}
    BY EmptySeq DEF StackInv, Shape, IsStack, Busy
  <1>7. PICK n \in Nat \ {0} : n = Len(stack[c])
    BY <1>1
  <1>9. n # 1
    BY <1>7
  <1>8. n - 1 \in 1 .. n - 1 /\ n - 1 \in 1 .. n
    BY <1>9
  <1>2. Calls(stack[c][Len(stack[c]) - 1], stack[c][Len(stack[c]) - 1 + 1].fn,
              stack[c][Len(stack[c]) - 1 + 1].cmd)
    <2>1. Nested(stack[c])
      BY DEF StackInv, Shape
    <2>2. Len(stack[c]) - 1 \in 1 .. Len(stack[c]) - 1
      BY <1>7, <1>8
    <2>. QED
      BY <2>1, <2>2 DEF Nested
  <1>3. Len(stack[c]) - 1 + 1 = Len(stack[c])
    BY <1>1
  <1>4. Calls(stack[c][Len(stack[c]) - 1], Top(c).fn, Top(c).cmd)
    BY <1>2, <1>3 DEF Top, Last
  <1>5. \A f, fn, cmd : Calls(f, fn, cmd) => f.fn # "post"
    BY DEF Calls, Events
  <1>6. Len(stack[c]) - 1 \in 1 .. Len(stack[c])
    BY <1>7, <1>8
  <1>. QED
    BY <1>4, <1>5, <1>6

\* The innermost frame is one of those of its stack.
LEMMA TopIs ==
    ASSUME StackInv, NEW c \in Coroutines, Busy(c)
    PROVE  /\ Len(stack[c]) \in Nat \ {0}
           /\ Top(c) = stack[c][Len(stack[c])]
           /\ IsFrame(Top(c))
  <1>1. Len(stack[c]) \in Nat \ {0}
    BY EmptySeq DEF StackInv, Shape, IsStack, Busy
  <1>. QED
    BY <1>1 DEF StackInv, Shape, Top, Last

\* What holds of frames holds of the innermost one.
LEMMA TopLocal ==
    ASSUME StackInv, LocalInv, NEW c \in Coroutines, Busy(c)
    PROVE  Local(c, Top(c))
  BY TopIs DEF LocalInv

-----------------------------------------------------------------------------
(* What a move does to what is said of a whole stack *)

QueuesBelow(c)   == \E i \in 1 .. Len(stack[c]) - 1 : Queues(stack[c][i])
HoldsBelow(c)    == \E i \in 1 .. Len(stack[c]) - 1 : Holds(stack[c][i])
DropsBelow(c, s) == \E i \in 1 .. Len(stack[c]) - 1 : Dropping(stack[c][i], s)

Under(c) == stack[c][Len(stack[c]) - 1]

\* One whose stack stays is where it was.
LEMMA Others ==
    ASSUME NEW d, stack'[d] = stack[d]
    PROVE  /\ Busy(d)' <=> Busy(d)
           /\ Top(d)' = Top(d)
           /\ Posts(d)' <=> Posts(d)
           /\ Queueing(d)' <=> Queueing(d)
           /\ Holding(d)' <=> Holding(d)
           /\ \A s : Drops(d, s)' <=> Drops(d, s)
           /\ \A s : Answered(d, s)' <=> Answered(d, s)
  BY DEF Busy, Top, Posts, Queueing, Holding, Drops, Answered


\* What is said of a whole stack, from its innermost frame and those below.
LEMMA TopEffect ==
    ASSUME StackInv, NEW c \in Coroutines, Busy(c)
    PROVE  /\ Queueing(c) <=> QueuesBelow(c) \/ Queues(Top(c))
           /\ Holding(c) <=> HoldsBelow(c) \/ Holds(Top(c))
           /\ \A s : Drops(c, s) <=> DropsBelow(c, s) \/ Dropping(Top(c), s)
  <1>1. PICK n \in Nat \ {0} : n = Len(stack[c]) /\ Top(c) = stack[c][n]
    BY TopIs
  <1>2. n \in 1 .. n /\ (\A i \in 1 .. n : i \in 1 .. n - 1 \/ i = n)
        /\ (\A i \in 1 .. n - 1 : i \in 1 .. n)
    OBVIOUS
  <1>. QED
    BY <1>1, <1>2 DEF Queueing, QueuesBelow, Holding, HoldsBelow, Drops, DropsBelow

LEMMA ReplaceEffect ==
    ASSUME StackInv, NEW c \in Coroutines, Busy(c), NEW f, Replaces(c, f)
    PROVE  /\ \A d \in Coroutines \ {c} : stack'[d] = stack[d]
           /\ Busy(c)' /\ Top(c)' = f
           /\ Queueing(c)' <=> QueuesBelow(c) \/ Queues(f)
           /\ Holding(c)' <=> HoldsBelow(c) \/ Holds(f)
           /\ \A s : Drops(c, s)' <=> DropsBelow(c, s) \/ Dropping(f, s)
  <1>1. PICK n \in Nat \ {0} : n = Len(stack[c])
    BY TopIs
  <1>2. /\ \A d \in Coroutines \ {c} : stack'[d] = stack[d]
        /\ stack'[c] # <<>>
        /\ Len(stack'[c]) = n
        /\ stack'[c][n] = f
        /\ \A i \in 1 .. n - 1 : stack'[c][i] = stack[c][i]
    BY <1>1, StackReplaced
  <1>3. n \in 1 .. n /\ (\A i \in 1 .. n : i \in 1 .. n - 1 \/ i = n)
        /\ (\A i \in 1 .. n - 1 : i \in 1 .. n)
    OBVIOUS
  <1>4. Busy(c)' /\ Top(c)' = f
    BY <1>2 DEF Busy, Top, Last
  <1>5. Queueing(c)' <=> QueuesBelow(c) \/ Queues(f)
    BY <1>1, <1>2, <1>3 DEF Queueing, QueuesBelow
  <1>6. Holding(c)' <=> HoldsBelow(c) \/ Holds(f)
    BY <1>1, <1>2, <1>3 DEF Holding, HoldsBelow
  <1>7. \A s : Drops(c, s)' <=> DropsBelow(c, s) \/ Dropping(f, s)
    BY <1>1, <1>2, <1>3 DEF Drops, DropsBelow
  <1>. QED
    BY <1>2, <1>4, <1>5, <1>6, <1>7

LEMMA PushEffect ==
    ASSUME StackInv, NEW c \in Coroutines, Busy(c), NEW f, NEW g, Pushes(c, f, g)
    PROVE  /\ \A d \in Coroutines \ {c} : stack'[d] = stack[d]
           /\ Busy(c)' /\ Top(c)' = g
           /\ Queueing(c)' <=> QueuesBelow(c) \/ Queues(f) \/ Queues(g)
           /\ Holding(c)' <=> HoldsBelow(c) \/ Holds(f) \/ Holds(g)
           /\ \A s : Drops(c, s)' <=> DropsBelow(c, s) \/ Dropping(f, s) \/ Dropping(g, s)
  <1>1. PICK n \in Nat \ {0} : n = Len(stack[c])
    BY TopIs
  <1>2. /\ \A d \in Coroutines \ {c} : stack'[d] = stack[d]
        /\ stack'[c] # <<>>
        /\ Len(stack'[c]) = n + 1
        /\ stack'[c][n] = f /\ stack'[c][n + 1] = g
        /\ \A i \in 1 .. n - 1 : stack'[c][i] = stack[c][i]
    BY <1>1, StackPushed
  <1>3. n \in 1 .. n + 1 /\ n + 1 \in 1 .. n + 1
        /\ (\A i \in 1 .. n + 1 : i \in 1 .. n - 1 \/ i = n \/ i = n + 1)
        /\ (\A i \in 1 .. n - 1 : i \in 1 .. n + 1)
    OBVIOUS
  <1>4. Busy(c)' /\ Top(c)' = g
    BY <1>2 DEF Busy, Top, Last
  <1>5. Queueing(c)' <=> QueuesBelow(c) \/ Queues(f) \/ Queues(g)
    BY <1>1, <1>2, <1>3 DEF Queueing, QueuesBelow
  <1>6. Holding(c)' <=> HoldsBelow(c) \/ Holds(f) \/ Holds(g)
    BY <1>1, <1>2, <1>3 DEF Holding, HoldsBelow
  <1>7. \A s : Drops(c, s)' <=> DropsBelow(c, s) \/ Dropping(f, s) \/ Dropping(g, s)
    BY <1>1, <1>2, <1>3 DEF Drops, DropsBelow
  <1>. QED
    BY <1>2, <1>4, <1>5, <1>6, <1>7

LEMMA PopEffect ==
    ASSUME StackInv, NEW c \in Coroutines, Busy(c), Pops(c)
    PROVE  /\ \A d \in Coroutines \ {c} : stack'[d] = stack[d]
           /\ Len(stack[c]) = 1 => ~Busy(c)'
           /\ Len(stack[c]) # 1 =>
                /\ Busy(c)' /\ Top(c)' = Under(c) /\ IsFrame(Under(c))
                /\ Calls(Under(c), Top(c).fn, Top(c).cmd)
                /\ Under(c).fn # "post"
           /\ Queueing(c)' <=> QueuesBelow(c)
           /\ Holding(c)' <=> HoldsBelow(c)
           /\ \A s : Drops(c, s)' <=> DropsBelow(c, s)
  <1>1. PICK n \in Nat \ {0} : n = Len(stack[c])
    BY TopIs
  <1>2. /\ \A d \in Coroutines \ {c} : stack'[d] = stack[d]
        /\ stack'[c] = <<>> <=> n = 1
        /\ Len(stack'[c]) = n - 1
        /\ \A i \in 1 .. n - 1 : stack'[c][i] = stack[c][i]
    BY <1>1, StackPopped
  <1>3. ASSUME n # 1
        PROVE  /\ Busy(c)' /\ Top(c)' = Under(c) /\ IsFrame(Under(c))
               /\ Calls(Under(c), Top(c).fn, Top(c).cmd)
               /\ Under(c).fn # "post"
    <2>1. n - 1 \in 1 .. n - 1 /\ n - 1 \in 1 .. n
      BY <1>3
    <2>2. /\ Calls(stack[c][n - 1], Top(c).fn, Top(c).cmd)
          /\ stack[c][n - 1].fn # "post"
      BY <1>1, <1>3, Caller
    <2>3. IsFrame(stack[c][n - 1])
      BY <1>1, <2>1 DEF StackInv, Shape
    <2>. QED
      BY <1>1, <1>2, <1>3, <2>1, <2>2, <2>3 DEF Busy, Top, Last, Under
  <1>5. Queueing(c)' <=> QueuesBelow(c)
    BY <1>1, <1>2 DEF Queueing, QueuesBelow
  <1>6. Holding(c)' <=> HoldsBelow(c)
    BY <1>1, <1>2 DEF Holding, HoldsBelow
  <1>7. \A s : Drops(c, s)' <=> DropsBelow(c, s)
    BY <1>1, <1>2 DEF Drops, DropsBelow
  <1>. QED
    BY <1>1, <1>2, <1>3, <1>5, <1>6, <1>7 DEF Busy

\* Under an unsubscribe there is only the request it sends.
LEMMA UnderUnsubscribe ==
    ASSUME StackInv, NEW c \in Coroutines, Busy(c), NEW s, DropsBelow(c, s)
    PROVE  /\ Top(c).fn \in {"subsend", "post"} /\ Top(c).cmd = "unsubscribe"
           /\ Top(c).id = s \/ Top(c).at = "answered"
  <1>1. Nested(stack[c])
    BY DEF StackInv, Shape
  <1>2. PICK n \in Nat \ {0} : n = Len(stack[c]) /\ Top(c) = stack[c][n]
    BY TopIs
  <1>3. PICK i \in 1 .. n - 1 : Dropping(stack[c][i], s)
    BY <1>2 DEF DropsBelow
  <1>4. i \in 1 .. n /\ n \in 1 .. n /\ i < n
    OBVIOUS
  <1>. QED
    BY <1>1, <1>2, <1>3, <1>4 DEF Nested, Dropping

\* What runs on top of a function that holds the lock.  One that waits for it is on top.
LEMMA UnderLock ==
    ASSUME StackInv, LocalInv, NEW c \in Coroutines, Busy(c)
    PROVE  /\ HoldsBelow(c) => Inside(Top(c))
           /\ QueuesBelow(c) => HoldsBelow(c)
           /\ Top(c).cmd \in {"Login", "Logout"} => HoldsBelow(c)
  <1>1. Nested(stack[c])
    BY DEF StackInv, Shape
  <1>2. PICK n \in Nat \ {0} : n = Len(stack[c]) /\ Top(c) = stack[c][n]
    BY TopIs
  <1>3. HoldsBelow(c) => Inside(Top(c))
    <2>1. SUFFICES ASSUME NEW i \in 1 .. n - 1, Holds(stack[c][i]) PROVE Inside(Top(c))
      BY <1>2 DEF HoldsBelow
    <2>2. i \in 1 .. n /\ n \in 1 .. n /\ i < n
      OBVIOUS
    <2>. QED
      BY <1>1, <1>2, <2>1, <2>2 DEF Nested
  <1>4. QueuesBelow(c) => HoldsBelow(c)
    <2>1. SUFFICES ASSUME NEW i \in 1 .. n - 1, Queues(stack[c][i]) PROVE Holds(stack[c][i])
      BY <1>2 DEF HoldsBelow, QueuesBelow
    <2>2. Calls(stack[c][i], stack[c][i+1].fn, stack[c][i+1].cmd)
      BY <1>1, <1>2 DEF Nested
    <2>3. stack[c][i].at # "waits"
      BY <2>1, <2>2 DEF Calls, Queues, Holds
    <2>. QED
      BY <2>1, <2>3 DEF Queues
  <1>5. Top(c).cmd \in {"Login", "Logout"} => HoldsBelow(c)
    <2>1. n \in 1 .. n
      OBVIOUS
    <2>. QED
      BY <1>1, <1>2, <2>1 DEF Nested, HoldsBelow
  <1>. QED
    BY <1>3, <1>4, <1>5

-----------------------------------------------------------------------------
(* Steps that only move the coroutine that runs *)

Still ==
    /\ UNCHANGED <<sendq, loginq, token, sessions, subs, manager, conn, suburl, astray>>
    /\ crossed => crossed'
    /\ Rest'

\* The result that the coroutine which runs has just got is no id, or is not for it to keep.
Handled(c) ==
    /\ ret.kind = "ok" => ~AwaitsLogin(Top(c))
    /\ ret.kind \in Results => ~AwaitsSub(Top(c))

LEMMA StillBenign == Still => Benign
  BY DEF Still, Benign

\* Those that do not move have what they had.
LEMMA Elsewhere ==
    ASSUME NEW c, \A d \in Coroutines \ {c} : stack'[d] = stack[d], Top(c).fn # "post"
    PROVE  /\ \A d \in Coroutines \ {c} : Busy(d)' <=> Busy(d)
           /\ \A d \in Coroutines, s \in Ids : Answered(d, s) => Answered(d, s)'
  BY Others DEF Answered

\* Whatever the step does to the rest, a call keeps these in order.
LEMMA PushCore ==
    ASSUME HostInv, NEW c \in Coroutines, c = turn, NEW f, NEW g, Pushes(c, f, g),
           FitsOn(c, f, g), turn' = c, ret' = NoResult,
           g.fn # "post", g.at = "start", Top(c).at # "waits", f.at # "waits",
           Holds(f) <=> Holds(Top(c)),
           UNCHANGED <<sendq, loginq, subs>>, astray => astray', Rest',
           LocalInv', SessionInv', SubInv', ConnInv'
    PROVE  HostInv'
  <1>1. Busy(c) /\ StackInv /\ LocalInv
    BY DEF HostInv, RetInv
  <1>2. StackInv'
    BY <1>1, PushShape
  <1>3. /\ \A d \in Coroutines \ {c} : stack'[d] = stack[d]
        /\ Busy(c)' /\ Top(c)' = g
        /\ Queueing(c)' <=> QueuesBelow(c) \/ Queues(f) \/ Queues(g)
        /\ Holding(c)' <=> HoldsBelow(c) \/ Holds(f) \/ Holds(g)
        /\ \A s : Drops(c, s)' <=> DropsBelow(c, s) \/ Dropping(f, s) \/ Dropping(g, s)
    BY <1>1, PushEffect
  <1>4. /\ Queueing(c) <=> QueuesBelow(c) \/ Queues(Top(c))
        /\ Holding(c) <=> HoldsBelow(c) \/ Holds(Top(c))
        /\ \A s : Drops(c, s) <=> DropsBelow(c, s) \/ Dropping(Top(c), s)
    BY <1>1, TopEffect
  <1>5. f.fn = Top(c).fn /\ f.fn # "post" /\ Calls(f, g.fn, g.cmd)
    BY DEF FitsOn, Fits, Calls, Events
  <1>6. \A d \in Coroutines \ {c} :
           /\ Top(d)' = Top(d)
           /\ Posts(d)' <=> Posts(d)
           /\ Queueing(d)' <=> Queueing(d)
           /\ Holding(d)' <=> Holding(d)
           /\ \A s : Drops(d, s)' <=> Drops(d, s)
    BY <1>3, Others
  <1>7. RetInv'
    <2>1. frame' = g
      BY <1>3 DEF frame, Top
    <2>2. \A fn, cmd : ~Calls(g, fn, cmd)
      BY DEF Calls
    <2>. QED
      BY <1>3, <2>1, <2>2 DEF RetInv, NoResult, Kinds
  <1>9. LockInv'
    <2>1. \A d \in Coroutines : Posts(d)' <=> Posts(d)
      BY <1>3, <1>5, <1>6 DEF Posts
    <2>2. \A d \in Coroutines : (Queueing(d)' <=> Queueing(d)) /\ (Holding(d)' <=> Holding(d))
      <3>1. ~Queues(g) /\ ~Holds(g) /\ (Queues(f) <=> Queues(Top(c)))
        BY <1>5 DEF Queues, Holds
      <3>. QED
        BY <3>1, <1>3, <1>4, <1>6
    <2>. QED
      BY <2>1, <2>2 DEF LockInv, HostInv
  <1>12. UnsubInv'
    <2>1. ASSUME NEW d \in Coroutines, d # c, Pending(d)
          PROVE  Pending(d)'
      BY <1>6, <2>1 DEF Pending
    <2>2. ASSUME NEW s, DropsBelow(c, s) PROVE FALSE
      BY <1>1, <1>5, <2>2, UnderUnsubscribe DEF FitsOn, Fits
    <2>3. ASSUME f.fn = "unsubscribe" PROVE Pending(c)'
      BY <1>3, <2>3 DEF FitsOn, Pending
    <2>4. \A s : ~Dropping(g, s)
      BY DEF Dropping
    <2>. QED
      BY <1>3, <1>6, <2>1, <2>2, <2>3, <2>4 DEF UnsubInv, HostInv, Dropping
  <1>. QED
    BY <1>2, <1>7, <1>9, <1>12 DEF HostInv

\* A call that changes nothing shared keeps the invariant; so do a retry and a return.
LEMMA PlainPush ==
    ASSUME HostInv, NEW c \in Coroutines, c = turn, NEW f, NEW g, Pushes(c, f, g),
           FitsOn(c, f, g), Local(c, f)', Local(c, g)',
           turn' = c, ret' = NoResult, Still, Handled(c),
           g.fn # "post", g.at = "start", Top(c).at # "waits", f.at # "waits",
           Holds(f) <=> Holds(Top(c))
    PROVE  HostInv'
  <1>1. Busy(c) /\ StackInv /\ LocalInv /\ subs \subseteq Ids
    BY DEF HostInv, RetInv, Rest
  <1>2. LocalInv'
    BY <1>1, PushLocal, StillBenign
  <1>3. (\A d \in Coroutines \ {c} : stack'[d] = stack[d]) /\ Busy(c)'
    BY <1>1, PushEffect
  <1>4. Top(c).fn # "post"
    BY DEF FitsOn, Fits, Calls, Events
  <1>6. /\ \A d \in Coroutines \ {c} : Busy(d)' <=> Busy(d)
        /\ \A d \in Coroutines, s \in Ids : Answered(d, s) => Answered(d, s)'
    BY <1>3, <1>4, Elsewhere
  <1>10. SessionInv'
    <2>1. ASSUME NEW s \in sessions, Arrived(s) PROVE FALSE
      BY <2>1 DEF Arrived, Handled, Results, frame
    <2>. QED
      BY <2>1 DEF SessionInv, HostInv, Still
  <1>11. SubInv'
    <2>2. ASSUME NEW s \in subs, Coming(s) PROVE Coming(s)'
      BY <1>1, <1>6, <2>2 DEF Coming, Handled, frame
    <2>. QED
      BY <2>2 DEF SubInv, HostInv, Still
  <1>13. ConnInv'
    BY <1>1, <1>6 DEF ConnInv, HostInv, Still
  <1>14. UNCHANGED <<sendq, loginq, subs>> /\ (astray => astray') /\ Rest'
    BY DEF Still
  <1>. QED
    BY <1>2, <1>10, <1>11, <1>13, <1>14, PushCore

LEMMA PlainReplace ==
    ASSUME HostInv, NEW c \in Coroutines, c = turn, NEW f, Replaces(c, f), Fits(c, f),
           Local(c, f)', turn' = c, ret' = NoResult, Still, Handled(c),
           f.fn \in {"send", "subscribe"}, f.at = "start"
    PROVE  HostInv'
  <1>1. Busy(c) /\ StackInv /\ LocalInv
    BY DEF HostInv, RetInv
  <1>2. StackInv' /\ LocalInv'
    BY <1>1, ReplaceShape, ReplaceLocal, StillBenign
  <1>3. /\ \A d \in Coroutines \ {c} : stack'[d] = stack[d]
        /\ Busy(c)' /\ Top(c)' = f
        /\ Queueing(c)' <=> QueuesBelow(c) \/ Queues(f)
        /\ Holding(c)' <=> HoldsBelow(c) \/ Holds(f)
        /\ \A s : Drops(c, s)' <=> DropsBelow(c, s) \/ Dropping(f, s)
    BY <1>1, ReplaceEffect
  <1>4. /\ Queueing(c) <=> QueuesBelow(c) \/ Queues(Top(c))
        /\ Holding(c) <=> HoldsBelow(c) \/ Holds(Top(c))
    BY <1>1, TopEffect
  <1>5. f.fn = Top(c).fn
    BY DEF Fits
  <1>6. \A d \in Coroutines \ {c} :
           /\ Busy(d)' <=> Busy(d)
           /\ Top(d)' = Top(d)
           /\ Posts(d)' <=> Posts(d)
           /\ Queueing(d)' <=> Queueing(d)
           /\ Holding(d)' <=> Holding(d)
           /\ \A s : Drops(d, s)' <=> Drops(d, s)
           /\ \A s : Answered(d, s)' <=> Answered(d, s)
    BY <1>3, Others
  <1>7. RetInv'
    <2>1. frame' = f
      BY <1>3 DEF frame, Top
    <2>2. \A fn, cmd : ~Calls(f, fn, cmd)
      BY DEF Calls
    <2>. QED
      BY <1>3, <2>1, <2>2 DEF RetInv, NoResult, Kinds
  <1>9. LockInv'
    <2>1. \A d \in Coroutines : Posts(d)' <=> Posts(d)
      BY <1>3, <1>5, <1>6 DEF Posts
    <2>2. \A d \in Coroutines : (Queueing(d)' <=> Queueing(d)) /\ (Holding(d)' <=> Holding(d))
      <3>1. ~Queues(f) /\ ~Queues(Top(c)) /\ ~Holds(f) /\ ~Holds(Top(c))
        BY <1>5 DEF Queues, Holds
      <3>. QED
        BY <3>1, <1>3, <1>4, <1>6
    <2>. QED
      BY <2>1, <2>2 DEF LockInv, HostInv, Still
  <1>10. SessionInv'
    <2>1. ASSUME NEW s \in sessions, Arrived(s) PROVE FALSE
      BY <2>1 DEF Arrived, Handled, Results, frame
    <2>. QED
      BY <2>1 DEF SessionInv, HostInv, Still
  <1>11. SubInv'
    <2>1. ASSUME NEW s, NEW d \in Coroutines, Answered(d, s)
          PROVE  Answered(d, s)'
      BY <1>5, <1>6, <2>1 DEF Answered
    <2>2. ASSUME NEW s, Coming(s) PROVE Coming(s)'
      BY <2>1, <2>2 DEF Coming, Handled, frame
    <2>. QED
      BY <2>2 DEF SubInv, HostInv, Still
  <1>12. UnsubInv'
    <2>1. ASSUME NEW d \in Coroutines, d # c, Pending(d)
          PROVE  Pending(d)'
      BY <1>6, <2>1 DEF Pending
    <2>2. ASSUME NEW s, DropsBelow(c, s) PROVE FALSE
      BY <1>1, <1>5, <2>2, UnderUnsubscribe
    <2>4. \A s : ~Dropping(f, s)
      BY DEF Dropping
    <2>. QED
      BY <1>3, <1>6, <2>1, <2>2, <2>4 DEF UnsubInv, HostInv, Still
  <1>13. ConnInv'
    BY <1>1, <1>6 DEF ConnInv, HostInv, Still
  <1>. QED
    BY <1>2, <1>7, <1>9, <1>10, <1>11, <1>12, <1>13 DEF HostInv, Still

\* It returns kind and id.
Returns(c, kind, id) ==
    /\ Pops(c)
    /\ IF Len(stack[c]) = 1
       THEN turn' = Nobody /\ ret' = NoResult
       ELSE turn' = c /\ ret' = [kind |-> kind, id |-> id]

\* What arrived is passed on.
Passes(c, kind, id) ==
    (ret.kind = "ok" /\ AwaitsLogin(Top(c))) \/ (ret.kind \in Results /\ AwaitsSub(Top(c))) =>
        /\ kind = ret.kind /\ id = ret.id
        /\ Top(c).fn \in {"send", "subsend"}

\* Who waits for a token, or a subscription, gets it through send and subsend.
LEMMA AwaitsUp ==
    ASSUME NEW f, NEW g, Calls(f, g.fn, g.cmd), g.fn \in {"send", "subsend"},
           IsFrame(g), IsFrame(f)
    PROVE  /\ AwaitsLogin(g) => AwaitsLogin(f)
           /\ AwaitsSub(g) /\ (g.fn = "send" => g.cmd # "subscribe") => AwaitsSub(f)
  BY DEF AwaitsLogin, AwaitsSub, Calls, IsFrame, Events, Commands

\* The result of a function that returns is the one its caller waits for.
LEMMA ReturnRet ==
    ASSUME StackInv, NEW c \in Coroutines, Busy(c), NEW kind \in Kinds, NEW id \in {0} \cup Ids,
           Returns(c, kind, id), NEW g, g = Top(c),
           \A r : r = [kind |-> kind, id |-> id] => Result(g.fn, g.cmd, r)'
    PROVE  RetInv'
  <1>1. /\ Len(stack[c]) # 1 =>
                /\ Busy(c)' /\ Top(c)' = Under(c)
                /\ Calls(Under(c), Top(c).fn, Top(c).cmd)
    BY PopEffect DEF Returns
  <1>2. CASE Len(stack[c]) = 1
    BY <1>2 DEF RetInv, Returns, NoResult, Kinds, Nobody, Coroutines
  <1>3. CASE Len(stack[c]) # 1
    <2>1. turn' = c /\ ret' = [kind |-> kind, id |-> id]
      BY <1>3 DEF Returns
    <2>2. frame' = Under(c)
      BY <1>1, <1>3, <2>1 DEF frame, Top
    <2>3. ASSUME NEW fn \in Functions, NEW cmd \in Commands \cup Events \cup {"none"},
                 Calls(Under(c), fn, cmd)
          PROVE  Result(fn, cmd, ret)'
      <3>1. fn = g.fn /\ cmd = g.cmd
        BY <1>1, <1>3, <2>3, CalleeUnique
      <3>. QED
        BY <3>1, <2>1
    <2>. QED
      BY <2>1, <2>2, <2>3, <1>1, <1>3 DEF RetInv
  <1>. QED
    BY <1>2, <1>3

\* Whatever the step does to the rest, a return drops no subscription that is held.
LEMMA PopCore ==
    ASSUME HostInv, NEW c \in Coroutines, c = turn, NEW kind, NEW id, Returns(c, kind, id),
           Top(c).fn # "post",
           Top(c).fn = "subsend" => Top(c).at # "start" /\ (ret.kind \in Broken => kind \in Broken),
           UNCHANGED subs, astray => astray', Rest',
           LocalInv', RetInv', LockInv', SessionInv', SubInv', ConnInv'
    PROVE  HostInv'
  <1>1. Busy(c) /\ StackInv /\ LocalInv /\ Pops(c)
    BY DEF HostInv, RetInv, Returns
  <1>2. StackInv'
    BY <1>1, PopShape
  <1>3. /\ \A d \in Coroutines \ {c} : stack'[d] = stack[d]
        /\ \A s : Drops(c, s)' <=> DropsBelow(c, s)
    BY <1>1, PopEffect
  <1>4. \A s : Drops(c, s) <=> DropsBelow(c, s) \/ Dropping(Top(c), s)
    BY <1>1, TopEffect
  <1>6. \A d \in Coroutines \ {c} :
           /\ Top(d)' = Top(d)
           /\ \A s : Drops(d, s)' <=> Drops(d, s)
    BY <1>3, Others
  <1>12. UnsubInv'
    <2>1. ASSUME NEW d \in Coroutines, d # c, Pending(d)
          PROVE  Pending(d)'
      BY <1>6, <2>1 DEF Pending
    <2>2. ASSUME NEW s, DropsBelow(c, s), Pending(c)
          PROVE  Pending(c)'
      <3>1. Top(c).fn = "subsend"
        BY <1>1, <2>2, UnderUnsubscribe
      <3>2. kind \in Broken
        BY <3>1, <2>2 DEF Pending
      <3>4. Len(stack[c]) # 1
        <4>1. stack[c][1].fn \in Root(c)
          BY <1>1 DEF StackInv, Shape, Busy
        <4>2. Len(stack[c]) = 1 => Top(c) = stack[c][1]
          BY <1>1, TopIs
        <4>. QED
          BY <4>1, <4>2, <3>1 DEF Root, Coroutines
      <3>3. turn' = c /\ ret' = [kind |-> kind, id |-> id]
        BY <3>4 DEF Returns
      <3>. QED
        BY <3>2, <3>3 DEF Pending
    <2>. QED
      BY <1>3, <1>4, <1>6, <2>1, <2>2 DEF UnsubInv, HostInv
  <1>. QED
    BY <1>2, <1>12 DEF HostInv

LEMMA PlainPop ==
    ASSUME HostInv, NEW c \in Coroutines, c = turn, NEW kind, NEW id, Returns(c, kind, id),
           Still, Passes(c, kind, id), kind \in Kinds, id \in {0} \cup Ids,
           Result(Top(c).fn, Top(c).cmd, [kind |-> kind, id |-> id]),
           Top(c).fn # "post", ~Queues(Top(c)),
           Top(c).fn = "subsend" => Top(c).at # "start" /\ (ret.kind \in Broken => kind \in Broken)
    PROVE  HostInv'
  <1>1. Busy(c) /\ StackInv /\ LocalInv /\ Pops(c)
    BY DEF HostInv, RetInv, Returns
  <1>2. LocalInv'
    BY <1>1, PopLocal, StillBenign
  <1>3. /\ \A d \in Coroutines \ {c} : stack'[d] = stack[d]
        /\ Len(stack[c]) = 1 => ~Busy(c)'
        /\ Len(stack[c]) # 1 =>
             /\ Busy(c)' /\ Top(c)' = Under(c) /\ IsFrame(Under(c))
             /\ Calls(Under(c), Top(c).fn, Top(c).cmd)
             /\ Under(c).fn # "post"
        /\ Queueing(c)' <=> QueuesBelow(c)
        /\ Holding(c)' <=> HoldsBelow(c)
        /\ \A s : Drops(c, s)' <=> DropsBelow(c, s)
    BY <1>1, PopEffect
  <1>4. /\ Queueing(c) <=> QueuesBelow(c) \/ Queues(Top(c))
        /\ Holding(c) <=> HoldsBelow(c) \/ Holds(Top(c))
        /\ \A s : Drops(c, s) <=> DropsBelow(c, s) \/ Dropping(Top(c), s)
    BY <1>1, TopEffect
  <1>6. \A d \in Coroutines \ {c} :
           /\ Busy(d)' <=> Busy(d)
           /\ Top(d)' = Top(d)
           /\ Posts(d)' <=> Posts(d)
           /\ Queueing(d)' <=> Queueing(d)
           /\ Holding(d)' <=> Holding(d)
           /\ \A s : Drops(d, s)' <=> Drops(d, s)
           /\ \A s : Answered(d, s)' <=> Answered(d, s)
    BY <1>3, Others
  <1>7. RetInv'
    <2>1. PICK g : g = Top(c)
      OBVIOUS
    <2>2. \A r : Result(g.fn, g.cmd, r) => Result(g.fn, g.cmd, r)'
      BY DEF Result, Gone, Still
    <2>. QED
      BY <1>1, <2>1, <2>2, ReturnRet
  <1>9. LockInv'
    <2>1. \A d \in Coroutines : Posts(d)' <=> Posts(d)
      BY <1>3, <1>6 DEF Posts
    <2>2. \A d \in Coroutines : (Queueing(d)' <=> Queueing(d)) /\ (Holding(d)' <=> Holding(d))
      BY <1>3, <1>4, <1>6 DEF Queues
    <2>. QED
      BY <2>1, <2>2 DEF LockInv, HostInv, Still
  <1>14. ASSUME \/ ret.kind = "ok" /\ AwaitsLogin(Top(c))
                \/ ret.kind \in Results /\ AwaitsSub(Top(c))
         PROVE  /\ turn' = c /\ ret' = [kind |-> ret.kind, id |-> ret.id]
                /\ AwaitsLogin(Top(c)) => AwaitsLogin(frame)'
                /\ AwaitsSub(Top(c)) => AwaitsSub(frame)'
    <2>1. kind = ret.kind /\ id = ret.id /\ Top(c).fn \in {"send", "subsend"}
      BY <1>14 DEF Passes
    <2>2. Len(stack[c]) # 1
      <3>1. stack[c][1].fn \in Root(c)
        BY <1>1 DEF StackInv, Shape, Busy
      <3>2. Len(stack[c]) = 1 => Top(c) = stack[c][1]
        BY <1>1, TopIs
      <3>. QED
        BY <3>1, <3>2, <2>1 DEF Root, Coroutines
    <2>3. turn' = c /\ ret' = [kind |-> kind, id |-> id]
      BY <2>2 DEF Returns
    <2>4. frame' = Under(c)
      BY <1>3, <2>2, <2>3 DEF frame, Top
    <2>5. IsFrame(Top(c))
      BY <1>1, TopIs
    <2>6. Top(c).fn = "send" => Top(c).cmd # "subscribe"
      BY <1>1, TopLocal DEF Local, Commands
    <2>7. /\ AwaitsLogin(Top(c)) => AwaitsLogin(Under(c))
          /\ AwaitsSub(Top(c)) => AwaitsSub(Under(c))
      BY <1>3, <2>1, <2>2, <2>5, <2>6, AwaitsUp
    <2>. QED
      BY <2>1, <2>3, <2>4, <2>7 DEF AwaitsLogin, AwaitsSub
  <1>10. SessionInv'
    <2>1. ASSUME NEW s \in sessions, Arrived(s) PROVE Arrived(s)'
      BY <2>1, <1>14 DEF Arrived, Results, frame, AwaitsLogin
    <2>. QED
      BY <2>1 DEF SessionInv, HostInv, Still
  <1>11. SubInv'
    <2>1. ASSUME NEW s, NEW d \in Coroutines, Answered(d, s)
          PROVE  Answered(d, s)'
      BY <1>6, <2>1 DEF Answered
    <2>2. ASSUME NEW s, Coming(s) PROVE Coming(s)'
      BY <2>1, <2>2, <1>14 DEF Coming, frame, AwaitsSub
    <2>. QED
      BY <2>2 DEF SubInv, HostInv, Still
  <1>13. ConnInv'
    BY <1>1, <1>6 DEF ConnInv, HostInv, Still
  <1>15. UNCHANGED subs /\ (astray => astray') /\ Rest'
    BY DEF Still
  <1>. QED
    BY <1>2, <1>7, <1>9, <1>10, <1>11, <1>13, <1>15, PopCore

-----------------------------------------------------------------------------
(* Calls and returns *)

\* The frames that the functions begin with.
LEMMA FrameIs ==
    ASSUME NEW fn \in Functions
    PROVE  IsFrame(Frame(fn))
  BY HostAssumption DEF IsFrame, Frame

LEMMA SendIs ==
    ASSUME NEW cmd \in Commands, NEW n \in 0 .. Retries
    PROVE  \A g : g = Send(cmd, n) =>
             /\ g.fn = "send" /\ g.at = "start" /\ g.cmd = cmd
             /\ g.retry = n /\ g.id = 0 /\ g.then = "none"
             /\ IsFrame(g)
             /\ \A c : Local(c, g)
  <1>. SUFFICES ASSUME NEW g, g = Send(cmd, n)
               PROVE  /\ g.fn = "send" /\ g.at = "start" /\ g.cmd = cmd
                      /\ g.retry = n /\ g.id = 0 /\ g.then = "none"
                      /\ IsFrame(g)
                      /\ \A c : Local(c, g)
    OBVIOUS
  <1>1. PICK h : h = Frame("send")
    OBVIOUS
  <1>2. h = [fn |-> "send", at |-> "start", cmd |-> "none", retry |-> 0, id |-> 0, then |-> "none"]
    BY <1>1 DEF Frame
  <1>3. g = [h EXCEPT !.cmd = cmd, !.retry = n]
    BY <1>1, Zenon DEF Send
  <1>4. g = [fn |-> g.fn, at |-> g.at, cmd |-> g.cmd, retry |-> g.retry, id |-> g.id,
             then |-> g.then]
    BY ONLY <1>2, <1>3
  <1>5. g.fn = "send"
    BY ONLY <1>2, <1>3
  <1>6. g.at = "start"
    BY ONLY <1>2, <1>3
  <1>7. g.cmd = cmd
    BY ONLY <1>2, <1>3
  <1>8. g.retry = n
    BY ONLY <1>2, <1>3
  <1>9. g.id = 0
    BY ONLY <1>2, <1>3
  <1>10. g.then = "none"
    BY ONLY <1>2, <1>3
  <1>11. IsFrame(g)
    BY ONLY <1>5, <1>6, <1>7, <1>8, <1>9, <1>10, <1>4, HostAssumption, cmd \in Commands, n \in 0 .. Retries DEF IsFrame, Functions, Events
  <1>12. \A c : Local(c, g)
    BY <1>5, <1>6, <1>7, <1>8, <1>9, <1>10 DEF Local, Commands
  <1>. QED
    BY <1>5, <1>6, <1>7, <1>8, <1>9, <1>10, <1>11, <1>12

LEMMA ExpireIs ==
    ASSUME NEW unsub
    PROVE  /\ IsFrame(Expire(unsub))
           /\ Expire(unsub).fn = "expire" /\ Expire(unsub).at = "start"
           /\ Expire(unsub).cmd = "none"
           /\ \A c : Local(c, Expire(unsub))
  <1>1. Expire(unsub) = [fn |-> "expire", at |-> "start", cmd |-> "none", retry |-> 0,
                         id |-> 0, then |-> IF unsub THEN "unsubscribe" ELSE "none"]
    BY DEF Expire, Frame
  <1>. QED
    BY <1>1, HostAssumption DEF IsFrame, Functions, Local, Commands

LEMMA SubSendIs ==
    ASSUME NEW cmd \in Events, NEW id \in {0} \cup Ids
    PROVE  \A g : g = SubSend(cmd, id) =>
             /\ g.fn = "subsend" /\ g.at = "start" /\ g.cmd = cmd
             /\ g.retry = 0 /\ g.id = id /\ g.then = "none"
             /\ IsFrame(g)
  <1>. SUFFICES ASSUME NEW g, g = SubSend(cmd, id)
               PROVE  /\ g.fn = "subsend" /\ g.at = "start" /\ g.cmd = cmd
                      /\ g.retry = 0 /\ g.id = id /\ g.then = "none"
                      /\ IsFrame(g)
    OBVIOUS
  <1>1. PICK h : h = Frame("subsend")
    OBVIOUS
  <1>2. h = [fn |-> "subsend", at |-> "start", cmd |-> "none", retry |-> 0, id |-> 0, then |-> "none"]
    BY <1>1 DEF Frame
  <1>3. g = [h EXCEPT !.cmd = cmd, !.id = id]
    BY <1>1, Zenon DEF SubSend
  <1>4. g = [fn |-> g.fn, at |-> g.at, cmd |-> g.cmd, retry |-> g.retry, id |-> g.id,
             then |-> g.then]
    BY ONLY <1>2, <1>3
  <1>5. g.fn = "subsend"
    BY ONLY <1>2, <1>3
  <1>6. g.at = "start"
    BY ONLY <1>2, <1>3
  <1>7. g.cmd = cmd
    BY ONLY <1>2, <1>3
  <1>8. g.retry = 0
    BY ONLY <1>2, <1>3
  <1>9. g.id = id
    BY ONLY <1>2, <1>3
  <1>10. g.then = "none"
    BY ONLY <1>2, <1>3
  <1>11. IsFrame(g)
    BY ONLY <1>5, <1>6, <1>7, <1>8, <1>9, <1>10, <1>4, HostAssumption, cmd \in Events, id \in {0} \cup Ids DEF IsFrame, Functions, Events
  <1>. QED
    BY <1>5, <1>6, <1>7, <1>8, <1>9, <1>10, <1>11

\* About the coroutine that runs.
LEMMA Running ==
    ASSUME HostInv, NEW c \in Coroutines, c = turn
    PROVE  /\ StackInv /\ LocalInv /\ Busy(c) /\ frame = Top(c)
           /\ IsFrame(Top(c)) /\ Local(c, Top(c))
           /\ ret.kind \in Kinds /\ ret.id \in {0} \cup Ids
           /\ \A fn, cmd : Calls(Top(c), fn, cmd) => Result(fn, cmd, ret)
           /\ Top(c).fn = "send" /\ Top(c).cmd \in {"Login", "Logout"} =>
                  Top(c).at \notin {"login", "apart"}
  <1>1. StackInv /\ LocalInv /\ Busy(c) /\ frame = Top(c)
    BY DEF HostInv, RetInv, frame
  <1>2. IsFrame(Top(c)) /\ Local(c, Top(c))
    BY <1>1, TopIs, TopLocal
  <1>3. ASSUME NEW fn, NEW cmd, Calls(Top(c), fn, cmd) PROVE Result(fn, cmd, ret)
    <2>1. fn \in Functions /\ cmd \in Commands \cup Events \cup {"none"}
      BY <1>2, <1>3 DEF Calls, IsFrame, Functions, Commands
    <2>. QED
      BY <1>1, <1>3, <2>1 DEF HostInv, RetInv
  <1>4. Top(c).cmd \in {"Login", "Logout"} => Inside(Top(c))
    BY <1>1, UnderLock
  <1>. QED
    BY <1>1, <1>2, <1>3, <1>4 DEF HostInv, RetInv, Inside

LEMMA OnlyExecStill == HostInv /\ OnlyExec => Still
  BY DEF HostInv, OnlyExec, Still, Rest, locks, aio, session, events, camera

\* Call, Return and PassOn, when nothing shared changes.
LEMMA Calling ==
    ASSUME HostInv, NEW c \in Coroutines, c = turn, NEW place, NEW next, NEW g,
           CallThen(place, next, g), Still, Handled(c),
           IsFrame(g), g.at = "start", g.fn # "post", Local(c, g),
           Top(c).fn \notin {"post", "unsubscribe"},
           Top(c).fn = "subsend" => Top(c).cmd # "unsubscribe",
           Top(c).at \notin {"waits", "answered"},
           \A f : /\ IsFrame(f) /\ f.fn = Top(c).fn /\ f.cmd = Top(c).cmd
                  /\ f.retry = Top(c).retry /\ f.id = Top(c).id
                  /\ f.at = place /\ f.then = next
                  => /\ Local(c, f) /\ Calls(f, g.fn, g.cmd)
                     /\ Inside(Top(c)) => Inside(f) /\ Inside(g)
                     /\ Holds(f) <=> Holds(Top(c))
                     /\ Holds(f) => Inside(g)
                     /\ g.cmd \in {"Login", "Logout"} =>
                           \/ g.cmd = f.cmd
                           \/ Holds(f) /\ f.at = (IF g.cmd = "Login" THEN "in" ELSE "out")
    PROVE  HostInv'
  <1>1. frame = Top(c) /\ IsFrame(Top(c))
    BY Running
  <1>2. PICK f : f = [Top(c) EXCEPT !.at = place, !.then = next]
    OBVIOUS
  <1>3. /\ IsFrame(f) /\ f.fn = Top(c).fn /\ f.cmd = Top(c).cmd
        /\ f.retry = Top(c).retry /\ f.id = Top(c).id
        /\ f.at = place /\ f.then = next
    BY <1>1, <1>2 DEF IsFrame
  <1>4. /\ Local(c, f) /\ Calls(f, g.fn, g.cmd)
        /\ Inside(Top(c)) => Inside(f) /\ Inside(g)
        /\ Holds(f) <=> Holds(Top(c))
        /\ Holds(f) => Inside(g)
        /\ g.cmd \in {"Login", "Logout"} =>
              \/ g.cmd = f.cmd
              \/ Holds(f) /\ f.at = (IF g.cmd = "Login" THEN "in" ELSE "out")
    BY <1>3
  <1>5. f.at \notin {"waits", "answered"}
    BY <1>4 DEF Calls, Events
  <1>6. FitsOn(c, f, g)
    BY <1>3, <1>4, <1>5 DEF FitsOn, Fits
  <1>7. Local(c, f)' /\ Local(c, g)'
    BY <1>4, StillBenign, LocalKept
  <1>8. Pushes(c, f, g) /\ turn' = c /\ ret' = NoResult
    BY <1>1, <1>2 DEF CallThen, Pushes
  <1>. QED
    BY <1>4, <1>5, <1>6, <1>7, <1>8, PlainPush

LEMMA Returning ==
    ASSUME HostInv, NEW c \in Coroutines, c = turn, NEW kind \in Kinds, NEW id \in {0} \cup Ids,
           Return(kind, id), Still,
           Result(Top(c).fn, Top(c).cmd, [kind |-> kind, id |-> id]),
           Handled(c), Top(c).fn # "post", ~Queues(Top(c)),
           Top(c).fn = "subsend" => Top(c).at # "start" /\ (ret.kind \in Broken => kind \in Broken)
    PROVE  HostInv'
  <1>1. Returns(c, kind, id) /\ Passes(c, kind, id)
    BY DEF Return, Leave, Returns, Pops, Passes, Handled
  <1>. QED
    BY <1>1, PlainPop

LEMMA Passing ==
    ASSUME HostInv, NEW c \in Coroutines, c = turn, PassOn, Still,
           Result(Top(c).fn, Top(c).cmd, ret),
           Top(c).fn \in {"send", "subsend"} \/ Handled(c),
           Top(c).fn # "post", ~Queues(Top(c)),
           Top(c).fn = "subsend" => Top(c).at # "start"
    PROVE  HostInv'
  <1>1. Returns(c, ret.kind, ret.id) /\ Passes(c, ret.kind, ret.id)
    BY DEF PassOn, Return, Leave, Returns, Pops, Passes, Handled
  <1>2. Result(Top(c).fn, Top(c).cmd, [kind |-> ret.kind, id |-> ret.id])
    BY DEF Result
  <1>. QED
    BY <1>1, <1>2, Running, PlainPop

-----------------------------------------------------------------------------
(* The steps of send *)

\* Inside a try or not, the session is expired.
LEMMA SendExpires ==
    ASSUME HostInv, NEW c \in Coroutines, c = turn, NEW place \in {"cleaned", "handled"}, NEW next,
           NEW unsub, CallThen(place, next, Expire(unsub)), Still, Handled(c),
           Top(c).fn = "send", Top(c).at \notin {"waits", "answered"},
           place = "handled" => next \in Kinds \ {"ok", "odd"},
           place = "cleaned" => next = "fail" \/ Top(c).retry >= 2,
           Top(c).cmd = "Logout" => Gone \/ (place = "handled" /\ next \in Broken)
    PROVE  HostInv'
  <1>1. Local(c, Top(c)) /\ IsFrame(Top(c))
    BY Running
  <1>2. PICK g : g = Expire(unsub)
    OBVIOUS
  <1>3. /\ IsFrame(g) /\ g.fn = "expire" /\ g.at = "start" /\ g.cmd = "none" /\ Local(c, g)
    BY <1>2, ExpireIs
  <1>4. ASSUME NEW f, IsFrame(f), f.fn = Top(c).fn, f.cmd = Top(c).cmd,
               f.retry = Top(c).retry, f.id = Top(c).id, f.at = place, f.then = next
        PROVE  /\ Local(c, f) /\ Calls(f, g.fn, g.cmd)
               /\ Inside(Top(c)) => Inside(f) /\ Inside(g)
               /\ ~Holds(f) /\ ~Holds(Top(c))
    <2>1. Local(c, f)
      BY <1>1, <1>4 DEF Local, IsFrame, Commands, Events
    <2>. QED
      BY <2>1, <1>3, <1>4 DEF Calls, Inside, Holds
  <1>5. CallThen(place, next, g)
    BY <1>2
  <1>. QED
    BY <1>3, <1>4, <1>5, Calling

\* Handle keeps the invariant: it tries again, or expires the session.
LEMMA SendTriesAgain ==
    ASSUME HostInv, NEW c \in Coroutines, c = turn, Again, Still, Handled(c),
           Top(c).fn = "send", Top(c).at \notin {"waits", "answered"}, Top(c).retry >= 1
    PROVE  HostInv'
  <1>1. frame = Top(c) /\ Local(c, Top(c)) /\ IsFrame(Top(c))
    BY Running
  <1>2. PICK f : f = [Top(c) EXCEPT !.at = "start", !.retry = @ - 1]
    OBVIOUS
  <1>3. /\ IsFrame(f) /\ f.fn = Top(c).fn /\ f.cmd = Top(c).cmd
        /\ f.id = Top(c).id /\ f.at = "start"
    <2>1. PICK t : t = Top(c)
      OBVIOUS
    <2>2. t.retry - 1 \in 0 .. Retries
      BY <1>1, <2>1, HostAssumption DEF IsFrame
    <2>3. /\ f = [fn |-> f.fn, at |-> f.at, cmd |-> f.cmd, retry |-> f.retry, id |-> f.id,
                  then |-> f.then]
          /\ f.fn = t.fn /\ f.cmd = t.cmd /\ f.id = t.id /\ f.at = "start"
      BY <1>1, <1>2, <2>1 DEF IsFrame
    <2>4. f.retry = t.retry - 1
      BY <1>1, <1>2, <2>1 DEF IsFrame
    <2>. QED
      BY <1>1, <2>1, <2>2, <2>3, <2>4 DEF IsFrame
  <1>4. Fits(c, f)
    BY <1>3 DEF Fits, Inside
  <1>5. Local(c, f)
    BY <1>1, <1>3 DEF Local
  <1>6. Local(c, f)'
    BY <1>5, StillBenign, LocalKept
  <1>7. Replaces(c, f) /\ turn' = c /\ ret' = NoResult
    BY <1>1, <1>2 DEF Again, Goto, Replaces
  <1>. QED
    BY <1>3, <1>4, <1>6, <1>7, PlainReplace

LEMMA HandleStep ==
    ASSUME HostInv, NEW c \in Coroutines, c = turn, NEW kind \in Kinds \ {"ok", "odd"}, Handle(kind),
           Still, Handled(c),
           Top(c).fn = "send", Top(c).at \notin {"waits", "answered"},
           Top(c).cmd = "Logout" => Gone \/ kind = "closed"
    PROVE  HostInv'
  <1>1. frame = Top(c) /\ IsFrame(Top(c))
    BY Running
  <1>2. CASE Again
    <2>1. CASE Exhausted
      <3>1. PICK next : next = IF kind \in {"lost", "payload"} THEN "error" ELSE kind
        OBVIOUS
      <3>2. CallThen("handled", next, Expire(kind # "api"))
        BY <2>1, <3>1 DEF Handle
      <3>3. /\ next \in Kinds \ {"ok", "odd"}
            /\ Top(c).cmd = "Logout" => Gone \/ next \in Broken
        BY <3>1 DEF Kinds, Failed, Broken
      <3>. QED
        BY <3>2, <3>3, SendExpires
    <2>2. CASE ~Exhausted
      <3>1. Top(c).retry >= 1
        BY <2>2, <1>1, HostAssumption DEF Exhausted, IsFrame
      <3>. QED
        BY <1>2, <3>1, SendTriesAgain
    <2>. QED
      BY <2>1, <2>2
  <1>3. CASE ~Again
    <2>1. PICK next : next = IF kind \in {"lost", "payload"} THEN "error" ELSE kind
      OBVIOUS
    <2>2. CallThen("handled", next, Expire(kind # "api"))
      BY <1>3, <2>1 DEF Handle
    <2>3. /\ next \in Kinds \ {"ok", "odd"}
          /\ Top(c).cmd = "Logout" => Gone \/ next \in Broken
      BY <2>1 DEF Kinds, Failed, Broken
    <2>. QED
      BY <2>2, <2>3, SendExpires
  <1>. QED
    BY <1>2, <1>3

LEMMA SendNoLoginStep ==
    ASSUME HostInv, SendNoLogin
    PROVE  HostInv'
  <1>1. PICK c \in Coroutines : c = turn
    BY DEF SendNoLogin, Back, At
  <1>2. /\ Local(c, Top(c)) /\ IsFrame(Top(c))
        /\ Top(c).fn = "send" /\ Top(c).at = "login" /\ PassOn /\ Still
        /\ Top(c).cmd \notin {"Login", "Logout"}
        /\ ret.kind \in Broken \cup Failed
    BY <1>1, Running, OnlyExecStill DEF SendNoLogin, Back, At
  <1>3. Result(Top(c).fn, Top(c).cmd, ret)
    BY <1>2 DEF Result, Local, Commands, Broken, Failed
  <1>. QED
    BY <1>1, <1>2, <1>3, Passing DEF Queues, Holds

LEMMA SendPostedStep ==
    ASSUME HostInv, SendPosted
    PROVE  HostInv'
  <1>1. PICK c \in Coroutines : c = turn
    BY DEF SendPosted, Back, At
  <1>2. /\ frame = Top(c) /\ Local(c, Top(c)) /\ IsFrame(Top(c))
        /\ Top(c).fn = "send" /\ Top(c).at = "posted" /\ Still
        /\ ret.kind \in Kinds
    BY <1>1, Running, OnlyExecStill DEF SendPosted, Back, At
  <1>3. Result("post", Top(c).cmd, ret) /\ Top(c).cmd \in Commands
    <2>1. Calls(Top(c), "post", Top(c).cmd)
      BY <1>2 DEF Calls
    <2>. QED
      BY <1>1, <1>2, <2>1, Running DEF Local
  <1>4. ret.kind # "ok" => Handled(c)
    <2>1. ~AwaitsSub(Top(c))
      BY <1>2, <1>3 DEF AwaitsSub, Calls, Commands, Events
    <2>. QED
      BY <2>1 DEF Handled
  <1>5. /\ Top(c).cmd = "Logout" => ret.kind = "closed" \/ Gone
        /\ ret.kind # "odd"
    BY <1>3 DEF Result
  <1>6. CASE ret.kind \in {"ok", "empty", "none"}
    <2>1. PassOn
      BY <1>6 DEF SendPosted
    <2>2. Result(Top(c).fn, Top(c).cmd, ret)
      BY <1>2, <1>3, <1>5, <1>6 DEF Result, Broken
    <2>. QED
      BY <1>1, <1>2, <2>1, <2>2, Passing DEF Queues, Holds
  <1>7. ASSUME NEW kind \in Kinds \ {"ok", "odd"}, Handle(kind), ret.kind # "ok",
               kind = ret.kind \/ ret.kind # "closed"
        PROVE  HostInv'
    BY <1>1, <1>2, <1>4, <1>5, <1>7, HandleStep
  <1>8. ASSUME NEW next, NEW unsub, Clean(next, unsub),
               ret.kind \notin {"ok", "closed"}, next = "fail" \/ ~Exhausted
        PROVE  HostInv'
    <2>1. next = "fail" \/ Top(c).retry >= 2
      BY <1>2, <1>8, HostAssumption DEF Exhausted, IsFrame
    <2>2. CallThen("cleaned", next, Expire(unsub))
      BY <1>8 DEF Clean
    <2>. QED
      BY <1>1, <1>2, <1>4, <1>5, <1>8, <2>1, <2>2, SendExpires
  <1>9. CASE ret.kind = "denied"
    BY <1>9, <1>7, <1>8 DEF SendPosted, Kinds, Failed
  <1>10. CASE ret.kind = "gateway"
    BY <1>10, <1>7, <1>8 DEF SendPosted, Kinds, Failed
  <1>11. CASE ret.kind = "garbled"
    BY <1>11, <1>7, <1>8 DEF SendPosted, Kinds, Failed
  <1>12. CASE ret.kind = "bad"
    BY <1>12, <1>7 DEF SendPosted, Kinds, Failed
  <1>13. CASE ret.kind = "null"
    BY <1>13, <1>8 DEF SendPosted
  <1>14. CASE ret.kind = "fewer"
    <2>1. CASE Exhausted
      BY <1>14, <2>1, <1>7 DEF SendPosted, Kinds, Failed
    <2>2. CASE ~Exhausted /\ frame.retry # 2
      BY <1>14, <2>2, <1>8 DEF SendPosted
    <2>3. CASE ~Exhausted /\ frame.retry = 2
      <3>1. PICK g : g = Send("NetPort", 2)
        OBVIOUS
      <3>2. 2 \in 0 .. Retries
        BY <1>2, <2>3 DEF IsFrame
      <3>3. /\ g.fn = "send" /\ g.at = "start" /\ g.cmd = "NetPort" /\ IsFrame(g) /\ Local(c, g)
        BY <3>1, <3>2, SendIs DEF Commands
      <3>4. CallThen("apart", Top(c).then, g)
        BY <1>2, <1>14, <2>3, <3>1 DEF SendPosted, Call
      <3>5. Top(c).cmd \notin {"Login", "Logout"}
        BY <1>3, <1>14 DEF Result
      <3>6. ASSUME NEW f, IsFrame(f), f.fn = Top(c).fn, f.cmd = Top(c).cmd,
                   f.retry = Top(c).retry, f.id = Top(c).id, f.at = "apart", f.then = Top(c).then
            PROVE  /\ Local(c, f) /\ Calls(f, g.fn, g.cmd)
                   /\ ~Inside(Top(c)) /\ ~Holds(f) /\ ~Holds(Top(c))
        BY <1>2, <1>3, <3>3, <3>5, <3>6 DEF Local, Calls, Inside, Holds, Commands, Events
      <3>. QED
        BY <1>1, <1>2, <1>4, <1>14, <3>3, <3>4, <3>6, Calling
    <2>. QED
      BY <2>1, <2>2, <2>3
  <1>15. CASE ret.kind \notin {"ok", "empty", "none", "denied", "gateway", "garbled", "bad", "null",
                               "fewer"}
    <2>1. Handle(ret.kind)
      BY <1>15 DEF SendPosted
    <2>. QED
      BY <1>2, <1>5, <1>7, <1>15, <2>1
  <1>. QED
    BY <1>6, <1>9, <1>10, <1>11, <1>12, <1>13, <1>14, <1>15

LEMMA SendCleanedStep ==
    ASSUME HostInv, SendCleaned
    PROVE  HostInv'
  <1>1. PICK c \in Coroutines : c = turn
    BY DEF SendCleaned, Back, At
  <1>2. /\ frame = Top(c) /\ Local(c, Top(c)) /\ IsFrame(Top(c))
        /\ Top(c).fn = "send" /\ Top(c).at = "cleaned" /\ Still
        /\ ret.kind \in Kinds
    BY <1>1, Running, OnlyExecStill DEF SendCleaned, Back, At
  <1>3. Handled(c)
    BY <1>2 DEF Handled, AwaitsLogin, AwaitsSub, Calls, Events
  <1>4. Top(c).cmd = "Logout" => Gone
    BY <1>2 DEF Local
  <1>5. CASE ret.kind # "ok"
    <2>1. ret.kind # "odd"
      <3>1. Calls(Top(c), "expire", "none")
        BY <1>2 DEF Calls
      <3>2. Result("expire", "none", ret)
        BY <1>1, <3>1, Running
      <3>. QED
        BY <3>2 DEF Result, Broken
    <2>. QED
      BY <1>1, <1>2, <1>3, <1>4, <1>5, <2>1, HandleStep DEF SendCleaned
  <1>6. CASE ret.kind = "ok" /\ frame.then = "fail"
    <2>1. "error" \in Kinds \ {"ok", "odd"}
      BY DEF Kinds, Failed
    <2>. QED
      BY <1>1, <1>2, <1>3, <1>4, <1>6, <2>1, HandleStep DEF SendCleaned
  <1>7. CASE ret.kind = "ok" /\ frame.then # "fail"
    <2>1. Top(c).cmd \in Commands /\ Top(c).retry - 1 \in 0 .. Retries
      BY <1>2, <1>7, HostAssumption DEF Local, IsFrame
    <2>2. PICK g : g = Send(Top(c).cmd, Top(c).retry - 1)
      OBVIOUS
    <2>3. /\ g.fn = "send" /\ g.at = "start" /\ g.cmd = Top(c).cmd /\ IsFrame(g) /\ Local(c, g)
      BY <2>1, <2>2, SendIs
    <2>4. CallThen("again", Top(c).then, g)
      BY <1>2, <1>7, <2>2 DEF SendCleaned, Call
    <2>5. ASSUME NEW f, IsFrame(f), f.fn = Top(c).fn, f.cmd = Top(c).cmd,
                 f.retry = Top(c).retry, f.id = Top(c).id, f.at = "again", f.then = Top(c).then
          PROVE  /\ Local(c, f) /\ Calls(f, g.fn, g.cmd)
                 /\ Inside(Top(c)) => Inside(f) /\ Inside(g)
                 /\ ~Holds(f) /\ ~Holds(Top(c)) /\ g.cmd = f.cmd
      <3>1. Local(c, f)
        BY <1>2, <1>4, <2>5 DEF Local
      <3>. QED
        BY <1>2, <2>3, <2>5, <3>1 DEF Calls, Inside, Holds
    <2>. QED
      BY <1>1, <1>2, <1>3, <2>3, <2>4, <2>5, Calling
  <1>. QED
    BY <1>5, <1>6, <1>7

LEMMA SendAgainStep ==
    ASSUME HostInv, SendAgain
    PROVE  HostInv'
  <1>1. PICK c \in Coroutines : c = turn
    BY DEF SendAgain, Back, At
  <1>2. /\ frame = Top(c) /\ Local(c, Top(c)) /\ IsFrame(Top(c))
        /\ Top(c).fn = "send" /\ Top(c).at \in {"again", "apart"} /\ Still
        /\ ret.kind \in Kinds
        /\ Top(c).cmd \in {"Login", "Logout"} => Top(c).at # "apart"
    BY <1>1, Running, OnlyExecStill DEF SendAgain, Back, At
  <1>3. /\ Top(c).at = "again" => Result("send", Top(c).cmd, ret)
        /\ ret.kind # "odd"
    <2>1. /\ Top(c).at = "again" => Calls(Top(c), "send", Top(c).cmd)
          /\ Top(c).at = "apart" => Calls(Top(c), "send", "NetPort")
          /\ Top(c).cmd \in Commands
      BY <1>2 DEF Calls, Local
    <2>2. /\ Top(c).at = "again" => Result("send", Top(c).cmd, ret)
          /\ Top(c).at = "apart" => Result("send", "NetPort", ret)
      BY <1>1, <2>1, Running
    <2>. QED
      BY <1>2, <2>1, <2>2 DEF Result, Commands
  <1>4. ret.kind # "ok" => Handled(c)
    <2>1. ~AwaitsSub(Top(c))
      BY <1>2 DEF AwaitsSub, Calls, Commands, Events, Local
    <2>. QED
      BY <2>1 DEF Handled
  <1>5. CASE ret.kind \in {"ok", "empty", "none"}
    <2>1. PassOn
      BY <1>5 DEF SendAgain
    <2>2. Result(Top(c).fn, Top(c).cmd, ret)
      BY <1>2, <1>3 DEF Result, Local, Commands
    <2>. QED
      BY <1>1, <1>2, <2>1, <2>2, Passing DEF Queues, Holds
  <1>6. CASE ret.kind \notin {"ok", "empty", "none"}
    <2>1. PICK kind : kind = IF frame.at = "apart" /\ ret.kind \notin Broken THEN "error"
                             ELSE ret.kind
      OBVIOUS
    <2>2. Handle(kind) /\ kind \in Kinds \ {"ok", "odd"}
      BY <1>2, <1>3, <1>6, <2>1 DEF SendAgain, Kinds, Failed
    <2>3. Top(c).cmd = "Logout" => Gone
      BY <1>2 DEF Local
    <2>. QED
      BY <1>1, <1>2, <1>4, <1>6, <2>2, <2>3, HandleStep
  <1>. QED
    BY <1>5, <1>6

LEMMA SendHandledStep ==
    ASSUME HostInv, SendHandled
    PROVE  HostInv'
  <1>1. PICK c \in Coroutines : c = turn
    BY DEF SendHandled, Back, At
  <1>2. /\ frame = Top(c) /\ Local(c, Top(c)) /\ IsFrame(Top(c))
        /\ Top(c).fn = "send" /\ Top(c).at = "handled" /\ Still
        /\ ret.kind \in Kinds
    BY <1>1, Running, OnlyExecStill DEF SendHandled, Back, At
  <1>3. Handled(c)
    BY <1>2 DEF Handled, AwaitsLogin, AwaitsSub, Calls, Events
  <1>4. Result("expire", "none", ret)
    <2>1. Calls(Top(c), "expire", "none")
      BY <1>2 DEF Calls
    <2>. QED
      BY <1>1, <2>1, Running
  <1>5. CASE ret.kind = "ok"
    <2>1. Return(Top(c).then, 0)
      BY <1>2, <1>5 DEF SendHandled
    <2>2. /\ Top(c).then \in Kinds \ {"ok", "odd"}
          /\ Result(Top(c).fn, Top(c).cmd, [kind |-> Top(c).then, id |-> 0])
      BY <1>2 DEF Local, Result, Gone, Commands
    <2>. QED
      BY <1>1, <1>2, <1>3, <2>1, <2>2, Returning DEF Queues, Holds
  <1>6. CASE ret.kind # "ok"
    <2>1. PassOn
      BY <1>6 DEF SendHandled
    <2>2. Result(Top(c).fn, Top(c).cmd, ret)
      BY <1>2, <1>4, <1>6 DEF Result, Local, Commands, Broken
    <2>. QED
      BY <1>1, <1>2, <2>1, <2>2, Passing DEF Queues, Holds
  <1>. QED
    BY <1>5, <1>6

\* The login that a command waits for.
LEMMA SendLogsIn ==
    ASSUME HostInv, At("send", "start") \/ Back("send", "login", Ok),
           frame.at = "start", frame.cmd \notin {"Login", "Logout"},
           Call("login", Frame("login")), Still
    PROVE  HostInv'
  <1>1. PICK c \in Coroutines : c = turn
    BY DEF Back, At
  <1>2. /\ frame = Top(c) /\ Local(c, Top(c)) /\ IsFrame(Top(c))
        /\ Top(c).fn = "send" /\ Top(c).at = "start" /\ Top(c).cmd \notin {"Login", "Logout"}
    BY <1>1, Running DEF Back, At
  <1>3. Handled(c)
    BY <1>2 DEF Handled, AwaitsLogin, AwaitsSub, Calls, Events
  <1>4. PICK g : g = Frame("login")
    OBVIOUS
  <1>5. g.fn = "login" /\ g.at = "start" /\ g.cmd = "none" /\ IsFrame(g) /\ Local(c, g)
    BY <1>4, FrameIs DEF Frame, Functions, Local
  <1>6. CallThen("login", Top(c).then, g)
    BY <1>2, <1>4 DEF Call
  <1>7. ASSUME NEW f, IsFrame(f), f.fn = Top(c).fn, f.cmd = Top(c).cmd,
               f.retry = Top(c).retry, f.id = Top(c).id, f.at = "login", f.then = Top(c).then
        PROVE  /\ Local(c, f) /\ Calls(f, g.fn, g.cmd)
               /\ ~Inside(Top(c)) /\ ~Holds(f) /\ ~Holds(Top(c))
    BY <1>2, <1>5, <1>7 DEF Local, Calls, Inside, Holds, Commands, Events
  <1>. QED
    BY <1>1, <1>2, <1>3, <1>5, <1>6, <1>7, Calling

-----------------------------------------------------------------------------
(* The steps of the other functions that change nothing they share *)

Outer == {"connect", "data", "states", "state", "rtsp", "check", "snap", "poll", "deinit",
          "renew", "subscribe", "expire"}

\* They call, return and pass on, and wait for no token or subscription themselves.
LEMMA OuterCalls ==
    ASSUME HostInv, NEW c \in Coroutines, c = turn, NEW place, NEW g, Call(place, g), Still,
           Top(c).fn \in Outer, Top(c).fn = "subscribe" => Top(c).at # "sent",
           IsFrame(g), g.at = "start", g.fn # "post", Local(c, g),
           g.cmd \notin {"Login", "Logout"},
           Top(c).fn = "expire" => g.fn = "unsubscribe",
           \A f : /\ IsFrame(f) /\ f.fn = Top(c).fn /\ f.cmd = Top(c).cmd
                  /\ f.retry = Top(c).retry /\ f.id = Top(c).id
                  /\ f.at = place /\ f.then = Top(c).then
                  => Local(c, f) /\ Calls(f, g.fn, g.cmd)
    PROVE  HostInv'
  <1>1. /\ frame = Top(c) /\ Local(c, Top(c)) /\ IsFrame(Top(c))
        /\ Busy(c) /\ StackInv
    BY Running
  <1>2. Handled(c)
    BY DEF Outer, Handled, AwaitsLogin, AwaitsSub, Calls, Events
  <1>3. Top(c).at \notin {"waits", "answered"}
    BY <1>1 DEF Local, Outer
  <1>4. ASSUME NEW f, IsFrame(f), f.fn = Top(c).fn, f.cmd = Top(c).cmd,
               f.retry = Top(c).retry, f.id = Top(c).id, f.at = place, f.then = Top(c).then
        PROVE  /\ Local(c, f) /\ Calls(f, g.fn, g.cmd)
               /\ Inside(Top(c)) => Inside(f) /\ Inside(g)
               /\ ~Holds(f) /\ ~Holds(Top(c))
    <2>1. Local(c, f) /\ Calls(f, g.fn, g.cmd)
      BY <1>4
    <2>. QED
      BY <2>1, <1>4 DEF Outer, Inside, Holds
  <1>5. CallThen(place, Top(c).then, g)
    BY <1>1 DEF Call
  <1>. QED
    BY <1>2, <1>3, <1>4, <1>5, Calling DEF Outer

LEMMA OuterReturns ==
    ASSUME HostInv, NEW c \in Coroutines, c = turn, NEW kind \in Kinds, NEW id \in {0} \cup Ids,
           Return(kind, id), Still,
           Top(c).fn \in Outer, Top(c).fn = "subscribe" => Top(c).at # "sent",
           kind = "ok" => Top(c).fn # "subscribe",
           Top(c).fn = "expire" => kind \in {"ok"} \cup Broken
    PROVE  HostInv'
  <1>1. Local(c, Top(c)) /\ IsFrame(Top(c))
    BY Running
  <1>2. Handled(c)
    BY DEF Outer, Handled, AwaitsLogin, AwaitsSub, Calls, Events
  <1>3. Result(Top(c).fn, Top(c).cmd, [kind |-> kind, id |-> id])
    BY <1>1 DEF Local, Outer, Result, Commands
  <1>. QED
    BY <1>2, <1>3, Returning DEF Outer, Queues, Holds

LEMMA OuterPasses ==
    ASSUME HostInv, NEW c \in Coroutines, c = turn, PassOn, Still,
           Top(c).fn \in Outer, Top(c).fn = "subscribe" => Top(c).at # "sent",
           ret.kind = "ok" => Top(c).fn # "subscribe",
           Top(c).fn = "expire" => ret.kind \in {"ok"} \cup Broken
    PROVE  HostInv'
  <1>1. Local(c, Top(c)) /\ IsFrame(Top(c))
    BY Running
  <1>2. Handled(c)
    BY DEF Outer, Handled, AwaitsLogin, AwaitsSub, Calls, Events
  <1>3. Result(Top(c).fn, Top(c).cmd, ret)
    BY <1>1 DEF Local, Outer, Result, Commands
  <1>. QED
    BY <1>2, <1>3, Passing DEF Outer, Queues, Holds

\* A function without a command calls another.
LEMMA OuterCallsFn ==
    ASSUME HostInv, NEW c \in Coroutines, c = turn, NEW place,
           NEW fn \in {"data", "states", "rtsp", "state", "renew", "subscribe", "unsubscribe",
                       "logout"},
           Call(place, Frame(fn)), Still,
           Top(c).fn \in Outer, Top(c).fn = "subscribe" => Top(c).at # "sent",
           Top(c).fn = "expire" => fn = "unsubscribe",
           fn = "data" => c = "main" /\ conn = "connecting",
           fn = "subscribe" => Subscriber(c) /\ manager = 0,
           \A f : /\ f.fn = Top(c).fn /\ f.cmd = Top(c).cmd
                  /\ f.retry = Top(c).retry /\ f.id = Top(c).id
                  /\ f.at = place /\ f.then = Top(c).then
                  => Local(c, f) /\ Calls(f, fn, "none")
    PROVE  HostInv'
  <1>1. PICK g : g = Frame(fn)
    OBVIOUS
  <1>2. g.fn = fn /\ g.at = "start" /\ g.cmd = "none" /\ IsFrame(g)
    BY <1>1, FrameIs DEF Frame, Functions
  <1>3. Local(c, g)
    BY <1>2 DEF Local
  <1>4. Call(place, g)
    BY <1>1
  <1>. QED
    BY <1>2, <1>3, <1>4, OuterCalls

LEMMA OuterSends ==
    ASSUME HostInv, NEW c \in Coroutines, c = turn, NEW place,
           NEW cmd \in {"List", "Enc", "Snap", "Poll"},
           Call(place, Send(cmd, Retries)), Still,
           Top(c).fn \in Outer \ {"expire", "subscribe"},
           \A f : /\ f.fn = Top(c).fn /\ f.cmd = Top(c).cmd
                  /\ f.retry = Top(c).retry /\ f.id = Top(c).id
                  /\ f.at = place /\ f.then = Top(c).then
                  => Local(c, f) /\ Calls(f, "send", cmd)
    PROVE  HostInv'
  <1>1. PICK g : g = Send(cmd, Retries)
    OBVIOUS
  <1>2. Retries \in 0 .. Retries /\ cmd \in Commands
    BY HostAssumption DEF Commands
  <1>3. g.fn = "send" /\ g.at = "start" /\ g.cmd = cmd /\ IsFrame(g) /\ Local(c, g)
    BY <1>1, <1>2, SendIs
  <1>4. Call(place, g)
    BY <1>1
  <1>. QED
    BY <1>3, <1>4, OuterCalls

\* What a function with no command of its own has just got.
LEMMA OuterGot ==
    ASSUME HostInv, NEW c \in Coroutines, c = turn
    PROVE  /\ Top(c).fn = "subscribe" /\ Top(c).at = "undone" =>
                  Result("unsubscribe", "none", ret)
           /\ Top(c).fn = "expire" /\ Top(c).at = "unsubscribed" =>
                  Result("unsubscribe", "none", ret)
           /\ Top(c).fn = "connect" /\ Top(c).at = "cleaned" =>
                  Result("unsubscribe", "none", ret)
           /\ Top(c).fn = "connect" /\ Top(c).at = "subscribed" =>
                  Result("subscribe", "none", ret)
           /\ Top(c).fn = "check" /\ Top(c).at \in {"dropped", "cleaned"} =>
                  Result("unsubscribe", "none", ret)
  BY Running DEF Calls

LEMMA ExpireStartStep ==
    ASSUME HostInv, ExpireStart
    PROVE  HostInv'
  <1>1. PICK c \in Coroutines : c = turn
    BY DEF ExpireStart, At
  <1>2. /\ frame = Top(c) /\ Local(c, Top(c)) /\ IsFrame(Top(c))
        /\ Top(c).fn = "expire" /\ Top(c).at = "start"
    BY <1>1, Running DEF ExpireStart, At
  <1>3. Still
    <2>1. cut' \subseteq Coroutines
      BY DEF ExpireStart, Close, HostInv, Rest, aio
    <2>2. UNCHANGED <<sendq, loginq, token, sessions, subs, manager, term, conn, suburl, astray,
                      crossed>>
      BY DEF ExpireStart, OnlyLogout, events, camera
    <2>3. lease' = IF lease = "none" THEN "none" ELSE "old"
      BY DEF ExpireStart
    <2>. QED
      BY <2>1, <2>2, <2>3 DEF HostInv, Rest, Still
  <1>4. CASE frame.then = "unsubscribe"
    <2>1. Call("unsubscribed", Frame("unsubscribe"))
      BY <1>4 DEF ExpireStart
    <2>. QED
      BY <1>1, <1>2, <1>3, <2>1, OuterCallsFn DEF Local, Calls, Outer
  <1>5. CASE frame.then # "unsubscribe"
    <2>1. Return("ok", 0)
      BY <1>5 DEF ExpireStart
    <2>2. "ok" \in Kinds
      BY DEF Kinds
    <2>. QED
      BY <1>1, <1>2, <1>3, <2>1, <2>2, OuterReturns DEF Outer
  <1>. QED
    BY <1>4, <1>5

LEMMA ExpireDoneStep ==
    ASSUME HostInv, ExpireDone
    PROVE  HostInv'
  <1>1. PICK c \in Coroutines : c = turn
    BY DEF ExpireDone, Back, At
  <1>2. /\ frame = Top(c) /\ Local(c, Top(c)) /\ IsFrame(Top(c))
        /\ Top(c).fn = "expire" /\ Top(c).at = "unsubscribed"
    BY <1>1, Running DEF ExpireDone, Back, At
  <1>3. Still
    <2>1. cut' \subseteq Coroutines
      BY DEF ExpireDone, Close, HostInv, Rest, aio
    <2>2. UNCHANGED <<sendq, loginq, token, lease, sessions, subs, manager, term, conn, suburl,
                      astray, crossed>>
      BY DEF ExpireDone, OnlyLogout, events, camera, session
    <2>. QED
      BY <2>1, <2>2 DEF HostInv, Rest, Still
  <1>4. ret.kind \in {"ok"} \cup Broken
    BY <1>1, <1>2, OuterGot DEF Result
  <1>. QED
    BY <1>1, <1>2, <1>3, <1>4, OuterPasses DEF Outer, ExpireDone

\* The term alone changes nothing for the others.
LEMMA OnlyEventsStill ==
    ASSUME HostInv, OnlyEvents, UNCHANGED <<aio, manager, suburl, astray>>, crossed => crossed',
           term' \in {"none", "fresh", "low", "over"}
    PROVE  Still
  BY DEF HostInv, OnlyEvents, Still, Rest, locks, aio, session, camera

\* unsubscribe and renew ask for the subscription the service knows of.
LEMMA AsksForManager ==
    ASSUME HostInv, NEW c \in Coroutines, c = turn, NEW cmd \in {"renew", "unsubscribe"},
           Top(c).fn = cmd, Top(c).at = "start", manager # 0, Still,
           stack' = [stack EXCEPT ![turn] = Front(@) \o
               <<[frame EXCEPT !.at = "sent", !.id = manager], SubSend(cmd, manager)>>],
           ret' = NoResult, turn' = turn
    PROVE  HostInv'
  <1>1. frame = Top(c) /\ Local(c, Top(c)) /\ IsFrame(Top(c))
    BY Running
  <1>2. manager \in Ids /\ suburl
    BY DEF HostInv, Rest, ConnInv
  <1>3. PICK f : f = [Top(c) EXCEPT !.at = "sent", !.id = manager]
    OBVIOUS
  <1>4. PICK g : g = SubSend(cmd, manager)
    OBVIOUS
  <1>5. /\ IsFrame(f) /\ f.fn = Top(c).fn /\ f.cmd = Top(c).cmd
        /\ f.id = manager /\ f.at = "sent"
    BY <1>1, <1>2, <1>3 DEF IsFrame
  <1>6. /\ IsFrame(g) /\ g.fn = "subsend" /\ g.at = "start" /\ g.cmd = cmd /\ g.id = manager
    <2>1. cmd \in Events /\ manager \in {0} \cup Ids
      BY <1>2 DEF Events
    <2>. QED
      BY <1>4, <2>1, SubSendIs
  <1>7. FitsOn(c, f, g)
    BY <1>5, <1>6 DEF FitsOn, Fits, Inside, Holds, Calls, Events
  <1>8. Local(c, f) /\ Local(c, g)
    BY <1>1, <1>2, <1>5, <1>6 DEF Local, Events
  <1>9. Local(c, f)' /\ Local(c, g)'
    BY <1>8, StillBenign, LocalKept
  <1>10. Handled(c)
    BY DEF Handled, AwaitsLogin, AwaitsSub, Calls, Events
  <1>11. Pushes(c, f, g)
    BY <1>1, <1>3, <1>4 DEF Pushes
  <1>. QED
    BY <1>5, <1>6, <1>7, <1>9, <1>10, <1>11, PlainPush DEF Holds

LEMMA UnsubscribeStartStep ==
    ASSUME HostInv, UnsubscribeStart
    PROVE  HostInv'
  <1>1. PICK c \in Coroutines : c = turn
    BY DEF UnsubscribeStart, At
  <1>2. /\ frame = Top(c) /\ Local(c, Top(c)) /\ IsFrame(Top(c))
        /\ Top(c).fn = "unsubscribe" /\ Top(c).at = "start"
    BY <1>1, Running DEF UnsubscribeStart, At
  <1>3. Still
    <2>1. term' \in {"none", "fresh", "low", "over"}
      BY DEF UnsubscribeStart, HostInv, Rest
    <2>. QED
      BY <2>1, OnlyEventsStill DEF UnsubscribeStart
  <1>4. CASE manager = 0
    <2>1. Return("ok", 0)
      BY <1>4 DEF UnsubscribeStart
    <2>2. "ok" \in Kinds
      BY DEF Kinds
    <2>3. Result(Top(c).fn, Top(c).cmd, [kind |-> "ok", id |-> 0])
      BY <1>2, <1>4 DEF Result, Local
    <2>4. Handled(c)
      BY <1>2 DEF Handled, AwaitsLogin, AwaitsSub, Calls, Events
    <2>. QED
      BY <1>1, <1>2, <1>3, <2>1, <2>2, <2>3, <2>4, Returning DEF Queues, Holds
  <1>5. CASE manager # 0
    BY <1>1, <1>2, <1>3, <1>5, AsksForManager DEF UnsubscribeStart
  <1>. QED
    BY <1>4, <1>5

LEMMA RenewStartStep ==
    ASSUME HostInv, RenewStart
    PROVE  HostInv'
  <1>1. PICK c \in Coroutines : c = turn
    BY DEF RenewStart, At
  <1>2. /\ Top(c).fn = "renew" /\ Top(c).at = "start"
    BY <1>1, Running DEF RenewStart, At
  <1>3. Still
    <2>1. term' \in {"none", "fresh", "low", "over"}
      BY DEF RenewStart, HostInv, Rest, events
    <2>. QED
      BY <2>1, OnlyEventsStill DEF RenewStart, events
  <1>4. CASE Subscribed
    <2>1. manager # 0
      BY <1>4 DEF Subscribed
    <2>. QED
      BY <1>1, <1>2, <1>3, <1>4, <2>1, AsksForManager DEF RenewStart
  <1>5. CASE ~Subscribed
    <2>1. Return("subscription", 0)
      BY <1>5 DEF RenewStart
    <2>2. "subscription" \in Kinds
      BY DEF Kinds, Failed
    <2>. QED
      BY <1>1, <1>2, <1>3, <2>1, <2>2, OuterReturns DEF Outer
  <1>. QED
    BY <1>4, <1>5

LEMMA RenewSentStep ==
    ASSUME HostInv, RenewSent
    PROVE  HostInv'
  <1>1. PICK c \in Coroutines : c = turn
    BY DEF RenewSent, Back, At
  <1>2. /\ Top(c).fn = "renew" /\ Top(c).at = "sent" /\ Local(c, Top(c)) /\ IsFrame(Top(c))
        /\ ret.kind \in Kinds
    BY <1>1, Running DEF RenewSent, Back, At
  <1>3. /\ UNCHANGED <<manager, aio, suburl, astray>>
        /\ OnlyEvents
    BY DEF RenewSent
  <1>4. CASE ret.kind = "ok"
    <2>1. Return("ok", 0) /\ term' = "fresh" /\ crossed' = (crossed \/ manager # frame.id)
      BY <1>4 DEF RenewSent, Broken
    <2>5. crossed => crossed'
      BY <2>1, Zenon
    <2>2. Still
      BY <1>3, <2>1, <2>5, OnlyEventsStill
    <2>3. "ok" \in Kinds
      BY DEF Kinds
    <2>. QED
      BY <1>1, <1>2, <2>1, <2>2, <2>3, OuterReturns DEF Outer
  <1>5. CASE ret.kind # "ok"
    <2>1. UNCHANGED <<term, crossed>>
      BY <1>5 DEF RenewSent
    <2>2. term' \in {"none", "fresh", "low", "over"}
      BY <2>1 DEF HostInv, Rest
    <2>3. Still
      BY <1>3, <2>1, <2>2, OnlyEventsStill
    <2>4. CASE ret.kind \in Broken
      <3>1. PassOn
        BY <1>5, <2>4 DEF RenewSent, Broken
      <3>. QED
        BY <1>1, <1>2, <1>5, <2>3, <3>1, OuterPasses DEF Outer
    <2>5. CASE ret.kind \notin Broken
      <3>1. Call("undone", Frame("unsubscribe"))
        BY <1>5, <2>5 DEF RenewSent
      <3>. QED
        BY <1>1, <1>2, <2>3, <3>1, OuterCallsFn DEF Outer, Local, Calls
    <2>. QED
      BY <2>4, <2>5
  <1>. QED
    BY <1>4, <1>5

LEMMA RenewUndoneStep ==
    ASSUME HostInv, RenewUndone
    PROVE  HostInv'
  <1>1. PICK c \in Coroutines : c = turn
    BY DEF RenewUndone, Back, At
  <1>2. Top(c).fn = "renew" /\ Top(c).at = "undone" /\ Still
    BY <1>1, Running, OnlyExecStill DEF RenewUndone, Back, At
  <1>3. "subscription" \in Kinds
    BY DEF Kinds, Failed
  <1>. QED
    BY <1>1, <1>2, <1>3, OuterReturns, OuterPasses DEF Outer, RenewUndone

LEMMA SubscribeStartStep ==
    ASSUME HostInv, SubscribeStart
    PROVE  HostInv'
  <1>1. PICK c \in Coroutines : c = turn
    BY DEF SubscribeStart, At
  <1>2. /\ Top(c).fn = "subscribe" /\ Top(c).at = "start" /\ Local(c, Top(c)) /\ IsFrame(Top(c))
    BY <1>1, Running DEF SubscribeStart, At
  <1>3. Still
    <2>1. term' \in {"none", "fresh", "low", "over"}
      BY DEF SubscribeStart, HostInv, Rest, events
    <2>. QED
      BY <2>1, OnlyEventsStill DEF SubscribeStart, events
  <1>4. PICK g : g = SubSend("subscribe", 0)
    OBVIOUS
  <1>5. /\ g.fn = "subsend" /\ g.at = "start" /\ g.cmd = "subscribe" /\ IsFrame(g)
    BY <1>4, SubSendIs DEF Events
  <1>6. Local(c, g)
    BY <1>2, <1>5 DEF Local, Events
  <1>7. Call("sent", g)
    BY <1>4 DEF SubscribeStart
  <1>8. ASSUME NEW f, f.fn = Top(c).fn, f.cmd = Top(c).cmd, f.at = "sent", f.then = Top(c).then
        PROVE  Local(c, f) /\ Calls(f, g.fn, g.cmd)
    BY <1>2, <1>5, <1>8 DEF Local, Calls, Events
  <1>. QED
    BY <1>1, <1>2, <1>3, <1>5, <1>6, <1>7, <1>8, OuterCalls DEF Outer

LEMMA SubscribeUndoneStep ==
    ASSUME HostInv, SubscribeUndone
    PROVE  HostInv'
  <1>1. PICK c \in Coroutines : c = turn
    BY DEF SubscribeUndone, Back, At
  <1>2. /\ frame = Top(c) /\ Top(c).fn = "subscribe" /\ Top(c).at = "undone" /\ Still
        /\ Local(c, Top(c)) /\ IsFrame(Top(c))
    BY <1>1, Running, OnlyExecStill DEF SubscribeUndone, Back, At
  <1>3. CASE ret.kind = "ok"
    <2>1. manager = 0
      BY <1>1, <1>2, <1>3, OuterGot DEF Result
    <2>2. PICK f : f = [Top(c) EXCEPT !.at = "start", !.retry = 1]
      OBVIOUS
    <2>3. /\ f = [fn |-> f.fn, at |-> f.at, cmd |-> f.cmd, retry |-> f.retry, id |-> f.id,
                  then |-> f.then]
          /\ f.fn = Top(c).fn /\ f.cmd = Top(c).cmd /\ f.id = Top(c).id /\ f.at = "start"
          /\ f.retry = 1
      BY <1>2, <2>2 DEF IsFrame
    <2>4. IsFrame(f)
      BY <1>2, <2>3, HostAssumption DEF IsFrame
    <2>5. Fits(c, f)
      BY <1>2, <2>3, <2>4 DEF Fits, Inside
    <2>6. Local(c, f)
      BY <1>2, <2>1, <2>3 DEF Local
    <2>7. Local(c, f)'
      BY <1>2, <2>6, StillBenign, LocalKept
    <2>8. Handled(c)
      BY <1>2 DEF Handled, AwaitsLogin, AwaitsSub, Calls, Events
    <2>9. Replaces(c, f) /\ turn' = c /\ ret' = NoResult
      BY <1>1, <1>2, <1>3, <2>2 DEF SubscribeUndone, Goto, Replaces
    <2>. QED
      BY <1>1, <1>2, <2>3, <2>5, <2>7, <2>8, <2>9, PlainReplace
  <1>4. CASE ret.kind # "ok"
    BY <1>1, <1>2, <1>4, OuterPasses DEF Outer, SubscribeUndone
  <1>. QED
    BY <1>3, <1>4

LEMMA SubSendPostedStep ==
    ASSUME HostInv, SubSendPosted
    PROVE  HostInv'
  <1>1. PICK c \in Coroutines : c = turn
    BY DEF SubSendPosted, Back, At
  <1>2. /\ Top(c).fn = "subsend" /\ Top(c).at = "posted" /\ Still
        /\ Local(c, Top(c)) /\ IsFrame(Top(c)) /\ ret.kind \in Kinds
    BY <1>1, Running, OnlyExecStill DEF SubSendPosted, Back, At
  <1>3. Result("post", Top(c).cmd, ret) /\ Top(c).cmd \in Events
    <2>1. Calls(Top(c), "post", Top(c).cmd)
      BY <1>2 DEF Calls
    <2>. QED
      BY <1>1, <1>2, <2>1, Running DEF Local
  <1>4. Result(Top(c).fn, Top(c).cmd, ret)
    BY <1>2, <1>3 DEF Result, Events
  <1>5. ~Queues(Top(c))
    BY <1>2 DEF Queues, Holds
  <1>6. ASSUME NEW kind \in {"api", "error"}, Return(kind, 0), ret.kind \in {"bad", "lost"}
        PROVE  HostInv'
    <2>1. Handled(c)
      BY <1>6 DEF Handled, Results
    <2>2. kind \in Kinds
      BY DEF Kinds, Failed
    <2>3. Result(Top(c).fn, Top(c).cmd, [kind |-> kind, id |-> 0])
      BY <1>2, <1>3 DEF Result, Events, Results
    <2>4. ret.kind \notin Broken
      BY <1>6 DEF Broken
    <2>. QED
      BY <1>1, <1>2, <1>5, <1>6, <2>1, <2>2, <2>3, <2>4, Returning
  <1>7. CASE ret.kind = "bad"
    BY <1>6, <1>7 DEF SubSendPosted
  <1>8. CASE ret.kind = "lost"
    BY <1>6, <1>8 DEF SubSendPosted
  <1>9. CASE ret.kind \notin {"bad", "lost"}
    <2>1. PassOn
      BY <1>9 DEF SubSendPosted
    <2>. QED
      BY <1>1, <1>2, <1>4, <1>5, <2>1, Passing
  <1>. QED
    BY <1>7, <1>8, <1>9

\* The port is asked for while connecting only.
LEMMA SubSendAsksPort ==
    ASSUME HostInv, At("subsend", "start"), ~suburl, Call("asked", Send("NetPort", Retries)), Still
    PROVE  HostInv'
  <1>1. PICK c \in Coroutines : c = turn
    BY DEF At
  <1>2. /\ frame = Top(c) /\ Top(c).fn = "subsend" /\ Top(c).at = "start"
        /\ Local(c, Top(c)) /\ IsFrame(Top(c)) /\ Busy(c)
    BY <1>1, Running DEF At
  <1>3. Top(c).cmd = "subscribe" /\ conn = "connecting"
    BY <1>2 DEF Local, Subscriber, HostInv, ConnInv
  <1>4. PICK g : g = Send("NetPort", Retries)
    OBVIOUS
  <1>5. Retries \in 0 .. Retries /\ "NetPort" \in Commands
    BY HostAssumption DEF Commands
  <1>6. g.fn = "send" /\ g.at = "start" /\ g.cmd = "NetPort" /\ IsFrame(g) /\ Local(c, g)
    BY <1>4, <1>5, SendIs
  <1>7. CallThen("asked", Top(c).then, g)
    BY <1>2, <1>4 DEF Call
  <1>8. Handled(c)
    BY <1>2 DEF Handled, AwaitsLogin, AwaitsSub, Calls, Events
  <1>9. ASSUME NEW f, IsFrame(f), f.fn = Top(c).fn, f.cmd = Top(c).cmd,
                f.retry = Top(c).retry, f.id = Top(c).id, f.at = "asked", f.then = Top(c).then
         PROVE  /\ Local(c, f) /\ Calls(f, g.fn, g.cmd)
                /\ Inside(Top(c)) => Inside(f) /\ Inside(g)
                /\ ~Holds(f) /\ ~Holds(Top(c))
    BY <1>2, <1>3, <1>6, <1>9 DEF Local, Calls, Inside, Holds, Commands, Events
  <1>. QED
    BY <1>1, <1>2, <1>3, <1>6, <1>7, <1>8, <1>9, Calling

\* Results that are named in the code.
LEMMA Some ==
    /\ {"ok", "error", "payload", "subscription"} \subseteq Kinds
    /\ "ok" \notin Broken \cup Failed
  BY DEF Kinds, Broken, Failed

LEMMA AsksStep ==
    ASSUME HostInv, Still, NEW fn \in {"states", "state"}, NEW cmd \in {"List", "Enc"},
           (fn = "states" /\ cmd = "List") \/ (fn = "state" /\ cmd = "Enc"), Asks(fn, cmd)
    PROVE  HostInv'
  <1>1. PICK c \in Coroutines : c = turn
    BY DEF Asks, Back, At
  <1>2. Top(c).fn = fn /\ Local(c, Top(c)) /\ IsFrame(Top(c))
    BY <1>1, Running DEF Asks, Back, At
  <1>3. CASE Call("sent", Send(cmd, Retries))
    BY <1>1, <1>2, <1>3, OuterSends DEF Outer, Local, Calls
  <1>4. CASE End \/ Return("error", 0)
    BY <1>1, <1>2, <1>4, Some, OuterReturns DEF Outer, End
  <1>5. CASE PassOn
    BY <1>1, <1>2, <1>5, OuterPasses DEF Outer
  <1>. QED
    BY <1>3, <1>4, <1>5 DEF Asks

LEMMA RtspSourceStep ==
    ASSUME HostInv, RtspSource
    PROVE  HostInv'
  <1>1. PICK c \in Coroutines : c = turn
    BY DEF RtspSource, Back, At
  <1>2. Top(c).fn = "rtsp" /\ Local(c, Top(c)) /\ IsFrame(Top(c)) /\ Still
    BY <1>1, Running, OnlyExecStill DEF RtspSource, Back, At
  <1>3. CASE Call("asked", Frame("state"))
    BY <1>1, <1>2, <1>3, OuterCallsFn DEF Outer, Local, Calls
  <1>4. CASE CheckUrls
    BY <1>1, <1>2, <1>4, Some, OuterReturns DEF Outer, End, CheckUrls
  <1>5. CASE PassOn
    BY <1>1, <1>2, <1>5, OuterPasses DEF Outer
  <1>. QED
    BY <1>3, <1>4, <1>5 DEF RtspSource

LEMMA OnlyConnStill == HostInv /\ OnlyConn /\ UNCHANGED <<suburl, conn>> => Still
  BY DEF HostInv, OnlyConn, Still, Rest, locks, aio, session, events, camera

\* While it connects, it calls one function after another.
LEMMA ConnectCalls ==
    ASSUME HostInv, Connecting, UNCHANGED conn, ~End
    PROVE  HostInv'
  <1>1. PICK c \in Coroutines : c = turn
    BY DEF Connecting, Back, At
  <1>2. /\ frame = Top(c) /\ Top(c).fn = "connect" /\ Local(c, Top(c)) /\ IsFrame(Top(c))
        /\ Still
    BY <1>1, Running, OnlyConnStill DEF Connecting, Back, At
  <1>3. /\ Top(c).at = "cleaned" => Result("unsubscribe", "none", ret)
        /\ Top(c).at = "subscribed" => Result("subscribe", "none", ret)
    BY <1>1, <1>2, OuterGot
  <1>4. c = "main" /\ conn = "connecting"
    BY <1>2 DEF Local
  <1>5. CASE At("connect", "start") /\ Call("data", Frame("data"))
    BY <1>1, <1>2, <1>4, <1>5, OuterCallsFn DEF Outer, Local, Calls, At
  <1>6. CASE Call("states", Frame("states"))
    BY <1>1, <1>2, <1>6, OuterCallsFn DEF Outer, Local, Calls
  <1>7. CASE Call("cleaned", Frame("unsubscribe"))
    BY <1>1, <1>2, <1>7, OuterCallsFn DEF Outer, Local, Calls
  <1>8. CASE Back("connect", "cleaned", Ok) /\ Call("subscribed", Frame("subscribe"))
    <2>1. manager = 0 /\ Subscriber(c)
      BY <1>2, <1>3, <1>4, <1>8 DEF Result, Subscriber, Back, At, Ok
    <2>. QED
      BY <1>1, <1>2, <1>8, <2>1, OuterCallsFn DEF Outer, Local, Calls
  <1>9. CASE Back("connect", "subscribed", Ok) /\ Call("offered", Frame("rtsp"))
    <2>1. suburl
      BY <1>2, <1>3, <1>9 DEF Result, Back, At, Ok
    <2>. QED
      BY <1>1, <1>2, <1>9, <2>1, OuterCallsFn DEF Outer, Local, Calls
  <1>. QED
    BY <1>5, <1>6, <1>7, <1>8, <1>9 DEF Connecting

LEMMA CheckingStep ==
    ASSUME HostInv, Checking
    PROVE  HostInv'
  <1>1. PICK c \in Coroutines : c = turn
    BY DEF Checking, Back, At
  <1>2. /\ frame = Top(c) /\ Top(c).fn = "check" /\ Local(c, Top(c)) /\ IsFrame(Top(c))
        /\ Still /\ Busy(c)
    BY <1>1, Running, OnlyExecStill DEF Checking, Back, At
  <1>3. Top(c).at = "dropped" => Result("unsubscribe", "none", ret)
    BY <1>1, <1>2, OuterGot
  <1>4. c = "check" /\ conn # "connecting"
    BY <1>2 DEF Local, HostInv, ConnInv
  <1>5. CASE Call("renewed", Frame("renew"))
    BY <1>1, <1>2, <1>5, OuterCallsFn DEF Outer, Local, Calls
  <1>6. CASE Call("dropped", Frame("unsubscribe"))
    BY <1>1, <1>2, <1>6, OuterCallsFn DEF Outer, Local, Calls
  <1>7. CASE Back("check", "dropped", Ok) /\ Call("subscribed", Frame("subscribe"))
    <2>1. manager = 0 /\ Subscriber(c)
      BY <1>2, <1>3, <1>4, <1>7 DEF Result, Subscriber, Back, At, Ok
    <2>. QED
      BY <1>1, <1>2, <1>7, <2>1, OuterCallsFn DEF Outer, Local, Calls
  <1>8. CASE Call("cleaned", Frame("unsubscribe"))
    BY <1>1, <1>2, <1>8, OuterCallsFn DEF Outer, Local, Calls
  <1>9. CASE Call("gone", Frame("logout"))
    BY <1>1, <1>2, <1>9, OuterCallsFn DEF Outer, Local, Calls
  <1>10. CASE End
    BY <1>1, <1>2, <1>10, Some, OuterReturns DEF Outer, End
  <1>. QED
    BY <1>5, <1>6, <1>7, <1>8, <1>9, <1>10 DEF Checking

LEMMA SnappingStep ==
    ASSUME HostInv, Snapping
    PROVE  HostInv'
  <1>1. PICK c \in Coroutines : c = turn
    BY DEF Snapping, Back, At
  <1>2. /\ frame = Top(c) /\ Top(c).fn = "snap" /\ Local(c, Top(c)) /\ IsFrame(Top(c)) /\ Still
        /\ Busy(c)
    BY <1>1, Running, OnlyExecStill DEF Snapping, Back, At
  <1>3. CASE Call("sent", Send("Snap", Retries))
    BY <1>1, <1>2, <1>3, OuterSends DEF Outer, Local, Calls
  <1>4. CASE Call("expired", Expire(FALSE))
    <2>1. PICK g : g = Expire(FALSE)
      OBVIOUS
    <2>2. /\ g.fn = "expire" /\ g.at = "start" /\ g.cmd = "none" /\ IsFrame(g) /\ Local(c, g)
          /\ Call("expired", g)
      BY <1>4, <2>1, ExpireIs
    <2>3. ASSUME NEW f, f.fn = Top(c).fn, f.cmd = Top(c).cmd, f.at = "expired"
          PROVE  Local(c, f) /\ Calls(f, g.fn, g.cmd)
      BY <1>2, <2>2, <2>3 DEF Local, Calls
    <2>. QED
      BY <1>1, <1>2, <2>2, <2>3, OuterCalls DEF Outer
  <1>5. CASE End
    BY <1>1, <1>2, <1>5, Some, OuterReturns DEF Outer, End
  <1>. QED
    BY <1>3, <1>4, <1>5 DEF Snapping

LEMMA PollingStep ==
    ASSUME HostInv, Polling
    PROVE  HostInv'
  <1>1. PICK c \in Coroutines : c = turn
    BY DEF Polling, Back, At
  <1>2. /\ frame = Top(c) /\ Top(c).fn = "poll" /\ Local(c, Top(c)) /\ IsFrame(Top(c)) /\ Still
    BY <1>1, Running, OnlyExecStill DEF Polling, Back, At
  <1>3. CASE Call("sent", Send("Poll", Retries))
    BY <1>1, <1>2, <1>3, OuterSends DEF Outer, Local, Calls
  <1>5. CASE End
    BY <1>1, <1>2, <1>5, Some, OuterReturns DEF Outer, End
  <1>. QED
    BY <1>3, <1>5 DEF Polling

LEMMA DisconnectingStays ==
    ASSUME HostInv, Disconnecting, UNCHANGED conn
    PROVE  HostInv'
  <1>1. PICK c \in Coroutines : c = turn
    BY DEF Disconnecting, Back, At
  <1>2. /\ frame = Top(c) /\ Top(c).fn = "deinit" /\ Local(c, Top(c)) /\ IsFrame(Top(c))
        /\ Still
    BY <1>1, Running, OnlyConnStill DEF Disconnecting, Back, At
  <1>3. CASE Call("dropped", Frame("unsubscribe"))
    BY <1>1, <1>2, <1>3, OuterCallsFn DEF Outer, Local, Calls
  <1>4. CASE Call("gone", Frame("logout"))
    BY <1>1, <1>2, <1>4, OuterCallsFn DEF Outer, Local, Calls
  <1>5. CASE End
    BY <1>1, <1>2, <1>5, Some, OuterReturns DEF Outer, End
  <1>. QED
    BY <1>3, <1>4, <1>5 DEF Disconnecting

-----------------------------------------------------------------------------
(* Logging in and out: what leaves the lock alone *)

LEMMA OnlyLoginStill == HostInv /\ OnlyLogin /\ UNCHANGED <<loginq, session>> => Still
  BY DEF HostInv, OnlyLogin, Still, Rest, aio, session, events, camera

\* A login that tries ports calls itself, once.
LEMMA LoginTries ==
    ASSUME HostInv, NEW c \in Coroutines, c = turn, NEW place \in {"https", "http"},
           Call(place, Frame("login")), Still,
           Top(c).fn = "login", Top(c).at \in {"start", "https"}
    PROVE  HostInv'
  <1>1. frame = Top(c) /\ Local(c, Top(c)) /\ IsFrame(Top(c))
    BY Running
  <1>2. Handled(c)
    BY DEF Handled, AwaitsLogin, AwaitsSub, Calls, Events
  <1>3. PICK g : g = Frame("login")
    OBVIOUS
  <1>4. g.fn = "login" /\ g.at = "start" /\ g.cmd = "none" /\ IsFrame(g) /\ Local(c, g)
    BY <1>3, FrameIs DEF Frame, Functions, Local
  <1>5. CallThen(place, Top(c).then, g)
    BY <1>1, <1>3 DEF Call
  <1>6. ASSUME NEW f, IsFrame(f), f.fn = Top(c).fn, f.cmd = Top(c).cmd,
               f.retry = Top(c).retry, f.id = Top(c).id, f.at = place, f.then = Top(c).then
        PROVE  /\ Local(c, f) /\ Calls(f, g.fn, g.cmd)
               /\ ~Inside(Top(c)) /\ ~Holds(f) /\ ~Holds(Top(c))
    BY <1>1, <1>4, <1>6 DEF Local, Calls, Inside, Holds
  <1>. QED
    BY <1>2, <1>4, <1>5, <1>6, Calling

LEMMA LoginPasses ==
    ASSUME HostInv, NEW c \in Coroutines, c = turn, PassOn, Still,
           Top(c).fn = "login", Top(c).at \in {"http", "https"}
    PROVE  HostInv'
  <1>1. Local(c, Top(c))
    BY Running
  <1>2. Handled(c)
    BY DEF Handled, AwaitsLogin, AwaitsSub, Calls, Events
  <1>3. Result(Top(c).fn, Top(c).cmd, ret)
    BY <1>1 DEF Local, Result, Commands
  <1>. QED
    BY <1>2, <1>3, Passing DEF Queues, Holds

\* With the lock, one that logs in or out sends a command.
LEMMA LockSends ==
    ASSUME HostInv, NEW c \in Coroutines, c = turn, Still,
           Top(c).fn \in {"login", "logout"}, Top(c).at = "locked",
           NEW cmd \in {"Login", "Logout"}, NEW place,
           place = (IF cmd = "Login" THEN "in" ELSE "out"),
           cmd = "Login" => Top(c).fn = "login" /\ token = 0,
           Call(place, Send(cmd, Retries))
    PROVE  HostInv'
  <1>1. frame = Top(c) /\ Local(c, Top(c)) /\ IsFrame(Top(c))
    BY Running
  <1>2. Handled(c)
    BY DEF Handled, AwaitsLogin, AwaitsSub, Calls, Events
  <1>3. PICK g : g = Send(cmd, Retries)
    OBVIOUS
  <1>4. Retries \in 0 .. Retries /\ cmd \in Commands
    BY HostAssumption DEF Commands
  <1>5. g.fn = "send" /\ g.at = "start" /\ g.cmd = cmd /\ IsFrame(g) /\ Local(c, g)
    BY <1>3, <1>4, SendIs
  <1>6. CallThen(place, Top(c).then, g)
    BY <1>1, <1>3 DEF Call
  <1>7. ASSUME NEW f, IsFrame(f), f.fn = Top(c).fn, f.cmd = Top(c).cmd,
               f.retry = Top(c).retry, f.id = Top(c).id, f.at = place, f.then = Top(c).then
        PROVE  /\ Local(c, f) /\ Calls(f, g.fn, g.cmd)
               /\ ~Inside(Top(c)) /\ Holds(f) /\ Holds(Top(c)) /\ Inside(g)
               /\ f.at = (IF g.cmd = "Login" THEN "in" ELSE "out")
    <2>1. Local(c, f)
      BY <1>1, <1>7 DEF Local
    <2>. QED
      BY <1>5, <1>7, <2>1 DEF Calls, Inside, Holds
  <1>. QED
    BY <1>2, <1>5, <1>6, <1>7, Calling

-----------------------------------------------------------------------------
(* The queues of the locks *)

\* Who joins a queue is its last.
LEMMA QueueAppend ==
    ASSUME NEW q \in Seq(Coroutines), IsInjective(q), NEW c \in Coroutines, c \notin Range(q)
    PROVE  /\ Append(q, c) \in Seq(Coroutines) /\ IsInjective(Append(q, c))
           /\ Range(Append(q, c)) = Range(q) \cup {c}
           /\ Head(Append(q, c)) = IF q = <<>> THEN c ELSE Head(q)
  <1>1. PICK n \in Nat : n = Len(q)
    OBVIOUS
  <1>2. PICK t : t = Append(q, c)
    OBVIOUS
  <1>3. /\ t \in Seq(Coroutines) /\ Len(t) = n + 1
        /\ \A i \in 1 .. n : t[i] = q[i]
        /\ t[n + 1] = c
        /\ DOMAIN t = 1 .. n + 1 /\ DOMAIN q = 1 .. n
    BY <1>1, <1>2
  <1>4. \A i \in 1 .. n + 1 : i \in 1 .. n \/ i = n + 1
    OBVIOUS
  <1>5. \A i \in 1 .. n : q[i] # c
    BY <1>3 DEF Range
  <1>6. IsInjective(t)
    BY <1>3, <1>4, <1>5 DEF IsInjective
  <1>7. Range(t) = Range(q) \cup {c}
    <2>1. 1 .. n \subseteq 1 .. n + 1 /\ n + 1 \in 1 .. n + 1
      OBVIOUS
    <2>2. Range(t) = {t[i] : i \in 1 .. n + 1} /\ Range(q) = {q[i] : i \in 1 .. n}
      BY <1>3 DEF Range
    <2>. QED
      BY <2>1, <2>2, <1>3, <1>4
  <1>8. Head(t) = IF q = <<>> THEN c ELSE Head(q)
    <2>1. Head(t) = t[1]
      BY <1>2, <1>3, HeadTailProperties
    <2>2. CASE q = <<>>
      BY <2>1, <2>2, <1>1, <1>3
    <2>3. CASE q # <<>>
      <3>1. n # 0 /\ Head(q) = q[1]
        BY <2>3, <1>1
      <3>2. 1 \in 1 .. n
        BY <3>1
      <3>. QED
        BY <2>1, <2>3, <3>1, <3>2, <1>3
    <2>. QED
      BY <2>2, <2>3
  <1>. QED
    BY <1>2, <1>3, <1>6, <1>7, <1>8

\* Who leaves it was its first.
LEMMA QueueTail ==
    ASSUME NEW q \in Seq(Coroutines), IsInjective(q), q # <<>>
    PROVE  /\ Tail(q) \in Seq(Coroutines) /\ IsInjective(Tail(q))
           /\ Range(Tail(q)) = Range(q) \ {Head(q)}
           /\ Head(q) \in Range(q)
  <1>1. PICK n \in Nat : n = Len(q)
    OBVIOUS
  <1>2. PICK t : t = Tail(q)
    OBVIOUS
  <1>3. /\ n # 0
        /\ t \in Seq(Coroutines) /\ Len(t) = n - 1
        /\ \A i \in 1 .. n - 1 : t[i] = q[i + 1]
        /\ Head(q) = q[1]
        /\ DOMAIN t = 1 .. n - 1 /\ DOMAIN q = 1 .. n
    BY <1>1, <1>2, HeadTailProperties
  <1>4. /\ \A i \in 1 .. n - 1 : i + 1 \in 1 .. n /\ i + 1 # 1
        /\ \A i, j \in 1 .. n - 1 : i + 1 = j + 1 => i = j
        /\ \A i \in 1 .. n : i = 1 \/ (i - 1 \in 1 .. n - 1 /\ i = (i - 1) + 1)
        /\ 1 \in 1 .. n
    BY <1>3
  <1>5. \A i, j \in 1 .. n : q[i] = q[j] => i = j
    BY <1>3 DEF IsInjective
  <1>6. IsInjective(t)
    <2>1. ASSUME NEW i \in 1 .. n - 1, NEW j \in 1 .. n - 1, t[i] = t[j] PROVE i = j
      <3>1. q[i + 1] = q[j + 1] /\ i + 1 \in 1 .. n /\ j + 1 \in 1 .. n
        BY <2>1, <1>3, <1>4
      <3>. QED
        BY <3>1, <1>4, <1>5
    <2>. QED
      BY <2>1, <1>3 DEF IsInjective
  <1>7. \A x : x \in Range(t) <=> x \in Range(q) /\ x # Head(q)
    <2>1. \A x : x \in Range(q) <=> \E i \in 1 .. n : x = q[i]
      BY <1>3 DEF Range
    <2>2. \A x : x \in Range(t) <=> \E i \in 1 .. n - 1 : x = t[i]
      BY <1>3 DEF Range
    <2>4. ASSUME NEW x \in Range(t) PROVE x \in Range(q) /\ x # Head(q)
      BY <2>1, <2>2, <1>5, <2>4, <1>3, <1>4
    <2>5. ASSUME NEW x \in Range(q), x # Head(q) PROVE x \in Range(t)
      <3>1. PICK i \in 1 .. n : x = q[i]
        BY <2>1, <2>5
      <3>2. i - 1 \in 1 .. n - 1 /\ i = (i - 1) + 1
        BY <3>1, <2>5, <1>3, <1>4
      <3>3. x = t[i - 1]
        BY <3>1, <3>2, <1>3
      <3>. QED
        BY <3>2, <3>3, <2>2
    <2>. QED
      BY <2>4, <2>5
  <1>8. Head(q) \in Range(q)
    BY <1>3, <1>4 DEF Range
  <1>. QED
    BY <1>2, <1>3, <1>6, <1>7, <1>8

-----------------------------------------------------------------------------
(* Requests *)

\* The frames that Post leaves.
LEMMA PostPushes ==
    ASSUME NEW c \in Coroutines, c = turn, frame = Top(c), IsFrame(Top(c)),
           NEW cmd \in Commands \cup Events, NEW id \in {0} \cup Ids, Post(cmd, id)
    PROVE  \E f, g :
             /\ Pushes(c, f, g)
             /\ IsFrame(f) /\ f.fn = Top(c).fn /\ f.at = "posted" /\ f.cmd = Top(c).cmd
             /\ f.id = Top(c).id /\ f.then = Top(c).then
             /\ IsFrame(g) /\ g.fn = "post" /\ g.at \in {"sent", "queued"} /\ g.cmd = cmd
             /\ g.id = id
  <1>1. PICK f : f = [Top(c) EXCEPT !.at = "posted"]
    OBVIOUS
  <1>2. /\ IsFrame(f) /\ f.fn = Top(c).fn /\ f.at = "posted" /\ f.cmd = Top(c).cmd
        /\ f.id = Top(c).id /\ f.then = Top(c).then
    BY <1>1 DEF IsFrame
  <1>3. PICK h : h = Frame("post")
    OBVIOUS
  <1>4. PICK k : k = [h EXCEPT !.cmd = cmd, !.id = id]
    OBVIOUS
  <1>5. PICK at : at = IF sendq = <<>> THEN "sent" ELSE "queued"
    OBVIOUS
  <1>6. PICK g : g = [k EXCEPT !.at = at, !.then = cmd]
    OBVIOUS
  <1>7. IsFrame(g) /\ g.fn = "post" /\ g.at = at /\ g.cmd = cmd /\ g.id = id
    <2>1. h = [fn |-> "post", at |-> "start", cmd |-> "none", retry |-> 0, id |-> 0,
               then |-> "none"]
      BY <1>3 DEF Frame
    <2>2. k = [fn |-> k.fn, at |-> k.at, cmd |-> k.cmd, retry |-> k.retry, id |-> k.id,
               then |-> k.then]
      BY ONLY <2>1, <1>4
    <2>3. k.fn = "post"
      BY ONLY <2>1, <1>4
    <2>4. k.cmd = cmd
      BY ONLY <2>1, <1>4
    <2>5. k.retry = 0
      BY ONLY <2>1, <1>4
    <2>6. k.id = id
      BY ONLY <2>1, <1>4
    <2>7. /\ g = [fn |-> g.fn, at |-> g.at, cmd |-> g.cmd, retry |-> g.retry, id |-> g.id,
                  then |-> g.then]
          /\ g.fn = k.fn /\ g.at = at /\ g.cmd = k.cmd /\ g.retry = k.retry /\ g.id = k.id
      BY ONLY <2>2, <1>6
    <2>. QED
      BY <2>3, <2>4, <2>5, <2>6, <2>7, HostAssumption DEF IsFrame, Functions
  <1>8. stack' = [stack EXCEPT ![turn] = Front(@) \o
                <<[frame EXCEPT !.at = "posted"],
                  [[Frame("post") EXCEPT !.cmd = cmd, !.id = id] EXCEPT
                            !.at = IF sendq = <<>> THEN "sent" ELSE "queued",
                            !.then = cmd]>>]
    BY Zenon DEF Post
  <1>9. stack' = [stack EXCEPT ![c] = Front(@) \o <<f, g>>]
    BY <1>8, <1>1, <1>3, <1>4, <1>5, <1>6, Zenon
  <1>10. Pushes(c, f, g)
    BY <1>9 DEF Pushes
  <1>. QED
    BY <1>2, <1>5, <1>7, <1>10

\* A coroutine that posts joins the queue, and waits.
LEMMA PostStep ==
    ASSUME HostInv, NEW c \in Coroutines, c = turn, NEW id \in {0} \cup Ids,
           NEW f, NEW g, Pushes(c, f, g),
           Top(c).fn \in {"send", "subsend"},
           IsFrame(f), f.fn = Top(c).fn, f.at = "posted", f.cmd = Top(c).cmd,
           f.id = Top(c).id, f.then = Top(c).then,
           IsFrame(g), g.fn = "post", g.at \in {"sent", "queued"}, g.cmd = Top(c).cmd,
           g.id = id,
           turn' = Nobody, ret' = NoResult, sendq' = Append(sendq, c),
           UNCHANGED <<loginq, token, sessions, subs, manager, conn, astray, crossed>>,
           Rest', suburl => suburl', Handled(c),
           Top(c).fn = "subsend" => id = Top(c).id,
           LocalInv'
    PROVE  HostInv'
  <1>1. /\ Busy(c) /\ StackInv /\ LocalInv /\ Local(c, Top(c)) /\ IsFrame(Top(c))
        /\ Top(c).fn = "send" /\ Top(c).cmd \in {"Login", "Logout"} =>
                  Top(c).at \notin {"login", "apart"}
    BY Running
  <1>2. FitsOn(c, f, g)
    BY <1>1 DEF FitsOn, Fits, Calls, Inside, Holds, Local
  <1>3. StackInv'
    BY <1>1, <1>2, PushShape
  <1>4. /\ \A d \in Coroutines \ {c} : stack'[d] = stack[d]
        /\ Busy(c)' /\ Top(c)' = g
        /\ Queueing(c)' <=> QueuesBelow(c) \/ Queues(f) \/ Queues(g)
        /\ Holding(c)' <=> HoldsBelow(c) \/ Holds(f) \/ Holds(g)
        /\ \A s : Drops(c, s)' <=> DropsBelow(c, s) \/ Dropping(f, s) \/ Dropping(g, s)
    BY <1>1, PushEffect
  <1>5. /\ Queueing(c) <=> QueuesBelow(c) \/ Queues(Top(c))
        /\ Holding(c) <=> HoldsBelow(c) \/ Holds(Top(c))
        /\ \A s : Drops(c, s) <=> DropsBelow(c, s) \/ Dropping(Top(c), s)
    BY <1>1, TopEffect
  <1>6. \A d \in Coroutines \ {c} :
           /\ Busy(d)' <=> Busy(d)
           /\ Top(d)' = Top(d)
           /\ Posts(d)' <=> Posts(d)
           /\ Queueing(d)' <=> Queueing(d)
           /\ Holding(d)' <=> Holding(d)
           /\ \A s : Drops(d, s)' <=> Drops(d, s)
           /\ \A s : Answered(d, s)' <=> Answered(d, s)
    BY <1>4, Others
  <1>7. RetInv'
    BY DEF RetInv, NoResult, Kinds, Nobody, Coroutines
  <1>8. Posts(c)' /\ ~Posts(c)
    BY <1>4 DEF Posts
  <1>9. LockInv'
    <2>1. /\ sendq \in Seq(Coroutines) /\ IsInjective(sendq) /\ c \notin Range(sendq)
      BY <1>8 DEF LockInv, HostInv
    <2>2. /\ sendq' \in Seq(Coroutines) /\ IsInjective(sendq')
          /\ Range(sendq') = Range(sendq) \cup {c}
      BY <2>1, QueueAppend
    <2>3. /\ Queueing(c)' <=> Queueing(c)
          /\ Holding(c)' <=> Holding(c)
      BY <1>4, <1>5 DEF Queues, Holds
    <2>4. \A d \in Coroutines : d \in Range(sendq') <=> Posts(d)'
      BY <1>6, <1>8, <2>2 DEF LockInv, HostInv
    <2>5. \A d \in Coroutines : (Queueing(d)' <=> Queueing(d)) /\ (Holding(d)' <=> Holding(d))
      BY <1>6, <2>3
    <2>. QED
      BY <2>2, <2>4, <2>5 DEF LockInv, HostInv
  <1>10. SessionInv'
    <2>1. ASSUME NEW s \in sessions, Arrived(s) PROVE FALSE
      BY <2>1 DEF Arrived, Handled, Results, frame
    <2>. QED
      BY <2>1 DEF SessionInv, HostInv
  <1>11. SubInv'
    <2>1. ASSUME NEW s, NEW d \in Coroutines, Answered(d, s)
          PROVE  Answered(d, s)'
      BY <1>6, <2>1 DEF Answered
    <2>2. ASSUME NEW s, Coming(s) PROVE Coming(s)'
      BY <2>1, <2>2 DEF Coming, Handled, frame
    <2>. QED
      BY <2>2 DEF SubInv, HostInv
  <1>12. UnsubInv'
    <2>1. ASSUME NEW d \in Coroutines, d # c, Pending(d)
          PROVE  Pending(d)'
      BY <1>6, <2>1 DEF Pending
    <2>2. Pending(c)'
      BY <1>4 DEF Pending
    <2>. QED
      BY <1>6, <2>1, <2>2 DEF UnsubInv, HostInv
  <1>13. ConnInv'
    BY <1>1, <1>6 DEF ConnInv, HostInv
  <1>. QED
    BY <1>3, <1>7, <1>9, <1>10, <1>11, <1>12, <1>13 DEF HostInv

\* One that asks for the port is connecting.
LEMMA AskedStack ==
    ASSUME HostInv, NEW c \in Coroutines, Busy(c), Top(c).fn = "subsend", Top(c).at = "asked"
    PROVE  /\ c = "main" /\ conn = "connecting" /\ ~suburl /\ Top(c).cmd = "subscribe"
           /\ \A i \in 1 .. Len(stack[c]) - 1 : stack[c][i].fn # "subsend"
  <1>1. StackInv /\ LocalInv
    BY DEF HostInv
  <1>2. PICK n \in Nat \ {0} : n = Len(stack[c]) /\ Top(c) = stack[c][n]
    BY <1>1, TopIs
  <1>3. PICK s : s = stack[c]
    OBVIOUS
  <1>4. /\ s[1].fn \in Root(c)
        /\ \A i \in 1 .. n - 1 : Calls(s[i], s[i+1].fn, s[i+1].cmd)
        /\ \A i \in 1 .. n : Local(c, s[i])
    BY <1>1, <1>2, <1>3 DEF StackInv, Shape, Nested, Busy, LocalInv
  <1>5. /\ s[n].cmd = "subscribe" /\ conn = "connecting" /\ ~suburl /\ s[n].fn = "subsend"
    BY <1>1, <1>2, <1>3, TopLocal DEF Local
  <1>6. c = "main"
    BY <1>5 DEF HostInv, ConnInv
  <1>7. Root(c) = {"connect", "deinit"}
    BY <1>6 DEF Root
  <1>8. n # 1
    BY <1>4, <1>5, <1>7
  <1>9. n - 1 \in 1 .. n - 1 /\ n - 1 \in 1 .. n /\ (n - 1) + 1 = n
    BY <1>8
  <1>10. s[n-1].fn = "subscribe"
    <2>1. Calls(s[n-1], "subsend", "subscribe")
      BY <1>2, <1>3, <1>4, <1>5, <1>9
    <2>. QED
      BY <2>1 DEF Calls, Events
  <1>11. n - 1 # 1
    BY <1>4, <1>7, <1>10
  <1>12. n - 2 \in 1 .. n - 1 /\ n - 2 \in 1 .. n /\ (n - 2) + 1 = n - 1
    BY <1>8, <1>11
  <1>13. s[n-2].fn = "connect"
    <2>1. Calls(s[n-2], "subscribe", s[n-1].cmd)
      BY <1>4, <1>10, <1>12
    <2>2. s[n-2].fn \in {"connect", "check"}
      BY <2>1 DEF Calls, Events
    <2>3. Local(c, s[n-2])
      BY <1>4, <1>12
    <2>. QED
      BY <2>2, <2>3, <1>6 DEF Local
  <1>14. n - 2 = 1
    <2>1. SUFFICES ASSUME n - 2 # 1 PROVE FALSE
      OBVIOUS
    <2>2. n - 3 \in 1 .. n - 1 /\ (n - 3) + 1 = n - 2
      BY <2>1, <1>12
    <2>3. Calls(s[n-3], "connect", s[n-2].cmd)
      BY <1>4, <1>13, <2>2
    <2>. QED
      BY <2>3 DEF Calls, Events
  <1>15. \A i \in 1 .. n - 1 : i = 1 \/ i = 2
    BY <1>14
  <1>16. s[1].fn = "connect" /\ s[2].fn = "subscribe"
    <2>1. n - 1 = 2
      BY <1>14
    <2>. QED
      BY <2>1, <1>10, <1>13, <1>14
  <1>. QED
    BY <1>2, <1>3, <1>5, <1>6, <1>15, <1>16

\* The port is there: only the one that asked for it took it to be missing.
LEMMA PortLocal ==
    ASSUME HostInv, NEW c \in Coroutines, Busy(c), Top(c).fn = "subsend", Top(c).at = "asked",
           NEW f, NEW g, Pushes(c, f, g), Local(c, f)', Local(c, g)',
           UNCHANGED <<conn, token, manager, sessions, astray>>, suburl' = TRUE
    PROVE  LocalInv'
  <1>1. /\ c = "main" /\ conn = "connecting" /\ Top(c).cmd = "subscribe"
        /\ \A i \in 1 .. Len(stack[c]) - 1 : stack[c][i].fn # "subsend"
    BY AskedStack
  <1>2. StackInv /\ LocalInv
    BY DEF HostInv
  <1>3. /\ \A d \in Coroutines \ {c} : stack'[d] = stack[d]
        /\ Len(stack[c]) \in Nat \ {0}
        /\ Len(stack'[c]) = Len(stack[c]) + 1
        /\ stack'[c][Len(stack[c])] = f
        /\ stack'[c][Len(stack[c]) + 1] = g
        /\ \A i \in 1 .. Len(stack[c]) - 1 : stack'[c][i] = stack[c][i]
    BY ONLY c \in Coroutines, Busy(c), Pushes(c, f, g), <1>2, StackPushed
  <1>4. \A d, h : Local(d, h) /\ h.fn # "subsend" => Local(d, h)'
    BY DEF Local, Gone, Subscriber
  <1>5. ASSUME NEW d \in Coroutines, NEW i \in 1 .. Len(stack'[d]), NEW h, h = stack'[d][i]
        PROVE  Local(d, h)'
    <2>1. CASE d # c
      <3>1. stack[d] = <<>>
        BY <1>1, <2>1 DEF HostInv, ConnInv, Busy
      <3>2. stack'[d] = <<>>
        BY <3>1, <2>1, <1>3
      <3>. QED
        BY <3>2, <1>5
    <2>2. CASE d = c /\ i \in {Len(stack[c]), Len(stack[c]) + 1}
      BY <1>3, <1>5, <2>2
    <2>3. CASE d = c /\ i \notin {Len(stack[c]), Len(stack[c]) + 1}
      <3>1. PICK n \in Nat \ {0} : n = Len(stack[c])
        BY <1>3
      <3>2. i \in 1 .. n - 1 /\ i \in 1 .. n
        BY <1>3, <2>3, <3>1
      <3>3. h = stack[c][i]
        BY <1>3, <1>5, <2>3, <3>1, <3>2
      <3>4. Local(c, h) /\ h.fn # "subsend"
        BY <1>1, <1>2, <3>1, <3>2, <3>3 DEF LocalInv
      <3>. QED
        BY <1>4, <2>3, <3>4
    <2>. QED
      BY <2>1, <2>2, <2>3
  <1>. QED
    BY <1>5 DEF LocalInv, Local, Gone, Subscriber

\* A command is posted.
LEMMA PostsCommand ==
    ASSUME HostInv, NEW c \in Coroutines, c = turn, NEW id \in {0} \cup Ids,
           Post(Top(c).cmd, id), Handled(c),
           Top(c).fn \in {"send", "subsend"}, Rest',
           UNCHANGED <<loginq, token, sessions, subs, manager, conn, astray, crossed>>,
           Top(c).fn = "subsend" => id = Top(c).id,
           Top(c).fn = "send" => id = token,
           \/ suburl' = suburl /\ (Top(c).fn = "subsend" => suburl)
           \/ suburl' = TRUE /\ Top(c).fn = "subsend" /\ Top(c).at = "asked"
    PROVE  HostInv'
  <1>1. /\ Busy(c) /\ StackInv /\ LocalInv /\ Local(c, Top(c)) /\ IsFrame(Top(c))
        /\ frame = Top(c)
    BY Running
  <1>2. Top(c).cmd \in Commands \cup Events
    BY <1>1 DEF Local
  <1>3. PICK f, g :
             /\ Pushes(c, f, g)
             /\ IsFrame(f) /\ f.fn = Top(c).fn /\ f.at = "posted" /\ f.cmd = Top(c).cmd
             /\ f.id = Top(c).id /\ f.then = Top(c).then
             /\ IsFrame(g) /\ g.fn = "post" /\ g.at \in {"sent", "queued"} /\ g.cmd = Top(c).cmd
             /\ g.id = id
    BY <1>1, <1>2, PostPushes
  <1>4. turn' = Nobody /\ ret' = NoResult /\ sendq' = Append(sendq, c)
    BY DEF Post
  <1>5. Local(c, f)' /\ Local(c, g)'
    <2>1. \A h : Local(c, h)' <=> /\ Local(c, h)'
      OBVIOUS
    <2>2. Top(c).fn = "send" => Top(c).cmd \in Commands
      BY <1>1 DEF Local
    <2>3. Top(c).fn = "subsend" => suburl' /\ Top(c).cmd \in Events
      BY <1>1 DEF Local
    <2>4. Top(c).cmd = "subscribe" => Subscriber(c)
      BY <1>1 DEF Local
    <2>. QED
      BY <1>3, <2>2, <2>3, <2>4 DEF Local, Subscriber, Commands, Events
  <1>6. LocalInv'
    <2>1. CASE suburl' = suburl
      <3>1. Benign
        BY <2>1 DEF Benign
      <3>. QED
        BY <1>1, <1>3, <1>5, <3>1, PushLocal
    <2>2. CASE suburl' = TRUE /\ Top(c).fn = "subsend" /\ Top(c).at = "asked"
      BY <1>1, <1>3, <1>5, <2>2, PortLocal
    <2>. QED
      BY <2>1, <2>2
  <1>. QED
    BY <1>3, <1>4, <1>6, PostStep

LEMMA SendStartStep ==
    ASSUME HostInv, SendStart
    PROVE  HostInv'
  <1>1. PICK c \in Coroutines : c = turn
    BY DEF SendStart, Back, At
  <1>2. /\ frame = Top(c) /\ Local(c, Top(c)) /\ IsFrame(Top(c))
        /\ Top(c).fn = "send" /\ Top(c).at \in {"start", "login"}
    BY <1>1, Running DEF SendStart, Back, At
  <1>3. Handled(c)
    BY <1>2 DEF Handled, AwaitsLogin, AwaitsSub, Calls, Events
  <1>4. UNCHANGED <<loginq, cut, token, lease, port, manager, term, suburl, sessions, subs, conn,
                    astray, crossed>>
    BY DEF SendStart, session, events, camera
  <1>5. Rest'
    BY <1>4 DEF HostInv, Rest
  <1>6. CASE frame.at = "start" /\ frame.cmd \notin {"Login", "Logout"} /\ ~LoggedIn
    <2>1. Call("login", Frame("login")) /\ sendq' = sendq
      BY <1>6 DEF SendStart
    <2>2. Still
      BY <1>4, <1>5, <2>1 DEF Still
    <2>3. At("send", "start") \/ Back("send", "login", Ok)
      BY DEF SendStart
    <2>. QED
      BY <1>6, <2>1, <2>2, <2>3, SendLogsIn
  <1>7. CASE ~(frame.at = "start" /\ frame.cmd \notin {"Login", "Logout"} /\ ~LoggedIn)
    <2>1. Post(Top(c).cmd, token)
      BY <1>2, <1>7 DEF SendStart
    <2>2. token \in {0} \cup Ids
      BY DEF HostInv, Rest
    <2>. QED
      BY <1>1, <1>2, <1>3, <1>4, <1>5, <2>1, <2>2, PostsCommand
  <1>. QED
    BY <1>6, <1>7

LEMMA SubSendStartStep ==
    ASSUME HostInv, SubSendStart
    PROVE  HostInv'
  <1>1. PICK c \in Coroutines : c = turn
    BY DEF SubSendStart, At
  <1>2. /\ frame = Top(c) /\ Local(c, Top(c)) /\ IsFrame(Top(c))
        /\ Top(c).fn = "subsend" /\ Top(c).at = "start"
    BY <1>1, Running DEF SubSendStart, At
  <1>3. Handled(c)
    BY <1>2 DEF Handled, AwaitsLogin, AwaitsSub, Calls, Events
  <1>4. UNCHANGED <<loginq, cut, token, lease, port, manager, term, suburl, sessions, subs, conn,
                    astray, crossed>>
    BY DEF SubSendStart, OnlySubSend, session, events, camera
  <1>5. Rest'
    BY <1>4 DEF HostInv, Rest
  <1>6. CASE ~suburl
    <2>1. Call("asked", Send("NetPort", Retries)) /\ sendq' = sendq
      BY <1>6 DEF SubSendStart
    <2>2. Still
      BY <1>4, <1>5, <2>1 DEF Still
    <2>3. At("subsend", "start")
      BY DEF SubSendStart
    <2>. QED
      BY <1>6, <2>1, <2>2, <2>3, SubSendAsksPort
  <1>7. CASE suburl
    <2>1. Post(Top(c).cmd, Top(c).id)
      BY <1>2, <1>7 DEF SubSendStart
    <2>2. Top(c).id \in {0} \cup Ids
      BY <1>2 DEF IsFrame
    <2>. QED
      BY <1>1, <1>2, <1>3, <1>4, <1>5, <1>7, <2>1, <2>2, PostsCommand
  <1>. QED
    BY <1>6, <1>7

LEMMA SubSendAskedStep ==
    ASSUME HostInv, SubSendAsked
    PROVE  HostInv'
  <1>1. PICK c \in Coroutines : c = turn
    BY DEF SubSendAsked, Back, At
  <1>2. /\ frame = Top(c) /\ Local(c, Top(c)) /\ IsFrame(Top(c))
        /\ Top(c).fn = "subsend" /\ Top(c).at = "asked"
        /\ Top(c).cmd = "subscribe" /\ ~suburl
    BY <1>1, Running DEF SubSendAsked, Back, At, Local
  <1>3. Handled(c)
    BY <1>2 DEF Handled, AwaitsLogin, AwaitsSub, Calls, Events
  <1>4. UNCHANGED <<loginq, cut, token, lease, port, manager, term, sessions, subs, conn,
                    astray, crossed>>
    BY DEF SubSendAsked, OnlySubSend, session, events, camera
  <1>5. Rest'
    BY <1>4 DEF HostInv, Rest, SubSendAsked
  <1>6. ret.kind # "odd"
    <2>1. Calls(Top(c), "send", "NetPort")
      BY <1>2 DEF Calls
    <2>2. Result("send", "NetPort", ret)
      BY <1>1, <2>1, Running
    <2>. QED
      BY <2>2 DEF Result, Commands
  <1>7. CASE ret.kind # "ok"
    <2>1. PassOn /\ UNCHANGED <<suburl, sendq>>
      BY <1>7 DEF SubSendAsked
    <2>2. Still
      BY <1>4, <1>5, <2>1 DEF Still
    <2>3. Result(Top(c).fn, Top(c).cmd, ret)
      BY <1>2, <1>6, <1>7 DEF Result, Commands, Results
    <2>. QED
      BY <1>1, <1>2, <1>3, <2>1, <2>2, <2>3, Passing DEF Queues, Holds
  <1>8. CASE ret.kind = "ok" /\ ~suburl'
    <2>1. Return("unsupported", 0) /\ sendq' = sendq /\ suburl' \in BOOLEAN
      BY <1>8 DEF SubSendAsked
    <2>2. suburl' = suburl
      BY <1>2, <1>8, <2>1 DEF HostInv, Rest
    <2>3. Still
      BY <1>4, <1>5, <2>1, <2>2 DEF Still
    <2>4. Result(Top(c).fn, Top(c).cmd, [kind |-> "unsupported", id |-> 0])
      BY <1>2 DEF Result, Commands, Results
    <2>5. "unsupported" \in Kinds /\ "ok" \notin Broken
      BY DEF Kinds, Failed, Broken
    <2>. QED
      BY <1>1, <1>2, <1>3, <1>8, <2>1, <2>3, <2>4, <2>5, Returning DEF Queues, Holds
  <1>9. CASE ret.kind = "ok" /\ suburl'
    <2>1. Post(Top(c).cmd, Top(c).id) /\ suburl' = TRUE
      BY <1>2, <1>9 DEF SubSendAsked
    <2>2. Top(c).id \in {0} \cup Ids
      BY <1>2 DEF IsFrame
    <2>. QED
      BY <1>1, <1>2, <1>3, <1>4, <1>5, <2>1, <2>2, PostsCommand
  <1>. QED
    BY <1>7, <1>8, <1>9

-----------------------------------------------------------------------------
(* Answers *)

\* The one that a request answers, and what it has to do with the answer.
LEMMA PostCaller ==
    ASSUME HostInv, NEW c \in Coroutines, Busy(c), Top(c).fn = "post"
    PROVE  /\ Len(stack[c]) # 1
           /\ Calls(Under(c), "post", Top(c).cmd)
           /\ Under(c).fn \in {"send", "subsend"} /\ Under(c).cmd = Top(c).cmd
           /\ Top(c).cmd \in Events => suburl
           /\ Top(c).cmd \in Commands \cup Events
  <1>1. StackInv /\ LocalInv
    BY DEF HostInv
  <1>2. Len(stack[c]) # 1
    <2>1. stack[c][1].fn \in Root(c)
      BY <1>1 DEF StackInv, Shape, Busy
    <2>2. Len(stack[c]) = 1 => Top(c) = stack[c][1]
      BY <1>1, TopIs
    <2>. QED
      BY <2>1, <2>2 DEF Root, Coroutines
  <1>3. /\ Len(stack[c]) - 1 \in 1 .. Len(stack[c])
        /\ Calls(Under(c), "post", Top(c).cmd)
    BY <1>1, <1>2, Caller DEF Under
  <1>4. Local(c, Under(c))
    BY <1>1, <1>3 DEF LocalInv, Under
  <1>5. /\ Under(c).fn \in {"send", "subsend"} /\ Under(c).cmd = Top(c).cmd
        /\ Under(c).at = "posted"
    BY <1>3 DEF Calls, Events
  <1>6. /\ Top(c).cmd \in Events => suburl
        /\ Top(c).cmd \in Commands \cup Events
    BY <1>4, <1>5 DEF Local, Commands, Events
  <1>. QED
    BY <1>2, <1>3, <1>5, <1>6

\* The camera has got a request of c, or has not, and c is told this.
Effects(c, kind, id) ==
    /\ astray => astray'
    /\ token \notin sessions => astray' \/ token \notin sessions'
    /\ \A s \in sessions' \ sessions :
          astray' \/ (Top(c).cmd = "Login" /\ kind = "ok" /\ id = s)
    /\ \A s \in subs' \ subs :
          /\ astray' \/ (Top(c).cmd = "subscribe" /\ kind \in Results /\ id = s)
          /\ \A d \in Coroutines : ~Drops(d, s)
    /\ \A s \in subs' : astray' \/ kind \in Broken \/ ~DropsBelow(c, s)
    /\ \A s \in subs : Answered(c, s) => astray' \/ (kind \in Results /\ id = s)

\* The lock of the requests is kept, or left to the next.
LEMMA SendqKept ==
    ASSUME HostInv, NEW c \in Coroutines,
           \A d \in Coroutines \ {c} : stack'[d] = stack[d],
           Queueing(c)' <=> Queueing(c), Holding(c)' <=> Holding(c), loginq' = loginq,
           \/ sendq' = sendq /\ (Posts(c)' <=> Posts(c))
           \/ sendq # <<>> /\ Head(sendq) = c /\ sendq' = Tail(sendq) /\ ~Posts(c)'
    PROVE  LockInv'
  <1>1. \A d \in Coroutines \ {c} :
           /\ Posts(d)' <=> Posts(d)
           /\ Queueing(d)' <=> Queueing(d)
           /\ Holding(d)' <=> Holding(d)
    BY Others
  <1>2. /\ sendq \in Seq(Coroutines) /\ IsInjective(sendq)
        /\ \A d \in Coroutines : d \in Range(sendq) <=> Posts(d)
    BY DEF HostInv, LockInv
  <1>3. /\ sendq' \in Seq(Coroutines) /\ IsInjective(sendq')
        /\ \A d \in Coroutines : d \in Range(sendq') <=> Posts(d)'
    <2>1. CASE sendq' = sendq /\ (Posts(c)' <=> Posts(c))
      BY <1>1, <1>2, <2>1
    <2>2. CASE sendq # <<>> /\ Head(sendq) = c /\ sendq' = Tail(sendq) /\ ~Posts(c)'
      <3>1. /\ sendq' \in Seq(Coroutines) /\ IsInjective(sendq')
            /\ Range(sendq') = Range(sendq) \ {c}
        BY <1>2, <2>2, QueueTail
      <3>. QED
        BY <1>1, <1>2, <2>2, <3>1
    <2>. QED
      BY <2>1, <2>2
  <1>4. \A d \in Coroutines : (Queueing(d)' <=> Queueing(d)) /\ (Holding(d)' <=> Holding(d))
    BY <1>1
  <1>. QED
    BY <1>3, <1>4 DEF HostInv, LockInv

\* A request that ends hands on what the camera did.
LEMMA PostLeaves ==
    ASSUME HostInv, NEW c \in Coroutines, turn = Nobody, Busy(c), Top(c).fn = "post",
           NEW kind \in Kinds, NEW id \in {0} \cup Ids, Returns(c, kind, id),
           UNCHANGED <<loginq, token, manager, conn, suburl, crossed>>, Rest',
           Effects(c, kind, id),
           NEW g, g = Top(c),
           \A r : r = [kind |-> kind, id |-> id] => Result("post", g.cmd, r)',
           \/ sendq' = sendq /\ Top(c).at = "answered"
           \/ sendq # <<>> /\ Head(sendq) = c /\ sendq' = Tail(sendq)
    PROVE  HostInv'
  <1>1. StackInv /\ LocalInv /\ Pops(c)
    BY DEF HostInv, Returns
  <1>2. Len(stack[c]) # 1 /\ Calls(Under(c), "post", Top(c).cmd)
    BY PostCaller
  <1>3. Benign
    BY DEF Benign, Effects
  <1>4. StackInv' /\ LocalInv'
    BY <1>1, <1>3, PopShape, PopLocal
  <1>5. /\ \A d \in Coroutines \ {c} : stack'[d] = stack[d]
        /\ Busy(c)' /\ Top(c)' = Under(c) /\ Under(c).fn # "post"
        /\ Queueing(c)' <=> QueuesBelow(c)
        /\ Holding(c)' <=> HoldsBelow(c)
        /\ \A s : Drops(c, s)' <=> DropsBelow(c, s)
    BY <1>1, <1>2, PopEffect
  <1>6. /\ Queueing(c) <=> QueuesBelow(c)
        /\ Holding(c) <=> HoldsBelow(c)
        /\ \A s : Drops(c, s) <=> DropsBelow(c, s)
    BY <1>1, TopEffect DEF Queues, Holds, Dropping
  <1>7. \A d \in Coroutines \ {c} :
           /\ Busy(d)' <=> Busy(d)
           /\ Top(d)' = Top(d)
           /\ \A s : Drops(d, s)' <=> Drops(d, s)
           /\ \A s : Answered(d, s)' <=> Answered(d, s)
    BY <1>5, Others
  <1>8. turn' = c /\ ret' = [kind |-> kind, id |-> id] /\ frame' = Under(c)
    BY <1>2, <1>5 DEF Returns, frame, Top
  <1>9. RetInv'
    <2>1. g.fn = "post"
      OBVIOUS
    <2>2. \A r : r = [kind |-> kind, id |-> id] => Result(g.fn, g.cmd, r)'
      BY <2>1
    <2>. QED
      BY <1>1, <2>2, ReturnRet
  <1>10. LockInv'
    <2>1. ~Posts(c)'
      BY <1>5 DEF Posts
    <2>2. Top(c).at = "answered" => ~Posts(c)
      BY DEF Posts
    <2>. QED
      BY <1>5, <1>6, <2>1, <2>2, SendqKept
  <1>11. SessionInv'
    <2>1. ASSUME NEW s \in sessions', ~astray' PROVE s = token \/ Arrived(s)'
      <3>1. CASE s \in sessions
        BY <2>1, <3>1 DEF HostInv, SessionInv, Arrived, Effects, Nobody, Coroutines
      <3>2. CASE s \notin sessions
        <4>1. Top(c).cmd = "Login" /\ kind = "ok" /\ id = s
          BY <2>1, <3>2 DEF Effects
        <4>. QED
          BY <1>2, <1>8, <4>1 DEF Arrived, AwaitsLogin
      <3>. QED
        BY <3>1, <3>2
    <2>. QED
      BY <2>1 DEF SessionInv
  <1>12. SubInv'
    <2>1. ASSUME NEW s \in subs', ~astray', ~crossed' PROVE s = manager \/ Coming(s)'
      <3>1. CASE \E d \in Coroutines \ {c} : Answered(d, s)
        BY <3>1, <1>7 DEF Coming
      <3>2. ASSUME Top(c).cmd = "subscribe" /\ kind \in Results /\ id = s
            PROVE  Coming(s)'
        BY <1>2, <1>8, <3>2 DEF Coming, AwaitsSub
      <3>3. CASE s \in subs /\ Answered(c, s)
        <4>1. kind \in Results /\ id = s
          BY <2>1, <3>3 DEF Effects
        <4>. QED
          BY <3>2, <3>3, <4>1 DEF Answered
      <3>4. CASE s \in subs /\ ~(\E d \in Coroutines : Answered(d, s))
        BY <2>1, <3>4 DEF HostInv, SubInv, Coming, Effects, Nobody, Coroutines
      <3>5. CASE s \notin subs
        BY <2>1, <3>2, <3>5 DEF Effects
      <3>. QED
        BY <3>1, <3>3, <3>4, <3>5
    <2>. QED
      BY <2>1 DEF SubInv
  <1>13. UnsubInv'
    <2>1. ASSUME NEW s \in subs', NEW d \in Coroutines, Drops(d, s)', ~astray'
          PROVE  Pending(d)'
      <3>1. s \in subs
        BY <2>1, <1>5, <1>6, <1>7 DEF Effects
      <3>2. CASE d # c
        <4>1. Pending(d)
          BY <2>1, <3>1, <3>2, <1>7 DEF HostInv, UnsubInv, Effects
        <4>. QED
          BY <4>1, <3>2, <1>7 DEF Pending, Nobody, Coroutines
      <3>3. CASE d = c
        BY <2>1, <3>3, <1>5, <1>8 DEF Effects, Pending
      <3>. QED
        BY <3>2, <3>3
    <2>. QED
      BY <2>1 DEF UnsubInv
  <1>14. ConnInv'
    BY <1>7 DEF ConnInv, HostInv
  <1>. QED
    BY <1>4, <1>9, <1>10, <1>11, <1>12, <1>13, <1>14 DEF HostInv

\* Its answer is here, or it is sent.
LEMMA PostStays ==
    ASSUME HostInv, NEW c \in Coroutines, turn = Nobody, Busy(c), Top(c).fn = "post",
           Top(c).at # "answered",
           NEW f, Replaces(c, f), IsFrame(f), f.fn = "post", f.cmd = Top(c).cmd,
           turn' = Nobody, ret' = NoResult,
           UNCHANGED <<loginq, token, manager, conn, suburl, crossed>>, Rest',
           \/ /\ f.at = "sent" /\ sendq' = sendq /\ f.id = Top(c).id
              /\ UNCHANGED <<sessions, subs, astray>>
           \/ /\ f.at = "answered" /\ sendq # <<>> /\ Head(sendq) = c /\ sendq' = Tail(sendq)
              /\ Effects(c, f.then, f.id) /\ f.cmd \in Events /\ f.then \in Kinds \ Broken
              /\ f.cmd = "subscribe" /\ f.then \in Results => f.id \in Ids
    PROVE  HostInv'
  <1>1. /\ StackInv /\ LocalInv /\ Local(c, Top(c))
    BY TopLocal DEF HostInv
  <1>2. Top(c).at \in {"queued", "sent"}
    BY <1>1 DEF Local
  <1>3. Benign
    BY DEF Benign, Effects
  <1>4. Local(c, f)'
    BY <1>1 DEF Local, Commands, Events, Gone, Subscriber
  <1>15. Fits(c, f)
    BY DEF Fits, Inside
  <1>16. StackInv' /\ LocalInv'
    BY <1>1, <1>3, <1>4, <1>15, ReplaceShape, ReplaceLocal
  <1>5. /\ \A d \in Coroutines \ {c} : stack'[d] = stack[d]
        /\ Busy(c)' /\ Top(c)' = f
        /\ Queueing(c)' <=> QueuesBelow(c)
        /\ Holding(c)' <=> HoldsBelow(c)
        /\ \A s : Drops(c, s)' <=> DropsBelow(c, s)
    BY <1>1, ReplaceEffect DEF Queues, Holds, Dropping
  <1>6. /\ Queueing(c) <=> QueuesBelow(c)
        /\ Holding(c) <=> HoldsBelow(c)
        /\ \A s : Drops(c, s) <=> DropsBelow(c, s)
    BY <1>1, TopEffect DEF Queues, Holds, Dropping
  <1>7. \A d \in Coroutines \ {c} :
           /\ Busy(d)' <=> Busy(d)
           /\ Top(d)' = Top(d)
           /\ \A s : Drops(d, s)' <=> Drops(d, s)
           /\ \A s : Answered(d, s)' <=> Answered(d, s)
    BY <1>5, Others
  <1>9. RetInv'
    BY DEF RetInv, NoResult, Kinds, Nobody, Coroutines
  <1>10. LockInv'
    <2>1. f.at = "answered" => ~Posts(c)'
      BY <1>5 DEF Posts
    <2>2. f.at = "sent" => (Posts(c)' <=> Posts(c))
      BY <1>2, <1>5 DEF Posts
    <2>. QED
      BY <1>5, <1>6, <2>1, <2>2, SendqKept
  <1>11. SessionInv'
    <2>1. ASSUME NEW s \in sessions', ~astray' PROVE s = token
      <3>1. s \in sessions
        BY <2>1 DEF Effects, Events
      <3>. QED
        BY <2>1, <3>1 DEF HostInv, SessionInv, Arrived, Effects, Nobody, Coroutines
    <2>. QED
      BY <2>1 DEF SessionInv
  <1>12. SubInv'
    <2>1. ASSUME NEW s \in subs', ~astray', ~crossed' PROVE s = manager \/ Coming(s)'
      <3>1. CASE \E d \in Coroutines \ {c} : Answered(d, s)
        BY <3>1, <1>7 DEF Coming
      <3>3. ~Answered(c, s)
        BY DEF Answered
      <3>4. CASE s \in subs /\ ~(\E d \in Coroutines : Answered(d, s))
        BY <2>1, <3>4 DEF HostInv, SubInv, Coming, Effects, Nobody, Coroutines
      <3>5. CASE s \notin subs
        <4>1. Top(c).cmd = "subscribe" /\ f.then \in Results /\ f.id = s /\ f.at = "answered"
          BY <2>1, <3>5 DEF Effects
        <4>2. Answered(c, s)'
          BY <1>5, <4>1 DEF Answered
        <4>. QED
          BY <4>2 DEF Coming
      <3>. QED
        BY <3>1, <3>3, <3>4, <3>5
    <2>. QED
      BY <2>1 DEF SubInv
  <1>13. UnsubInv'
    <2>1. ASSUME NEW s \in subs', NEW d \in Coroutines, Drops(d, s)', ~astray'
          PROVE  Pending(d)'
      <3>1. s \in subs
        BY <2>1, <1>5, <1>6, <1>7 DEF Effects
      <3>2. CASE d # c
        <4>1. Pending(d)
          BY <2>1, <3>1, <3>2, <1>7 DEF HostInv, UnsubInv, Effects
        <4>. QED
          BY <4>1, <3>2, <1>7 DEF Pending, Nobody, Coroutines
      <3>3. CASE d = c
        BY <2>1, <3>3, <1>5 DEF Effects, Pending
      <3>. QED
        BY <3>2, <3>3
    <2>. QED
      BY <2>1 DEF UnsubInv
  <1>14. ConnInv'
    BY <1>7 DEF ConnInv, HostInv
  <1>. QED
    BY <1>16, <1>9, <1>10, <1>11, <1>12, <1>13, <1>14 DEF HostInv

\* The first in the queue has a request.
LEMMA HeadPosts ==
    ASSUME HostInv, NEW c \in Coroutines, sendq # <<>>, Head(sendq) = c
    PROVE  /\ Busy(c) /\ Top(c).fn = "post" /\ Top(c).at \in {"queued", "sent"}
           /\ StackInv /\ LocalInv /\ IsFrame(Top(c)) /\ Local(c, Top(c))
  <1>1. sendq \in Seq(Coroutines) /\ IsInjective(sendq)
    BY DEF HostInv, LockInv
  <1>2. c \in Range(sendq)
    BY <1>1, QueueTail
  <1>3. Posts(c)
    BY <1>2 DEF HostInv, LockInv
  <1>. QED
    BY <1>3, TopIs, TopLocal DEF Posts, HostInv

LEMMA PostQueuedStep ==
    ASSUME HostInv, NEW c \in Coroutines, PostQueued(c)
    PROVE  HostInv'
  <1>1. /\ turn = Nobody /\ sendq # <<>> /\ Head(sendq) = c /\ Top(c).at = "queued"
        /\ UNCHANGED <<loginq, cut, token, lease, manager, term, sessions, subs, suburl, conn,
                       astray, crossed>>
    BY DEF PostQueued, aio, session, events, camera
  <1>2. /\ Busy(c) /\ Top(c).fn = "post" /\ StackInv /\ IsFrame(Top(c)) /\ Local(c, Top(c))
    BY <1>1, HeadPosts
  <1>3. Rest'
    BY <1>1 DEF HostInv, Rest
  <1>4. CASE open
    <2>1. PICK f : f = [Top(c) EXCEPT !.at = "sent", !.then = Label]
      OBVIOUS
    <2>2. IsFrame(f) /\ f.fn = "post" /\ f.cmd = Top(c).cmd /\ f.at = "sent" /\ f.id = Top(c).id
      BY <1>2, <2>1 DEF IsFrame
    <2>3. Replaces(c, f) /\ turn' = Nobody /\ ret' = NoResult /\ sendq' = sendq
      BY <1>4, <2>1 DEF PostQueued, Waits, Replaces
    <2>. QED
      BY <1>1, <1>2, <1>3, <2>2, <2>3, PostStays
  <1>5. CASE ~open
    <2>1. Returns(c, "closed", 0) /\ sendq' = Tail(sendq)
      BY <1>5 DEF PostQueued, Leave, Returns, Pops
    <2>2. "closed" \in Kinds /\ "closed" \in Broken /\ "closed" # "odd"
      BY DEF Kinds, Broken
    <2>3. Effects(c, "closed", 0)
      BY <1>1, <2>2 DEF Effects, Answered
    <2>4. PICK g : g = Top(c)
      OBVIOUS
    <2>5. \A r : r = [kind |-> "closed", id |-> 0] => Result("post", g.cmd, r)'
      BY <2>2 DEF Result, Results
    <2>. QED
      BY <1>1, <1>2, <1>3, <2>1, <2>2, <2>3, <2>4, <2>5, PostLeaves
  <1>. QED
    BY <1>4, <1>5

LEMMA PostAnsweredStep ==
    ASSUME HostInv, NEW c \in Coroutines, PostAnswered(c)
    PROVE  HostInv'
  <1>1. /\ turn = Nobody /\ Busy(c) /\ Top(c).fn = "post" /\ Top(c).at = "answered"
        /\ UNCHANGED <<sendq, loginq, token, lease, manager, term, sessions, subs, suburl, conn,
                       crossed>>
        /\ cut' = cut \ {c}
    BY DEF PostAnswered, locks, session, events, camera
  <1>2. StackInv /\ LocalInv /\ IsFrame(Top(c)) /\ Local(c, Top(c))
    BY <1>1, TopIs, TopLocal DEF HostInv
  <1>3. Rest'
    BY <1>1 DEF HostInv, Rest
  <1>4. PICK g : g = Top(c)
    OBVIOUS
  <1>5. /\ g.cmd \in Events /\ g.then \in Kinds /\ g.id \in {0} \cup Ids
        /\ g.cmd = "subscribe" /\ g.then \in Results => g.id \in Ids
    BY <1>1, <1>2, <1>4 DEF Local, IsFrame
  <1>6. suburl
    BY <1>1, <1>4, <1>5, PostCaller
  <1>7. ~Pending(c)
    BY <1>1, <1>2 DEF Pending, Nobody, Coroutines
  <1>8. \A s \in subs : astray \/ ~DropsBelow(c, s)
    BY <1>1, <1>2, <1>7, TopEffect DEF HostInv, UnsubInv
  <1>9. ASSUME NEW kind \in Kinds, NEW id \in {0} \cup Ids, Returns(c, kind, id),
               astray => astray',
               \A s \in subs : Answered(c, s) => astray' \/ (kind \in Results /\ id = s),
               kind \in Results => id = g.id /\ kind = g.then
        PROVE  HostInv'
    <2>1. Effects(c, kind, id)
      BY <1>1, <1>8, <1>9 DEF Effects
    <2>2. \A r : r = [kind |-> kind, id |-> id] => Result("post", g.cmd, r)'
      BY <1>1, <1>5, <1>6, <1>9 DEF Result, Commands, Events
    <2>. QED
      BY <1>1, <1>2, <1>3, <1>4, <1>9, <2>1, <2>2, PostLeaves
  <1>10. CASE Leave(c, Top(c).then, Top(c).id) /\ UNCHANGED astray
    <2>1. Returns(c, g.then, g.id)
      BY <1>4, <1>10 DEF Leave, Returns, Pops
    <2>. QED
      BY <1>4, <1>5, <1>9, <1>10, <2>1 DEF Answered
  <1>11. CASE Leave(c, "payload", 0) /\ astray' = (astray \/ Top(c).id # 0)
    <2>1. Returns(c, "payload", 0)
      BY <1>11 DEF Leave, Returns, Pops
    <2>2. ASSUME NEW s \in subs, Answered(c, s) PROVE astray'
      <3>1. Top(c).id = s
        BY <2>2 DEF Answered
      <3>2. s # 0
        BY HostAssumption DEF HostInv, Rest, Ids
      <3>3. Top(c).id # 0
        BY <3>1, <3>2
      <3>. QED
        BY <3>3, <1>11, Zenon
    <2>3. "payload" \in Kinds \ Results /\ (astray => astray')
      BY <1>11 DEF Kinds, Broken, Results
    <2>. QED
      BY <1>9, <2>1, <2>2, <2>3
  <1>. QED
    BY <1>10, <1>11 DEF PostAnswered

\* An id that the camera gives is nobody's.
LEMMA GivenIs ==
    ASSUME NEW f, NEW id \in Given(f)
    PROVE  /\ f.cmd = "Login" => id \in Ids /\ id # token
           /\ f.cmd = "subscribe" =>
                id \in Ids /\ \A d \in Coroutines : StackInv => ~Drops(d, id)
           /\ f.cmd \notin {"Login", "subscribe"} => id = 0
  <1>1. ASSUME f.cmd = "Login" PROVE id \in Ids /\ id # token
    BY <1>1 DEF Given, NewId
  <1>2. ASSUME f.cmd = "subscribe" PROVE id \in Ids /\ id \notin Held
    BY <1>2 DEF Given, NewId
  <1>3. ASSUME id \notin Held, NEW d \in Coroutines, StackInv, Drops(d, id) PROVE FALSE
    <2>1. PICK i \in 1 .. Len(stack[d]) : stack[d][i].id = id
      BY <1>3 DEF Drops, Dropping
    <2>2. stack[d] \in Seq(Range(stack[d]))
      BY <1>3 DEF StackInv, Shape, IsStack
    <2>3. stack[d][i] \in Range(stack[d])
      BY <2>1, <2>2
    <2>. QED
      BY <1>3, <2>1, <2>3 DEF Held
  <1>. QED
    BY <1>1, <1>2, <1>3 DEF Given

\* What an answer says of the camera, and tells the one that asked.
LEMMA RespondOutcome ==
    ASSUME HostInv, NEW c \in Coroutines, Respond(c), NEW f, f = Top(c)
    PROVE  \E kind \in Kinds \ Broken, id \in {0} \cup Ids :
             /\ Answer(c, kind, id)
             /\ Effects(c, kind, id)
             /\ sessions' \subseteq Ids /\ subs' \subseteq Ids
             /\ f.cmd \in Commands => kind # "odd"
             /\ f.cmd = "Logout" => astray' \/ token \notin sessions'
             /\ f.cmd \in {"Login", "Logout"} => kind # "fewer"
             /\ f.cmd = "Login" /\ kind = "ok" => id \in Ids
             /\ f.cmd = "subscribe" /\ kind \in Results => id \in Ids
  <1>. DEFINE Good(kind, id) ==
               /\ Answer(c, kind, id)
               /\ Effects(c, kind, id)
               /\ sessions' \subseteq Ids /\ subs' \subseteq Ids
               /\ f.cmd \in Commands => kind # "odd"
               /\ f.cmd = "Logout" => astray' \/ token \notin sessions'
               /\ f.cmd \in {"Login", "Logout"} => kind # "fewer"
               /\ f.cmd = "Login" /\ kind = "ok" => id \in Ids
               /\ f.cmd = "subscribe" /\ kind \in Results => id \in Ids
  <1>1. turn = Nobody /\ sendq # <<>> /\ Head(sendq) = c /\ f.at = "sent"
    BY Zenon DEF Respond
  <1>2. /\ StackInv /\ Busy(c) /\ f.fn = "post" /\ IsFrame(f) /\ Local(c, f)
    BY <1>1, HeadPosts
  <1>3. /\ f.cmd = "Logout" => f.id = token
        /\ \A s : ~Answered(c, s)
    BY <1>1, <1>2 DEF Local, Answered
  <1>4. sessions \subseteq Ids /\ subs \subseteq Ids
    BY DEF HostInv, Rest
  <1>5. \A s : DropsBelow(c, s) => f.cmd = "unsubscribe" /\ f.id = s
    BY <1>1, <1>2, UnderUnsubscribe
  <1>6. f.cmd \in Commands \cup Events
    BY <1>2, PostCaller
  <1>7. ASSUME NEW kind \in Kinds \ Broken, NEW id \in {0} \cup Ids, NEW new \in Given(f),
               Served(f, new), Answer(c, kind, id), astray => astray',
               Creates(f) => astray' \/ (id = new /\ kind \in Results),
               f.cmd \in Commands => kind # "odd",
               kind \in {"ok", "odd"} => id = new, kind # "fewer"
        PROVE  Good(kind, id)
    <2>1. /\ f.cmd = "Login" => new \in Ids /\ new # token
          /\ f.cmd = "subscribe" => new \in Ids /\ \A d \in Coroutines : ~Drops(d, new)
      BY <1>2, GivenIs
    <2>2. /\ sessions' = IF f.cmd = "Login" THEN sessions \cup {new}
                         ELSE IF f.cmd = "Logout" THEN sessions \ {f.id} ELSE sessions
          /\ subs' = IF f.cmd = "subscribe" THEN subs \cup {new}
                     ELSE IF f.cmd = "unsubscribe" THEN subs \ {f.id} ELSE subs
      BY <1>7 DEF Served
    <2>3. token \notin sessions => token \notin sessions'
      BY <2>1, <2>2
    <2>4. \A s \in sessions' \ sessions :
              astray' \/ (f.cmd = "Login" /\ kind = "ok" /\ id = s)
      BY <2>2, <1>7 DEF Creates, Commands, Results
    <2>5. \A s \in subs' \ subs :
              /\ astray' \/ (f.cmd = "subscribe" /\ kind \in Results /\ id = s)
              /\ \A d \in Coroutines : ~Drops(d, s)
      BY <2>1, <2>2, <1>7 DEF Creates
    <2>6. \A s \in subs' : ~DropsBelow(c, s)
      BY <2>2, <1>5
    <2>7. Effects(c, kind, id)
      BY <2>3, <2>4, <2>5, <2>6, <1>3, <1>7 DEF Effects
    <2>. QED
      BY <2>1, <2>2, <2>7, <1>3, <1>4, <1>7 DEF Results
  <1>8. ASSUME NEW kind \in Kinds \ Broken, Answer(c, kind, 0), UNCHANGED camera,
               astray => astray', Ends(f) => astray' \/ (f.cmd = "unsubscribe" /\ f.id \notin subs),
               kind \notin {"ok", "odd"}, f.cmd \in {"Login", "Logout"} => kind # "fewer"
        PROVE  Good(kind, 0)
    <2>1. sessions' = sessions /\ subs' = subs
      BY <1>8 DEF camera
    <2>2. \A s \in subs' : astray' \/ ~DropsBelow(c, s)
      BY <2>1, <1>5, <1>8 DEF Ends
    <2>3. Effects(c, kind, 0)
      BY <2>1, <2>2, <1>3, <1>8 DEF Effects
    <2>. QED
      BY <2>1, <2>3, <1>4, <1>8 DEF Ends, Results
  <1>9. /\ "ok" \in Kinds \ Broken /\ "odd" \in Kinds \ Broken
        /\ "denied" \in Kinds \ Broken /\ "bad" \in Kinds \ Broken
        /\ "lost" \in Kinds \ Broken /\ "timeout" \in Kinds \ Broken
    BY DEF Kinds, Broken, Failed
  <1>. HIDE DEF Good
  <1>10. ASSUME NEW new \in Given(f) PROVE new \in {0} \cup Ids
    BY GivenIs
  <1>11. ASSUME /\ \E id \in Given(f) : Served(f, id) /\ Answer(c, "ok", id)
                /\ UNCHANGED <<astray, incidents>>
         PROVE  \E kind \in Kinds \ Broken, id \in {0} \cup Ids : Good(kind, id)
    BY <1>7, <1>9, <1>10, <1>11 DEF Results
  <1>12. ASSUME /\ Refused(f) \/ Mislabelled(f)
                /\ Answer(c, IF f.cmd \in Commands THEN "denied" ELSE "bad", 0)
                /\ astray' = (astray \/ (Ends(f) /\ ~Refused(f)))
                /\ UNCHANGED <<camera, incidents>>
         PROVE  \E kind \in Kinds \ Broken, id \in {0} \cup Ids : Good(kind, id)
    <2>1. PICK kind \in {"denied", "bad"} : Answer(c, kind, 0)
      BY <1>12
    <2>2. (astray => astray') /\ (Ends(f) => astray' \/ Refused(f))
      BY <1>12, Zenon
    <2>3. Ends(f) /\ Refused(f) => f.cmd = "unsubscribe" /\ f.id \notin subs
      BY DEF Ends, Refused, Commands
    <2>. QED
      <3>1. UNCHANGED camera
        BY <1>12
      <3>2. kind \in Kinds \ Broken /\ kind \notin {"ok", "odd", "fewer"}
        BY <1>9
      <3>3. Ends(f) => astray' \/ (f.cmd = "unsubscribe" /\ f.id \notin subs)
        BY <2>2, <2>3, Zenon
      <3>4. astray => astray'
        BY <2>2
      <3>5. Good(kind, 0)
        BY <1>8, <2>1, <3>1, <3>2, <3>3, <3>4
      <3>. QED
        BY <3>2, <3>5
  <1>13. ASSUME /\ \E kind \in Unhelpful(f.cmd) : Answer(c, kind, 0)
                /\ astray' = (astray \/ Ends(f))
                /\ UNCHANGED camera
         PROVE  \E kind \in Kinds \ Broken, id \in {0} \cup Ids : Good(kind, id)
    <2>1. PICK kind \in Unhelpful(f.cmd) : Answer(c, kind, 0)
      BY <1>13
    <2>2. (astray => astray') /\ (Ends(f) => astray')
      BY <1>13, Zenon
    <2>3. /\ kind \in Kinds \ Broken /\ kind \notin {"ok", "odd"}
          /\ f.cmd \in {"Login", "Logout"} => kind # "fewer"
      BY DEF Unhelpful, Kinds, Broken, Failed
    <2>. QED
      <3>1. UNCHANGED camera
        BY <1>13
      <3>2. Ends(f) => astray' \/ (f.cmd = "unsubscribe" /\ f.id \notin subs)
        BY <2>2, Zenon
      <3>3. astray => astray'
        BY <2>2, Zenon
      <3>5. Good(kind, 0)
        BY <1>8, <2>1, <2>3, <3>1, <3>2, <3>3
      <3>. QED
        BY <2>3, <3>5
  <1>14. ASSUME /\ f.cmd \in {"subscribe", "renew"}
                /\ \E id \in Given(f) : Served(f, id) /\ Answer(c, "odd", id)
                /\ UNCHANGED astray
         PROVE  \E kind \in Kinds \ Broken, id \in {0} \cup Ids : Good(kind, id)
    <2>1. f.cmd \notin Commands
      BY <1>14 DEF Commands
    <2>. QED
      BY <1>7, <1>9, <1>10, <1>14, <2>1 DEF Results
  <1>15. ASSUME /\ \E kind \in {"lost", "timeout"} : Answer(c, kind, 0)
                /\ \/ /\ UNCHANGED camera
                      /\ astray' = (astray \/ Ends(f))
                   \/ /\ ~Refused(f)
                      /\ \E id \in Given(f) : Served(f, id)
                      /\ astray' = (astray \/ Creates(f))
         PROVE  \E kind \in Kinds \ Broken, id \in {0} \cup Ids : Good(kind, id)
    <2>1. PICK kind \in {"lost", "timeout"} : Answer(c, kind, 0)
      BY <1>15
    <2>2. CASE UNCHANGED camera /\ astray' = (astray \/ Ends(f))
      <3>1. (astray => astray') /\ (Ends(f) => astray')
        BY <2>2, Zenon
      <3>. QED
        <4>1. kind \in Kinds \ Broken /\ kind \notin {"ok", "odd", "fewer"}
          BY <1>9
        <4>3. Ends(f) => astray' \/ (f.cmd = "unsubscribe" /\ f.id \notin subs)
          BY <3>1, Zenon
        <4>4. astray => astray'
          BY <3>1, Zenon
        <4>5. UNCHANGED camera
          BY <2>2
        <4>2. Good(kind, 0)
          BY <1>8, <2>1, <4>1, <4>3, <4>4, <4>5
        <4>. QED
          BY <4>1, <4>2
    <2>3. CASE (\E id \in Given(f) : Served(f, id)) /\ astray' = (astray \/ Creates(f))
      <3>1. (astray => astray') /\ (Creates(f) => astray')
        BY <2>3, Zenon
      <3>. QED
        BY <1>7, <1>9, <2>1, <2>3, <3>1
    <2>. QED
      BY <1>15, <2>2, <2>3
  <1>16. \E kind \in Kinds \ Broken, id \in {0} \cup Ids : Good(kind, id)
    BY <1>11, <1>12, <1>13, <1>14, <1>15 DEF Respond
  <1>. QED
    BY <1>16 DEF Good

LEMMA RespondStep ==
    ASSUME HostInv, NEW c \in Coroutines, Respond(c)
    PROVE  HostInv'
  <1>1. PICK g : g = Top(c)
    OBVIOUS
  <1>2. /\ turn = Nobody /\ sendq # <<>> /\ Head(sendq) = c /\ g.at = "sent"
        /\ UNCHANGED <<loginq, open, session, port, events, suburl, conn, crossed>>
    BY <1>1, Zenon DEF Respond
  <1>3. /\ StackInv /\ Busy(c) /\ g.fn = "post" /\ IsFrame(g) /\ Local(c, g)
    BY <1>1, <1>2, HeadPosts
  <1>4. PICK kind \in Kinds \ Broken, id \in {0} \cup Ids :
             /\ Answer(c, kind, id)
             /\ Effects(c, kind, id)
             /\ sessions' \subseteq Ids /\ subs' \subseteq Ids
             /\ g.cmd \in Commands => kind # "odd"
             /\ g.cmd = "Logout" => astray' \/ token \notin sessions'
             /\ g.cmd \in {"Login", "Logout"} => kind # "fewer"
             /\ g.cmd = "Login" /\ kind = "ok" => id \in Ids
             /\ g.cmd = "subscribe" /\ kind \in Results => id \in Ids
    BY <1>1, RespondOutcome
  <1>5. cut' \subseteq Coroutines /\ sendq' = Tail(sendq)
    BY <1>4 DEF Answer, HostInv, Rest
  <1>6. UNCHANGED <<token, lease, manager, term>>
    BY <1>2 DEF session, events
  <1>7. Rest'
    BY <1>2, <1>4, <1>5, <1>6 DEF HostInv, Rest
  <1>8. CASE g.cmd \in Events
    <2>1. PICK f : f = [g EXCEPT !.at = "answered", !.then = kind, !.id = id]
      OBVIOUS
    <2>2. /\ f = [fn |-> f.fn, at |-> f.at, cmd |-> f.cmd, retry |-> f.retry, id |-> f.id,
                  then |-> f.then]
          /\ f.fn = g.fn /\ f.cmd = g.cmd /\ f.retry = g.retry
      BY <1>3, <2>1 DEF IsFrame
    <2>3. f.at = "answered"
      BY <1>3, <2>1 DEF IsFrame
    <2>4. f.then = kind
      BY <1>3, <2>1 DEF IsFrame
    <2>5. f.id = id
      BY <1>3, <2>1 DEF IsFrame
    <2>6. IsFrame(f)
      BY <1>3, <2>2, <2>5 DEF IsFrame
    <2>7. Waits(c, f)
      BY <1>1, <1>4, <1>8, <2>1 DEF Answer
    <2>8. Replaces(c, f) /\ turn' = Nobody /\ ret' = NoResult
      BY <2>7 DEF Waits, Replaces
    <2>9. Effects(c, f.then, f.id)
      BY <1>4, <2>4, <2>5
    <2>10. Top(c).at # "answered" /\ Top(c).fn = "post" /\ f.fn = "post" /\ f.cmd = Top(c).cmd
      BY <1>1, <1>2, <1>3, <2>2
    <2>11. UNCHANGED <<loginq, token, manager, conn, suburl, crossed>>
      BY <1>2, <1>6
    <2>. QED
      BY <1>2, <1>3, <1>4, <1>5, <1>7, <1>8, <2>2, <2>3, <2>4, <2>5, <2>6, <2>8, <2>9, <2>10, <2>11,
         PostStays
  <1>9. CASE g.cmd \notin Events
    <2>1. Returns(c, kind, id)
      BY <1>1, <1>4, <1>9 DEF Answer, Leave, Returns, Pops
    <2>2. \A r : r = [kind |-> kind, id |-> id] => Result("post", g.cmd, r)'
      BY <1>4, <1>6, <1>9 DEF Result, Gone, Events
    <2>3. UNCHANGED <<loginq, token, manager, conn, suburl, crossed>>
      BY <1>2, <1>6
    <2>4. Top(c).fn = "post" /\ kind \in Kinds
      BY <1>1, <1>3, <1>4
    <2>. QED
      BY <1>1, <1>2, <1>3, <1>4, <1>5, <1>7, <2>1, <2>2, <2>3, <2>4, PostLeaves
  <1>. QED
    BY <1>8, <1>9

-----------------------------------------------------------------------------
(* Logging in and out: the lock *)

\* While one at the top of its stack holds the lock, nobody else logs in or out.
LEMMA LockAlone ==
    ASSUME HostInv, NEW c \in Coroutines, Busy(c), Holds(Top(c)),
           NEW d \in Coroutines, NEW j \in 1 .. Len(stack[d]), NEW h, h = stack[d][j],
           d # c \/ j # Len(stack[c])
    PROVE  ~Holds(h) /\ h.cmd \notin {"Login", "Logout"}
  <1>1. StackInv /\ LocalInv /\ Nested(stack[d])
    BY DEF HostInv, StackInv, Shape
  <1>2. ASSUME NEW i \in 1 .. Len(stack[d]), Holds(stack[d][i]) PROVE d = c /\ i = Len(stack[c])
    <2>1. Holding(c)
      BY <1>1, TopEffect
    <2>2. Holding(d)
      BY <1>2 DEF Holding
    <2>3. d = c
      BY <2>1, <2>2 DEF HostInv, LockInv
    <2>4. PICK n \in Nat \ {0} : n = Len(stack[c]) /\ Top(c) = stack[c][n]
      BY <1>1, TopIs
    <2>5. ~HoldsBelow(c)
      BY <1>1, UnderLock DEF Holds, Inside
    <2>6. i \notin 1 .. n - 1
      BY <1>2, <2>3, <2>4, <2>5 DEF HoldsBelow
    <2>. QED
      BY <1>2, <2>3, <2>4, <2>6
  <1>3. ~Holds(h)
    BY <1>2
  <1>4. ASSUME h.cmd \in {"Login", "Logout"} PROVE FALSE
    <2>1. PICK i \in 1 .. j - 1 : Holds(stack[d][i])
      BY <1>1, <1>4 DEF Nested
    <2>2. Len(stack[d]) \in Nat
      BY <1>1 DEF StackInv, Shape, IsStack
    <2>3. i \in 1 .. Len(stack[d]) /\ i < j /\ j <= Len(stack[d])
      BY <2>2
    <2>4. d = c /\ i = Len(stack[c])
      BY <1>2, <2>1, <2>3
    <2>. QED
      BY <2>2, <2>3, <2>4
  <1>. QED
    BY <1>3, <1>4

\* What is true of a frame that has nothing to do with the session.
LEMMA LocalWithoutToken ==
    ASSUME UNCHANGED <<conn, suburl, manager>>
    PROVE  \A d, h : Local(d, h) /\ ~Holds(h) /\ h.cmd \notin {"Login", "Logout"} => Local(d, h)'
  BY DEF Local, Holds, Subscriber

\* One that holds the lock changes the session and returns.
LEMMA ReleaseLocal ==
    ASSUME HostInv, NEW c \in Coroutines, Busy(c), Holds(Top(c)), Pops(c),
           UNCHANGED <<conn, suburl, manager>>
    PROVE  LocalInv'
  <1>1. StackInv /\ LocalInv
    BY DEF HostInv
  <1>2. /\ \A d \in Coroutines \ {c} : stack'[d] = stack[d]
        /\ Len(stack[c]) \in Nat \ {0}
        /\ Len(stack'[c]) = Len(stack[c]) - 1
        /\ \A i \in 1 .. Len(stack[c]) - 1 : stack'[c][i] = stack[c][i]
    BY <1>1, StackPopped
  <1>3. ASSUME NEW d \in Coroutines, NEW i \in 1 .. Len(stack'[d]), NEW h, h = stack'[d][i]
        PROVE  Local(d, h)'
    <2>1. i \in 1 .. Len(stack[d]) /\ h = stack[d][i] /\ (d # c \/ i # Len(stack[c]))
      <3>1. CASE d = c
        <4>1. PICK n \in Nat \ {0} : n = Len(stack[c])
          BY <1>2
        <4>2. i \in 1 .. n - 1 /\ i \in 1 .. n /\ i # n
          BY <1>2, <1>3, <3>1, <4>1
        <4>. QED
          BY <1>2, <1>3, <3>1, <4>1, <4>2
      <3>. QED
        BY <1>2, <1>3, <3>1
    <2>2. ~Holds(h) /\ h.cmd \notin {"Login", "Logout"}
      BY <2>1, LockAlone
    <2>3. Local(d, h)
      BY <1>1, <2>1 DEF LocalInv
    <2>. QED
      BY <2>2, <2>3, LocalWithoutToken
  <1>. QED
    BY <1>3 DEF LocalInv, Local, Gone, Subscriber

\* Who releases the lock was the only one to hold it.
LEMMA ReleaseStep ==
    ASSUME HostInv, NEW c \in Coroutines, c = turn, NEW kind \in Kinds, NEW id \in {0} \cup Ids,
           Returns(c, kind, id), Holds(Top(c)), Release,
           UNCHANGED <<sendq, sessions, subs, manager, conn, suburl, astray, crossed>>,
           Rest', SessionInv'
    PROVE  HostInv'
  <1>1. Busy(c) /\ StackInv /\ LocalInv /\ Pops(c) /\ subs \subseteq Ids /\ Local(c, Top(c))
    BY TopLocal DEF HostInv, RetInv, Returns, Rest
  <1>2. Top(c).fn \in {"login", "logout"} /\ Top(c).cmd = "none" /\ ~HoldsBelow(c)
    BY <1>1, UnderLock DEF Holds, Inside, Local
  <1>3. LocalInv'
    BY <1>1, ReleaseLocal
  <1>4. /\ \A d \in Coroutines \ {c} : stack'[d] = stack[d]
        /\ Len(stack[c]) = 1 => ~Busy(c)'
        /\ Len(stack[c]) # 1 => Top(c)' = Under(c) /\ Under(c).fn # "post"
        /\ Queueing(c)' <=> QueuesBelow(c)
        /\ Holding(c)' <=> HoldsBelow(c)
    BY <1>1, PopEffect
  <1>5. /\ \A d \in Coroutines \ {c} :
              /\ Busy(d)' <=> Busy(d)
              /\ Posts(d)' <=> Posts(d)
              /\ Queueing(d)' <=> Queueing(d)
              /\ Holding(d)' <=> Holding(d)
        /\ \A d \in Coroutines, s \in Ids : Answered(d, s) => Answered(d, s)'
    BY <1>2, <1>4, Others, Elsewhere
  <1>6. RetInv'
    <2>1. PICK g : g = Top(c)
      OBVIOUS
    <2>2. \A r : Result(g.fn, g.cmd, r)'
      BY <1>2, <2>1 DEF Result, Commands
    <2>. QED
      BY <1>1, <2>1, <2>2, ReturnRet
  <1>7. LockInv'
    <2>1. /\ loginq \in Seq(Coroutines) /\ IsInjective(loginq)
          /\ \A d \in Coroutines : d \in Range(loginq) <=> Queueing(d)
          /\ \A d \in Coroutines : Holding(d) => Head(loginq) = d
          /\ sendq \in Seq(Coroutines) /\ IsInjective(sendq)
          /\ \A d \in Coroutines : d \in Range(sendq) <=> Posts(d)
      BY DEF HostInv, LockInv
    <2>2. Holding(c) /\ Queueing(c)
      BY <1>1, TopEffect DEF Queues
    <2>3. Head(loginq) = c /\ loginq # <<>>
      <3>1. c \in Range(loginq) /\ Head(loginq) = c
        BY <2>1, <2>2
      <3>. QED
        BY <3>1 DEF Range
    <2>4. /\ loginq' \in Seq(Coroutines) /\ IsInjective(loginq')
          /\ Range(loginq') = Range(loginq) \ {c}
      BY <2>1, <2>3, QueueTail DEF Release
    <2>5. ~Queueing(c)' /\ ~Holding(c)'
      BY <1>1, <1>2, <1>4, UnderLock
    <2>6. \A d \in Coroutines : Holding(d)' => Head(loginq') = d
      BY <2>1, <2>3, <2>5, <1>5
    <2>7. \A d \in Coroutines : d \in Range(loginq') <=> Queueing(d)'
      BY <2>1, <2>4, <2>5, <1>5
    <2>8. \A d \in Coroutines : d \in Range(sendq') <=> Posts(d)'
      BY <2>1, <1>2, <1>4, <1>5 DEF Posts
    <2>. QED
      BY <2>1, <2>4, <2>6, <2>7, <2>8 DEF LockInv
  <1>8. SubInv'
    <2>1. ~AwaitsSub(Top(c))
      BY <1>2 DEF AwaitsSub, Calls, Events
    <2>2. ASSUME NEW s \in subs, Coming(s) PROVE Coming(s)'
      BY <1>1, <1>5, <2>1, <2>2 DEF Coming, frame
    <2>. QED
      BY <2>2 DEF SubInv, HostInv
  <1>9. ConnInv'
    BY <1>1, <1>5 DEF ConnInv, HostInv
  <1>. QED
    BY <1>2, <1>3, <1>6, <1>7, <1>8, <1>9, PopCore

\* Who asks for the lock has it, or waits behind the one that has.
LEMMA AcquireStep ==
    ASSUME HostInv, NEW c \in Coroutines, c = turn, Top(c).fn \in {"login", "logout"},
           Top(c).at = "start", Acquire,
           UNCHANGED <<sendq, token, sessions, subs, manager, conn, suburl, astray, crossed>>, Rest'
    PROVE  HostInv'
  <1>1. Busy(c) /\ StackInv /\ LocalInv /\ frame = Top(c) /\ Local(c, Top(c)) /\ IsFrame(Top(c))
    BY Running
  <1>2. PICK f :
          /\ Replaces(c, f) /\ IsFrame(f)
          /\ f.fn = Top(c).fn /\ f.cmd = Top(c).cmd /\ f.id = Top(c).id
          /\ \/ f.at = "locked" /\ loginq = <<>> /\ turn' = c
             \/ f.at = "waits" /\ loginq # <<>> /\ turn' = Nobody
          /\ ret' = NoResult
    <2>1. CASE loginq = <<>>
      <3>1. PICK f : f = [Top(c) EXCEPT !.at = "locked"]
        OBVIOUS
      <3>2. IsFrame(f) /\ f.fn = Top(c).fn /\ f.cmd = Top(c).cmd /\ f.id = Top(c).id /\ f.at = "locked"
        BY <1>1, <3>1 DEF IsFrame
      <3>3. Replaces(c, f) /\ turn' = c /\ ret' = NoResult
        BY <1>1, <2>1, <3>1 DEF Acquire, Goto, Replaces
      <3>. QED
        BY <2>1, <3>2, <3>3
    <2>2. CASE loginq # <<>>
      <3>1. PICK f : f = [Top(c) EXCEPT !.at = "waits"]
        OBVIOUS
      <3>2. IsFrame(f) /\ f.fn = Top(c).fn /\ f.cmd = Top(c).cmd /\ f.id = Top(c).id /\ f.at = "waits"
        BY <1>1, <3>1 DEF IsFrame
      <3>3. Replaces(c, f) /\ turn' = Nobody /\ ret' = NoResult
        BY <1>1, <2>2, <3>1 DEF Acquire, Waits, Replaces
      <3>. QED
        BY <2>2, <3>2, <3>3
    <2>. QED
      BY <2>1, <2>2
  <1>3. ~Inside(Top(c)) /\ ~Queues(Top(c)) /\ ~Holds(Top(c)) /\ Queues(f)
        /\ (Holds(f) <=> f.at = "locked")
    BY <1>2 DEF Inside, Queues, Holds
  <1>4. Fits(c, f) /\ Local(c, f)'
    BY <1>1, <1>2, <1>3 DEF Fits, Local
  <1>5. StackInv' /\ LocalInv'
    <2>1. Benign
      BY DEF Benign
    <2>. QED
      BY <1>1, <1>2, <1>4, <2>1, ReplaceShape, ReplaceLocal
  <1>6. /\ \A d \in Coroutines \ {c} : stack'[d] = stack[d]
        /\ Busy(c)' /\ Top(c)' = f
        /\ Queueing(c)' <=> QueuesBelow(c) \/ Queues(f)
        /\ Holding(c)' <=> HoldsBelow(c) \/ Holds(f)
        /\ \A s : Drops(c, s)' <=> DropsBelow(c, s) \/ Dropping(f, s)
    BY <1>1, <1>2, ReplaceEffect
  <1>7. /\ \A d \in Coroutines \ {c} :
              /\ Busy(d)' <=> Busy(d)
              /\ Top(d)' = Top(d)
              /\ Posts(d)' <=> Posts(d)
              /\ Queueing(d)' <=> Queueing(d)
              /\ Holding(d)' <=> Holding(d)
              /\ \A s : Drops(d, s)' <=> Drops(d, s)
              /\ \A s : Answered(d, s)' <=> Answered(d, s)
    BY <1>6, Others
  <1>8. Handled(c)
    BY <1>1 DEF Handled, AwaitsLogin, AwaitsSub, Calls, Events
  <1>9. RetInv'
    <2>1. CASE turn' = c
      <3>1. frame' = f /\ f.at = "locked"
        BY <1>2, <1>6, <2>1 DEF frame, Top, Nobody, Coroutines
      <3>2. \A fn, cmd : ~Calls(f, fn, cmd)
        BY <1>2, <3>1 DEF Calls
      <3>. QED
        BY <1>2, <1>6, <2>1, <3>1, <3>2 DEF RetInv, NoResult, Kinds
    <2>2. CASE turn' = Nobody
      BY <1>2, <2>2 DEF RetInv, NoResult, Kinds, Nobody, Coroutines
    <2>. QED
      BY <1>2, <2>1, <2>2
  <1>10. LockInv'
    <2>1. /\ loginq \in Seq(Coroutines) /\ IsInjective(loginq)
          /\ \A d \in Coroutines : d \in Range(loginq) <=> Queueing(d)
          /\ \A d \in Coroutines : Holding(d) => Head(loginq) = d
          /\ sendq \in Seq(Coroutines) /\ IsInjective(sendq)
          /\ \A d \in Coroutines : d \in Range(sendq) <=> Posts(d)
      BY DEF HostInv, LockInv
    <2>2. ~QueuesBelow(c) /\ ~HoldsBelow(c) /\ ~Queueing(c)
      BY <1>1, <1>3, UnderLock, TopEffect
    <2>3. /\ loginq' \in Seq(Coroutines) /\ IsInjective(loginq')
          /\ Range(loginq') = Range(loginq) \cup {c}
          /\ Head(loginq') = IF loginq = <<>> THEN c ELSE Head(loginq)
      BY <2>1, <2>2, QueueAppend DEF Acquire
    <2>4. \A d \in Coroutines : d \in Range(loginq') <=> Queueing(d)'
      BY <2>1, <2>3, <1>3, <1>6, <1>7
    <2>5. \A d \in Coroutines \ {c} : Holding(d)' => Head(loginq') = d
      <3>1. ASSUME NEW d \in Coroutines \ {c}, Holding(d) PROVE Head(loginq') = d
        <4>1. Queueing(d)
          BY <3>1 DEF Holding, Queueing, Queues
        <4>2. loginq # <<>>
          BY <2>1, <4>1 DEF Range
        <4>. QED
          BY <2>1, <2>3, <3>1, <4>2
      <3>. QED
        BY <3>1, <1>7
    <2>6. Holding(c)' => Head(loginq') = c
      BY <1>2, <1>3, <1>6, <2>2, <2>3
    <2>7. \A d \in Coroutines : d \in Range(sendq') <=> Posts(d)'
      BY <2>1, <1>1, <1>2, <1>6, <1>7 DEF Posts
    <2>. QED
      BY <2>1, <2>3, <2>4, <2>5, <2>6, <2>7 DEF LockInv
  <1>11. SessionInv'
    <2>1. ASSUME NEW s \in sessions, Arrived(s) PROVE FALSE
      BY <1>8, <2>1 DEF Arrived, Handled, Results, frame
    <2>. QED
      BY <2>1 DEF SessionInv, HostInv
  <1>12. SubInv'
    <2>1. ASSUME NEW s, NEW d \in Coroutines, Answered(d, s)
          PROVE  Answered(d, s)'
      BY <1>1, <1>7, <2>1 DEF Answered
    <2>2. ASSUME NEW s, Coming(s) PROVE Coming(s)'
      BY <1>8, <2>1, <2>2 DEF Coming, Handled, frame
    <2>. QED
      BY <2>2 DEF SubInv, HostInv
  <1>13. UnsubInv'
    <2>1. ASSUME NEW d \in Coroutines, d # c, Pending(d)
          PROVE  Pending(d)'
      BY <1>7, <2>1 DEF Pending
    <2>2. ASSUME NEW s, DropsBelow(c, s) PROVE FALSE
      BY <1>1, <2>2, UnderUnsubscribe
    <2>4. \A s : ~Dropping(f, s)
      BY <1>2 DEF Dropping
    <2>. QED
      BY <1>6, <1>7, <2>1, <2>2, <2>4 DEF UnsubInv, HostInv
  <1>14. ConnInv'
    BY <1>1, <1>7 DEF ConnInv, HostInv
  <1>. QED
    BY <1>5, <1>9, <1>10, <1>11, <1>12, <1>13, <1>14 DEF HostInv

\* The lock comes to the next.
LEMMA LocksStep ==
    ASSUME HostInv, NEW c \in Coroutines, Locks(c)
    PROVE  HostInv'
  <1>1. /\ turn = Nobody /\ loginq # <<>> /\ Head(loginq) = c /\ Top(c).at = "waits"
        /\ stack' = [stack EXCEPT ![c] = Append(Front(@), [Last(@) EXCEPT !.at = "locked"])]
        /\ turn' = c
        /\ UNCHANGED <<ret, sendq, loginq, cut, token, lease, manager, term, suburl, sessions, subs,
                       conn, astray, crossed>>
    BY DEF Locks, OnlyLogin, aio, session, events, camera
  <1>2. /\ loginq \in Seq(Coroutines) /\ IsInjective(loginq)
        /\ \A d \in Coroutines : d \in Range(loginq) <=> Queueing(d)
        /\ \A d \in Coroutines : Holding(d) => Head(loginq) = d
        /\ sendq \in Seq(Coroutines) /\ IsInjective(sendq)
        /\ \A d \in Coroutines : d \in Range(sendq) <=> Posts(d)
    BY DEF HostInv, LockInv
  <1>3. Queueing(c)
    <2>1. c \in Range(loginq)
      BY <1>1, <1>2, QueueTail
    <2>. QED
      BY <1>2, <2>1
  <1>4. Busy(c) /\ StackInv /\ LocalInv
    <2>1. StackInv /\ LocalInv
      BY DEF HostInv
    <2>2. Len(<<>>) = 0
      OBVIOUS
    <2>3. stack[c] # <<>>
      BY <1>3, <2>2 DEF Queueing
    <2>. QED
      BY <2>1, <2>3 DEF Busy
  <1>5. IsFrame(Top(c)) /\ Local(c, Top(c)) /\ Top(c).fn \in {"login", "logout"}
    BY <1>1, <1>4, TopIs, TopLocal DEF Local
  <1>6. PICK f : f = [Top(c) EXCEPT !.at = "locked"]
    OBVIOUS
  <1>7. /\ IsFrame(f) /\ f.fn = Top(c).fn /\ f.cmd = Top(c).cmd /\ f.id = Top(c).id
        /\ f.at = "locked"
    BY <1>5, <1>6 DEF IsFrame
  <1>8. Replaces(c, f)
    BY <1>1, <1>6 DEF Replaces, Top
  <1>9. Fits(c, f) /\ Local(c, f)'
    BY <1>1, <1>5, <1>7 DEF Fits, Local, Inside
  <1>10. StackInv' /\ LocalInv'
    <2>1. Benign
      BY <1>1 DEF Benign
    <2>. QED
      BY <1>4, <1>8, <1>9, <2>1, ReplaceShape, ReplaceLocal
  <1>11. /\ \A d \in Coroutines \ {c} : stack'[d] = stack[d]
         /\ Busy(c)' /\ Top(c)' = f
         /\ Queueing(c)'
         /\ \A s : Drops(c, s)' <=> DropsBelow(c, s)
    BY <1>4, <1>5, <1>7, <1>8, ReplaceEffect DEF Queues, Holds, Dropping
  <1>12. \A d \in Coroutines \ {c} :
              /\ Busy(d)' <=> Busy(d)
              /\ Top(d)' = Top(d)
              /\ Posts(d)' <=> Posts(d)
              /\ Queueing(d)' <=> Queueing(d)
              /\ Holding(d)' <=> Holding(d)
              /\ \A s : Drops(d, s)' <=> Drops(d, s)
              /\ \A s : Answered(d, s)' <=> Answered(d, s)
    BY <1>11, Others
  <1>13. RetInv'
    <2>1. frame' = f
      BY <1>1, <1>11 DEF frame, Top
    <2>2. \A fn, cmd : ~Calls(f, fn, cmd)
      BY <1>5, <1>7 DEF Calls, Events
    <2>. QED
      BY <1>1, <1>11, <2>1, <2>2 DEF RetInv, HostInv
  <1>14. LockInv'
    <2>1. \A d \in Coroutines : Queueing(d)' <=> Queueing(d)
      BY <1>3, <1>11, <1>12
    <2>2. \A d \in Coroutines : Holding(d)' => Head(loginq') = d
      BY <1>1, <1>2, <1>12
    <2>3. \A d \in Coroutines : Posts(d)' <=> Posts(d)
      BY <1>5, <1>7, <1>11, <1>12 DEF Posts
    <2>. QED
      BY <1>1, <1>2, <2>1, <2>2, <2>3 DEF LockInv
  <1>15. SessionInv'
    BY <1>1 DEF SessionInv, HostInv, Arrived, Nobody, Coroutines
  <1>16. SubInv'
    <2>1. ASSUME NEW s, NEW d \in Coroutines, Answered(d, s)
          PROVE  Answered(d, s)'
      BY <1>5, <1>12, <2>1 DEF Answered
    <2>2. ASSUME NEW s, Coming(s) PROVE Coming(s)'
      BY <1>1, <2>1, <2>2 DEF Coming, Nobody, Coroutines
    <2>. QED
      BY <1>1, <2>2 DEF SubInv, HostInv
  <1>17. UnsubInv'
    <2>1. ASSUME NEW d \in Coroutines, d # c, Pending(d)
          PROVE  Pending(d)'
      BY <1>1, <1>12, <2>1 DEF Pending, Nobody, Coroutines
    <2>2. ASSUME NEW s, DropsBelow(c, s) PROVE FALSE
      BY <1>4, <1>5, <2>2, UnderUnsubscribe
    <2>. QED
      BY <1>1, <1>11, <1>12, <2>1, <2>2 DEF UnsubInv, HostInv
  <1>18. ConnInv'
    BY <1>1, <1>4, <1>12 DEF ConnInv, HostInv
  <1>19. Rest'
    BY <1>1 DEF Rest, HostInv
  <1>. QED
    BY <1>10, <1>13, <1>14, <1>15, <1>16, <1>17, <1>18, <1>19 DEF HostInv

LEMMA LoginStartStep ==
    ASSUME HostInv, LoginStart
    PROVE  HostInv'
  <1>1. PICK c \in Coroutines : c = turn
    BY DEF LoginStart, At
  <1>2. Top(c).fn = "login" /\ Top(c).at = "start"
    BY <1>1, Running DEF LoginStart, At
  <1>3. UNCHANGED <<sendq, cut, token, lease, manager, term, suburl, sessions, subs, conn, astray,
                    crossed>>
    BY DEF LoginStart, OnlyLogin, session, aio, events, camera
  <1>4. Rest'
    BY <1>3 DEF HostInv, Rest
  <1>5. CASE ~port
    <2>1. Call("https", Frame("login")) /\ loginq' = loginq
      BY <1>5 DEF LoginStart
    <2>2. Still
      BY <1>3, <1>4, <2>1 DEF Still
    <2>. QED
      BY <1>1, <1>2, <2>1, <2>2, LoginTries
  <1>6. CASE port
    <2>1. Acquire
      BY <1>6 DEF LoginStart
    <2>. QED
      BY <1>1, <1>2, <1>3, <1>4, <2>1, AcquireStep
  <1>. QED
    BY <1>5, <1>6

LEMMA LogoutStartStep ==
    ASSUME HostInv, LogoutStart
    PROVE  HostInv'
  <1>1. PICK c \in Coroutines : c = turn
    BY DEF LogoutStart, At
  <1>2. Top(c).fn = "logout" /\ Top(c).at = "start" /\ Acquire
    BY <1>1, Running DEF LogoutStart, At
  <1>3. UNCHANGED <<sendq, cut, token, lease, manager, term, suburl, sessions, subs, conn, astray,
                    crossed>>
    BY DEF LogoutStart, OnlyLogout, session, aio, events, camera
  <1>4. Rest'
    BY <1>3 DEF HostInv, Rest
  <1>. QED
    BY <1>1, <1>2, <1>3, <1>4, AcquireStep

LEMMA LoginTriesPortsStep ==
    ASSUME HostInv, LoginTriesPorts
    PROVE  HostInv'
  <1>1. PICK c \in Coroutines : c = turn
    BY DEF LoginTriesPorts, Back, At
  <1>2. Top(c).fn = "login" /\ Top(c).at = "https" /\ Still
    BY <1>1, Running, OnlyLoginStill DEF LoginTriesPorts, Back, At
  <1>3. CASE ret.kind = "error"
    BY <1>1, <1>2, <1>3, LoginTries DEF LoginTriesPorts
  <1>4. CASE ret.kind # "error"
    BY <1>1, <1>2, <1>4, LoginPasses DEF LoginTriesPorts
  <1>. QED
    BY <1>3, <1>4

LEMMA LoginTriedStep ==
    ASSUME HostInv, LoginTried
    PROVE  HostInv'
  <1>1. PICK c \in Coroutines : c = turn
    BY DEF LoginTried, Back, At
  <1>2. Top(c).fn = "login" /\ Top(c).at = "http" /\ Still /\ PassOn
    BY <1>1, Running, OnlyLoginStill DEF LoginTried, Back, At
  <1>. QED
    BY <1>1, <1>2, LoginPasses

\* A return that leaves the session alone: whoever holds the lock awaits no id.
LEMMA ReleaseStays ==
    ASSUME HostInv, NEW c \in Coroutines, c = turn, NEW kind \in Kinds, NEW id \in {0} \cup Ids,
           Return(kind, id), Holds(Top(c)), Top(c).at = "in" => ret.kind # "ok", Release,
           UNCHANGED <<sendq, cut, token, lease, manager, term, suburl, sessions, subs, conn, astray,
                       crossed>>
    PROVE  HostInv'
  <1>1. Returns(c, kind, id)
    BY DEF Return, Leave, Returns, Pops
  <1>2. Rest'
    BY DEF HostInv, Rest
  <1>3. frame = Top(c)
    BY Running
  <1>4. SessionInv'
    <2>1. ASSUME NEW s \in sessions, Arrived(s) PROVE FALSE
      BY <1>3, <2>1 DEF Arrived, AwaitsLogin, Calls, Holds
    <2>. QED
      BY <2>1 DEF SessionInv, HostInv
  <1>. QED
    BY <1>1, <1>2, <1>4, ReleaseStep

LEMMA LoginLockedStep ==
    ASSUME HostInv, LoginLocked
    PROVE  HostInv'
  <1>1. PICK c \in Coroutines : c = turn
    BY DEF LoginLocked, At
  <1>2. Top(c).fn = "login" /\ Top(c).at = "locked" /\ Holds(Top(c))
    BY <1>1, Running DEF LoginLocked, At, Holds
  <1>3. CASE LoggedIn
    <2>1. Return("ok", 0) /\ Release
      BY <1>3 DEF LoginLocked
    <2>2. UNCHANGED <<sendq, cut, token, lease, manager, term, suburl, sessions, subs, conn, astray,
                      crossed>>
      BY DEF LoginLocked, OnlyLogin, session, aio, events, camera
    <2>. QED
      BY <1>1, <1>2, <2>1, <2>2, Some, ReleaseStays
  <1>4. CASE ~LoggedIn
    <2>1. Still
      BY <1>4, OnlyLoginStill DEF LoginLocked
    <2>2. CASE token # 0
      <3>1. Call("out", Send("Logout", Retries))
        BY <1>4, <2>2 DEF LoginLocked
      <3>. QED
        BY <1>1, <1>2, <2>1, <3>1, LockSends
    <2>3. CASE token = 0
      <3>1. Call("in", Send("Login", Retries))
        BY <1>4, <2>3 DEF LoginLocked
      <3>. QED
        BY <1>1, <1>2, <2>1, <2>3, <3>1, LockSends
    <2>. QED
      BY <2>2, <2>3
  <1>. QED
    BY <1>3, <1>4

LEMMA LogoutLockedStep ==
    ASSUME HostInv, LogoutLocked
    PROVE  HostInv'
  <1>1. PICK c \in Coroutines : c = turn
    BY DEF LogoutLocked, At
  <1>2. Top(c).fn = "logout" /\ Top(c).at = "locked"
    BY <1>1, Running DEF LogoutLocked, At
  <1>3. Still
    BY DEF LogoutLocked, OnlyLogout, HostInv, Still, Rest, aio, session, events, camera
  <1>. QED
    BY <1>1, <1>2, <1>3, LockSends DEF LogoutLocked

LEMMA LoginLoggedInStep ==
    ASSUME HostInv, LoginLoggedIn
    PROVE  HostInv'
  <1>1. PICK c \in Coroutines : c = turn
    BY DEF LoginLoggedIn, Back, At
  <1>2. /\ Top(c).fn = "login" /\ Top(c).at = "in" /\ Holds(Top(c)) /\ Release
        /\ ret.kind \in Kinds /\ ret.id \in {0} \cup Ids /\ frame = Top(c) /\ Local(c, Top(c))
    BY <1>1, Running DEF LoginLoggedIn, Back, At, Holds
  <1>3. UNCHANGED <<sendq, cut, manager, term, suburl, sessions, subs, conn, astray, crossed>>
    BY DEF LoginLoggedIn, OnlyLogin, aio, events, camera
  <1>4. token = 0
    BY <1>2 DEF Local
  <1>5. CASE ret.kind = "ok"
    <2>1. token' = ret.id /\ lease' = "fresh" /\ Return("ok", 0)
      BY <1>5 DEF LoginLoggedIn
    <2>2. ret.id \in Ids
      <3>1. Calls(Top(c), "send", "Login")
        BY <1>2 DEF Calls
      <3>2. Result("send", "Login", ret)
        BY <1>1, <3>1, Running
      <3>. QED
        BY <1>5, <3>2 DEF Result
    <2>3. ret.id # 0
      BY <2>2, HostAssumption DEF Ids
    <2>4. Rest'
      BY <1>3, <2>1, <2>2, <2>3 DEF HostInv, Rest
    <2>5. SessionInv'
      <3>1. ASSUME NEW s \in sessions PROVE s # 0
        BY HostAssumption DEF HostInv, Rest, Ids
      <3>2. ASSUME NEW s \in sessions, Arrived(s) PROVE s = token'
        BY <2>1, <3>2 DEF Arrived
      <3>. QED
        BY <1>3, <1>4, <3>1, <3>2 DEF SessionInv, HostInv
    <2>6. Returns(c, "ok", 0)
      BY <1>1, <2>1 DEF Return, Leave, Returns, Pops
    <2>. QED
      BY <1>1, <1>2, <1>3, <2>4, <2>5, <2>6, Some, ReleaseStep
  <1>6. CASE ret.kind = "none"
    <2>1. token' = 0 /\ lease' = "none" /\ Return("error", 0)
      BY <1>6 DEF LoginLoggedIn, ClearToken
    <2>2. UNCHANGED <<token, lease>>
      BY <1>4, <2>1 DEF HostInv, Rest
    <2>. QED
      BY <1>1, <1>2, <1>3, <1>6, <2>1, <2>2, Some, ReleaseStays
  <1>7. CASE ret.kind \notin {"ok", "none"}
    <2>1. PICK kind : kind = IF ret.kind = "api" THEN "error" ELSE ret.kind
      OBVIOUS
    <2>2. Return(kind, 0) /\ UNCHANGED session
      BY <1>7, <2>1 DEF LoginLoggedIn
    <2>3. kind \in Kinds
      BY <1>2, <2>1, Some
    <2>4. UNCHANGED <<token, lease>>
      BY <2>2 DEF session
    <2>. QED
      BY <1>1, <1>2, <1>3, <1>7, <2>2, <2>3, <2>4, ReleaseStays
  <1>. QED
    BY <1>5, <1>6, <1>7

LEMMA LogoutDoneStep ==
    ASSUME HostInv, LogoutDone
    PROVE  HostInv'
  <1>1. PICK c \in Coroutines : c = turn
    BY DEF LogoutDone, Back, At
  <1>2. /\ Top(c).fn = "logout" /\ Holds(Top(c)) /\ Release
        /\ ret.kind \in Kinds /\ ret.id \in {0} \cup Ids /\ frame = Top(c)
        /\ Top(c).at = "out" \/ (Top(c).at = "locked" /\ token = 0)
    BY <1>1, Running DEF LogoutDone, Back, At, Holds
  <1>3. UNCHANGED <<sendq, manager, term, suburl, sessions, subs, conn, astray, crossed>>
    BY DEF LogoutDone, OnlyLogout, events, camera
  <1>4. CASE frame.at = "out" /\ ret.kind \in Broken
    <2>1. PassOn /\ UNCHANGED <<aio, session>>
      BY <1>4 DEF LogoutDone
    <2>2. UNCHANGED <<cut, token, lease>>
      BY <2>1 DEF aio, session
    <2>. QED
      BY <1>1, <1>2, <1>3, <1>4, <2>1, <2>2, ReleaseStays DEF PassOn
  <1>5. CASE ~(frame.at = "out" /\ ret.kind \in Broken)
    <2>1. Return("ok", 0) /\ token' = 0 /\ lease' = "none" /\ cut' \subseteq Coroutines
      BY <1>5 DEF LogoutDone, ClearToken, Close, HostInv, Rest
    <2>2. Rest'
      BY <1>3, <2>1 DEF HostInv, Rest
    <2>3. astray \/ token \notin sessions
      <3>1. CASE Top(c).at = "out"
        <4>1. Calls(Top(c), "send", "Logout")
          BY <1>2, <3>1 DEF Calls
        <4>2. Result("send", "Logout", ret)
          BY <1>1, <4>1, Running
        <4>. QED
          BY <1>2, <1>5, <3>1, <4>2 DEF Result, Gone
      <3>2. CASE token = 0
        BY <3>2, HostAssumption DEF HostInv, Rest, Ids
      <3>. QED
        BY <1>2, <3>1, <3>2
    <2>4. SessionInv'
      <3>1. ASSUME NEW s \in sessions, Arrived(s) PROVE FALSE
        BY <1>2, <3>1 DEF Arrived, AwaitsLogin, Calls
      <3>. QED
        BY <1>3, <2>3, <3>1 DEF SessionInv, HostInv
    <2>5. Returns(c, "ok", 0)
      BY <1>1, <2>1 DEF Return, Leave, Returns, Pops
    <2>. QED
      BY <1>1, <1>2, <1>3, <2>2, <2>4, <2>5, Some, ReleaseStep
  <1>. QED
    BY <1>4, <1>5

\* The session is over, or was never there; with the lock still held a new one is
\* asked for.
LEMMA LogsInAnew ==
    ASSUME HostInv, NEW c \in Coroutines, c = turn, Top(c).fn = "login", Top(c).at = "out",
           Call("in", Send("Login", Retries)), ClearToken, ret.kind \notin Broken,
           UNCHANGED <<sendq, loginq, cut, manager, term, suburl, sessions, subs, conn, astray,
                       crossed>>
    PROVE  HostInv'
  <1>1. /\ frame = Top(c) /\ Local(c, Top(c)) /\ IsFrame(Top(c)) /\ Busy(c)
        /\ StackInv /\ LocalInv
    BY Running
  <1>2. PICK g : g = Send("Login", Retries)
    OBVIOUS
  <1>3. Retries \in 0 .. Retries /\ "Login" \in Commands
    BY HostAssumption DEF Commands
  <1>4. g.fn = "send" /\ g.at = "start" /\ g.cmd = "Login" /\ IsFrame(g)
    BY <1>2, <1>3, SendIs
  <1>5. PICK f : f = [Top(c) EXCEPT !.at = "in", !.then = Top(c).then]
    OBVIOUS
  <1>6. /\ IsFrame(f) /\ f.fn = Top(c).fn /\ f.cmd = Top(c).cmd /\ f.id = Top(c).id
        /\ f.at = "in"
    BY <1>1, <1>5 DEF IsFrame
  <1>7. Pushes(c, f, g) /\ turn' = c /\ ret' = NoResult
    BY <1>1, <1>2, <1>5 DEF Call, CallThen, Pushes
  <1>8. FitsOn(c, f, g) /\ Holds(f) /\ Holds(Top(c))
    BY <1>4, <1>6 DEF FitsOn, Fits, Calls, Inside, Holds
  <1>9. token' = 0 /\ lease' = "none"
    BY DEF ClearToken
  <1>10. Rest'
    BY <1>9 DEF HostInv, Rest
  <1>11. LocalInv'
    <2>1. /\ \A d \in Coroutines \ {c} : stack'[d] = stack[d]
          /\ Len(stack[c]) \in Nat \ {0}
          /\ Len(stack'[c]) = Len(stack[c]) + 1
          /\ stack'[c][Len(stack[c])] = f
          /\ stack'[c][Len(stack[c]) + 1] = g
          /\ \A i \in 1 .. Len(stack[c]) - 1 : stack'[c][i] = stack[c][i]
      BY ONLY c \in Coroutines, <1>1, <1>7, StackPushed
    <2>2. Local(c, f)' /\ Local(c, g)'
      BY <1>1, <1>4, <1>6, <1>9 DEF Local, Commands
    <2>3. ASSUME NEW d \in Coroutines, NEW i \in 1 .. Len(stack[d]),
                 d # c \/ i # Len(stack[c]), NEW h, h = stack[d][i]
          PROVE  Local(d, h)'
      <3>1. ~Holds(h) /\ h.cmd \notin {"Login", "Logout"}
        BY <1>1, <1>8, <2>3, LockAlone
      <3>2. Local(d, h)
        BY <1>1, <2>3 DEF LocalInv
      <3>. QED
        BY <3>1, <3>2, LocalWithoutToken
    <2>4. ASSUME NEW d \in Coroutines, NEW i \in 1 .. Len(stack'[d]), NEW h, h = stack'[d][i]
          PROVE  Local(d, h)'
      <3>1. CASE d # c
        BY <2>1, <2>3, <2>4, <3>1
      <3>2. CASE d = c /\ i \in {Len(stack[c]), Len(stack[c]) + 1}
        BY <2>1, <2>2, <2>4, <3>2
      <3>3. CASE d = c /\ i \notin {Len(stack[c]), Len(stack[c]) + 1}
        <4>1. PICK n \in Nat \ {0} : n = Len(stack[c])
          BY <2>1
        <4>2. i \in 1 .. n - 1 /\ i \in 1 .. n /\ i # n
          BY <2>1, <2>4, <3>3, <4>1
        <4>. QED
          BY <2>1, <2>3, <2>4, <3>3, <4>1, <4>2
      <3>. QED
        BY <3>1, <3>2, <3>3
    <2>. QED
      BY <2>4 DEF LocalInv, Local, Gone, Subscriber
  <1>12. SessionInv'
    <2>1. Calls(Top(c), "send", "Logout")
      BY DEF Calls
    <2>2. Result("send", "Logout", ret)
      BY <2>1, Running
    <2>3. astray \/ token \notin sessions
      BY <2>2 DEF Result, Gone
    <2>4. ASSUME NEW s \in sessions, Arrived(s) PROVE FALSE
      BY <1>1, <2>4 DEF Arrived, AwaitsLogin, Calls
    <2>. QED
      BY <2>3, <2>4 DEF SessionInv, HostInv
  <1>13. /\ \A d \in Coroutines \ {c} : Busy(d)' <=> Busy(d)
         /\ \A d \in Coroutines, s \in Ids : Answered(d, s) => Answered(d, s)'
    BY <1>1, <1>7, PushEffect, Elsewhere
  <1>14. SubInv'
    <2>1. ~AwaitsSub(Top(c))
      BY DEF AwaitsSub, Calls, Events
    <2>2. ASSUME NEW s \in subs, Coming(s) PROVE Coming(s)'
      BY <1>1, <1>13, <2>1, <2>2 DEF Coming, HostInv, Rest
    <2>. QED
      BY <2>2 DEF SubInv, HostInv
  <1>15. ConnInv'
    BY <1>1, <1>13 DEF ConnInv, HostInv
  <1>. QED
    BY <1>4, <1>6, <1>7, <1>8, <1>10, <1>11, <1>12, <1>14, <1>15, PushCore

LEMMA LoginLoggedOutStep ==
    ASSUME HostInv, LoginLoggedOut
    PROVE  HostInv'
  <1>1. PICK c \in Coroutines : c = turn
    BY DEF LoginLoggedOut, Back, At
  <1>2. /\ Top(c).fn = "login" /\ Top(c).at = "out" /\ Holds(Top(c))
        /\ ret.kind \in Kinds /\ ret.id \in {0} \cup Ids
    BY <1>1, Running DEF LoginLoggedOut, Back, At, Holds
  <1>3. UNCHANGED <<sendq, cut, manager, term, suburl, sessions, subs, conn, astray, crossed>>
    BY DEF LoginLoggedOut, OnlyLogin, aio, events, camera
  <1>4. CASE ret.kind \in Broken
    <2>1. PassOn /\ Release /\ UNCHANGED session
      BY <1>4 DEF LoginLoggedOut
    <2>2. UNCHANGED <<token, lease>>
      BY <2>1 DEF session
    <2>. QED
      BY <1>1, <1>2, <1>3, <2>1, <2>2, ReleaseStays DEF PassOn
  <1>5. CASE ret.kind \notin Broken
    <2>1. Call("in", Send("Login", Retries)) /\ ClearToken /\ loginq' = loginq
      BY <1>5 DEF LoginLoggedOut
    <2>. QED
      BY <1>1, <1>2, <1>3, <1>5, <2>1, LogsInAnew
  <1>. QED
    BY <1>4, <1>5

-----------------------------------------------------------------------------
(* The steps that change what the service knows of the subscription *)

\* A return that releases no lock leaves both as they are.
LEMMA PopLocks ==
    ASSUME HostInv, NEW c \in Coroutines, Busy(c), Pops(c), Top(c).fn # "post", ~Queues(Top(c)),
           UNCHANGED <<sendq, loginq>>
    PROVE  LockInv'
  <1>1. StackInv
    BY DEF HostInv
  <1>3. /\ \A d \in Coroutines \ {c} : stack'[d] = stack[d]
        /\ Len(stack[c]) = 1 => ~Busy(c)'
        /\ Len(stack[c]) # 1 => Top(c)' = Under(c) /\ Under(c).fn # "post"
        /\ Queueing(c)' <=> QueuesBelow(c)
        /\ Holding(c)' <=> HoldsBelow(c)
    BY <1>1, PopEffect
  <1>4. /\ Queueing(c) <=> QueuesBelow(c) \/ Queues(Top(c))
        /\ Holding(c) <=> HoldsBelow(c) \/ Holds(Top(c))
    BY <1>1, TopEffect
  <1>6. \A d \in Coroutines \ {c} :
           /\ Posts(d)' <=> Posts(d)
           /\ Queueing(d)' <=> Queueing(d)
           /\ Holding(d)' <=> Holding(d)
    BY <1>3, Others
  <1>7. ~Posts(c) /\ ~Posts(c)'
    BY <1>3 DEF Posts
  <1>8. (Queueing(c)' <=> Queueing(c)) /\ (Holding(c)' <=> Holding(c))
    BY <1>3, <1>4 DEF Queues
  <1>. QED
    BY <1>6, <1>7, <1>8 DEF LockInv, HostInv

\* Whoever runs is not another coroutine that begins or ends.
LEMMA PopBusy ==
    ASSUME HostInv, NEW c \in Coroutines, Busy(c), Pops(c), Top(c).fn # "post"
    PROVE  /\ \A d \in Coroutines \ {c} : Busy(d)' <=> Busy(d)
           /\ \A d \in Coroutines, s \in Ids : Answered(d, s) => Answered(d, s)'
  <1>1. StackInv
    BY DEF HostInv
  <1>2. \A d \in Coroutines \ {c} : stack'[d] = stack[d]
    BY <1>1, PopEffect
  <1>. QED
    BY <1>2, Elsewhere

LEMMA UnsubscribeSentStep ==
    ASSUME HostInv, UnsubscribeSent
    PROVE  HostInv'
  <1>1. PICK c \in Coroutines : c = turn
    BY DEF UnsubscribeSent, Back, At
  <1>2. /\ frame = Top(c) /\ Local(c, Top(c)) /\ IsFrame(Top(c)) /\ Busy(c)
        /\ StackInv /\ LocalInv /\ ret.kind \in Kinds
        /\ Top(c).fn = "unsubscribe" /\ Top(c).at = "sent"
    BY <1>1, Running DEF UnsubscribeSent, Back, At
  <1>3. UNCHANGED <<aio, suburl, astray>> /\ OnlyEvents
    BY DEF UnsubscribeSent
  <1>4. /\ ~AwaitsLogin(Top(c)) /\ ~AwaitsSub(Top(c)) /\ ~Queues(Top(c))
    BY <1>2 DEF AwaitsLogin, AwaitsSub, Calls, Events, Queues, Holds
  <1>5. CASE ret.kind \in Broken
    <2>1. PassOn /\ UNCHANGED <<manager, term, crossed>>
      BY <1>5 DEF UnsubscribeSent, events
    <2>2. Still
      <3>1. term' \in {"none", "fresh", "low", "over"}
        BY <2>1 DEF HostInv, Rest
      <3>. QED
        BY <1>3, <2>1, <3>1, OnlyEventsStill
    <2>3. Result(Top(c).fn, Top(c).cmd, ret)
      BY <1>2, <1>5 DEF Result, Local, Broken, Commands
    <2>. QED
      BY <1>1, <1>2, <1>4, <2>1, <2>2, <2>3, Passing DEF Handled
  <1>6. CASE ret.kind \notin Broken
    <2>1. /\ Return("ok", 0) /\ manager' = 0 /\ term' = "none"
          /\ crossed' = (crossed \/ manager \notin {0, frame.id})
      BY <1>6 DEF UnsubscribeSent, Forget
    <2>2. /\ UNCHANGED <<sendq, loginq, cut, token, lease, suburl, sessions, subs, conn, astray>>
      BY <1>3 DEF OnlyEvents, locks, aio, session, camera
    <2>3. Returns(c, "ok", 0) /\ Pops(c)
      BY <1>1, <2>1 DEF Return, Leave, Returns, Pops
    <2>4. Rest'
      BY <2>1, <2>2 DEF HostInv, Rest
    <2>5. LocalInv'
      <3>1. Benign
        BY <2>1, <2>2 DEF Benign
      <3>. QED
        BY <1>2, <2>3, <3>1, PopLocal
    <2>6. RetInv'
      <3>1. PICK g : g = Top(c)
        OBVIOUS
      <3>2. g.fn = "unsubscribe" /\ g.cmd = "none"
        BY <1>2, <3>1 DEF Local
      <3>3. \A r : r = [kind |-> "ok", id |-> 0] => Result(g.fn, g.cmd, r)'
        BY <2>1, <3>2 DEF Result, Commands
      <3>4. "ok" \in Kinds /\ 0 \in {0} \cup Ids
        BY Some
      <3>. QED
        BY <1>2, <2>3, <3>1, <3>3, <3>4, ReturnRet
    <2>7. LockInv'
      BY <1>2, <1>4, <2>2, <2>3, PopLocks
    <2>8. /\ \A d \in Coroutines \ {c} : Busy(d)' <=> Busy(d)
          /\ \A d \in Coroutines, s \in Ids : Answered(d, s) => Answered(d, s)'
      BY <1>2, <2>3, PopBusy
    <2>9. SessionInv'
      BY <1>1, <1>2, <1>4, <2>2 DEF SessionInv, HostInv, Arrived
    <2>10. SubInv'
      <3>1. SUFFICES ASSUME ~astray, ~crossed', NEW s \in subs PROVE Coming(s)'
        BY <2>2 DEF SubInv
      <3>2. ~crossed /\ manager \in {0, Top(c).id}
        BY <1>2, <2>1, <3>1
      <3>3. s \in Ids
        BY DEF HostInv, Rest
      <3>4. s # manager
        <4>1. SUFFICES ASSUME s = manager PROVE FALSE
          OBVIOUS
        <4>2. Top(c).id = s
          BY <3>2, <3>3, <4>1 DEF Ids
        <4>3. Drops(c, s)
          <5>1. Dropping(Top(c), s)
            BY <1>2, <4>2 DEF Dropping
          <5>. QED
            BY <1>2, <5>1, TopEffect
        <4>4. Pending(c)
          BY <3>1, <4>3 DEF HostInv, UnsubInv
        <4>. QED
          BY <1>2, <1>6, <4>4 DEF Pending
      <3>5. Coming(s)
        BY <3>1, <3>2, <3>4 DEF HostInv, SubInv
      <3>6. PICK d \in Coroutines : Answered(d, s)
        BY <1>1, <1>2, <1>4, <3>5 DEF Coming
      <3>. QED
        BY <2>8, <3>3, <3>6 DEF Coming
    <2>11. ConnInv'
      BY <1>2, <2>1, <2>2, <2>8 DEF ConnInv, HostInv
    <2>. QED
      BY <1>1, <1>2, <2>2, <2>3, <2>4, <2>5, <2>6, <2>7, <2>9, <2>10, <2>11, PopCore
  <1>. QED
    BY <1>5, <1>6

\* One that subscribes was called by the outermost function, which waits for it.
LEMMA SubscribeStack ==
    ASSUME HostInv, NEW c \in Coroutines, Busy(c), Top(c).fn = "subscribe"
    PROVE  /\ Subscriber(c)
           /\ \A i \in 1 .. Len(stack[c]) - 1 :
                 stack[c][i].fn \in {"connect", "check"} /\ stack[c][i].at = "subscribed"
  <1>1. StackInv /\ LocalInv
    BY DEF HostInv
  <1>2. PICK n \in Nat \ {0} : n = Len(stack[c]) /\ Top(c) = stack[c][n]
    BY <1>1, TopIs
  <1>3. PICK s : s = stack[c]
    OBVIOUS
  <1>4. /\ s[1].fn \in Root(c)
        /\ \A i \in 1 .. n - 1 : Calls(s[i], s[i+1].fn, s[i+1].cmd)
    BY <1>1, <1>2, <1>3 DEF StackInv, Shape, Nested, Busy
  <1>5. s[n].fn = "subscribe" /\ Subscriber(c)
    BY <1>1, <1>2, <1>3, TopLocal DEF Local
  <1>6. n # 1
    BY <1>4, <1>5 DEF Root, Coroutines
  <1>7. n - 1 \in 1 .. n - 1 /\ (n - 1) + 1 = n
    BY <1>6
  <1>8. s[n-1].fn \in {"connect", "check"} /\ s[n-1].at = "subscribed"
    <2>1. Calls(s[n-1], "subscribe", s[n].cmd)
      BY <1>4, <1>5, <1>7
    <2>. QED
      BY <2>1 DEF Calls, Events
  <1>9. n - 1 = 1
    <2>1. SUFFICES ASSUME n - 1 # 1 PROVE FALSE
      OBVIOUS
    <2>2. n - 2 \in 1 .. n - 1 /\ (n - 2) + 1 = n - 1
      BY <2>1, <1>7
    <2>3. Calls(s[n-2], s[n-1].fn, s[n-1].cmd)
      BY <1>4, <2>2
    <2>. QED
      BY <2>3, <1>8 DEF Calls, Events
  <1>10. \A i \in 1 .. n - 1 : i = n - 1
    BY <1>9
  <1>. QED
    BY <1>2, <1>3, <1>5, <1>8, <1>10

\* Nobody else cares for what the one that subscribes comes to know.
LEMMA ManagerLocal ==
    ASSUME HostInv, NEW c \in Coroutines, Busy(c), Top(c).fn = "subscribe",
           UNCHANGED <<conn, token, suburl, sessions>>, astray => astray',
           \A d \in Coroutines \ {c} : stack'[d] = stack[d],
           NEW n, n = Len(stack[c]) - 1,
           \A i \in 1 .. Len(stack'[c]) : \A h : h = stack'[c][i] =>
              \/ i \in 1 .. n /\ stack[c][i] = h
              \/ Local(c, h)'
    PROVE  LocalInv'
  <1>1. /\ Subscriber(c)
        /\ \A i \in 1 .. n : stack[c][i].fn = "connect" => stack[c][i].at = "subscribed"
        /\ \A i \in 1 .. n : stack[c][i].fn # "subscribe"
    BY SubscribeStack
  <1>2. StackInv /\ LocalInv
    BY DEF HostInv
  <1>3. \A d, h : /\ Local(d, h) /\ h.fn # "subscribe"
                  /\ h.fn = "connect" => h.at \notin {"start", "data"}
                  => Local(d, h)'
    BY DEF Local, Gone, Subscriber
  <1>4. ASSUME NEW d \in Coroutines, NEW i \in 1 .. Len(stack'[d]), NEW h, h = stack'[d][i]
        PROVE  Local(d, h)'
    <2>1. CASE d # c
      <3>1. stack'[d] = stack[d]
        BY <2>1
      <3>2. Local(d, h)
        BY <1>2, <1>4, <3>1 DEF LocalInv
      <3>3. Busy(d)
        <4>1. i \in 1 .. Len(stack[d])
          BY <1>4, <3>1
        <4>2. Len(<<>>) = 0
          OBVIOUS
        <4>. QED
          BY <4>1, <4>2 DEF Busy
      <3>4. ~Subscriber(d) /\ h.fn # "connect"
        BY <1>1, <2>1, <3>2, <3>3 DEF Subscriber, Local, HostInv, ConnInv, Coroutines
      <3>5. h.fn # "subscribe"
        BY <3>2, <3>4 DEF Local
      <3>. QED
        BY <1>3, <3>2, <3>4, <3>5
    <2>2. CASE d = c /\ i \in 1 .. n /\ stack[c][i] = h
      <3>1. i \in 1 .. Len(stack[c])
        <4>1. Len(stack[c]) \in Nat
          BY <1>2, TopIs
        <4>. QED
          BY <2>2, <4>1
      <3>2. Local(c, h)
        BY <1>2, <1>4, <2>2, <3>1 DEF LocalInv
      <3>. QED
        BY <1>1, <1>3, <1>4, <2>2, <3>2
    <2>3. CASE d = c /\ Local(c, h)'
      BY <2>3
    <2>. QED
      BY <1>4, <2>1, <2>2, <2>3
  <1>. QED
    BY <1>4 DEF LocalInv, Local, Gone, Subscriber

\* What the camera has granted to the coroutine that subscribes is known from now on.
LEMMA SubscriptionKnown ==
    ASSUME HostInv, NEW c \in Coroutines, c = turn, Top(c).fn = "subscribe", Top(c).at = "sent",
           ret.kind \in Results, manager' \in {manager, ret.id}, manager' = ret.id \/ astray',
           term' \in {"none", "fresh", "low", "over"},
           UNCHANGED <<cut, token, lease, suburl, sessions, subs, conn, crossed>>,
           astray => astray', \A d \in Coroutines \ {c} : stack'[d] = stack[d]
    PROVE  Rest' /\ SessionInv' /\ SubInv' /\ ConnInv' /\ suburl
  <1>1. /\ Busy(c) /\ frame = Top(c) /\ Local(c, Top(c)) /\ IsFrame(Top(c))
        /\ ret.id \in {0} \cup Ids
    BY Running
  <1>2. ret.id \in Ids /\ suburl
    <2>1. Calls(Top(c), "subsend", "subscribe")
      BY DEF Calls, Events
    <2>. QED
      BY <2>1, Running DEF Result
  <1>3. manager = 0
    BY <1>1 DEF Local
  <1>4. /\ ~AwaitsLogin(Top(c))
    BY DEF AwaitsLogin, Calls, Events
  <1>5. /\ \A d \in Coroutines \ {c} : Busy(d)' <=> Busy(d)
        /\ \A d \in Coroutines, s \in Ids : Answered(d, s) => Answered(d, s)'
    BY Elsewhere
  <1>6. Rest'
    BY <1>1 DEF HostInv, Rest
  <1>7. SessionInv'
    BY <1>1, <1>4 DEF SessionInv, HostInv, Arrived
  <1>8. SubInv'
    <2>1. SUFFICES ASSUME ~astray', ~crossed, NEW s \in subs PROVE s = manager' \/ Coming(s)'
      BY DEF SubInv
    <2>2. s \in Ids /\ s # manager
      BY <1>3 DEF HostInv, Rest, Ids
    <2>3. Coming(s)
      BY <2>1, <2>2 DEF HostInv, SubInv
    <2>4. CASE ret.id = s
      BY <2>1, <2>4
    <2>5. CASE ret.id # s
      <3>1. PICK d \in Coroutines : Answered(d, s)
        BY <2>3, <2>5 DEF Coming
      <3>. QED
        BY <1>5, <2>2, <3>1 DEF Coming
    <2>. QED
      BY <2>4, <2>5
  <1>9. ConnInv'
    BY <1>1, <1>2, <1>5 DEF ConnInv, HostInv
  <1>. QED
    BY <1>2, <1>6, <1>7, <1>8, <1>9

\* subscribe returns with what it got, or undoes it.
LEMMA SubscribeReturns ==
    ASSUME HostInv, NEW c \in Coroutines, c = turn, Top(c).fn = "subscribe", Top(c).at = "sent",
           NEW kind \in {"ok", "subscription"}, Return(kind, 0),
           ret.kind \in Results, manager' \in {manager, ret.id}, manager' = ret.id \/ astray',
           term' \in {"none", "fresh", "low", "over"},
           UNCHANGED <<sendq, loginq, cut, token, lease, suburl, sessions, subs, conn, crossed>>,
           astray => astray'
    PROVE  HostInv'
  <1>1. /\ Busy(c) /\ StackInv /\ LocalInv /\ Local(c, Top(c)) /\ IsFrame(Top(c))
    BY Running
  <1>2. Returns(c, kind, 0) /\ Pops(c)
    BY DEF Return, Leave, Returns, Pops
  <1>3. /\ \A d \in Coroutines \ {c} : stack'[d] = stack[d]
        /\ Len(stack[c]) \in Nat \ {0}
        /\ Len(stack'[c]) = Len(stack[c]) - 1
        /\ \A i \in 1 .. Len(stack[c]) - 1 : stack'[c][i] = stack[c][i]
    BY ONLY c \in Coroutines, <1>1, <1>2, StackPopped
  <1>4. Rest' /\ SessionInv' /\ SubInv' /\ ConnInv' /\ suburl
    BY <1>3, SubscriptionKnown
  <1>5. LocalInv'
    <2>1. PICK n : n = Len(stack[c]) - 1
      OBVIOUS
    <2>2. \A i \in 1 .. Len(stack'[c]) : \A h : h = stack'[c][i] =>
              \/ i \in 1 .. n /\ stack[c][i] = h
              \/ Local(c, h)'
      BY <1>3, <2>1
    <2>. QED
      BY <1>1, <1>3, <2>1, <2>2, ManagerLocal
  <1>6. RetInv'
    <2>1. PICK g : g = Top(c)
      OBVIOUS
    <2>2. g.fn = "subscribe" /\ g.cmd = "none"
      BY <1>1, <2>1 DEF Local
    <2>3. \A r : r = [kind |-> kind, id |-> 0] => Result(g.fn, g.cmd, r)'
      BY <1>4, <2>2 DEF Result, Commands
    <2>4. kind \in Kinds /\ 0 \in {0} \cup Ids
      BY Some
    <2>. QED
      BY <1>1, <1>2, <2>1, <2>3, <2>4, ReturnRet
  <1>7. LockInv'
    <2>1. ~Queues(Top(c))
      BY DEF Queues, Holds
    <2>. QED
      BY <1>1, <1>2, <2>1, PopLocks
  <1>. QED
    BY <1>2, <1>4, <1>5, <1>6, <1>7, PopCore

LEMMA SubscribeUndoes ==
    ASSUME HostInv, NEW c \in Coroutines, c = turn, Top(c).fn = "subscribe", Top(c).at = "sent",
           Call("undone", Frame("unsubscribe")),
           ret.kind \in Results, manager' \in {manager, ret.id}, manager' = ret.id \/ astray',
           term' \in {"none", "fresh", "low", "over"},
           UNCHANGED <<sendq, loginq, cut, token, lease, suburl, sessions, subs, conn, crossed>>,
           astray => astray'
    PROVE  HostInv'
  <1>1. /\ Busy(c) /\ StackInv /\ LocalInv /\ Local(c, Top(c)) /\ IsFrame(Top(c)) /\ frame = Top(c)
    BY Running
  <1>2. PICK f : f = [Top(c) EXCEPT !.at = "undone", !.then = Top(c).then]
    OBVIOUS
  <1>3. /\ IsFrame(f) /\ f.fn = "subscribe" /\ f.cmd = "none" /\ f.at = "undone" /\ f.id = Top(c).id
    BY <1>1, <1>2 DEF IsFrame, Local
  <1>4. PICK g : g = Frame("unsubscribe")
    OBVIOUS
  <1>5. g.fn = "unsubscribe" /\ g.at = "start" /\ g.cmd = "none" /\ IsFrame(g)
    BY <1>4, FrameIs DEF Frame, Functions
  <1>6. Pushes(c, f, g) /\ turn' = c /\ ret' = NoResult
    BY <1>1, <1>2, <1>4 DEF Call, CallThen, Pushes
  <1>7. FitsOn(c, f, g)
    BY <1>1, <1>3, <1>5 DEF FitsOn, Fits, Calls, Inside, Holds, Local
  <1>8. /\ \A d \in Coroutines \ {c} : stack'[d] = stack[d]
        /\ Len(stack[c]) \in Nat \ {0}
        /\ Len(stack'[c]) = Len(stack[c]) + 1
        /\ stack'[c][Len(stack[c])] = f
        /\ stack'[c][Len(stack[c]) + 1] = g
        /\ \A i \in 1 .. Len(stack[c]) - 1 : stack'[c][i] = stack[c][i]
    BY ONLY c \in Coroutines, <1>1, <1>6, StackPushed
  <1>9. Rest' /\ SessionInv' /\ SubInv' /\ ConnInv' /\ suburl
    BY <1>8, SubscriptionKnown
  <1>10. LocalInv'
    <2>1. PICK n : n = Len(stack[c]) - 1
      OBVIOUS
    <2>2. Local(c, f)' /\ Local(c, g)'
      BY <1>1, <1>3, <1>5 DEF Local, Subscriber
    <2>3. \A i \in 1 .. Len(stack[c]) + 1 :
             i \in 1 .. n \/ i = Len(stack[c]) \/ i = Len(stack[c]) + 1
      BY <1>8, <2>1
    <2>4. \A i \in 1 .. Len(stack'[c]) : \A h : h = stack'[c][i] =>
              \/ i \in 1 .. n /\ stack[c][i] = h
              \/ Local(c, h)'
      <3>1. \A i \in 1 .. n : stack'[c][i] = stack[c][i]
        BY <1>8, <2>1
      <3>2. \A h : h \in {f, g} => Local(c, h)'
        BY <2>2
      <3>3. \A i \in 1 .. Len(stack'[c]) : i \notin 1 .. n => stack'[c][i] \in {f, g}
        BY <1>8, <2>3
      <3>. QED
        BY ONLY <3>1, <3>2, <3>3
    <2>. QED
      BY <1>1, <1>8, <2>1, <2>4, ManagerLocal
  <1>11. Holds(f) <=> Holds(Top(c))
    BY <1>3 DEF Holds
  <1>12. Top(c).at # "waits" /\ f.at # "waits" /\ g.fn # "post"
    BY <1>3, <1>5
  <1>. QED
    BY <1>5, <1>6, <1>7, <1>9, <1>10, <1>11, <1>12, PushCore

LEMMA SubscribeSentStep ==
    ASSUME HostInv, SubscribeSent
    PROVE  HostInv'
  <1>1. PICK c \in Coroutines : c = turn
    BY DEF SubscribeSent, Back, At
  <1>2. /\ frame = Top(c) /\ Local(c, Top(c)) /\ IsFrame(Top(c)) /\ ret.kind \in Kinds
        /\ Top(c).fn = "subscribe" /\ Top(c).at = "sent"
    BY <1>1, Running DEF SubscribeSent, Back, At
  <1>3. UNCHANGED <<aio, suburl, crossed>> /\ OnlyEvents
    BY DEF SubscribeSent
  <1>4. UNCHANGED <<sendq, loginq, cut, token, lease, suburl, sessions, subs, conn, crossed>>
    BY <1>3 DEF OnlyEvents, locks, aio, session, camera
  <1>5. term \in {"none", "fresh", "low", "over"}
    BY DEF HostInv, Rest
  <1>6. CASE ret.kind = "ok"
    <2>1. Return("ok", 0) /\ manager' = ret.id /\ term' = "fresh" /\ astray' = astray
      BY <1>6 DEF SubscribeSent, Failed
    <2>. QED
      BY <1>1, <1>2, <1>4, <1>6, <2>1, SubscribeReturns DEF Results
  <1>7. CASE ret.kind = "odd"
    <2>1. /\ UndoSubscribe /\ manager' \in {manager, ret.id}
          /\ astray' = (astray \/ manager' = manager) /\ term' = term
      BY <1>7 DEF SubscribeSent, Failed
    <2>2. manager' = ret.id \/ astray'
      BY <2>1
    <2>3. astray => astray'
      BY <2>1, Zenon
    <2>4. term' \in {"none", "fresh", "low", "over"}
      BY <2>1, <1>5
    <2>5. CASE frame.retry = 0
      <3>1. Call("undone", Frame("unsubscribe"))
        BY <2>1, <2>5 DEF UndoSubscribe
      <3>. QED
        BY <1>1, <1>2, <1>4, <1>7, <2>1, <2>2, <2>3, <2>4, <3>1, SubscribeUndoes DEF Results
    <2>6. CASE frame.retry # 0
      <3>1. Return("subscription", 0)
        BY <2>1, <2>6 DEF UndoSubscribe
      <3>. QED
        BY <1>1, <1>2, <1>4, <1>7, <2>1, <2>2, <2>3, <2>4, <3>1, SubscribeReturns DEF Results
    <2>. QED
      BY <2>5, <2>6
  <1>8. CASE ret.kind \notin Results
    <2>1. UNCHANGED <<manager, term, astray>>
      BY <1>8 DEF SubscribeSent, events, Results
    <2>2. Still
      <3>1. term' \in {"none", "fresh", "low", "over"}
        BY <2>1, <1>5
      <3>. QED
        BY <1>3, <2>1, <3>1, OnlyEventsStill
    <2>3. Handled(c)
      BY <1>2, <1>8 DEF Handled, Results
    <2>4. CASE ret.kind \in Failed \ {"unsupported"}
      <3>1. UndoSubscribe
        BY <1>8, <2>4 DEF SubscribeSent, Results
      <3>2. CASE frame.retry = 0
        <4>1. Call("undone", Frame("unsubscribe"))
          BY <3>1, <3>2 DEF UndoSubscribe
        <4>2. CallThen("undone", Top(c).then, Frame("unsubscribe"))
          BY <1>2, <4>1 DEF Call
        <4>3. PICK g : g = Frame("unsubscribe")
          OBVIOUS
        <4>4. g.fn = "unsubscribe" /\ g.at = "start" /\ g.cmd = "none" /\ IsFrame(g)
          BY <4>3, FrameIs DEF Frame, Functions
        <4>5. Local(c, g)
          BY <4>4 DEF Local
        <4>6. ASSUME NEW f, IsFrame(f), f.fn = Top(c).fn, f.cmd = Top(c).cmd,
                     f.retry = Top(c).retry, f.id = Top(c).id, f.at = "undone",
                     f.then = Top(c).then
              PROVE  /\ Local(c, f) /\ Calls(f, g.fn, g.cmd)
                     /\ ~Inside(Top(c)) /\ ~Holds(f) /\ ~Holds(Top(c))
          BY <1>2, <4>4, <4>6 DEF Local, Calls, Inside, Holds, Events
        <4>7. CallThen("undone", Top(c).then, g)
          BY <4>2, <4>3
        <4>. QED
          BY <1>1, <1>2, <2>2, <2>3, <4>4, <4>5, <4>6, <4>7, Calling
      <3>3. CASE frame.retry # 0
        <4>1. Return("subscription", 0)
          BY <3>1, <3>3 DEF UndoSubscribe
        <4>2. Result(Top(c).fn, Top(c).cmd, [kind |-> "subscription", id |-> 0])
          BY <1>2 DEF Result, Local, Commands
        <4>. QED
          BY <1>1, <1>2, <2>2, <2>3, <4>1, <4>2, Some, Returning DEF Queues, Holds
      <3>. QED
        BY <3>2, <3>3
    <2>5. CASE ret.kind \notin Failed \ {"unsupported"}
      <3>1. PassOn
        BY <1>8, <2>5 DEF SubscribeSent, Results
      <3>2. Result(Top(c).fn, Top(c).cmd, ret)
        BY <1>2, <1>8 DEF Result, Local, Commands, Results
      <3>. QED
        BY <1>1, <1>2, <2>2, <2>3, <3>1, <3>2, Passing DEF Queues, Holds
    <2>. QED
      BY <2>4, <2>5
  <1>. QED
    BY <1>6, <1>7, <1>8 DEF Results

-----------------------------------------------------------------------------
(* Time, and what stops *)

\* Neither time nor a restart of the camera gives it sessions or subscriptions.
LEMMA TimeStep ==
    ASSUME HostInv, UNCHANGED <<stack, ret, turn, sendq, loginq, cut, token, manager, suburl, conn,
                             astray, crossed>>,
           sessions' \subseteq sessions, subs' \subseteq subs, Rest'
    PROVE  HostInv'
  <1>1. \A d \in Coroutines :
           /\ Busy(d)' <=> Busy(d)
           /\ Top(d)' = Top(d)
           /\ Posts(d)' <=> Posts(d)
           /\ Queueing(d)' <=> Queueing(d)
           /\ Holding(d)' <=> Holding(d)
           /\ \A s : Drops(d, s)' <=> Drops(d, s)
           /\ \A s : Answered(d, s)' <=> Answered(d, s)
    BY Others
  <1>2. frame' = frame
    BY DEF frame, Top
  <1>3. StackInv'
    BY DEF HostInv, StackInv
  <1>4. LocalInv'
    <2>1. \A d \in Coroutines : \A h : Local(d, h) => Local(d, h)'
      BY LocalKept DEF Benign
    <2>2. ASSUME NEW d \in Coroutines, NEW i \in 1 .. Len(stack[d]), NEW h, h = stack[d][i]
          PROVE  Local(d, h)'
      BY <2>1, <2>2 DEF HostInv, LocalInv
    <2>. QED
      BY <2>2 DEF LocalInv, Local, Gone, Subscriber
  <1>5. RetInv'
    <2>1. \A fn, cmd : Result(fn, cmd, ret) => Result(fn, cmd, ret)'
      BY DEF Result, Gone
    <2>. QED
      BY <1>1, <1>2, <2>1 DEF HostInv, RetInv
  <1>6. LockInv'
    BY <1>1 DEF HostInv, LockInv
  <1>7. SessionInv'
    BY <1>2 DEF HostInv, SessionInv, Arrived
  <1>8. SubInv'
    <2>1. \A s : Coming(s) => Coming(s)'
      BY <1>1, <1>2 DEF Coming
    <2>. QED
      BY <2>1 DEF HostInv, SubInv
  <1>9. UnsubInv'
    <2>1. \A d \in Coroutines : Pending(d) => Pending(d)'
      BY <1>1 DEF Pending
    <2>. QED
      BY <1>1, <2>1 DEF HostInv, UnsubInv
  <1>10. ConnInv'
    BY <1>1 DEF HostInv, ConnInv
  <1>. QED
    BY <1>3, <1>4, <1>5, <1>6, <1>7, <1>8, <1>9, <1>10 DEF HostInv

LEMMA TimeSteps ==
    ASSUME HostInv, LeaseEnds \/ TermPasses \/ CameraForgets \/ CameraRestarts
    PROVE  HostInv'
  <1>1. UNCHANGED <<stack, ret, turn, sendq, loginq, cut, token, manager, suburl, conn,
                             astray, crossed>>
    BY DEF LeaseEnds, TermPasses, CameraForgets, CameraRestarts, OnlyTime, exec, locks, aio, session
  <1>2. sessions' \subseteq sessions /\ subs' \subseteq subs
    <2>1. CASE LeaseEnds \/ TermPasses
      BY <2>1 DEF LeaseEnds, TermPasses, camera
    <2>2. CASE CameraForgets
      BY <2>2 DEF CameraForgets
    <2>3. CASE CameraRestarts
      BY <2>3 DEF CameraRestarts
    <2>. QED
      BY <2>1, <2>2, <2>3
  <1>3. /\ lease' \in {"none", "fresh", "old"}
        /\ lease = "none" <=> lease' = "none"
        /\ term' \in {"none", "fresh", "low", "over"}
    <2>1. lease \in {"none", "fresh", "old"} /\ term \in {"none", "fresh", "low", "over"}
      BY DEF HostInv, Rest
    <2>2. CASE LeaseEnds
      BY <2>1, <2>2 DEF LeaseEnds
    <2>3. CASE TermPasses
      BY <2>1, <2>3 DEF TermPasses, session
    <2>4. CASE CameraForgets \/ CameraRestarts
      BY <2>1, <2>4 DEF CameraForgets, CameraRestarts, session
    <2>. QED
      BY <2>2, <2>3, <2>4
  <1>4. Rest'
    BY <1>1, <1>2, <1>3 DEF HostInv, Rest
  <1>. QED
    BY <1>1, <1>2, <1>4, TimeStep

\* What a coroutine began with has not been called.
LEMMA RootAlone ==
    ASSUME HostInv, NEW c \in Coroutines, Busy(c),
           Top(c).fn \in {"connect", "check", "snap", "poll", "deinit"}
    PROVE  /\ Len(stack[c]) = 1
           /\ \A s : ~DropsBelow(c, s)
  <1>1. StackInv
    BY DEF HostInv
  <1>2. Len(stack[c]) = 1
    <2>1. SUFFICES ASSUME Len(stack[c]) # 1 PROVE FALSE
      OBVIOUS
    <2>2. PICK h : h = stack[c][Len(stack[c]) - 1]
      OBVIOUS
    <2>3. Calls(h, Top(c).fn, Top(c).cmd)
      BY <1>1, <2>1, <2>2, Caller
    <2>. QED
      BY <2>3 DEF Calls, Events
  <1>. QED
    BY <1>2 DEF DropsBelow

\* The loop runs nothing any more.
LEMMA Stops ==
    ASSUME HostInv, OnlyExec, turn' = Stopped, UNCHANGED <<stack, ret>>,
           turn \in Coroutines => Top(turn).fn = "check"
    PROVE  HostInv'
  <1>1. \A d \in Coroutines :
           /\ Busy(d)' <=> Busy(d)
           /\ Top(d)' = Top(d)
           /\ Posts(d)' <=> Posts(d)
           /\ Queueing(d)' <=> Queueing(d)
           /\ Holding(d)' <=> Holding(d)
           /\ \A s : Drops(d, s)' <=> Drops(d, s)
           /\ \A s : Answered(d, s)' <=> Answered(d, s)
    BY Others
  <1>2. UNCHANGED <<sendq, loginq, cut, token, lease, manager, term, suburl, sessions, subs, conn,
                    astray, crossed>>
    BY DEF OnlyExec, locks, aio, session, events, camera
  <1>3. turn \in Coroutines => ~AwaitsLogin(frame) /\ ~AwaitsSub(frame)
    BY DEF AwaitsLogin, AwaitsSub, Calls, Events, frame
  <1>4. StackInv'
    BY DEF HostInv, StackInv
  <1>5. LocalInv'
    <2>1. \A d \in Coroutines : \A h : Local(d, h) => Local(d, h)'
      BY <1>2, LocalKept DEF Benign
    <2>2. ASSUME NEW d \in Coroutines, NEW i \in 1 .. Len(stack[d]), NEW h, h = stack[d][i]
          PROVE  Local(d, h)'
      BY <2>1, <2>2 DEF HostInv, LocalInv
    <2>. QED
      BY <2>2 DEF LocalInv, Local, Gone, Subscriber
  <1>6. RetInv'
    <2>1. Stopped \notin Coroutines
      BY DEF Stopped, Coroutines
    <2>. QED
      BY <2>1 DEF HostInv, RetInv
  <1>7. LockInv'
    BY <1>1, <1>2 DEF HostInv, LockInv
  <1>8. SessionInv'
    BY <1>2, <1>3 DEF HostInv, SessionInv, Arrived
  <1>9. SubInv'
    <2>1. \A s : Coming(s) => Coming(s)'
      BY <1>1, <1>3 DEF Coming
    <2>. QED
      BY <1>2, <2>1 DEF HostInv, SubInv
  <1>10. UnsubInv'
    <2>1. ASSUME NEW d \in Coroutines, NEW s, Drops(d, s), Pending(d) PROVE Pending(d)'
      <3>1. CASE turn = d
        <4>1. Busy(d) /\ Top(d).fn = "check"
          BY <3>1 DEF HostInv, RetInv
        <4>2. ~DropsBelow(d, s) /\ ~Dropping(Top(d), s)
          BY <4>1, RootAlone DEF Dropping
        <4>3. ~Drops(d, s)
          BY <4>1, <4>2, TopEffect DEF HostInv
        <4>. QED
          BY <2>1, <4>3
      <3>2. CASE turn # d
        BY <1>1, <2>1, <3>2 DEF Pending
      <3>. QED
        BY <3>1, <3>2
    <2>. QED
      BY <1>1, <1>2, <2>1 DEF HostInv, UnsubInv
  <1>11. Rest' /\ ConnInv'
    BY <1>1, <1>2 DEF HostInv, ConnInv, Rest
  <1>. QED
    BY <1>4, <1>5, <1>6, <1>7, <1>8, <1>9, <1>10, <1>11 DEF HostInv

LEMMA StopSteps ==
    ASSUME HostInv, CheckStops \/ LoopStops
    PROVE  HostInv'
  <1>1. OnlyExec /\ turn' = Stopped /\ UNCHANGED <<stack, ret>>
    BY DEF CheckStops, LoopStops
  <1>2. turn \in Coroutines => Top(turn).fn = "check"
    BY DEF CheckStops, LoopStops, Back, At, frame, Nobody, Coroutines
  <1>. QED
    BY <1>1, <1>2, Stops

-----------------------------------------------------------------------------
(* What reolink.py begins *)

\* Frames tell apart only whether the service is connecting.
LEMMA LocalConnected ==
    ASSUME conn = "connecting" <=> conn' = "connecting",
           UNCHANGED <<suburl, token, manager, sessions, astray>>
    PROVE  \A d, h : Local(d, h) => Local(d, h)'
  BY DEF Local, Gone, Subscriber

\* A coroutine begins when nobody runs, with a stack of its own.
LEMMA Begins ==
    ASSUME HostInv, NEW c \in Coroutines, NEW fn \in Root(c) \ {"connect"}, Begin(c, fn),
           conn = "up", conn' \in {"up", "leaving"},
           UNCHANGED <<sendq, loginq, cut, token, lease, manager, term, suburl, sessions, subs,
                       astray, crossed>>
    PROVE  HostInv'
  <1>1. /\ turn = Nobody /\ ~Busy(c) /\ turn' = c /\ ret' = ret
        /\ stack' = [stack EXCEPT ![c] = <<Frame(fn)>>]
        /\ stack[c] = <<>>
    BY DEF Begin, Busy
  <1>2. turn \notin Coroutines
    BY <1>1 DEF Nobody, Coroutines
  <1>3. PICK g : g = Frame(fn)
    OBVIOUS
  <1>4. /\ g.fn = fn /\ g.at = "start" /\ g.cmd = "none" /\ IsFrame(g)
        /\ fn \in {"check", "snap", "poll", "deinit"} /\ fn \in Root(c)
    <2>1. fn \in {"check", "snap", "poll", "deinit"}
      BY DEF Root, Coroutines
    <2>. QED
      BY <1>3, <2>1, FrameIs DEF Frame, Functions
  <1>5. /\ stack' = [d \in Coroutines |-> stack'[d]]
        /\ \A d \in Coroutines \ {c} : stack'[d] = stack[d]
        /\ stack'[c] = <<g>>
    BY <1>1, <1>3 DEF HostInv, StackInv
  <1>6. PICK s : s = <<g>>
    OBVIOUS
  <1>7. s \in Seq({g}) /\ Len(s) = 1 /\ s[1] = g /\ s # <<>> /\ Last(s) = g
    BY <1>6 DEF Last
  <1>8. StackInv'
    <2>1. IsStack(s)
      BY <1>7, StackIs
    <2>2. Nested(s)
      BY <1>4, <1>7 DEF Nested
    <2>3. Shape(c, s)
      BY <1>4, <1>7, <2>1, <2>2 DEF Shape
    <2>. QED
      BY <1>5, <1>6, <2>3 DEF HostInv, StackInv
  <1>9. /\ Busy(c)' /\ Top(c)' = g
        /\ ~Posts(c)' /\ ~Queueing(c)' /\ ~Holding(c)'
        /\ \A x : ~Drops(c, x)'
        /\ \A x : ~Answered(c, x)'
    <2>1. ~Queues(g) /\ ~Holds(g) /\ (\A x : ~Dropping(g, x))
      BY <1>4 DEF Queues, Holds, Dropping
    <2>2. stack'[c] = s
      BY <1>5, <1>6
    <2>3. Busy(c)' /\ Top(c)' = g
      BY <1>7, <2>2 DEF Busy, Top
    <2>4. \A i \in 1 .. Len(stack'[c]) : stack'[c][i] = g
      <3>1. PICK n \in Nat : n = Len(s) /\ n = 1
        BY <1>7
      <3>2. \A i \in 1 .. n : i = 1
        BY <3>1
      <3>. QED
        BY <1>7, <2>2, <3>1, <3>2
    <2>5. ~Posts(c)' /\ (\A x : ~Answered(c, x)')
      BY <1>4, <2>3 DEF Posts, Answered
    <2>6. ~Queueing(c)' /\ ~Holding(c)'
      BY <2>1, <2>4 DEF Queueing, Holding, Queues, Holds
    <2>7. \A x : ~Drops(c, x)'
      BY <2>1, <2>4 DEF Drops, Dropping
    <2>. QED
      BY <2>3, <2>5, <2>6, <2>7
  <1>10. /\ ~Posts(c) /\ ~Queueing(c) /\ ~Holding(c)
         /\ \A x : ~Answered(c, x)
    <2>1. Len(stack[c]) = 0
      BY <1>1
    <2>. QED
      BY <1>1, <2>1 DEF Posts, Queueing, Holding, Answered
  <1>11. \A d \in Coroutines \ {c} :
           /\ Busy(d)' <=> Busy(d)
           /\ Top(d)' = Top(d)
           /\ Posts(d)' <=> Posts(d)
           /\ Queueing(d)' <=> Queueing(d)
           /\ Holding(d)' <=> Holding(d)
           /\ \A x : Drops(d, x)' <=> Drops(d, x)
           /\ \A x : Answered(d, x)' <=> Answered(d, x)
    BY <1>5, Others
  <1>12. LocalInv'
    <2>1. \A d, h : Local(d, h) => Local(d, h)'
      BY LocalConnected
    <2>2. Local(c, g)'
      BY <1>4 DEF Local, Root, Coroutines
    <2>3. ASSUME NEW d \in Coroutines, NEW i \in 1 .. Len(stack'[d]), NEW h, h = stack'[d][i]
          PROVE  Local(d, h)'
      <3>1. CASE d = c
        <4>1. h = g
          BY <1>5, <1>6, <1>7, <2>3, <3>1
        <4>. QED
          BY <2>2, <3>1, <4>1
      <3>2. CASE d # c
        BY <1>5, <2>1, <2>3, <3>2 DEF HostInv, LocalInv
      <3>. QED
        BY <3>1, <3>2
    <2>. QED
      BY <2>3 DEF LocalInv, Local, Gone, Subscriber
  <1>13. RetInv'
    <2>1. frame' = g
      BY <1>1, <1>9 DEF frame, Top
    <2>2. \A fn2, cmd : ~Calls(g, fn2, cmd)
      BY <1>4 DEF Calls
    <2>. QED
      BY <1>1, <1>9, <2>1, <2>2 DEF HostInv, RetInv
  <1>14. LockInv'
    <2>1. \A d \in Coroutines :
             /\ Posts(d)' <=> Posts(d)
             /\ Queueing(d)' <=> Queueing(d)
             /\ Holding(d)' <=> Holding(d)
      BY <1>9, <1>10, <1>11
    <2>. QED
      BY <2>1 DEF HostInv, LockInv
  <1>15. SessionInv'
    BY <1>2 DEF HostInv, SessionInv, Arrived
  <1>16. SubInv'
    <2>1. \A x : Coming(x) => Coming(x)'
      BY <1>2, <1>10, <1>11 DEF Coming
    <2>. QED
      BY <2>1 DEF HostInv, SubInv
  <1>17. UnsubInv'
    <2>1. \A d \in Coroutines \ {c} : Pending(d) => Pending(d)'
      BY <1>2, <1>11 DEF Pending
    <2>. QED
      BY <1>9, <1>11, <2>1 DEF HostInv, UnsubInv
  <1>18. Rest' /\ ConnInv'
    BY DEF HostInv, Rest, ConnInv
  <1>. QED
    BY <1>8, <1>12, <1>13, <1>14, <1>15, <1>16, <1>17, <1>18 DEF HostInv

LEMMA BeginSteps ==
    ASSUME HostInv, CheckStart \/ RequestStart("snap", "snap") \/ RequestStart("poll", "poll")
                 \/ Disconnect
    PROVE  HostInv'
  <1>1. conn = "up"
    BY DEF CheckStart, RequestStart, Disconnect
  <1>2. UNCHANGED <<sendq, loginq, cut, token, lease, manager, term, suburl, sessions, subs,
                    astray, crossed>>
    BY DEF CheckStart, RequestStart, Disconnect, OnlyExec, OnlyConn, locks, aio, session, events,
           camera
  <1>3. CASE CheckStart
    <2>1. Begin("check", "check") /\ conn' = conn
      BY <1>3 DEF CheckStart, OnlyExec
    <2>2. "check" \in Coroutines /\ "check" \in Root("check") \ {"connect"}
      BY DEF Coroutines, Root
    <2>. QED
      BY <1>1, <1>2, <2>1, <2>2, Begins
  <1>4. ASSUME NEW c \in {"snap", "poll"}, RequestStart(c, c) PROVE HostInv'
    <2>1. Begin(c, c) /\ conn' = conn
      BY <1>4 DEF RequestStart
    <2>2. c \in Coroutines /\ c \in Root(c) \ {"connect"}
      BY DEF Coroutines, Root
    <2>. QED
      BY <1>1, <1>2, <2>1, <2>2, Begins
  <1>5. CASE Disconnect
    <2>1. Begin("main", "deinit") /\ conn' = "leaving"
      BY <1>5 DEF Disconnect
    <2>2. "main" \in Coroutines /\ "deinit" \in Root("main") \ {"connect"}
      BY DEF Coroutines, Root
    <2>. QED
      BY <1>1, <1>2, <2>1, <2>2, Begins
  <1>. QED
    BY <1>3, <1>4, <1>5

-----------------------------------------------------------------------------
(* What ends, and the data of the host *)

\* Once nobody is left to connect the outcome is known.
LEMMA ConnEnds ==
    ASSUME HostInv, NEW c \in Coroutines, c = turn, Top(c).fn \in {"connect", "deinit"}, End,
           UNCHANGED <<sendq, loginq, cut, token, lease, manager, term, suburl, sessions, subs,
                       astray, crossed>>,
           conn = "connecting" => c = "main" /\ conn' \in {"up", "failed"},
           conn # "connecting" => conn' = "left",
           conn' = "up" => suburl
    PROVE  HostInv'
  <1>1. /\ Busy(c) /\ StackInv /\ LocalInv /\ Local(c, Top(c)) /\ IsFrame(Top(c)) /\ frame = Top(c)
    BY Running
  <1>2. Len(stack[c]) = 1
    BY <1>1, RootAlone
  <1>3. Returns(c, "ok", 0) /\ Pops(c)
    BY DEF End, Return, Leave, Returns, Pops
  <1>4. ~AwaitsLogin(Top(c)) /\ ~AwaitsSub(Top(c)) /\ ~Queues(Top(c)) /\ Top(c).fn # "post"
    BY DEF AwaitsLogin, AwaitsSub, Calls, Events, Queues, Holds
  <1>5. ~Busy(c)' /\ stack'[c] = <<>> /\ \A d \in Coroutines \ {c} : stack'[d] = stack[d]
    <2>1. stack'[c] = <<>> /\ \A d \in Coroutines \ {c} : stack'[d] = stack[d]
      BY ONLY c \in Coroutines, <1>1, <1>2, <1>3, StackPopped
    <2>. QED
      BY <2>1 DEF Busy
  <1>6. /\ \A d \in Coroutines \ {c} : Busy(d)' <=> Busy(d)
        /\ \A d \in Coroutines, s \in Ids : Answered(d, s) => Answered(d, s)'
    BY <1>1, <1>3, <1>4, PopBusy
  <1>7. Rest'
    BY DEF HostInv, Rest
  <1>8. LocalInv'
    <2>1. ASSUME NEW d \in Coroutines, NEW i \in 1 .. Len(stack'[d]), NEW h, h = stack'[d][i]
          PROVE  Local(d, h)'
      <3>1. d # c /\ stack'[d] = stack[d]
        BY <1>5, <2>1
      <3>2. Busy(d) /\ Local(d, h)
        BY <1>1, <2>1, <3>1 DEF LocalInv, Busy
      <3>3. conn # "connecting" /\ conn' # "connecting"
        BY <3>1, <3>2 DEF HostInv, ConnInv
      <3>. QED
        BY <3>2, <3>3, LocalConnected
    <2>. QED
      BY <2>1 DEF LocalInv, Local, Gone, Subscriber
  <1>9. RetInv'
    BY <1>2, <1>3 DEF RetInv, Returns, NoResult, Kinds, Nobody, Coroutines
  <1>10. LockInv'
    BY <1>1, <1>3, <1>4, PopLocks
  <1>11. SessionInv'
    BY <1>1, <1>4 DEF SessionInv, HostInv, Arrived
  <1>12. SubInv'
    <2>1. \A s \in Ids : Coming(s) => Coming(s)'
      BY <1>1, <1>4, <1>6 DEF Coming
    <2>2. subs \subseteq Ids
      BY DEF HostInv, Rest
    <2>. QED
      BY <2>1, <2>2 DEF SubInv, HostInv
  <1>13. ConnInv'
    <2>1. conn # "failed"
      BY <1>1 DEF ConnInv, HostInv
    <2>2. conn = "connecting" => \A d \in Coroutines : ~Busy(d)'
      BY <1>5, <1>6 DEF ConnInv, HostInv
    <2>. QED
      BY <2>1, <2>2 DEF ConnInv, HostInv
  <1>. QED
    BY <1>3, <1>4, <1>7, <1>8, <1>9, <1>10, <1>11, <1>12, <1>13, PopCore

LEMMA ConnectingStep ==
    ASSUME HostInv, Connecting
    PROVE  HostInv'
  <1>1. CASE UNCHANGED conn /\ ~End
    BY <1>1, ConnectCalls
  <1>2. CASE Back("connect", "offered", Ok) /\ End /\ conn' = "up"
    <2>1. PICK c \in Coroutines : c = turn
      BY <1>2 DEF Back, At
    <2>2. Top(c).fn = "connect" /\ Top(c).at = "offered" /\ Local(c, Top(c))
      BY <1>2, <2>1, Running DEF Back, At
    <2>3. c = "main" /\ conn = "connecting" /\ suburl
      BY <2>2 DEF Local
    <2>4. UNCHANGED <<sendq, loginq, cut, token, lease, manager, term, suburl, sessions, subs,
                      astray, crossed>>
      BY DEF Connecting, OnlyConn, locks, aio, session, events, camera
    <2>. QED
      BY <1>2, <2>1, <2>2, <2>3, <2>4, ConnEnds
  <1>3. CASE UNCHANGED conn /\ End /\ ~(conn' = "up")
    <2>1. PICK c \in Coroutines : c = turn
      BY DEF Connecting, Back, At
    <2>2. Busy(c) /\ Top(c).fn = "connect" /\ StackInv
      BY <2>1, Running DEF Connecting, Back, At
    <2>3. Len(stack[c]) = 1
      BY <2>2, RootAlone
    <2>4. turn' = Nobody
      BY <1>3, <2>1, <2>3 DEF End, Return, Leave
    <2>5. turn' = turn
      BY <1>3 DEF Connecting, Call, CallThen
    <2>. QED
      BY <2>1, <2>4, <2>5 DEF Nobody, Coroutines
  <1>4. UNCHANGED conn \/ (Back("connect", "offered", Ok) /\ End /\ conn' = "up")
    BY DEF Connecting
  <1>5. conn' = "up" /\ UNCHANGED conn => FALSE
    <2>1. PICK c \in Coroutines : c = turn
      BY DEF Connecting, Back, At
    <2>2. Top(c).fn = "connect" /\ Local(c, Top(c))
      BY <2>1, Running DEF Connecting, Back, At
    <2>. QED
      BY <2>2 DEF Local
  <1>. QED
    BY <1>1, <1>2, <1>3, <1>4, <1>5

LEMMA ConnectFailsStep ==
    ASSUME HostInv, ConnectFails
    PROVE  HostInv'
  <1>1. PICK c \in Coroutines : c = turn
    BY DEF ConnectFails, Back, At
  <1>2. Top(c).fn = "connect" /\ Local(c, Top(c))
    BY <1>1, Running DEF ConnectFails, Back, At
  <1>3. c = "main" /\ conn = "connecting" /\ End /\ conn' = "failed"
    BY <1>2 DEF Local, ConnectFails
  <1>4. UNCHANGED <<sendq, loginq, cut, token, lease, manager, term, suburl, sessions, subs,
                    astray, crossed>>
    BY DEF ConnectFails, OnlyConn, locks, aio, session, events, camera
  <1>. QED
    BY <1>1, <1>2, <1>3, <1>4, ConnEnds

LEMMA DisconnectingStep ==
    ASSUME HostInv, Disconnecting
    PROVE  HostInv'
  <1>1. CASE UNCHANGED conn
    BY <1>1, DisconnectingStays
  <1>2. CASE conn' = "left" /\ End
    <2>1. PICK c \in Coroutines : c = turn
      BY DEF Disconnecting, Back, At
    <2>2. Top(c).fn = "deinit" /\ Local(c, Top(c))
      BY <2>1, Running DEF Disconnecting, Back, At
    <2>3. conn # "connecting"
      BY <2>2 DEF Local
    <2>4. UNCHANGED <<sendq, loginq, cut, token, lease, manager, term, suburl, sessions, subs,
                      astray, crossed>>
      BY DEF Disconnecting, OnlyConn, locks, aio, session, events, camera
    <2>. QED
      BY <1>2, <2>1, <2>2, <2>3, <2>4, ConnEnds
  <1>. QED
    BY <1>1, <1>2 DEF Disconnecting

\* One that asks for the data of the host was called by the one that connects.
LEMMA DataStack ==
    ASSUME HostInv, NEW c \in Coroutines, Busy(c), Top(c).fn = "data"
    PROVE  /\ c = "main" /\ conn = "connecting" /\ manager = 0
           /\ \A i \in 1 .. Len(stack[c]) - 1 :
                 stack[c][i].fn = "connect" /\ stack[c][i].at = "data"
  <1>1. StackInv /\ LocalInv
    BY DEF HostInv
  <1>2. PICK n \in Nat \ {0} : n = Len(stack[c]) /\ Top(c) = stack[c][n]
    BY <1>1, TopIs
  <1>3. PICK s : s = stack[c]
    OBVIOUS
  <1>4. /\ s[1].fn \in Root(c)
        /\ \A i \in 1 .. n - 1 : Calls(s[i], s[i+1].fn, s[i+1].cmd)
        /\ \A i \in 1 .. n : Local(c, s[i])
    BY <1>1, <1>2, <1>3 DEF StackInv, Shape, Nested, Busy, LocalInv
  <1>5. s[n].fn = "data" /\ c = "main" /\ conn = "connecting"
    BY <1>1, <1>2, <1>3, TopLocal DEF Local
  <1>6. n # 1
    BY <1>4, <1>5 DEF Root, Coroutines
  <1>7. n - 1 \in 1 .. n - 1 /\ n - 1 \in 1 .. n /\ (n - 1) + 1 = n
    BY <1>6
  <1>8. s[n-1].fn = "connect" /\ s[n-1].at = "data"
    <2>1. Calls(s[n-1], "data", s[n].cmd)
      BY <1>4, <1>5, <1>7
    <2>. QED
      BY <2>1 DEF Calls, Events
  <1>9. n - 1 = 1
    <2>1. SUFFICES ASSUME n - 1 # 1 PROVE FALSE
      OBVIOUS
    <2>2. n - 2 \in 1 .. n - 1 /\ (n - 2) + 1 = n - 1
      BY <2>1, <1>7
    <2>3. Calls(s[n-2], s[n-1].fn, s[n-1].cmd)
      BY <1>4, <2>2
    <2>. QED
      BY <2>3, <1>8 DEF Calls, Events
  <1>10. \A i \in 1 .. n - 1 : i = n - 1
    BY <1>9
  <1>11. manager = 0
    <2>1. Local(c, s[n-1])
      BY <1>4, <1>7
    <2>. QED
      BY <2>1, <1>8 DEF Local
  <1>. QED
    BY <1>2, <1>3, <1>5, <1>8, <1>10, <1>11

\* The address of events comes with the data, and nobody asked for it yet.
LEMMA AddressLearnt ==
    ASSUME HostInv, NEW c \in Coroutines, c = turn, Top(c).fn = "data", suburl' \in BOOLEAN,
           UNCHANGED <<cut, token, lease, manager, term, sessions, subs, conn, astray, crossed>>,
           \A d \in Coroutines \ {c} : stack'[d] = stack[d],
           NEW n, n = Len(stack[c]) - 1,
           \A i \in 1 .. Len(stack'[c]) : \A h : h = stack'[c][i] =>
              \/ i \in 1 .. n /\ stack[c][i] = h
              \/ Local(c, h)'
    PROVE  Rest' /\ LocalInv' /\ SessionInv' /\ SubInv' /\ ConnInv'
  <1>1. /\ Busy(c) /\ StackInv /\ LocalInv /\ IsFrame(Top(c)) /\ frame = Top(c)
    BY Running
  <1>2. /\ c = "main" /\ conn = "connecting" /\ manager = 0
        /\ \A i \in 1 .. n : stack[c][i].fn = "connect" /\ stack[c][i].at = "data"
    BY <1>1, DataStack
  <1>3. ~AwaitsLogin(Top(c)) /\ ~AwaitsSub(Top(c))
    BY DEF AwaitsLogin, AwaitsSub, Calls, Events
  <1>4. /\ \A d \in Coroutines \ {c} : Busy(d)' <=> Busy(d)
        /\ \A d \in Coroutines, s \in Ids : Answered(d, s) => Answered(d, s)'
    BY Elsewhere
  <1>5. Rest'
    BY DEF HostInv, Rest
  <1>6. LocalInv'
    <2>1. \A d, h : Local(d, h) /\ h.fn = "connect" /\ h.at = "data" => Local(d, h)'
      BY DEF Local, Gone, Subscriber
    <2>2. ASSUME NEW d \in Coroutines, NEW i \in 1 .. Len(stack'[d]), NEW h, h = stack'[d][i]
          PROVE  Local(d, h)'
      <3>1. CASE d # c
        <4>1. stack'[d] = stack[d] /\ stack[d] = <<>>
          BY <1>2, <3>1 DEF HostInv, ConnInv, Busy
        <4>. QED
          BY <2>2, <4>1
      <3>2. CASE d = c /\ i \in 1 .. n /\ stack[c][i] = h
        <4>1. i \in 1 .. Len(stack[c])
          <5>1. Len(stack[c]) \in Nat
            BY <1>1, TopIs
          <5>. QED
            BY <3>2, <5>1
        <4>2. Local(c, h)
          BY <1>1, <3>2, <4>1 DEF LocalInv
        <4>. QED
          BY <1>2, <2>1, <3>2, <4>2
      <3>3. CASE d = c /\ Local(c, h)'
        BY <3>3
      <3>. QED
        BY <2>2, <3>1, <3>2, <3>3
    <2>. QED
      BY <2>2 DEF LocalInv, Local, Gone, Subscriber
  <1>7. SessionInv'
    BY <1>1, <1>3 DEF SessionInv, HostInv, Arrived
  <1>8. SubInv'
    <2>1. \A s \in Ids : Coming(s) => Coming(s)'
      BY <1>1, <1>3, <1>4 DEF Coming
    <2>2. subs \subseteq Ids
      BY DEF HostInv, Rest
    <2>. QED
      BY <2>1, <2>2 DEF SubInv, HostInv
  <1>9. ConnInv'
    BY <1>2, <1>4 DEF ConnInv, HostInv
  <1>. QED
    BY <1>5, <1>6, <1>7, <1>8, <1>9

\* The first list tells whether events have a port.
LEMMA HostDataLearns ==
    ASSUME HostInv, HostData, Back("data", "host", Ok), suburl' \in BOOLEAN,
           Call("channels", Send("List", Retries)) \/ Return("error", 0)
    PROVE  HostInv'
  <1>1. PICK c \in Coroutines : c = turn
    BY DEF Back, At
  <1>2. /\ Busy(c) /\ StackInv /\ LocalInv /\ Local(c, Top(c)) /\ IsFrame(Top(c)) /\ frame = Top(c)
        /\ Top(c).fn = "data" /\ Top(c).at = "host" /\ Top(c).cmd = "none"
    BY <1>1, Running DEF Back, At, Local
  <1>3. UNCHANGED <<sendq, loginq, cut, token, lease, manager, term, sessions, subs, conn, astray,
                    crossed>>
    BY DEF HostData, OnlyConn, locks, aio, session, events, camera
  <1>4. PICK n : n = Len(stack[c]) - 1
    OBVIOUS
  <1>5. CASE Return("error", 0)
    <2>1. Returns(c, "error", 0) /\ Pops(c)
      BY <1>1, <1>5 DEF Return, Leave, Returns, Pops
    <2>2. /\ \A d \in Coroutines \ {c} : stack'[d] = stack[d]
          /\ Len(stack[c]) \in Nat \ {0}
          /\ Len(stack'[c]) = Len(stack[c]) - 1
          /\ \A i \in 1 .. Len(stack[c]) - 1 : stack'[c][i] = stack[c][i]
      BY ONLY c \in Coroutines, <1>2, <2>1, StackPopped
    <2>3. \A i \in 1 .. Len(stack'[c]) : \A h : h = stack'[c][i] =>
              \/ i \in 1 .. n /\ stack[c][i] = h
              \/ Local(c, h)'
      BY <1>4, <2>2
    <2>4. Rest' /\ LocalInv' /\ SessionInv' /\ SubInv' /\ ConnInv'
      BY <1>1, <1>2, <1>3, <1>4, <2>2, <2>3, AddressLearnt
    <2>5. RetInv'
      <3>1. PICK g : g = Top(c)
        OBVIOUS
      <3>2. \A r : r = [kind |-> "error", id |-> 0] => Result(g.fn, g.cmd, r)'
        BY <1>2, <3>1 DEF Result, Commands
      <3>. QED
        BY <1>2, <2>1, <3>1, <3>2, Some, ReturnRet
    <2>6. LockInv'
      BY <1>2, <1>3, <2>1, PopLocks DEF Queues, Holds
    <2>. QED
      BY <1>1, <1>2, <1>3, <2>1, <2>4, <2>5, <2>6, PopCore
  <1>6. CASE Call("channels", Send("List", Retries))
    <2>1. PICK f : f = [Top(c) EXCEPT !.at = "channels", !.then = Top(c).then]
      OBVIOUS
    <2>2. IsFrame(f) /\ f.fn = "data" /\ f.cmd = "none" /\ f.at = "channels" /\ f.id = Top(c).id
      BY <1>2, <2>1 DEF IsFrame
    <2>3. PICK g : g = Send("List", Retries)
      OBVIOUS
    <2>4. "List" \in Commands /\ Retries \in 0 .. Retries
      BY HostAssumption DEF Commands
    <2>5. g.fn = "send" /\ g.at = "start" /\ g.cmd = "List" /\ IsFrame(g)
      BY <2>3, <2>4, SendIs
    <2>6. Pushes(c, f, g) /\ turn' = c /\ ret' = NoResult
      BY <1>1, <1>2, <1>6, <2>1, <2>3 DEF Call, CallThen, Pushes
    <2>7. FitsOn(c, f, g)
      BY <1>2, <2>2, <2>5 DEF FitsOn, Fits, Calls, Inside, Holds
    <2>8. /\ \A d \in Coroutines \ {c} : stack'[d] = stack[d]
          /\ Len(stack[c]) \in Nat \ {0}
          /\ Len(stack'[c]) = Len(stack[c]) + 1
          /\ stack'[c][Len(stack[c])] = f
          /\ stack'[c][Len(stack[c]) + 1] = g
          /\ \A i \in 1 .. Len(stack[c]) - 1 : stack'[c][i] = stack[c][i]
      BY ONLY c \in Coroutines, <1>2, <2>6, StackPushed
    <2>9. Local(c, f)' /\ Local(c, g)'
      BY <1>2, <1>3, <2>2, <2>5 DEF Local, Commands
    <2>10. \A i \in 1 .. Len(stack[c]) + 1 :
             i \in 1 .. n \/ i = Len(stack[c]) \/ i = Len(stack[c]) + 1
      BY <1>4, <2>8
    <2>11. \A i \in 1 .. Len(stack'[c]) : \A h : h = stack'[c][i] =>
              \/ i \in 1 .. n /\ stack[c][i] = h
              \/ Local(c, h)'
      BY <1>4, <2>8, <2>9, <2>10
    <2>12. Rest' /\ LocalInv' /\ SessionInv' /\ SubInv' /\ ConnInv'
      BY <1>1, <1>2, <1>3, <1>4, <2>8, <2>11, AddressLearnt
    <2>13. (Holds(f) <=> Holds(Top(c))) /\ Top(c).at # "waits" /\ f.at # "waits" /\ g.fn # "post"
      BY <1>2, <2>2, <2>5 DEF Holds
    <2>. QED
      BY <1>1, <1>3, <2>5, <2>6, <2>7, <2>12, <2>13, PushCore
  <1>. QED
    BY <1>5, <1>6

LEMMA HostDataStep ==
    ASSUME HostInv, HostData
    PROVE  HostInv'
  <1>1. PICK c \in Coroutines : c = turn
    BY DEF HostData, Back, At
  <1>2. Top(c).fn = "data" /\ Local(c, Top(c)) /\ IsFrame(Top(c))
    BY <1>1, Running DEF HostData, Back, At
  <1>3. CASE UNCHANGED suburl
    <2>1. Still
      BY <1>3, OnlyConnStill DEF HostData
    <2>2. CASE At("data", "start") /\ Call("host", Send("List", Retries))
      BY <1>1, <1>2, <2>1, <2>2, OuterSends DEF Outer, Local, Calls
    <2>3. CASE End \/ Return("error", 0)
      BY <1>1, <1>2, <2>1, <2>3, Some, OuterReturns DEF Outer, End
    <2>4. CASE PassOn
      BY <1>1, <1>2, <2>1, <2>4, OuterPasses DEF Outer
    <2>5. CASE /\ Back("data", "host", Ok) /\ suburl' \in BOOLEAN
               /\ Call("channels", Send("List", Retries)) \/ Return("error", 0)
      BY <2>5, HostDataLearns
    <2>. QED
      BY <2>2, <2>3, <2>4, <2>5 DEF HostData
  <1>4. CASE ~UNCHANGED suburl
    BY <1>4, HostDataLearns DEF HostData
  <1>. QED
    BY <1>3, <1>4

-----------------------------------------------------------------------------
(* The theorems *)

\* Initially the service connects, and nothing is held.
LEMMA HostStarts == Init => HostInv
  <1>. SUFFICES ASSUME Init PROVE HostInv
    OBVIOUS
  <1>1. PICK g : g = Frame("connect")
    OBVIOUS
  <1>2. g.fn = "connect" /\ g.at = "start" /\ g.cmd = "none" /\ IsFrame(g)
    BY <1>1, FrameIs DEF Frame, Functions
  <1>3. PICK s : s = <<g>>
    OBVIOUS
  <1>4. s \in Seq({g}) /\ Len(s) = 1 /\ s[1] = g /\ s # <<>> /\ Last(s) = g
    BY <1>3 DEF Last
  <1>5. \A i \in 1 .. Len(s) : s[i] = g
    <2>1. PICK n \in Nat : n = Len(s) /\ n = 1
      BY <1>4
    <2>2. \A i \in 1 .. n : i = 1
      BY <2>1
    <2>. QED
      BY <1>4, <2>1, <2>2
  <1>6. /\ "main" \in Coroutines /\ stack["main"] = s
        /\ \A c \in Coroutines : c # "main" => stack[c] = <<>>
        /\ stack = [c \in Coroutines |-> stack[c]]
    BY <1>1, <1>3 DEF Init, Coroutines
  <1>7. \A c \in Coroutines : c # "main" => Len(stack[c]) = 0
    BY <1>6
  <1>8. StackInv
    <2>1. IsStack(s) /\ IsStack(<<>>)
      <3>1. <<>> \in Seq({g})
        OBVIOUS
      <3>. QED
        BY <1>4, <3>1, StackIs
    <2>2. Shape("main", s)
      BY <1>2, <1>4, <1>5, <2>1 DEF Shape, Nested, Root
    <2>3. \A c : Shape(c, <<>>)
      BY <2>1 DEF Shape, Nested
    <2>. QED
      BY <1>6, <2>2, <2>3 DEF StackInv
  <1>9. LocalInv
    <2>1. Local("main", g)
      BY <1>2 DEF Local, Init
    <2>. QED
      BY <1>5, <1>6, <1>7, <2>1 DEF LocalInv
  <1>10. /\ Busy("main") /\ Top("main") = g
         /\ \A c \in Coroutines : Busy(c) => c = "main"
    BY <1>4, <1>6 DEF Busy, Top
  <1>11. turn = "main" /\ frame = g
    BY <1>10 DEF Init, frame
  <1>12. RetInv
    <2>1. \A fn, cmd : ~Calls(g, fn, cmd)
      BY <1>2 DEF Calls
    <2>2. "none" \in Kinds
      BY DEF Kinds
    <2>. QED
      BY <1>6, <1>10, <1>11, <2>1, <2>2 DEF RetInv, Init, NoResult
  <1>13. LockInv
    <2>1. <<>> \in Seq(Coroutines) /\ IsInjective(<<>>) /\ Range(<<>>) = {}
      BY DEF IsInjective, Range
    <2>2. \A c \in Coroutines : ~Posts(c)
      BY <1>2, <1>10 DEF Posts
    <2>3. ~Queues(g) /\ ~Holds(g)
      BY <1>2 DEF Queues, Holds
    <2>4. \A c \in Coroutines : ~Queueing(c) /\ ~Holding(c)
      BY <1>5, <1>6, <1>7, <2>3 DEF Queueing, Holding
    <2>. QED
      BY <2>1, <2>2, <2>4 DEF LockInv, Init
  <1>14. Rest /\ SessionInv /\ SubInv /\ UnsubInv /\ ConnInv
    BY <1>10 DEF Init, Rest, SessionInv, SubInv, UnsubInv, ConnInv
  <1>. QED
    BY <1>8, <1>9, <1>12, <1>13, <1>14 DEF HostInv

\* Every step keeps the invariant.
LEMMA RunKeeps ==
    ASSUME HostInv, Run
    PROVE  HostInv'
  BY SendStartStep, SendNoLoginStep, SendPostedStep, SendCleanedStep, SendAgainStep,
     SendHandledStep, LoginStartStep, LoginTriesPortsStep, LoginTriedStep, LoginLockedStep,
     LoginLoggedOutStep, LoginLoggedInStep, LogoutStartStep, LogoutLockedStep, LogoutDoneStep,
     ExpireStartStep, ExpireDoneStep, SubSendStartStep, SubSendAskedStep, SubSendPostedStep,
     UnsubscribeStartStep, UnsubscribeSentStep, SubscribeStartStep, SubscribeSentStep,
     SubscribeUndoneStep, RenewStartStep, RenewSentStep, RenewUndoneStep, HostDataStep,
     AsksStep, OnlyExecStill, RtspSourceStep, ConnectingStep, ConnectFailsStep, CheckingStep,
     StopSteps, SnappingStep, PollingStep, DisconnectingStep
  DEF Run, GetStates, GetState

LEMMA HostKeeps ==
    ASSUME HostInv, [Next]_vars
    PROVE  HostInv'
  <1>1. CASE Run
    BY <1>1, RunKeeps
  <1>2. CASE \E c \in Coroutines : Wake(c)
    BY <1>2, PostQueuedStep, RespondStep, PostAnsweredStep, LocksStep DEF Wake
  <1>3. CASE CheckStart \/ RequestStart("snap", "snap") \/ RequestStart("poll", "poll")
             \/ Disconnect
    BY <1>3, BeginSteps
  <1>4. CASE LoopStops
    BY <1>4, StopSteps
  <1>5. CASE LeaseEnds \/ TermPasses \/ CameraForgets \/ CameraRestarts
    BY <1>5, TimeSteps
  <1>6. CASE UNCHANGED vars
    <2>1. /\ UNCHANGED <<stack, ret, turn, sendq, loginq, cut, token, lease, manager, term,
                         suburl, sessions, subs, conn, astray, crossed>>
      BY <1>6 DEF vars, exec, locks, aio, session, events, camera
    <2>2. Rest' /\ sessions' \subseteq sessions /\ subs' \subseteq subs
      BY <2>1 DEF HostInv, Rest
    <2>. QED
      BY <2>1, <2>2, TimeStep
  <1>. QED
    BY <1>1, <1>2, <1>3, <1>4, <1>5, <1>6 DEF Next

\* The invariant holds of every state: the stacks nest as the functions call each other,
\* the locks are held by the frames that took them, and whatever the camera holds is known
\* to the service, on its way to it, or known to be lost.
THEOREM HostInvariance == Spec => []HostInv
  <1>1. HostInv /\ [Next]_vars => HostInv'
    BY HostKeeps
  <1>. QED
    BY <1>1, HostStarts, PTL DEF Spec

\* The state has its type, and no coroutine is twice in the queue of a lock.
THEOREM HostTypeCorrect == Spec => []TypeOK
  <1>1. HostInv => TypeOK
    <2>. SUFFICES ASSUME HostInv PROVE TypeOK
      OBVIOUS
    <2>1. \A c \in Coroutines : \A f \in Range(stack[c]) :
             f.cmd \in Commands \cup Events \cup {"none"} /\ f.retry \in 0 .. Retries
      <3>1. SUFFICES ASSUME NEW c \in Coroutines, NEW f \in Range(stack[c])
                     PROVE  IsFrame(f)
        BY DEF IsFrame
      <3>2. PICK i \in DOMAIN stack[c] : f = stack[c][i]
        BY <3>1 DEF Range
      <3>3. DOMAIN stack[c] = 1 .. Len(stack[c])
        BY DEF HostInv, StackInv, Shape, IsStack
      <3>. QED
        BY <3>2, <3>3 DEF HostInv, StackInv, Shape
    <2>2. \A q \in {sendq, loginq} : Range(q) \subseteq Coroutines /\ IsInjective(q)
      <3>1. ASSUME NEW q \in Seq(Coroutines) PROVE Range(q) \subseteq Coroutines
        BY DEF Range
      <3>. QED
        BY <3>1 DEF HostInv, LockInv
    <2>3. ret.kind \in Kinds /\ turn \in Coroutines \cup {Nobody, Stopped}
      BY DEF HostInv, RetInv
    <2>. QED
      BY <2>1, <2>2, <2>3 DEF HostInv, Rest, TypeOK
  <1>. QED
    BY <1>1, HostInvariance, PTL

\* Once nobody is at work the camera holds no session and no subscription but those the
\* service knows of, however logins, renewals, retries and requests overlapped and failed,
\* for any number of retries and of faults.
THEOREM NoneEverLeftBehind == Spec => []NoneLeftBehind
  <1>1. HostInv => NoneLeftBehind
    <2>. SUFFICES ASSUME HostInv, Quiet, ~astray
                  PROVE  sessions \subseteq {token} /\ (crossed \/ subs \subseteq {manager})
      BY DEF NoneLeftBehind
    <2>1. turn \notin Coroutines
      BY DEF Quiet, Nobody, Coroutines
    <2>2. \A s : ~Arrived(s) /\ ~Coming(s)
      BY <2>1 DEF Arrived, Coming, Answered, Quiet
    <2>. QED
      BY <2>2 DEF HostInv, SessionInv, SubInv
  <1>. QED
    BY <1>1, HostInvariance, PTL

=============================================================================
