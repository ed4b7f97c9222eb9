-------------------------- MODULE SonosCtrl_proofs --------------------------
(***************************************************************************)
(* What the controller of the speakers guarantees for any number of        *)
(* requests at a time, any speakers, and however answers, outages and      *)
(* groups that change come between the steps of a request.                 *)
(***************************************************************************)
EXTENDS SonosCtrl, FiniteSetTheorems, TLAPS

-----------------------------------------------------------------------------
(* The inductive invariant *)

Counts == [requests : 0 .. MaxRequests, changes : 0 .. MaxChanges, outages : 0 .. MaxOutages]

Types ==
    /\ thread \in [Threads -> Thread]
    /\ lock \in BOOLEAN
    /\ coord \in Speakers \cup {None}
    /\ ready \in BOOLEAN
    /\ context \in Song
    /\ known \in BOOLEAN
    /\ auth \in {"none", "expired", "valid"}
    /\ asks \in Nat
    /\ answers \in Seq(Song)
    /\ now \in Song
    /\ leader \in [Speakers -> Speakers]
    /\ playing \subseteq Speakers
    /\ paused \subseteq Speakers
    /\ unlucky \subseteq Threads
    /\ crossed \subseteq Threads
    /\ hushed \subseteq Speakers
    /\ count \in Counts
    /\ now.at = count.changes

\* The lock is that of the one thread that hijacks, which knows who will lead once
\* it has found speakers.
LockInv ==
    /\ lock <=> \E t \in Threads : Hijacking(t)
    /\ \A t, u \in Threads : Hijacking(t) /\ Hijacking(u) => t = u
    /\ \A t \in Threads : thread[t].at = "idle" => thread[t].op = "none"
    /\ \A t \in Threads : Hijacking(t) /\ thread[t].at \in {"reset", "group", "play"}
                             => thread[t].head \in Speakers
    /\ \A t \in Threads : thread[t].op = "stop" => thread[t].at = "reset"

\* Each request asks at most once.
Owing == {t \in Threads : thread[t].at \in {"ask", "query"}}

AsksInv == asks + Cardinality(Owing) <= count.requests

\* A thread that asked is not answered with anything older, unless that was on its
\* way; and it need not wait unless its answer is still to come.
Asking(t) == thread[t].at \in {"asked", "waits", "answered"}

ContextInv ==
    /\ \A t \in Threads : thread[t].since <= now.at
    /\ \A t \in Threads : Asking(t) /\ t \notin crossed =>
          \A i \in 1 .. Len(answers) : answers[i].at >= thread[t].since
    /\ \A t \in Threads : thread[t].at = "asked" /\ ready /\ t \notin crossed =>
          context.at >= thread[t].since

ComingInv ==
    \A t \in Threads : thread[t].at = "asked" =>
        ready \/ asks > 0 \/ answers # <<>> \/ t \in unlucky

\* Who leads a group is in it, and only who leads can play.
LeaderInv ==
    /\ \A s \in Speakers : leader[leader[s]] = leader[s]
    /\ \A s \in playing \cup paused : leader[s] = s
    /\ playing \cap paused = {}

Alone(s) == Group(s) = {s}

\* While a stop goes smoothly, nobody joins the speakers it found; those that left
\* their group are alone, and those that were stopped too do not play.
StopInv ==
    \A t \in Threads : thread[t].op = "stop" /\ thread[t].smooth =>
        /\ ~lock
        /\ \A s \in thread[t].found :
              /\ s \notin thread[t].unjoin => Alone(s)
              /\ s \notin thread[t].unjoin \cup thread[t].halt => s \notin playing

HushedInv ==
    /\ lock => hushed = {}
    /\ \A s \in hushed : Alone(s) /\ s \notin playing

SonosInv ==
    /\ Types /\ LockInv /\ AsksInv
    /\ ContextInv /\ FreshContext /\ ComingInv /\ AnswerIsComing
    /\ LeaderInv /\ StopInv /\ HushedInv

-----------------------------------------------------------------------------
(* Types *)

LEMMA IdleIsThread == Idle \in Thread
  BY SonosAssumption DEF Idle, Thread, Op, Place

LEMMA SetThread ==
    ASSUME thread \in [Threads -> Thread], NEW t \in Threads, NEW r \in Thread,
           thread' = [thread EXCEPT ![t] = r]
    PROVE  /\ thread' \in [Threads -> Thread]
           /\ thread'[t] = r
           /\ \A u \in Threads \ {t} : thread'[u] = thread[u]
  OBVIOUS

LEMMA CountChange ==
    ASSUME count \in Counts
    PROVE  /\ Outage => /\ count' \in Counts
                        /\ count'.requests = count.requests /\ count'.changes = count.changes
           /\ \A t \in Threads : Request(t) =>
                        /\ count' \in Counts
                        /\ count'.requests = count.requests + 1 /\ count'.changes = count.changes
  BY SonosAssumption DEF Counts, Outage, Request

\* What the end of a request does.
LEMMA EndsThread ==
    ASSUME Types, NEW t \in Threads, Ends(t)
    PROVE  /\ thread' \in [Threads -> Thread]
           /\ thread'[t] = Idle
           /\ \A u \in Threads \ {t} : thread'[u] = thread[u]
           /\ unlucky' = unlucky \ {t} /\ crossed' = crossed \ {t}
  BY IdleIsThread, SetThread DEF Ends, Types

\* What the start of a hijack does.
Begun == [Idle EXCEPT !.op = "hijack", !.at = "ask"]

Mute(r) == [r EXCEPT !.smooth = FALSE]

LEMMA MuteThread ==
    ASSUME NEW r \in Thread
    PROVE  /\ Mute(r) \in Thread
           /\ Mute(r).op = r.op /\ Mute(r).at = r.at /\ Mute(r).since = r.since
           /\ Mute(r).head = r.head /\ Mute(r).smooth = FALSE
  BY DEF Mute, Thread

LEMMA BegunThread ==
    /\ Begun \in Thread /\ Begun.op = "hijack" /\ Begun.at = "ask"
    /\ Begun.since = 0 /\ Begun.head = None
  <1>1. Idle \in Thread /\ Idle.since = 0 /\ Idle.head = None
    BY IdleIsThread DEF Idle
  <1>. HIDE DEF Idle
  <1>. QED
    BY <1>1 DEF Begun, Thread, Op, Place

LEMMA DisturbThread ==
    ASSUME Types, NEW t \in Threads, NEW r \in Thread,
           thread' = [Disturbed(thread) EXCEPT ![t] = r]
    PROVE  /\ thread' \in [Threads -> Thread]
           /\ thread'[t] = r
           /\ \A u \in Threads \ {t} : thread'[u] = Mute(thread[u])
  <1>1. Disturbed(thread) = [u \in Threads |-> Mute(thread[u])]
    BY DEF Disturbed, Mute
  <1>2. \A u \in Threads : Mute(thread[u]) \in Thread
    BY MuteThread DEF Types
  <1>. QED
    BY <1>1, <1>2

LEMMA StartHijackThread ==
    ASSUME Types, NEW t \in Threads, StartHijack(t)
    PROVE  /\ thread' \in [Threads -> Thread]
           /\ thread'[t] = Begun
           /\ \A u \in Threads \ {t} : thread'[u] = Mute(thread[u])
           /\ ~lock /\ lock' = TRUE /\ hushed' = {}
  <1>1. thread' = [Disturbed(thread) EXCEPT ![t] = Begun]
    BY DEF StartHijack, Begun
  <1>2. ~lock /\ lock' = TRUE /\ hushed' = {}
    BY DEF StartHijack
  <1>. QED
    BY <1>1, <1>2, BegunThread, DisturbThread

\* What a step of a thread that goes on does to it.
LEMMA GoesThread ==
    ASSUME Types, NEW t \in Threads, NEW at \in Place, Goes(t, at)
    PROVE  /\ thread' \in [Threads -> Thread]
           /\ thread'[t] = [thread[t] EXCEPT !.at = at]
           /\ \A u \in Threads \ {t} : thread'[u] = thread[u]
  <1>1. thread[t] \in Thread
    BY DEF Types
  <1>2. [thread[t] EXCEPT !.at = at] \in Thread
    BY <1>1 DEF Thread
  <1>. QED
    BY <1>2, SetThread DEF Goes, Types

-----------------------------------------------------------------------------
(* What a step does to the threads: it ends a request, starts a hijack or another
   request, or goes on with one; all other threads are where they were. *)

Keeps(u) ==
    /\ thread'[u].op = thread[u].op /\ thread'[u].at = thread[u].at
    /\ thread'[u].since = thread[u].since /\ thread'[u].head = thread[u].head

OthersKeep(t) ==
    \A u \in Threads \ {t} :
        /\ Keeps(u)
        /\ u \in crossed' <=> u \in crossed
        /\ u \in unlucky => u \in unlucky'

StepEnds(t) ==
    /\ thread'[t] = Idle
    /\ lock' <=> lock /\ ~Hijacking(t)
    /\ asks' = asks /\ count'.requests = count.requests

StepBegins(t) ==
    /\ ~lock /\ lock'
    /\ thread'[t] = Begun
    /\ asks' = asks
    /\ \/ count'.requests = count.requests + 1
       \/ count'.requests = count.requests /\ thread[t].at = "query"

StepOpens(t) ==
    /\ thread[t].at = "idle"
    /\ lock' <=> lock
    /\ thread'[t].since = 0
    /\ \/ thread'[t].op = "context" /\ thread'[t].at = "ask"
       \/ thread'[t].op = "toggle" /\ thread'[t].at = "query"
       \/ thread'[t].op = "stop" /\ thread'[t].at = "reset"
    /\ asks' = asks /\ count'.requests = count.requests + 1

Found == {"reset", "group", "play"}

StepGoes(t) ==
    /\ thread[t].at # "idle"
    /\ lock' <=> lock
    /\ thread'[t].op = thread[t].op
    /\ thread'[t].at \in Place \ {"idle", "ask", "query"}
    /\ thread'[t].since \in {thread[t].since, 0, now.at}
    /\ thread[t].op = "stop" => thread'[t].at = thread[t].at
    /\ \/ thread'[t].head \in Speakers
       \/ /\ thread'[t].head = thread[t].head
          /\ thread'[t].at \in Found => thread[t].at \in Found
    /\ asks' = asks \/ (asks' = asks + 1 /\ thread[t].at = "ask")
    /\ count'.requests = count.requests

ThreadStep(t) ==
    /\ thread' \in [Threads -> Thread]
    /\ OthersKeep(t)
    /\ StepEnds(t) \/ StepBegins(t) \/ StepOpens(t) \/ StepGoes(t)

LEMMA EndsStep ==
    ASSUME Types, LockInv, NEW t \in Threads, Ends(t),
           lock' <=> lock /\ ~Hijacking(t), asks' = asks, count'.requests = count.requests
    PROVE  ThreadStep(t)
  <1>1. OthersKeep(t)
    BY EndsThread DEF OthersKeep, Keeps
  <1>2. StepEnds(t)
    BY EndsThread DEF StepEnds
  <1>. QED
    BY <1>1, <1>2, EndsThread DEF ThreadStep

LEMMA ReleasesStep ==
    ASSUME Types, LockInv, NEW t \in Threads, Hijacking(t), NEW c, Releases(t, c),
           asks' = asks, count'.requests = count.requests
    PROVE  ThreadStep(t)
  <1>1. Ends(t) /\ (lock' <=> lock /\ ~Hijacking(t))
    BY DEF Releases
  <1>. QED
    BY <1>1, EndsStep

LEMMA ReturnsNothingStep ==
    ASSUME Types, LockInv, NEW t \in Threads, ReturnsNothing(t),
           asks' = asks, count'.requests = count.requests
    PROVE  ThreadStep(t)
  BY EndsStep, ReleasesStep DEF ReturnsNothing

LEMMA BeginsStep ==
    ASSUME Types, NEW t \in Threads, StartHijack(t), UNCHANGED <<unlucky, crossed>>, asks' = asks,
           \/ count'.requests = count.requests + 1
           \/ count'.requests = count.requests /\ thread[t].at = "query"
    PROVE  ThreadStep(t)
  <1>1. /\ thread' \in [Threads -> Thread] /\ thread'[t] = Begun
        /\ \A u \in Threads \ {t} : thread'[u] = Mute(thread[u])
        /\ ~lock /\ lock' = TRUE
    BY StartHijackThread
  <1>2. OthersKeep(t)
    <2>1. ASSUME NEW u \in Threads \ {t} PROVE Keeps(u)
      <3>1. thread[u] \in Thread /\ thread'[u] = Mute(thread[u])
        BY <1>1 DEF Types
      <3>. QED
        BY <3>1, MuteThread DEF Keeps
    <2>. QED
      BY <2>1 DEF OthersKeep
  <1>. QED
    BY <1>1, <1>2 DEF ThreadStep, StepBegins

LEMMA OpensStep ==
    ASSUME Types, NEW t \in Threads, Request(t), UNCHANGED <<unlucky, crossed, lock, asks>>,
           NEW r \in Thread, thread' = [thread EXCEPT ![t] = r], r.since = 0,
           \/ r.op = "context" /\ r.at = "ask"
           \/ r.op = "toggle" /\ r.at = "query"
           \/ r.op = "stop" /\ r.at = "reset"
    PROVE  ThreadStep(t)
  <1>1. thread[t].at = "idle" /\ count'.requests = count.requests + 1
    BY CountChange DEF Request, Types
  <1>2. /\ thread' \in [Threads -> Thread] /\ thread'[t] = r
        /\ \A u \in Threads \ {t} : thread'[u] = thread[u]
    BY SetThread DEF Types
  <1>3. OthersKeep(t)
    BY <1>2 DEF OthersKeep, Keeps
  <1>4. StepOpens(t)
    BY <1>1, <1>2 DEF StepOpens
  <1>. QED
    BY <1>2, <1>3, <1>4 DEF ThreadStep

LEMMA GoesOnStep ==
    ASSUME Types, NEW t \in Threads, thread[t].at # "idle", UNCHANGED lock,
           NEW r \in Thread, thread' = [thread EXCEPT ![t] = r],
           r.op = thread[t].op, r.at \notin {"idle", "ask", "query"},
           r.since \in {thread[t].since, 0, now.at},
           thread[t].op = "stop" => r.at = thread[t].at,
           \/ r.head \in Speakers
           \/ r.head = thread[t].head /\ (r.at \in Found => thread[t].at \in Found),
           asks' = asks \/ (asks' = asks + 1 /\ thread[t].at = "ask"),
           count'.requests = count.requests,
           \A u \in Threads \ {t} : u \in crossed' <=> u \in crossed,
           \A u \in Threads \ {t} : u \in unlucky => u \in unlucky'
    PROVE  ThreadStep(t)
  <1>1. /\ thread' \in [Threads -> Thread] /\ thread'[t] = r
        /\ \A u \in Threads \ {t} : thread'[u] = thread[u]
    BY SetThread DEF Types
  <1>2. r.at \in Place
    BY DEF Thread
  <1>. QED
    BY <1>1, <1>2 DEF ThreadStep, OthersKeep, Keeps, StepGoes

\* The steps that end a request.
LEMMA EndSteps ==
    ASSUME Types, LockInv, NEW t \in Threads,
           \/ AskRaises(t) \/ TimeOut(t) \/ ReturnContext(t) \/ Play(t) \/ GiveUp(t) \/ Break(t)
           \/ Pause(t) \/ StopEnds(t)
    PROVE  ThreadStep(t)
  <1>. USE DEF spotify, event
  <1>1. CASE AskRaises(t)
    <2>1. ReturnsNothing(t) /\ asks' = asks /\ count' = count
      BY <1>1 DEF AskRaises
    <2>2. CASE Hijacking(t)
      <3>1. /\ thread' = [thread EXCEPT ![t] = Idle] /\ lock' = FALSE /\ crossed' = crossed \ {t}
            /\ unlucky' = (unlucky \cup Waiting) \ {t}
        BY <1>1, <2>1, <2>2 DEF AskRaises, ReturnsNothing, Releases, Ends
      <3>. QED
        BY <2>1, <2>2, <3>1, SetThread, IdleIsThread
        DEF Types, ThreadStep, OthersKeep, Keeps, StepEnds
    <2>3. CASE ~Hijacking(t)
      BY <2>1, <2>3, ReturnsNothingStep
    <2>. QED
      BY <2>2, <2>3
  <1>2. CASE TimeOut(t)
    BY <1>2, ReturnsNothingStep DEF TimeOut
  <1>3. CASE ReturnContext(t)
    <2>1. Ends(t) /\ UNCHANGED <<lock, asks, count>> /\ ~Hijacking(t)
      BY <1>3 DEF ReturnContext, At, Hijacking
    <2>. QED
      BY <2>1, EndsStep
  <1>4. CASE Play(t) \/ GiveUp(t) \/ Break(t)
    <2>1. Hijacking(t) /\ asks' = asks /\ count'.requests = count.requests
      BY <1>4, CountChange DEF Play, GiveUp, Break, At, Hijacking, Types
    <2>2. \E c : Releases(t, c)
      BY <1>4 DEF Play, GiveUp, Break
    <2>. QED
      BY <2>1, <2>2, ReleasesStep
  <1>5. CASE Pause(t) \/ StopEnds(t)
    <2>1. Ends(t) /\ UNCHANGED <<lock, asks, count>> /\ ~Hijacking(t)
      BY <1>5 DEF Pause, StopEnds, At, Hijacking
    <2>. QED
      BY <2>1, EndsStep
  <1>. QED
    BY <1>1, <1>2, <1>3, <1>4, <1>5

LEMMA ResumeStep ==
    ASSUME Types, LockInv, NEW t \in Threads, Resume(t)
    PROVE  ThreadStep(t)
  <1>1. thread' = [Disturbed(thread) EXCEPT ![t] = Idle]
    BY DEF Resume
  <1>2. /\ thread' \in [Threads -> Thread] /\ thread'[t] = Idle
        /\ \A u \in Threads \ {t} : thread'[u] = Mute(thread[u])
    BY <1>1, DisturbThread, IdleIsThread
  <1>3. UNCHANGED <<lock, asks, count, crossed, unlucky>> /\ ~Hijacking(t)
    BY DEF Resume, At, Hijacking, spotify
  <1>4. OthersKeep(t)
    <2>1. ASSUME NEW u \in Threads \ {t} PROVE Keeps(u)
      <3>1. thread[u] \in Thread /\ thread'[u] = Mute(thread[u])
        BY <1>2 DEF Types
      <3>. QED
        BY <3>1, MuteThread DEF Keeps
    <2>. QED
      BY <1>3, <2>1 DEF OthersKeep
  <1>5. StepEnds(t)
    BY <1>2, <1>3 DEF StepEnds
  <1>. QED
    BY <1>2, <1>4, <1>5 DEF ThreadStep

\* The steps that start one.
LEMMA RequestSteps ==
    ASSUME Types, LockInv, NEW t \in Threads,
           RequestHijack(t) \/ RequestContext(t) \/ RequestToggle(t) \/ RequestStop(t)
    PROVE  ThreadStep(t)
  <1>. USE DEF spotify, history
  <1>1. count'.requests = count.requests + 1 /\ asks' = asks /\ UNCHANGED <<unlucky, crossed>>
    BY CountChange DEF RequestHijack, RequestContext, RequestToggle, RequestStop, Types
  <1>2. CASE StartHijack(t)
    BY <1>1, <1>2, BeginsStep
  <1>3. Idle \in Thread /\ Idle.since = 0
    BY IdleIsThread DEF Idle
  <1>4. CASE RequestContext(t)
    <2>. DEFINE r == [Idle EXCEPT !.op = "context", !.at = "ask"]
    <2>1. Request(t) /\ thread' = [thread EXCEPT ![t] = r] /\ UNCHANGED lock
      BY <1>4 DEF RequestContext
    <2>2. r \in Thread /\ r.since = 0 /\ r.op = "context" /\ r.at = "ask"
      BY <1>3 DEF Thread, Op, Place
    <2>. HIDE DEF r
    <2>. QED
      BY <1>1, <2>1, <2>2, OpensStep
  <1>5. CASE RequestToggle(t) /\ coord # None
    <2>. DEFINE r == [Idle EXCEPT !.op = "toggle", !.at = "query"]
    <2>1. Request(t) /\ thread' = [thread EXCEPT ![t] = r] /\ UNCHANGED lock
      BY <1>5 DEF RequestToggle
    <2>2. r \in Thread /\ r.since = 0 /\ r.op = "toggle" /\ r.at = "query"
      BY <1>3 DEF Thread, Op, Place
    <2>. HIDE DEF r
    <2>. QED
      BY <1>1, <2>1, <2>2, OpensStep
  <1>6. CASE RequestStop(t)
    <2>. DEFINE r == [Idle EXCEPT !.op = "stop", !.at = "reset", !.smooth = ~lock,
                                  !.found = Group(coord), !.unjoin = Group(coord)]
    <2>1. Request(t) /\ thread' = [thread EXCEPT ![t] = r] /\ UNCHANGED lock
      BY <1>6 DEF RequestStop
    <2>2. r \in Thread /\ r.since = 0 /\ r.op = "stop" /\ r.at = "reset"
      <3>1. Group(coord) \in SUBSET Speakers
        BY DEF Group
      <3>. QED
        BY <1>3, <3>1 DEF Thread, Op, Place, Types
    <2>. HIDE DEF r
    <2>. QED
      BY <1>1, <2>1, <2>2, OpensStep
  <1>. QED
    BY <1>2, <1>4, <1>5, <1>6 DEF RequestHijack, RequestToggle

\* The steps of a question.
LEMMA QuestionSteps ==
    ASSUME Types, LockInv, NEW t \in Threads, Ask(t) \/ Wait(t)
    PROVE  ThreadStep(t)
  <1>1. thread[t] \in Thread /\ now.at \in 0 .. MaxChanges
    BY DEF Types, Song
  <1>2. CASE Ask(t)
    <2>. DEFINE r == [thread[t] EXCEPT !.at = "asked", !.since = now.at]
    <2>1. /\ thread' = [thread EXCEPT ![t] = r] /\ UNCHANGED <<lock, count, unlucky>>
          /\ asks' = asks + 1 /\ thread[t].at = "ask"
          /\ \A u \in Threads \ {t} : u \in crossed' <=> u \in crossed
      BY <1>2 DEF Ask, Types
    <2>2. /\ r \in Thread /\ r.op = thread[t].op /\ r.at = "asked"
          /\ r.since = now.at /\ r.head = thread[t].head
      BY <1>1 DEF Thread, Place
    <2>3. thread[t].op # "stop"
      BY <2>1 DEF LockInv
    <2>. HIDE DEF r
    <2>. QED
      BY <2>1, <2>2, <2>3, GoesOnStep DEF Found
  <1>3. CASE Wait(t)
    <2>. DEFINE to == IF ready THEN "answered" ELSE "waits"
                r == [thread[t] EXCEPT !.at = to]
    <2>1. /\ thread' = [thread EXCEPT ![t] = r] /\ UNCHANGED <<lock, asks, count, unlucky, crossed>>
          /\ thread[t].at = "asked"
      BY <1>3, SetThread DEF Wait, Goes, spotify, history, Types
    <2>2. to \in {"answered", "waits"}
      OBVIOUS
    <2>. HIDE DEF to
    <2>3. /\ r \in Thread /\ r.op = thread[t].op /\ r.at = to
          /\ r.since = thread[t].since /\ r.head = thread[t].head
      BY <1>1, <2>2 DEF Thread, Place
    <2>4. thread[t].op # "stop"
      BY <2>1 DEF LockInv
    <2>. HIDE DEF r
    <2>. QED
      BY <2>1, <2>2, <2>3, <2>4, GoesOnStep DEF Found
  <1>. QED
    BY <1>2, <1>3

\* The steps of a reset.
LEMMA ResetSteps ==
    ASSUME Types, LockInv, NEW t \in Threads, ResetUnjoin(t) \/ ResetHalt(t) \/ ResetFails(t)
    PROVE  ThreadStep(t)
  <1>1. thread[t] \in Thread /\ thread[t].at = "reset"
    BY DEF Types, ResetUnjoin, ResetHalt, ResetFails
  <1>2. UNCHANGED <<lock, asks, unlucky, crossed>> /\ count'.requests = count.requests
    BY CountChange DEF ResetUnjoin, ResetHalt, ResetFails, spotify, history, Types
  <1>3. ASSUME NEW a \in SUBSET Speakers, NEW b \in SUBSET Speakers, NEW c \in BOOLEAN,
               thread' = [thread EXCEPT ![t].unjoin = a, ![t].halt = b, ![t].smooth = c]
        PROVE  ThreadStep(t)
    <2>. DEFINE r == [thread[t] EXCEPT !.unjoin = a, !.halt = b, !.smooth = c]
    <2>1. /\ r \in Thread /\ r.op = thread[t].op /\ r.at = "reset"
          /\ r.since = thread[t].since /\ r.head = thread[t].head
      BY <1>1 DEF Thread
    <2>2. thread' = [thread EXCEPT ![t] = r]
      BY <1>3 DEF Types
    <2>. HIDE DEF r
    <2>. QED
      BY <1>1, <1>2, <2>1, <2>2, GoesOnStep DEF Found
  <1>. DEFINE one == thread[t]
  <1>4. /\ one.unjoin \in SUBSET Speakers /\ one.halt \in SUBSET Speakers
        /\ one.smooth \in BOOLEAN
    BY <1>1 DEF Thread
  <1>5. ASSUME NEW s \in one.unjoin,
               thread' = [thread EXCEPT ![t].unjoin = @ \ {s}, ![t].halt = @ \cup {s}]
        PROVE  ThreadStep(t)
    <2>1. thread' = [thread EXCEPT ![t].unjoin = one.unjoin \ {s}, ![t].halt = one.halt \cup {s},
                                   ![t].smooth = one.smooth]
      BY <1>1, <1>5 DEF Types, Thread
    <2>2. one.unjoin \ {s} \in SUBSET Speakers /\ one.halt \cup {s} \in SUBSET Speakers
      BY <1>4
    <2>. HIDE DEF one
    <2>. QED
      BY <1>3, <1>4, <2>1, <2>2
  <1>6. ASSUME NEW s \in one.halt, thread' = [thread EXCEPT ![t].halt = @ \ {s}]
        PROVE  ThreadStep(t)
    <2>1. thread' = [thread EXCEPT ![t].unjoin = one.unjoin, ![t].halt = one.halt \ {s},
                                   ![t].smooth = one.smooth]
      BY <1>1, <1>6 DEF Types, Thread
    <2>2. one.halt \ {s} \in SUBSET Speakers
      BY <1>4
    <2>. HIDE DEF one
    <2>. QED
      BY <1>3, <1>4, <2>1, <2>2
  <1>7. ASSUME NEW s \in one.unjoin,
               thread' = [thread EXCEPT ![t].unjoin = @ \ {s}, ![t].halt = @ \cup {s},
                                        ![t].smooth = FALSE]
        PROVE  ThreadStep(t)
    <2>1. thread' = [thread EXCEPT ![t].unjoin = one.unjoin \ {s}, ![t].halt = one.halt \cup {s},
                                   ![t].smooth = FALSE]
      BY <1>7 DEF Types, Thread
    <2>2. one.unjoin \ {s} \in SUBSET Speakers /\ one.halt \cup {s} \in SUBSET Speakers
      BY <1>4
    <2>. HIDE DEF one
    <2>. QED
      BY <1>3, <2>1, <2>2
  <1>8. ASSUME NEW s \in one.halt,
               thread' = [thread EXCEPT ![t].halt = @ \ {s}, ![t].smooth = FALSE]
        PROVE  ThreadStep(t)
    <2>1. thread' = [thread EXCEPT ![t].unjoin = one.unjoin, ![t].halt = one.halt \ {s},
                                   ![t].smooth = FALSE]
      BY <1>1, <1>8 DEF Types, Thread
    <2>2. one.halt \ {s} \in SUBSET Speakers
      BY <1>4
    <2>. HIDE DEF one
    <2>. QED
      BY <1>3, <1>4, <2>1, <2>2
  <1>. QED
    BY <1>5, <1>6, <1>7, <1>8 DEF ResetUnjoin, ResetHalt, ResetFails

\* The steps of a hijack that was answered, and of the button.
LEMMA HijackSteps ==
    ASSUME Types, LockInv, NEW t \in Threads,
           ReadContext(t) \/ Discover(t) \/ HijackReset(t) \/ Join(t) \/ Query(t)
    PROVE  ThreadStep(t)
  <1>. USE DEF spotify, event, history
  <1>1. thread[t] \in Thread
    BY DEF Types
  <1>2. asks' = asks /\ count'.requests = count.requests
    BY CountChange DEF ReadContext, Discover, HijackReset, Join, Query, Types
  <1>3. CASE ReadContext(t) \/ Discover(t)
    <2>1. Hijacking(t) /\ thread[t].at \in {"answered", "discover"}
      BY <1>3 DEF ReadContext, Discover, At, Hijacking
    <2>2. ASSUME NEW c, Releases(t, c) PROVE ThreadStep(t)
      BY <1>2, <2>1, <2>2, ReleasesStep
    <2>3. CASE ReadContext(t) /\ HasUri(context)
      <3>. DEFINE r == [thread[t] EXCEPT !.at = "discover", !.since = 0]
      <3>1. /\ thread' = [thread EXCEPT ![t] = r] /\ UNCHANGED <<lock, unlucky>>
            /\ crossed' = crossed \ {t}
        BY <2>3 DEF ReadContext, Types
      <3>2. /\ r \in Thread /\ r.op = thread[t].op /\ r.at = "discover"
            /\ r.since = 0 /\ r.head = thread[t].head
        <4>1. 0 \in 0 .. MaxChanges
          BY SonosAssumption
        <4>. QED
          BY <1>1, <4>1 DEF Thread, Place
      <3>3. thread[t].at # "idle" /\ thread[t].op # "stop"
        BY <2>1 DEF Hijacking
      <3>. HIDE DEF r
      <3>. QED
        BY <1>2, <3>1, <3>2, <3>3, GoesOnStep DEF Found
    <2>4. ASSUME Discover(t), NEW found \in SUBSET Speakers, NEW head \in found,
                 thread' = [thread EXCEPT ![t].at = "reset", ![t].head = head,
                                          ![t].found = found, ![t].unjoin = found],
                 UNCHANGED <<lock, unlucky, crossed>>
          PROVE  ThreadStep(t)
      <3>. DEFINE r == [thread[t] EXCEPT !.at = "reset", !.head = head,
                                         !.found = found, !.unjoin = found]
      <3>1. thread' = [thread EXCEPT ![t] = r]
        BY <2>4 DEF Types
      <3>2. /\ r \in Thread /\ r.op = thread[t].op /\ r.at = "reset"
            /\ r.since = thread[t].since /\ r.head \in Speakers
        BY <1>1, <2>4 DEF Thread, Place
      <3>3. thread[t].at # "idle" /\ thread[t].op # "stop"
        BY <2>1 DEF Hijacking
      <3>. HIDE DEF r
      <3>. QED
        BY <1>2, <2>4, <3>1, <3>2, <3>3, GoesOnStep DEF Found
    <2>. QED
      BY <1>3, <2>2, <2>3, <2>4 DEF ReadContext, Discover
  <1>4. CASE HijackReset(t) \/ Join(t)
    <2>1. \E found \in {thread[t].found, {}}, at \in {"group", "play"} :
             thread' = [thread EXCEPT ![t].at = at, ![t].found = found]
      <3>1. CASE HijackReset(t)
        BY <1>1, <3>1 DEF HijackReset, Goes, Types, Thread
      <3>2. CASE Join(t)
        BY <3>2 DEF Join
      <3>. QED
        BY <1>4, <3>1, <3>2
    <2>2. PICK found \in {thread[t].found, {}}, at \in {"group", "play"} :
             thread' = [thread EXCEPT ![t].at = at, ![t].found = found]
      BY <2>1
    <2>. DEFINE r == [thread[t] EXCEPT !.at = at, !.found = found]
    <2>3. thread' = [thread EXCEPT ![t] = r]
      BY <2>2 DEF Types
    <2>4. /\ r \in Thread /\ r.op = thread[t].op /\ r.at = at
          /\ r.since = thread[t].since /\ r.head = thread[t].head
      BY <1>1 DEF Thread, Place
    <2>5. /\ thread[t].at \in {"reset", "group"} /\ thread[t].op # "stop"
          /\ UNCHANGED <<lock, unlucky, crossed>>
      BY <1>4 DEF HijackReset, Join, IsReset, At, Hijacking
    <2>. HIDE DEF r
    <2>. QED
      BY <1>2, <2>3, <2>4, <2>5, GoesOnStep DEF Found
  <1>5. CASE Query(t)
    <2>1. thread[t].op = "toggle" /\ thread[t].at = "query" /\ ~Hijacking(t)
      BY <1>5 DEF Query, At, Hijacking
    <2>2. CASE Ends(t) /\ UNCHANGED lock
      BY <1>2, <2>1, <2>2, EndsStep
    <2>3. CASE StartHijack(t) /\ UNCHANGED <<unlucky, crossed>>
      BY <1>2, <2>1, <2>3, BeginsStep
    <2>4. ASSUME NEW at \in {"pause", "resume"}, Goes(t, at), UNCHANGED <<lock, unlucky, crossed>>
          PROVE  ThreadStep(t)
      <3>. DEFINE r == [thread[t] EXCEPT !.at = at]
      <3>1. thread' = [thread EXCEPT ![t] = r]
        BY <2>4 DEF Goes, Types
      <3>2. /\ r \in Thread /\ r.op = thread[t].op /\ r.at = at
            /\ r.since = thread[t].since /\ r.head = thread[t].head
        BY <1>1 DEF Thread, Place
      <3>. HIDE DEF r
      <3>. QED
        BY <1>2, <2>1, <2>4, <3>1, <3>2, GoesOnStep DEF Found
    <2>. QED
      BY <1>5, <2>2, <2>3, <2>4 DEF Query
  <1>. QED
    BY <1>3, <1>4, <1>5

\* The steps of the MQTT thread and of Spotify's service.
ElseStep ==
    /\ UNCHANGED <<thread, lock, crossed>>
    /\ unlucky \subseteq unlucky'
    /\ asks' \in Nat /\ asks' <= asks
    /\ count' \in Counts /\ count'.requests = count.requests
    /\ now' \in Song /\ now'.at = count'.changes

LEMMA ElseSteps ==
    ASSUME Types,
           \/ Publish \/ PublishNone \/ PublishRaises \/ Refresh \/ Expires
           \/ SpotifyLeaves \/ SpotifyReturns \/ \E media \in Media : Change(media)
           \/ UNCHANGED vars
    PROVE  ElseStep
  <1>1. UNCHANGED <<thread, lock, crossed>> /\ unlucky \subseteq unlucky'
    BY DEF Publish, PublishNone, Answers, PublishRaises, Refresh, Expires, SpotifyLeaves,
           SpotifyReturns, Change, vars, history
  <1>2. asks' \in Nat /\ asks' <= asks
    BY DEF Publish, PublishNone, Answers, PublishRaises, Refresh, Expires, SpotifyLeaves,
           SpotifyReturns, Change, vars, history, Types
  <1>3. /\ count' \in Counts /\ count'.requests = count.requests
        /\ now' \in Song /\ now'.at = count'.changes
    <2>1. CASE UNCHANGED <<count, now>>
      BY <2>1 DEF Types
    <2>2. CASE UNCHANGED now /\ count' \in Counts /\ count'.requests = count.requests
                /\ count'.changes = count.changes
      BY <2>2 DEF Types
    <2>3. ASSUME NEW media \in Media, Change(media)
          PROVE  /\ count' \in Counts /\ count'.requests = count.requests
                 /\ now' \in Song /\ now'.at = count'.changes
      <3>1. count' \in Counts /\ count'.requests = count.requests
            /\ count'.changes = count.changes + 1 /\ count'.changes \in 0 .. MaxChanges
        BY <2>3, SonosAssumption DEF Change, Counts, Types
      <3>2. now' = [media |-> media, at |-> now.at + 1]
        BY <2>3 DEF Change
      <3>. QED
        BY <3>1, <3>2 DEF Types, Song
    <2>4. CASE Expires \/ SpotifyLeaves
      BY <2>2, <2>4, CountChange DEF Expires, SpotifyLeaves, Types, Outage
    <2>5. CASE Refresh
      <3>1. count' = count \/ Outage
        BY <2>5, SonosAssumption DEF Refresh, Outage, Counts, Types
      <3>. QED
        BY <2>1, <2>2, <2>5, <3>1, CountChange DEF Refresh, Types
    <2>6. CASE Publish \/ PublishNone \/ PublishRaises \/ SpotifyReturns \/ UNCHANGED vars
      BY <2>1, <2>6 DEF Publish, PublishNone, Answers, PublishRaises, SpotifyReturns, vars
    <2>. QED
      BY <2>3, <2>4, <2>5, <2>6
  <1>. QED
    BY <1>1, <1>2, <1>3 DEF ElseStep

\* An answer moves all threads that wait.
LEMMA AnsweredThreads ==
    ASSUME Types, Answered
    PROVE  /\ thread' \in [Threads -> Thread]
           /\ UNCHANGED <<lock, asks, now, crossed, count, hushed>>
           /\ \A t \in Threads :
                 \/ thread'[t] = thread[t]
                 \/ thread[t].at = "waits" /\ thread'[t] = [thread[t] EXCEPT !.at = "answered"]
  <1>1. /\ UNCHANGED <<lock, asks, now, crossed, count, hushed>>
        /\ \/ thread' = thread
           \/ thread' = [t \in Threads |->
                            IF thread[t].at = "waits" THEN [thread[t] EXCEPT !.at = "answered"]
                            ELSE thread[t]]
    BY DEF Answered
  <1>2. \A t \in Threads : thread[t] \in Thread /\ [thread[t] EXCEPT !.at = "answered"] \in Thread
    BY DEF Types, Thread, Place
  <1>3. thread \in [Threads -> Thread]
    BY DEF Types
  <1>. QED
    BY <1>1, <1>2, <1>3

\* Every step, as far as threads are concerned.
LEMMA ThreadSteps ==
    ASSUME Types, LockInv, [Next]_vars
    PROVE  Answered \/ ElseStep \/ \E t \in Threads : ThreadStep(t)
  BY EndSteps, ResumeStep, RequestSteps, QuestionSteps, ResetSteps, HijackSteps, ElseSteps DEF Next

-----------------------------------------------------------------------------
(* Types and the lock *)

LEMMA ReplaceSpeaker ==
    ASSUME NEW set \in SUBSET Speakers, NEW s \in Speakers, NEW h \in Speakers
    PROVE  (IF s \in set THEN (set \ {s}) \cup {h} ELSE set) \in SUBSET Speakers
  OBVIOUS

LEMMA UnjoinTypes ==
    ASSUME Types, NEW s \in Speakers, Unjoin(s)
    PROVE  leader' \in [Speakers -> Speakers] /\ playing' \subseteq Speakers
           /\ paused' \subseteq Speakers
  <1>1. CASE UNCHANGED speakers
    BY <1>1 DEF speakers, Types
  <1>2. CASE leader' = [leader EXCEPT ![s] = s] /\ UNCHANGED <<playing, paused>>
    BY <1>2 DEF Types
  <1>3. ASSUME NEW heir \in Group(s) \ {s},
               leader' = [x \in Speakers |-> IF x \in Group(s) \ {s} THEN heir ELSE leader[x]],
               playing' = (IF s \in playing THEN (playing \ {s}) \cup {heir} ELSE playing),
               paused' = (IF s \in paused THEN (paused \ {s}) \cup {heir} ELSE paused)
        PROVE  leader' \in [Speakers -> Speakers] /\ playing' \subseteq Speakers
               /\ paused' \subseteq Speakers
    <2>1. heir \in Speakers
      BY DEF Group
    <2>2. leader' \in [Speakers -> Speakers]
      BY <1>3, <2>1 DEF Types
    <2>3. playing' \subseteq Speakers /\ paused' \subseteq Speakers
      BY <1>3, <2>1 DEF Types
    <2>. QED
      BY <2>2, <2>3
  <1>. QED
    BY <1>1, <1>2, <1>3 DEF Unjoin

LEMMA NextSpeakersType ==
    ASSUME Types, LockInv, [Next]_vars
    PROVE  leader' \in [Speakers -> Speakers] /\ playing' \subseteq Speakers
           /\ paused' \subseteq Speakers
  <1>. DEFINE P == leader' \in [Speakers -> Speakers] /\ playing' \subseteq Speakers
                   /\ paused' \subseteq Speakers
  <1>1. CASE UNCHANGED speakers
    BY <1>1 DEF speakers, Types
  <1>2. ASSUME NEW t \in Threads, ResetUnjoin(t) \/ ResetHalt(t) PROVE P
    <2>1. thread[t].unjoin \subseteq Speakers /\ thread[t].halt \subseteq Speakers
      BY DEF Types, Thread
    <2>2. ASSUME NEW s \in thread[t].halt, Halt(s) PROVE P
      BY <2>2 DEF Halt, Types
    <2>. QED
      BY <1>2, <2>1, <2>2, UnjoinTypes DEF ResetUnjoin, ResetHalt
  <1>3. ASSUME NEW t \in Threads, Join(t) PROVE P
    <2>1. thread[t].head \in Speakers
      BY <1>3 DEF Join, At, LockInv, Hijacking
    <2>2. leader[thread[t].head] \in Speakers
      BY <2>1 DEF Types
    <2>. QED
      BY <1>3, <2>2 DEF Join, Types
  <1>4. ASSUME NEW t \in Threads, Play(t) \/ GiveUp(t) PROVE P
    <2>1. thread[t].head \in Speakers
      BY <1>4 DEF Play, GiveUp, At, LockInv, Hijacking
    <2>. QED
      BY <1>4, <2>1 DEF Play, GiveUp, Starts, Types
  <1>5. ASSUME NEW t \in Threads, Pause(t) \/ Resume(t) PROVE P
    BY <1>5 DEF Pause, Resume, Leads, Types
  <1>6. ASSUME NEW t \in Threads,
               \/ RequestHijack(t) \/ RequestContext(t) \/ RequestToggle(t) \/ RequestStop(t)
               \/ Ask(t) \/ AskRaises(t) \/ Wait(t) \/ TimeOut(t) \/ ReturnContext(t)
               \/ ReadContext(t) \/ Discover(t) \/ HijackReset(t) \/ ResetFails(t) \/ Break(t)
               \/ Query(t) \/ StopEnds(t)
        PROVE  UNCHANGED speakers
    BY <1>6 DEF RequestHijack, RequestContext, RequestToggle, RequestStop, Ask, AskRaises, Wait,
       TimeOut, ReturnContext, ReadContext, Discover, HijackReset, ResetFails, Break, Query, StopEnds
  <1>7. ASSUME \/ Answered \/ Publish \/ PublishNone \/ PublishRaises
               \/ Refresh \/ Expires \/ SpotifyLeaves \/ SpotifyReturns
               \/ (\E media \in Media : Change(media)) \/ UNCHANGED vars
        PROVE  UNCHANGED speakers
    BY <1>7 DEF Answered, Publish, PublishNone, Answers, PublishRaises, Refresh, Expires,
       SpotifyLeaves, SpotifyReturns, Change, vars, speakers
  <1>. QED
    BY <1>1, <1>2, <1>3, <1>4, <1>5, <1>6, <1>7 DEF Next

\* The other steps leave what is asked, answered and known alone.
Unasked(t) ==
    \/ RequestHijack(t) \/ RequestContext(t) \/ RequestToggle(t) \/ RequestStop(t)
    \/ TimeOut(t) \/ ReturnContext(t)
    \/ ReadContext(t) \/ Discover(t) \/ HijackReset(t) \/ Join(t) \/ Play(t) \/ GiveUp(t)
    \/ ResetUnjoin(t) \/ ResetHalt(t) \/ ResetFails(t) \/ Break(t)
    \/ Query(t) \/ Pause(t) \/ Resume(t) \/ StopEnds(t)

LEMMA UnaskedSteps ==
    ASSUME NEW t \in Threads, Unasked(t)
    PROVE  /\ UNCHANGED <<event, spotify>>
           /\ count' = count \/ Outage \/ Request(t)
           /\ unlucky' \subseteq unlucky /\ crossed' \subseteq crossed
  <1>1. UNCHANGED <<event, spotify>>
    BY DEF Unasked, RequestHijack, RequestContext, RequestToggle, RequestStop, TimeOut,
           ReturnContext, ReadContext, Discover, HijackReset, Join, Play, GiveUp, ResetUnjoin,
           ResetHalt, ResetFails, Break, Query, Pause, Resume, StopEnds
  <1>2. count' = count \/ Outage \/ Request(t)
    BY DEF Unasked, RequestHijack, RequestContext, RequestToggle, RequestStop, TimeOut,
           ReturnContext, ReadContext, Discover, HijackReset, Join, Play, GiveUp, ResetUnjoin,
           ResetHalt, ResetFails, Break, Query, Pause, Resume, StopEnds
  <1>3. UNCHANGED <<unlucky, crossed>> \/ Ends(t) \/ (unlucky' = unlucky /\ crossed' = crossed \ {t})
    BY DEF Unasked, RequestHijack, RequestContext, RequestToggle, RequestStop, TimeOut,
           ReturnsNothing, Releases, ReturnContext, ReadContext, Discover, HijackReset, Join, Play,
           GiveUp, ResetUnjoin, ResetHalt, ResetFails, Break, Query, Pause, Resume, StopEnds, history
  <1>. QED
    BY <1>1, <1>2, <1>3 DEF Ends

LEMMA NextAnswersType ==
    ASSUME Types, [Next]_vars
    PROVE  /\ ready' \in BOOLEAN /\ context' \in Song /\ known' \in BOOLEAN
           /\ auth' \in {"none", "expired", "valid"}
           /\ answers' \in Seq(Song) /\ now' \in Song /\ count' \in Counts
           /\ now'.at = count'.changes
           /\ unlucky' \subseteq Threads /\ crossed' \subseteq Threads
  <1>. DEFINE P == /\ ready' \in BOOLEAN /\ context' \in Song /\ known' \in BOOLEAN
                   /\ auth' \in {"none", "expired", "valid"}
                   /\ answers' \in Seq(Song) /\ now' \in Song /\ count' \in Counts
                   /\ now'.at = count'.changes
                   /\ unlucky' \subseteq Threads /\ crossed' \subseteq Threads
  <1>. USE DEF Types
  <1>0. Waiting \subseteq Threads
    BY DEF Waiting
  <1>1. ASSUME NEW t \in Threads, Unasked(t) PROVE P
    <2>1. /\ UNCHANGED <<ready, context, known, auth, answers, now>>
          /\ count' = count \/ Outage \/ Request(t)
          /\ unlucky' \subseteq unlucky /\ crossed' \subseteq crossed
      BY <1>1, UnaskedSteps DEF event, spotify
    <2>2. count' \in Counts /\ count'.changes = count.changes
      BY <2>1, CountChange
    <2>. QED
      BY <2>1, <2>2
  <1>2. ASSUME NEW t \in Threads, Ask(t) \/ AskRaises(t) \/ Wait(t) PROVE P
    <2>1. /\ UNCHANGED <<context, known, auth, answers, now, count>>
          /\ ready' \in BOOLEAN
      BY <1>2 DEF Ask, AskRaises, Wait, event, spotify
    <2>2. unlucky' \subseteq unlucky \cup Waiting /\ crossed' \subseteq crossed \cup {t}
      BY <1>2 DEF Ask, AskRaises, Wait, ReturnsNothing, Releases, Ends, history
    <2>. QED
      BY <1>0, <2>1, <2>2
  <1>3. CASE Answered
    <2>1. Head(answers) \in Song /\ Tail(answers) \in Seq(Song)
      BY <1>3 DEF Answered
    <2>2. /\ context' = Head(answers) /\ answers' = Tail(answers)
          /\ ready' \in BOOLEAN
          /\ UNCHANGED <<known, auth, now, count, crossed>>
      BY <1>3 DEF Answered
    <2>3. unlucky' \subseteq unlucky \cup Waiting
      BY <1>3 DEF Answered
    <2>. QED
      BY <1>0, <2>1, <2>2, <2>3
  <1>4. CASE Publish \/ PublishNone
    <2>1. \E media \in Media : Answers(media)
      BY <1>4 DEF Publish, PublishNone, Song, Media
    <2>2. PICK media \in Media : Answers(media)
      BY <2>1
    <2>3. [media |-> media, at |-> now.at] \in Song
      BY DEF Song
    <2>4. answers' = Append(answers, [media |-> media, at |-> now.at])
      BY <2>2 DEF Answers
    <2>5. answers' \in Seq(Song)
      BY <2>3, <2>4
    <2>6. auth' \in {"none", "expired", "valid"}
      BY <1>4 DEF Publish, PublishNone
    <2>. QED
      BY <2>2, <2>5, <2>6 DEF Answers, event, history
  <1>5. CASE \/ PublishRaises \/ Refresh \/ Expires \/ SpotifyLeaves \/ SpotifyReturns
             \/ (\E media \in Media : Change(media)) \/ UNCHANGED vars
    <2>1. count' \in Counts /\ now' \in Song /\ now'.at = count'.changes
      BY <1>5, ElseSteps DEF ElseStep
    <2>2. /\ UNCHANGED <<event, answers, crossed>>
          /\ known' \in BOOLEAN
          /\ auth' \in {"none", "expired", "valid"}
      BY <1>5 DEF PublishRaises, Refresh, Expires, SpotifyLeaves, SpotifyReturns, Change, vars, event,
         history
    <2>3. unlucky' \subseteq unlucky \cup Waiting
      BY <1>5 DEF PublishRaises, Refresh, Expires, SpotifyLeaves, SpotifyReturns, Change, vars, history
    <2>. QED
      BY <1>0, <2>1, <2>2, <2>3 DEF event
  <1>. QED
    BY <1>1, <1>2, <1>3, <1>4, <1>5 DEF Next, Unasked

LEMMA NextCoordType ==
    ASSUME Types, LockInv, [Next]_vars
    PROVE  coord' \in Speakers \cup {None} /\ hushed' \subseteq Speakers
  <1>. USE DEF Types
  <1>1. ASSUME NEW t \in Threads, Play(t) PROVE coord' \in Speakers \cup {None}
    BY <1>1 DEF Play, Releases, At, LockInv, Hijacking
  <1>2. ASSUME NEW t \in Threads, AskRaises(t) \/ TimeOut(t) \/ ReadContext(t) \/ Discover(t)
                                  \/ GiveUp(t) \/ Break(t)
        PROVE  coord' \in {coord, None}
    BY <1>2 DEF AskRaises, TimeOut, ReturnsNothing, ReadContext, Discover, GiveUp, Break, Releases
  <1>3. ASSUME NEW t \in Threads,
               \/ RequestHijack(t) \/ RequestContext(t) \/ RequestToggle(t) \/ RequestStop(t)
               \/ Ask(t) \/ Wait(t) \/ ReturnContext(t) \/ HijackReset(t) \/ Join(t)
               \/ ResetUnjoin(t) \/ ResetHalt(t) \/ ResetFails(t)
               \/ Query(t) \/ Pause(t) \/ Resume(t) \/ StopEnds(t)
        PROVE  UNCHANGED coord
    BY <1>3 DEF RequestHijack, RequestContext, RequestToggle, RequestStop, Ask, Wait, ReturnContext,
       HijackReset, Join, ResetUnjoin, ResetHalt, ResetFails, Query, Pause, Resume, StopEnds
  <1>4. ASSUME \/ Answered \/ Publish \/ PublishNone \/ PublishRaises
               \/ Refresh \/ Expires \/ SpotifyLeaves \/ SpotifyReturns
               \/ (\E media \in Media : Change(media)) \/ UNCHANGED vars
        PROVE  UNCHANGED <<coord, hushed>>
    BY <1>4 DEF Answered, Publish, PublishNone, Answers, PublishRaises, Refresh, Expires,
       SpotifyLeaves, SpotifyReturns, Change, vars, history
  <1>5. ASSUME NEW t \in Threads,
               \/ RequestHijack(t) \/ RequestToggle(t) \/ Query(t) \/ Resume(t)
        PROVE  hushed' \in {hushed, {}}
    BY <1>5 DEF RequestHijack, RequestToggle, Query, Resume, StartHijack
  <1>6. ASSUME NEW t \in Threads, StopEnds(t) PROVE hushed' \subseteq Speakers
    <2>1. thread[t].found \subseteq Speakers
      BY DEF Thread
    <2>. QED
      BY <1>6, <2>1 DEF StopEnds
  <1>7. ASSUME NEW t \in Threads,
               \/ RequestContext(t) \/ RequestStop(t)
               \/ Ask(t) \/ AskRaises(t) \/ Wait(t) \/ TimeOut(t) \/ ReturnContext(t)
               \/ ReadContext(t) \/ Discover(t) \/ HijackReset(t) \/ Join(t) \/ Play(t) \/ GiveUp(t)
               \/ ResetUnjoin(t) \/ ResetHalt(t) \/ ResetFails(t) \/ Break(t) \/ Pause(t)
        PROVE  UNCHANGED hushed
    BY <1>7 DEF RequestContext, RequestStop, Ask, AskRaises, Wait, TimeOut, ReturnContext,
       ReadContext, Discover, HijackReset, Join, Play, GiveUp, ResetUnjoin, ResetHalt, ResetFails,
       Break, Pause, history
  <1>. HIDE DEF Types
  <1>8. coord' \in Speakers \cup {None}
    BY <1>1, <1>2, <1>3, <1>4 DEF Next, Types
  <1>9. hushed' \subseteq Speakers
    BY <1>4, <1>5, <1>6, <1>7 DEF Next, Types
  <1>. QED
    BY <1>8, <1>9

LEMMA NextLockType ==
    ASSUME Types, [Next]_vars
    PROVE  lock' \in BOOLEAN
  <1>1. ASSUME NEW t \in Threads,
               \/ AskRaises(t) \/ TimeOut(t) \/ ReadContext(t) \/ Discover(t) \/ Play(t) \/ GiveUp(t)
               \/ Break(t)
        PROVE  lock' = lock \/ lock' = FALSE
    BY <1>1 DEF AskRaises, TimeOut, ReturnsNothing, ReadContext, Discover, Play, GiveUp, Break,
       Releases
  <1>2. ASSUME NEW t \in Threads, RequestHijack(t) \/ RequestToggle(t) \/ Query(t)
        PROVE  lock' = lock \/ lock' = TRUE
    BY <1>2 DEF RequestHijack, RequestToggle, Query, StartHijack
  <1>3. ASSUME NEW t \in Threads,
               \/ RequestContext(t) \/ RequestStop(t) \/ Ask(t) \/ Wait(t) \/ ReturnContext(t)
               \/ HijackReset(t) \/ Join(t) \/ ResetUnjoin(t) \/ ResetHalt(t) \/ ResetFails(t)
               \/ Pause(t) \/ Resume(t) \/ StopEnds(t)
        PROVE  UNCHANGED lock
    BY <1>3 DEF RequestContext, RequestStop, Ask, Wait, ReturnContext, HijackReset, Join,
       ResetUnjoin, ResetHalt, ResetFails, Pause, Resume, StopEnds
  <1>4. ASSUME \/ Answered \/ Publish \/ PublishNone \/ PublishRaises
               \/ Refresh \/ Expires \/ SpotifyLeaves \/ SpotifyReturns
               \/ (\E media \in Media : Change(media)) \/ UNCHANGED vars
        PROVE  UNCHANGED lock
    BY <1>4 DEF Answered, Publish, PublishNone, Answers, PublishRaises, Refresh, Expires,
       SpotifyLeaves, SpotifyReturns, Change, vars
  <1>5. lock' = lock \/ lock' = TRUE \/ lock' = FALSE
    BY <1>1, <1>2, <1>3, <1>4 DEF Next
  <1>. QED
    BY <1>5 DEF Types

LEMMA NextTypes == Types /\ LockInv /\ [Next]_vars => Types'
  <1>. SUFFICES ASSUME Types, LockInv, [Next]_vars PROVE Types'
    OBVIOUS
  <1>1. thread' \in [Threads -> Thread] /\ asks' \in Nat
    <2>1. CASE Answered
      BY <2>1, AnsweredThreads DEF Types
    <2>2. CASE ElseStep
      BY <2>2 DEF ElseStep, Types
    <2>3. ASSUME NEW t \in Threads, ThreadStep(t)
          PROVE  thread' \in [Threads -> Thread] /\ asks' \in Nat
      BY <2>3 DEF ThreadStep, StepEnds, StepBegins, StepOpens, StepGoes, Types
    <2>. QED
      BY <2>1, <2>2, <2>3, ThreadSteps
  <1>. QED
    BY <1>1, NextLockType, NextSpeakersType, NextAnswersType, NextCoordType DEF Types

LEMMA NextLock == Types /\ LockInv /\ [Next]_vars => LockInv'
  <1>. SUFFICES ASSUME Types, LockInv, [Next]_vars PROVE LockInv'
    OBVIOUS
  <1>1. CASE Answered
    <2>1. ASSUME NEW t \in Threads
          PROVE  /\ thread'[t].op = thread[t].op /\ thread'[t].head = thread[t].head
                 /\ \/ thread'[t].at = thread[t].at
                    \/ thread[t].at = "waits" /\ thread'[t].at = "answered"
      <3>1. thread[t] \in Thread
        BY DEF Types
      <3>2. \/ thread'[t] = thread[t]
            \/ thread[t].at = "waits" /\ thread'[t] = [thread[t] EXCEPT !.at = "answered"]
        BY <1>1, AnsweredThreads
      <3>. QED
        BY <3>1, <3>2 DEF Thread
    <2>2. lock' = lock
      BY <1>1, AnsweredThreads
    <2>3. lock' <=> \E t \in Threads : Hijacking(t)'
      BY <2>1, <2>2 DEF LockInv, Hijacking
    <2>4. \A t, u \in Threads : Hijacking(t)' /\ Hijacking(u)' => t = u
      BY <2>1 DEF LockInv, Hijacking
    <2>5. \A t \in Threads : thread'[t].at = "idle" => thread'[t].op = "none"
      BY <2>1 DEF LockInv
    <2>6. \A t \in Threads : Hijacking(t)' /\ thread'[t].at \in {"reset", "group", "play"}
                             => thread'[t].head \in Speakers
      BY <2>1 DEF LockInv, Hijacking
    <2>7. \A t \in Threads : thread'[t].op = "stop" => thread'[t].at = "reset"
      BY <2>1 DEF LockInv
    <2>. QED
      BY <2>3, <2>4, <2>5, <2>6, <2>7 DEF LockInv
  <1>2. CASE ElseStep
    BY <1>2 DEF ElseStep, LockInv, Hijacking
  <1>3. ASSUME NEW t \in Threads, ThreadStep(t) PROVE LockInv'
    <2>1. \A u \in Threads \ {t} : Keeps(u)
      BY <1>3 DEF ThreadStep, OthersKeep
    <2>2. CASE StepEnds(t)
      <3>1. thread'[t].op = "none" /\ thread'[t].at = "idle"
        BY <2>2 DEF StepEnds, Idle
      <3>2. lock' <=> lock /\ ~Hijacking(t)
        BY <2>2 DEF StepEnds
      <3>. QED
        BY <2>1, <3>1, <3>2 DEF Keeps, LockInv, Hijacking
    <2>3. CASE StepBegins(t)
      <3>1. thread'[t].op = "hijack" /\ thread'[t].at = "ask" /\ ~lock /\ lock'
        BY <2>3, BegunThread DEF StepBegins
      <3>. QED
        BY <2>1, <3>1 DEF Keeps, LockInv, Hijacking, Found
    <2>4. CASE StepOpens(t)
      BY <2>1, <2>4 DEF Keeps, StepOpens, LockInv, Hijacking
    <2>5. CASE StepGoes(t)
      BY <2>1, <2>5 DEF Keeps, StepGoes, LockInv, Hijacking, Found
    <2>. QED
      BY <1>3, <2>2, <2>3, <2>4, <2>5 DEF ThreadStep
  <1>. QED
    BY <1>1, <1>2, <1>3, ThreadSteps

-----------------------------------------------------------------------------
(* Questions and answers *)

LEMMA OwingFinite == IsFiniteSet(Owing) /\ Cardinality(Owing) \in Nat
  <1>1. Owing \subseteq Threads
    BY DEF Owing
  <1>. QED
    BY <1>1, SonosAssumption, FS_Subset, FS_CardinalityType

LEMMA NextAsks == Types /\ LockInv /\ AsksInv /\ [Next]_vars => AsksInv'
  <1>. SUFFICES ASSUME Types, LockInv, AsksInv, [Next]_vars PROVE AsksInv'
    OBVIOUS
  <1>1. IsFiniteSet(Owing) /\ Cardinality(Owing) \in Nat
    BY OwingFinite
  <1>2. IsFiniteSet(Owing') /\ Cardinality(Owing') \in Nat
    <2>1. Owing' \subseteq Threads
      BY DEF Owing
    <2>. QED
      BY <2>1, SonosAssumption, FS_Subset, FS_CardinalityType
  <1>3. asks \in Nat /\ asks' \in Nat /\ count.requests \in Nat /\ count'.requests \in Nat
    BY NextTypes, SonosAssumption DEF Types, Counts
  <1>4. ASSUME Owing' \subseteq Owing, asks' <= asks, count'.requests = count.requests
        PROVE  AsksInv'
    <2>1. Cardinality(Owing') <= Cardinality(Owing)
      BY <1>1, <1>4, FS_Subset
    <2>. QED
      BY <1>1, <1>2, <1>3, <1>4, <2>1 DEF AsksInv
  <1>5. CASE Answered
    <2>1. Owing' \subseteq Owing
      BY <1>5, AnsweredThreads DEF Owing, Types, Thread
    <2>2. asks' = asks /\ count' = count
      BY <1>5, AnsweredThreads
    <2>. QED
      BY <1>3, <1>4, <2>1, <2>2
  <1>6. CASE ElseStep
    <2>1. Owing' \subseteq Owing
      BY <1>6 DEF ElseStep, Owing
    <2>. QED
      BY <1>4, <1>6, <2>1 DEF ElseStep
  <1>7. ASSUME NEW t \in Threads, ThreadStep(t) PROVE AsksInv'
    <2>1. \A u \in Threads \ {t} : u \in Owing' <=> u \in Owing
      BY <1>7 DEF ThreadStep, OthersKeep, Keeps, Owing
    <2>2. Owing' \subseteq Threads /\ Owing \subseteq Threads
      BY DEF Owing
    <2>3. ASSUME asks' = asks, count'.requests = count.requests + 1 PROVE AsksInv'
      <3>1. Owing' \subseteq Owing \cup {t}
        BY <2>1, <2>2
      <3>2. /\ IsFiniteSet(Owing \cup {t})
            /\ Cardinality(Owing \cup {t}) <= Cardinality(Owing) + 1
            /\ Cardinality(Owing \cup {t}) \in Nat
        <4>1. /\ IsFiniteSet(Owing \cup {t})
              /\ \/ Cardinality(Owing \cup {t}) = Cardinality(Owing)
                 \/ Cardinality(Owing \cup {t}) = Cardinality(Owing) + 1
          BY <1>1, FS_AddElement
        <4>. QED
          BY <1>1, <4>1
      <3>3. Cardinality(Owing') <= Cardinality(Owing \cup {t})
        BY <3>1, <3>2, FS_Subset
      <3>. QED
        BY <1>1, <1>2, <1>3, <2>3, <3>2, <3>3 DEF AsksInv
    <2>4. ASSUME t \in Owing' => t \in Owing, asks' = asks, count'.requests = count.requests
          PROVE  AsksInv'
      <3>1. Owing' \subseteq Owing
        BY <2>1, <2>2, <2>4
      <3>. QED
        BY <1>3, <1>4, <2>4, <3>1
    <2>5. ASSUME t \in Owing, t \notin Owing', asks' = asks + 1, count'.requests = count.requests
          PROVE  AsksInv'
      <3>1. Owing' \subseteq Owing \ {t}
        BY <2>1, <2>2, <2>5
      <3>2. /\ IsFiniteSet(Owing \ {t})
            /\ Cardinality(Owing \ {t}) = Cardinality(Owing) - 1
        BY <1>1, <2>5, FS_RemoveElement
      <3>3. Cardinality(Owing') <= Cardinality(Owing \ {t})
        BY <3>1, <3>2, FS_Subset
      <3>. QED
        BY <1>1, <1>2, <1>3, <2>5, <3>2, <3>3 DEF AsksInv
    <2>6. CASE StepEnds(t)
      <3>1. t \notin Owing'
        BY <2>6 DEF StepEnds, Idle, Owing
      <3>. QED
        BY <2>4, <2>6, <3>1 DEF StepEnds
    <2>7. CASE StepBegins(t)
      <3>1. thread[t].at = "query" => t \in Owing
        BY DEF Owing
      <3>. QED
        BY <2>3, <2>4, <2>7, <3>1 DEF StepBegins
    <2>8. CASE StepOpens(t)
      BY <2>3, <2>8 DEF StepOpens
    <2>9. CASE StepGoes(t)
      <3>1. t \notin Owing'
        BY <2>9 DEF StepGoes, Owing
      <3>2. thread[t].at = "ask" => t \in Owing
        BY DEF Owing
      <3>. QED
        BY <2>4, <2>5, <2>9, <3>1, <3>2 DEF StepGoes
    <2>. QED
      BY <1>7, <2>6, <2>7, <2>8, <2>9 DEF ThreadStep
  <1>. QED
    BY <1>5, <1>6, <1>7, ThreadSteps

\* What is answered, and what is on its way, stays as it is.
ContextRests ==
    /\ UNCHANGED <<event, asks, answers, now>>
    /\ \E t \in Threads :
          /\ \A u \in Threads \ {t} : /\ Keeps(u)
                                      /\ u \in crossed' <=> u \in crossed
                                      /\ u \in unlucky => u \in unlucky'
          /\ thread'[t].at \notin {"asked", "waits", "answered"}
          /\ thread'[t].since \in {thread[t].since, 0, now.at}
    
LEMMA UnaskedRests ==
    ASSUME Types, LockInv, NEW t \in Threads, Unasked(t)
    PROVE  ContextRests
  <1>1. UNCHANGED <<event, asks, answers, now>>
    BY UnaskedSteps DEF spotify
  <1>2. ThreadStep(t)
    BY EndSteps, ResumeStep, RequestSteps, ResetSteps, HijackSteps DEF Unasked
  <1>3. thread'[t].at \notin {"asked", "waits", "answered"}
    <2>1. thread[t] \in Thread /\ thread \in [Threads -> Thread]
      BY DEF Types
    <2>2. CASE StepEnds(t) \/ StepBegins(t) \/ StepOpens(t)
      BY <2>2, BegunThread DEF StepEnds, StepBegins, StepOpens, Idle
    <2>3. ASSUME Ends(t) PROVE thread'[t].at = "idle"
      BY <2>1, <2>3 DEF Ends, Idle
    <2>4. CASE ReadContext(t) \/ Discover(t)
      <3>1. \/ Ends(t)
            \/ thread' = [thread EXCEPT ![t].at = "discover", ![t].since = 0]
            \/ \E found \in SUBSET Speakers, head \in Speakers :
                  thread' = [thread EXCEPT ![t].at = "reset", ![t].head = head,
                                           ![t].found = found, ![t].unjoin = found]
        BY <2>4 DEF ReadContext, Discover, Releases
      <3>2. ASSUME thread' = [thread EXCEPT ![t].at = "discover", ![t].since = 0]
            PROVE  thread'[t].at = "discover"
        BY <2>1, <3>2 DEF Thread
      <3>3. ASSUME NEW found, NEW head,
                   thread' = [thread EXCEPT ![t].at = "reset", ![t].head = head,
                                            ![t].found = found, ![t].unjoin = found]
            PROVE  thread'[t].at = "reset"
        BY <2>1, <3>3 DEF Thread
      <3>. QED
        BY <2>3, <3>1, <3>2, <3>3
    <2>5. CASE HijackReset(t) \/ Join(t) \/ Query(t)
      <3>1. \/ Ends(t) \/ StartHijack(t)
            \/ \E at \in {"group", "pause", "resume"} : thread' = [thread EXCEPT ![t].at = at]
            \/ thread' = [thread EXCEPT ![t].at = "play", ![t].found = {}]
        BY <2>5 DEF HijackReset, Join, Query, Goes
      <3>2. ASSUME StartHijack(t) PROVE thread'[t].at = "ask"
        BY <3>2, StartHijackThread, BegunThread
      <3>. QED
        BY <2>1, <2>3, <3>1, <3>2 DEF Thread
    <2>6. CASE ResetUnjoin(t) \/ ResetHalt(t) \/ ResetFails(t)
      <3>1. thread[t].at = "reset"
        BY <2>6 DEF ResetUnjoin, ResetHalt, ResetFails
      <3>2. ASSUME NEW a, NEW b, thread' = [thread EXCEPT ![t].unjoin = a, ![t].halt = b]
            PROVE  thread'[t].at = "reset"
        BY <2>1, <3>1, <3>2 DEF Thread
      <3>3. ASSUME NEW b, thread' = [thread EXCEPT ![t].halt = b] PROVE thread'[t].at = "reset"
        BY <2>1, <3>1, <3>3 DEF Thread
      <3>4. ASSUME NEW a, NEW b,
                   thread' = [thread EXCEPT ![t].unjoin = a, ![t].halt = b, ![t].smooth = FALSE]
            PROVE  thread'[t].at = "reset"
        BY <2>1, <3>1, <3>4 DEF Thread
      <3>5. ASSUME NEW b, thread' = [thread EXCEPT ![t].halt = b, ![t].smooth = FALSE]
            PROVE  thread'[t].at = "reset"
        BY <2>1, <3>1, <3>5 DEF Thread
      <3>. QED
        BY <2>6, <3>2, <3>3, <3>4, <3>5 DEF ResetUnjoin, ResetHalt, ResetFails
    <2>7. CASE \/ TimeOut(t) \/ ReturnContext(t) \/ Play(t) \/ GiveUp(t) \/ Break(t) \/ Pause(t)
               \/ StopEnds(t)
      <3>1. Ends(t)
        BY <2>7 DEF TimeOut, ReturnsNothing, ReturnContext, Play, GiveUp, Break, Pause, StopEnds,
           Releases
      <3>. QED
        BY <2>3, <3>1
    <2>8. CASE Resume(t)
      <3>1. thread'[t] = Idle
        BY <2>8, DisturbThread, IdleIsThread DEF Resume
      <3>. QED
        BY <3>1 DEF Idle
    <2>9. CASE RequestHijack(t) \/ RequestContext(t) \/ RequestToggle(t) \/ RequestStop(t)
      <3>1. thread[t].at = "idle"
        BY <2>9 DEF RequestHijack, RequestContext, RequestToggle, RequestStop, Request
      <3>2. ~StepGoes(t)
        BY <3>1 DEF StepGoes
      <3>. QED
        BY <1>2, <2>2, <3>2 DEF ThreadStep
    <2>. QED
      BY <2>4, <2>5, <2>6, <2>7, <2>8, <2>9 DEF Unasked
  <1>4. thread'[t].since \in {thread[t].since, 0, now.at}
    BY <1>2, BegunThread DEF ThreadStep, StepEnds, StepBegins, StepOpens, StepGoes, Idle
  <1>. QED
    BY <1>1, <1>2, <1>3, <1>4 DEF ContextRests, ThreadStep, OthersKeep

LEMMA RestsContext ==
    ASSUME Types, ContextInv, FreshContext, ComingInv, AnswerIsComing, ContextRests
    PROVE  ContextInv' /\ FreshContext' /\ ComingInv' /\ AnswerIsComing'
  <1>. USE DEF ContextRests, event
  <1>1. PICK t \in Threads :
          /\ \A u \in Threads \ {t} : /\ Keeps(u)
                                      /\ u \in crossed' <=> u \in crossed
                                      /\ u \in unlucky => u \in unlucky'
          /\ thread'[t].at \notin {"asked", "waits", "answered"}
          /\ thread'[t].since \in {thread[t].since, 0, now.at}
    OBVIOUS
  <1>2. now.at \in Nat
    BY DEF Types, Song
  <1>3. ContextInv'
    <2>1. \A u \in Threads : thread'[u].since <= now'.at
      BY <1>1, <1>2 DEF ContextInv, Keeps
    <2>2. \A u \in Threads : Asking(u)' /\ u \notin crossed' =>
             \A i \in 1 .. Len(answers') : answers'[i].at >= thread'[u].since
      BY <1>1 DEF ContextInv, Keeps, Asking
    <2>3. \A u \in Threads : thread'[u].at = "asked" /\ ready' /\ u \notin crossed' =>
             context'.at >= thread'[u].since
      BY <1>1 DEF ContextInv, Keeps
    <2>. QED
      BY <2>1, <2>2, <2>3 DEF ContextInv, Asking
  <1>4. FreshContext'
    BY <1>1 DEF FreshContext, Keeps
  <1>5. ComingInv' /\ AnswerIsComing'
    BY <1>1 DEF ComingInv, AnswerIsComing, Keeps
  <1>. QED
    BY <1>3, <1>4, <1>5

\* An answer that comes is as new as what it is for.
LEMMA AnsweredContext ==
    ASSUME Types, ContextInv, FreshContext, ComingInv, AnswerIsComing, Answered
    PROVE  ContextInv' /\ FreshContext' /\ ComingInv' /\ AnswerIsComing'
  <1>1. /\ answers # <<>> /\ answers' = Tail(answers) /\ context' = Head(answers)
        /\ UNCHANGED <<now, crossed, asks>>
    BY DEF Answered
  <1>2. /\ Len(answers) >= 1 /\ Len(answers') = Len(answers) - 1
        /\ \A i \in 1 .. Len(answers') : answers'[i] = answers[i + 1]
        /\ context' = answers[1]
    BY <1>1 DEF Types
  <1>3. \A t \in Threads : /\ thread[t].since \in Nat
                           /\ thread'[t].since = thread[t].since
                           /\ thread'[t].at # thread[t].at =>
                                 thread[t].at = "waits" /\ thread'[t].at = "answered"
    <2>1. ASSUME NEW t \in Threads
          PROVE  /\ thread[t].since \in Nat
                 /\ thread'[t].since = thread[t].since
                 /\ thread'[t].at # thread[t].at =>
                       thread[t].at = "waits" /\ thread'[t].at = "answered"
      <3>1. thread[t] \in Thread
        BY DEF Types
      <3>2. \/ thread'[t] = thread[t]
            \/ thread[t].at = "waits" /\ thread'[t] = [thread[t] EXCEPT !.at = "answered"]
        BY AnsweredThreads
      <3>. QED
        BY <3>1, <3>2 DEF Thread
    <2>. QED
      BY <2>1
  <1>4. ASSUME NEW t \in Threads, Asking(t)', t \notin crossed'
        PROVE  /\ \A i \in 1 .. Len(answers') : answers'[i].at >= thread'[t].since
               /\ context'.at >= thread'[t].since
    <2>1. Asking(t) /\ t \notin crossed
      BY <1>1, <1>3, <1>4 DEF Asking
    <2>2. \A i \in 1 .. Len(answers) : answers[i].at >= thread[t].since
      BY <2>1 DEF ContextInv
    <2>3. Len(answers) \in Nat
      BY DEF Types
    <2>4. \A i \in 1 .. Len(answers') : i + 1 \in 1 .. Len(answers)
      BY <1>2, <2>3
    <2>. QED
      BY <1>2, <1>3, <2>2, <2>3, <2>4
  <1>5. ContextInv'
    <2>1. \A t \in Threads : thread'[t].since <= now'.at
      BY <1>1, <1>3 DEF ContextInv
    <2>. QED
      BY <1>4, <2>1 DEF ContextInv, Asking
  <1>6. FreshContext'
    BY <1>4 DEF FreshContext, Asking
  <1>7. ComingInv' /\ AnswerIsComing'
    <2>1. CASE Head(answers).media = "none"
      <3>1. unlucky' = unlucky \cup Waiting /\ thread' = thread
        BY <2>1 DEF Answered
      <3>. QED
        BY <3>1 DEF ComingInv, AnswerIsComing, Waiting
    <2>2. CASE Head(answers).media # "none"
      <3>1. /\ ready' = TRUE
            /\ thread' = [t \in Threads |->
                            IF thread[t].at = "waits" THEN [thread[t] EXCEPT !.at = "answered"]
                            ELSE thread[t]]
        BY <2>2 DEF Answered
      <3>2. \A t \in Threads : thread'[t].at # "waits"
        <4>1. \A t \in Threads : thread[t] \in Thread
          BY DEF Types
        <4>. QED
          BY <3>1, <4>1 DEF Thread
      <3>. QED
        BY <3>1, <3>2 DEF ComingInv, AnswerIsComing
    <2>. QED
      BY <2>1, <2>2
  <1>. QED
    BY <1>5, <1>6, <1>7

LEMMA AskContext ==
    ASSUME Types, ContextInv, FreshContext, ComingInv, AnswerIsComing, NEW t \in Threads, Ask(t)
    PROVE  ContextInv' /\ FreshContext' /\ ComingInv' /\ AnswerIsComing'
  <1>1. /\ asks' = asks + 1 /\ asks \in Nat /\ ready' = FALSE
        /\ UNCHANGED <<context, answers, now, unlucky>>
        /\ answers # <<>> => t \in crossed'
        /\ crossed \subseteq crossed'
    BY DEF Ask, Types
  <1>2. /\ thread'[t].at = "asked" /\ thread'[t].since = now.at
        /\ \A u \in Threads \ {t} : thread'[u] = thread[u]
    <2>1. thread[t] \in Thread /\ thread \in [Threads -> Thread]
      BY DEF Types
    <2>. QED
      BY <2>1 DEF Ask, Thread
  <1>3. \A u \in Threads : thread'[u].since <= now'.at
    <2>1. now.at \in Nat
      BY DEF Types, Song
    <2>. QED
      BY <1>1, <1>2, <2>1 DEF ContextInv
  <1>4. ASSUME NEW u \in Threads, Asking(u)', u \notin crossed', NEW i \in 1 .. Len(answers')
        PROVE  answers'[i].at >= thread'[u].since
    <2>1. CASE u = t
      <3>1. answers = <<>>
        BY <1>1, <1>4, <2>1
      <3>2. 1 .. Len(answers') = {}
        BY <1>1, <3>1
      <3>. QED
        BY <1>4, <3>2
    <2>2. CASE u # t
      BY <1>1, <1>2, <1>4, <2>2 DEF ContextInv, Asking
    <2>. QED
      BY <2>1, <2>2
  <1>5. ContextInv'
    BY <1>1, <1>3, <1>4 DEF ContextInv, Asking
  <1>6. FreshContext'
    BY <1>1, <1>2 DEF FreshContext
  <1>7. ComingInv' /\ AnswerIsComing'
    BY <1>1, <1>2 DEF ComingInv, AnswerIsComing
  <1>. QED
    BY <1>5, <1>6, <1>7

LEMMA AskRaisesContext ==
    ASSUME Types, LockInv, ContextInv, FreshContext, ComingInv, AnswerIsComing,
           NEW t \in Threads, AskRaises(t)
    PROVE  ContextInv' /\ FreshContext' /\ ComingInv' /\ AnswerIsComing'
  <1>1. Ends(t) \/ (thread' = [thread EXCEPT ![t] = Idle] /\ crossed' = crossed \ {t})
    BY DEF AskRaises, ReturnsNothing, Releases, Ends
  <1>2. /\ ready' = FALSE /\ UNCHANGED <<context, asks, answers, now>>
        /\ unlucky' = (unlucky \cup Waiting) \ {t}
    BY DEF AskRaises, spotify
  <1>3. /\ thread'[t].at = "idle" /\ thread'[t].since = 0
        /\ \A u \in Threads \ {t} : thread'[u] = thread[u] /\ (u \in crossed' <=> u \in crossed)
    BY <1>1 DEF Ends, Types, Idle
  <1>4. now.at \in Nat
    BY DEF Types, Song
  <1>5. \A u \in Threads : thread'[u].since <= now'.at
    BY <1>2, <1>3, <1>4 DEF ContextInv
  <1>6. ContextInv'
    BY <1>2, <1>3, <1>5 DEF ContextInv, Asking
  <1>7. FreshContext'
    BY <1>2, <1>3 DEF FreshContext
  <1>8. ComingInv' /\ AnswerIsComing'
    BY <1>2, <1>3 DEF ComingInv, AnswerIsComing, Waiting
  <1>. QED
    BY <1>6, <1>7, <1>8

LEMMA WaitContext ==
    ASSUME Types, ContextInv, FreshContext, ComingInv, AnswerIsComing, NEW t \in Threads, Wait(t)
    PROVE  ContextInv' /\ FreshContext' /\ ComingInv' /\ AnswerIsComing'
  <1>1. UNCHANGED <<ready, context, asks, answers, now, unlucky, crossed>> /\ thread[t].at = "asked"
    BY DEF Wait, event, spotify, history
  <1>2. /\ thread'[t].at = IF ready THEN "answered" ELSE "waits"
        /\ thread'[t].since = thread[t].since
        /\ \A u \in Threads \ {t} : thread'[u] = thread[u]
    <2>1. thread[t] \in Thread /\ thread \in [Threads -> Thread]
      BY DEF Types
    <2>. QED
      BY <2>1 DEF Wait, Goes, Thread
  <1>3. ContextInv'
    BY <1>1, <1>2 DEF ContextInv, Asking
  <1>4. FreshContext'
    BY <1>1, <1>2 DEF FreshContext, ContextInv
  <1>5. ComingInv' /\ AnswerIsComing'
    BY <1>1, <1>2 DEF ComingInv, AnswerIsComing
  <1>. QED
    BY <1>3, <1>4, <1>5

\* A state that is published is that of now.
LEMMA AnswersContext ==
    ASSUME Types, ContextInv, FreshContext, ComingInv, AnswerIsComing,
           NEW media \in Media, Answers(media)
    PROVE  ContextInv' /\ FreshContext' /\ ComingInv' /\ AnswerIsComing'
  <1>. DEFINE song == [media |-> media, at |-> now.at]
  <1>1. /\ UNCHANGED <<ready, context, thread, now, unlucky, crossed>>
        /\ answers' = Append(answers, song)
    BY DEF Answers, event, history
  <1>2. /\ Len(answers) \in Nat /\ Len(answers') = Len(answers) + 1
        /\ \A i \in 1 .. Len(answers) : answers'[i] = answers[i]
        /\ answers'[Len(answers) + 1] = song /\ song.at = now.at
        /\ answers' # <<>>
    BY <1>1 DEF Types
  <1>. HIDE DEF song
  <1>3. ASSUME NEW t \in Threads, Asking(t), t \notin crossed, NEW i \in 1 .. Len(answers')
        PROVE  answers'[i].at >= thread[t].since
    <2>1. CASE i \in 1 .. Len(answers)
      BY <1>2, <1>3, <2>1 DEF ContextInv
    <2>2. CASE i = Len(answers) + 1
      <3>1. now.at \in Nat /\ thread[t].since \in Nat
        BY DEF Types, Song, Thread
      <3>. QED
        BY <1>2, <2>2, <3>1 DEF ContextInv
    <2>. QED
      BY <1>2, <2>1, <2>2
  <1>4. ContextInv'
    BY <1>1, <1>3 DEF ContextInv, Asking
  <1>5. FreshContext'
    BY <1>1 DEF FreshContext
  <1>6. ComingInv' /\ AnswerIsComing'
    BY <1>1, <1>2 DEF ComingInv, AnswerIsComing
  <1>. QED
    BY <1>4, <1>5, <1>6

LEMMA ElseContext ==
    ASSUME Types, ContextInv, FreshContext, ComingInv, AnswerIsComing,
           \/ PublishRaises \/ Refresh \/ Expires
           \/ SpotifyLeaves \/ SpotifyReturns \/ (\E media \in Media : Change(media))
           \/ UNCHANGED vars
    PROVE  ContextInv' /\ FreshContext' /\ ComingInv' /\ AnswerIsComing'
  <1>1. UNCHANGED <<ready, context, thread, answers, crossed>>
    BY DEF PublishRaises, Refresh, Expires, SpotifyLeaves, SpotifyReturns, Change, vars, event,
           history
  <1>2. now' = now \/ \E media \in Media : now' = [media |-> media, at |-> now.at + 1]
    BY DEF PublishRaises, Refresh, Expires, SpotifyLeaves, SpotifyReturns, Change, vars
  <1>3. UNCHANGED <<asks, unlucky>> \/ unlucky' = unlucky \cup Waiting
    BY DEF PublishRaises, Refresh, Expires, SpotifyLeaves, SpotifyReturns, Change, vars, history
  <1>4. \A t \in Threads : thread[t].since <= now'.at
    <2>1. now.at \in Nat /\ \A t \in Threads : thread[t].since \in Nat
      BY DEF Types, Song, Thread
    <2>. QED
      BY <1>2, <2>1 DEF ContextInv
  <1>5. ContextInv'
    BY <1>1, <1>4 DEF ContextInv, Asking
  <1>6. FreshContext'
    BY <1>1 DEF FreshContext
  <1>7. ComingInv' /\ AnswerIsComing'
    BY <1>1, <1>3 DEF ComingInv, AnswerIsComing, Waiting
  <1>. QED
    BY <1>5, <1>6, <1>7

LEMMA NextContext ==
    ASSUME Types, LockInv, ContextInv, FreshContext, ComingInv, AnswerIsComing, [Next]_vars
    PROVE  ContextInv' /\ FreshContext' /\ ComingInv' /\ AnswerIsComing'
  <1>1. ASSUME Publish \/ PublishNone PROVE \E media \in Media : Answers(media)
    BY <1>1 DEF Publish, PublishNone, Types, Song, Media
  <1>. QED
    BY <1>1, UnaskedRests, RestsContext, AnsweredContext, AskContext, AskRaisesContext, WaitContext,
       AnswersContext, ElseContext
    DEF Next, Unasked

-----------------------------------------------------------------------------
(* Groups of speakers *)

LEMMA AloneMeans ==
    ASSUME NEW s \in Speakers
    PROVE  Alone(s) <=> \A x \in Speakers : leader[x] = leader[s] => x = s
  BY DEF Alone, Group

LEMMA AloneMeansPrimed ==
    ASSUME NEW s \in Speakers
    PROVE  Alone(s)' <=> \A x \in Speakers : leader'[x] = leader'[s] => x = s
  BY DEF Alone, Group

LEMMA AloneLeads ==
    ASSUME Types, LeaderInv, NEW s \in Speakers, Alone(s)
    PROVE  leader[s] = s
  BY AloneMeans DEF LeaderInv, Types

\* Who leaves a group is alone; who is alone stays so, and gets no music.
LEMMA UnjoinGroups ==
    ASSUME Types, LeaderInv, NEW s \in Speakers, Unjoin(s)
    PROVE  /\ LeaderInv'
           /\ Alone(s)'
           /\ \A x \in Speakers : Alone(x) => Alone(x)' /\ (x \in playing' => x \in playing)
  <1>. DEFINE rest == Group(s) \ {s}
  <1>0. leader \in [Speakers -> Speakers]
    BY DEF Types
  <1>1. CASE rest = {}
    <2>1. UNCHANGED <<leader, playing, paused>>
      BY <1>1 DEF Unjoin, speakers
    <2>2. Alone(s)
      BY <1>1 DEF Alone, Group
    <2>. QED
      BY <2>1, <2>2 DEF LeaderInv, Alone, Group
  <1>2. CASE leader[s] # s /\ rest # {}
    <2>1. leader' = [leader EXCEPT ![s] = s] /\ UNCHANGED <<playing, paused>>
      BY <1>2 DEF Unjoin
    <2>2. \A x \in Speakers : leader[x] # s
      BY <1>2 DEF LeaderInv
    <2>3. Alone(s)'
      BY <1>0, <2>1, <2>2, AloneMeansPrimed
    <2>4. ASSUME NEW x \in Speakers, Alone(x) PROVE Alone(x)'
      BY <1>0, <2>1, <2>2, <2>3, <2>4, AloneMeans, AloneMeansPrimed
    <2>5. LeaderInv'
      BY <1>0, <2>1, <2>2 DEF LeaderInv, Types
    <2>. QED
      BY <2>1, <2>3, <2>4, <2>5
  <1>3. CASE leader[s] = s /\ rest # {}
    <2>1. PICK heir \in rest :
             /\ leader' = [x \in Speakers |-> IF x \in rest THEN heir ELSE leader[x]]
             /\ playing' = IF s \in playing THEN (playing \ {s}) \cup {heir} ELSE playing
             /\ paused' = IF s \in paused THEN (paused \ {s}) \cup {heir} ELSE paused
      BY <1>3 DEF Unjoin
    <2>2. \A x \in Speakers : x \in rest <=> leader[x] = s /\ x # s
      BY <1>3 DEF Group
    <2>3. heir \in Speakers /\ leader[heir] = s /\ heir # s
      BY <2>2 DEF Group
    <2>4. \A x \in Speakers : leader'[x] = IF leader[x] = s /\ x # s THEN heir ELSE leader[x]
      BY <2>1, <2>2
    <2>5. \A x \in Speakers : leader[x] # heir
      BY <2>3 DEF LeaderInv
    <2>6. Alone(s)'
      BY <1>3, <2>3, <2>4, <2>5, AloneMeansPrimed
    <2>7. ASSUME NEW x \in Speakers, Alone(x)
          PROVE  Alone(x)' /\ (x \in playing' => x \in playing)
      <3>1. x # heir /\ x # s /\ leader[x] # s
        BY <1>3, <2>3, <2>7, AloneMeans, AloneLeads
      <3>2. Alone(x)'
        BY <2>4, <2>5, <2>7, <3>1, AloneMeans, AloneMeansPrimed
      <3>. QED
        BY <2>1, <3>1, <3>2
    <2>8. heir \notin playing \cup paused
      BY <2>3 DEF LeaderInv
    <2>9. \A x \in Speakers : leader'[leader'[x]] = leader'[x]
      <3>1. \A x \in Speakers : leader[x] \in Speakers /\ leader[leader[x]] = leader[x]
        BY <1>0 DEF LeaderInv
      <3>. QED
        BY <1>3, <2>3, <2>4, <3>1
    <2>10. \A x \in playing' \cup paused' : leader'[x] = x
      <3>1. ASSUME NEW x \in playing' \cup paused' PROVE leader'[x] = x
        <4>1. x = heir \/ (x \in playing \cup paused /\ x # s)
              \/ (x = s /\ s \in playing \cup paused)
          BY <2>1
        <4>2. CASE x = heir
          BY <2>3, <2>4, <4>2
        <4>3. CASE x \in playing \cup paused
          <5>1. x \in Speakers /\ leader[x] = x
            BY <4>3 DEF LeaderInv, Types
          <5>. QED
            BY <2>4, <5>1
        <4>. QED
          BY <4>1, <4>2, <4>3
      <3>. QED
        BY <3>1
    <2>11. playing' \cap paused' = {}
      BY <2>1, <2>8 DEF LeaderInv
    <2>12. LeaderInv'
      BY <2>9, <2>10, <2>11 DEF LeaderInv
    <2>. QED
      BY <2>6, <2>7, <2>12
  <1>. QED
    BY <1>1, <1>2, <1>3

LEMMA HaltGroups ==
    ASSUME Types, LeaderInv, NEW s \in Speakers, Halt(s)
    PROVE  /\ LeaderInv'
           /\ UNCHANGED leader
           /\ playing' \subseteq playing
           /\ Alone(s) => s \notin playing'
  <1>1. /\ UNCHANGED leader
        /\ playing' \subseteq playing /\ paused' \subseteq paused
        /\ leader[s] = s => s \notin playing'
    BY DEF Halt
  <1>2. LeaderInv'
    BY <1>1 DEF LeaderInv
  <1>. QED
    BY <1>1, <1>2, AloneLeads

LEMMA JoinGroups ==
    ASSUME Types, LockInv, LeaderInv, NEW t \in Threads, Join(t)
    PROVE  LeaderInv'
  <1>. DEFINE head == thread[t].head
              lead == leader[head]
  <1>1. head \in Speakers
    BY DEF Join, At, LockInv, Hijacking
  <1>2. leader \in [Speakers -> Speakers] /\ lead \in Speakers /\ leader[lead] = lead
    BY <1>1 DEF Types, LeaderInv
  <1>3. PICK some \in SUBSET {s \in thread[t].found : Group(s) = {s}} :
          /\ leader' = [s \in Speakers |-> IF s \in some THEN lead ELSE leader[s]]
          /\ playing' = {s \in playing : leader'[s] = s}
          /\ paused' = {s \in paused : leader'[s] = s}
    BY DEF Join
  <1>4. \A s \in some : s \in Speakers /\ Alone(s)
    BY <1>3 DEF Types, Thread, Alone
  <1>. HIDE DEF lead, head
  <1>5. \A x \in Speakers : leader'[x] = IF x \in some THEN lead ELSE leader[x]
    BY <1>3
  <1>6. leader'[lead] = lead
    BY <1>2, <1>5
  <1>7. \A x \in Speakers : x \notin some => leader[x] \notin some
    <2>1. ASSUME NEW x \in Speakers, leader[x] \in some PROVE x \in some
      <3>1. Alone(leader[x]) /\ leader[x] \in Speakers
        BY <1>4, <2>1
      <3>2. leader[leader[x]] = leader[x]
        BY DEF LeaderInv
      <3>3. x = leader[x]
        BY <3>1, <3>2, AloneMeans
      <3>. QED
        BY <2>1, <3>3
    <2>. QED
      BY <2>1
  <1>8. \A x \in Speakers : leader'[leader'[x]] = leader'[x]
    <2>1. \A x \in Speakers : leader[x] \in Speakers /\ leader[leader[x]] = leader[x]
      BY <1>2 DEF LeaderInv
    <2>. QED
      BY <1>5, <1>6, <1>7, <2>1
  <1>. QED
    BY <1>3, <1>8 DEF LeaderInv

GroupsInv == LeaderInv /\ StopInv /\ HushedInv

\* A thread whose stop goes smoothly was there before, with the same speakers.
StopKept(u) ==
    thread'[u].op = "stop" /\ thread'[u].smooth =>
        /\ thread[u].op = "stop" /\ thread[u].smooth
        /\ thread'[u].found = thread[u].found
        /\ thread'[u].unjoin = thread[u].unjoin
        /\ thread'[u].halt = thread[u].halt

LEMMA SameIsKept ==
    ASSUME NEW u, thread'[u] = thread[u] PROVE StopKept(u)
  BY DEF StopKept

LEMMA EndedIsKept ==
    ASSUME Types, NEW t \in Threads, Ends(t)
    PROVE  \A u \in Threads : StopKept(u)
  BY EndsThread DEF StopKept, Idle

\* Steps that do not touch speakers, nor take the lock.
LEMMA RestGroups ==
    ASSUME GroupsInv, UNCHANGED speakers, UNCHANGED hushed, lock' => lock,
           \A u \in Threads : StopKept(u)
    PROVE  GroupsInv'
  <1>. USE DEF speakers
  <1>1. LeaderInv'
    BY DEF GroupsInv, LeaderInv
  <1>2. StopInv'
    BY DEF GroupsInv, StopInv, StopKept, Alone, Group
  <1>3. HushedInv'
    BY DEF GroupsInv, HushedInv, Alone, Group
  <1>. QED
    BY <1>1, <1>2, <1>3 DEF GroupsInv

\* Once music may start, no stop is answerable, and nothing is said to be silent.
LEMMA DisturbedGroups ==
    ASSUME Types, LeaderInv', NEW t \in Threads, thread'[t].op # "stop", hushed' = {},
           \A u \in Threads \ {t} : thread'[u] = Mute(thread[u])
    PROVE  GroupsInv'
  <1>1. ASSUME NEW u \in Threads \ {t} PROVE ~thread'[u].smooth
    <2>1. thread[u] \in Thread /\ thread'[u] = Mute(thread[u])
      BY DEF Types
    <2>2. thread'[u].smooth = FALSE
      BY <2>1, MuteThread
    <2>. QED
      BY <2>2
  <1>. QED
    BY <1>1 DEF GroupsInv, StopInv, HushedInv

LEMMA StartHijackGroups ==
    ASSUME Types, GroupsInv, NEW t \in Threads, StartHijack(t), UNCHANGED speakers
    PROVE  GroupsInv'
  <1>1. thread'[t].op # "stop" /\ hushed' = {}
        /\ \A u \in Threads \ {t} : thread'[u] = Mute(thread[u])
    BY StartHijackThread, BegunThread
  <1>2. LeaderInv'
    BY DEF GroupsInv, LeaderInv, speakers
  <1>. QED
    BY <1>1, <1>2, DisturbedGroups

\* The steps of a hijack that touch speakers, with the lock.
LEMMA LockedGroups ==
    ASSUME Types, LockInv, GroupsInv, NEW t \in Threads, Hijacking(t), LeaderInv',
           UNCHANGED hushed, \A u \in Threads : StopKept(u)
    PROVE  GroupsInv'
  <1>1. lock /\ hushed = {}
    BY DEF LockInv, GroupsInv, HushedInv
  <1>2. \A u \in Threads : ~(thread[u].op = "stop" /\ thread[u].smooth)
    BY <1>1 DEF GroupsInv, StopInv
  <1>. QED
    BY <1>1, <1>2 DEF GroupsInv, StopInv, HushedInv, StopKept

LEMMA PlayGroups ==
    ASSUME Types, LockInv, GroupsInv, NEW t \in Threads, Play(t) \/ GiveUp(t)
    PROVE  GroupsInv'
  <1>1. Hijacking(t) /\ UNCHANGED <<hushed, leader>> /\ Ends(t)
    BY DEF Play, GiveUp, At, Hijacking, Releases
  <1>2. Starts(thread[t].head) \/ UNCHANGED <<playing, paused>>
    BY DEF Play, GiveUp
  <1>3. LeaderInv'
    BY <1>1, <1>2 DEF Starts, GroupsInv, LeaderInv
  <1>. QED
    BY <1>1, <1>3, EndedIsKept, LockedGroups

LEMMA JoinStopGroups ==
    ASSUME Types, LockInv, GroupsInv, NEW t \in Threads, Join(t)
    PROVE  GroupsInv'
  <1>1. Hijacking(t) /\ UNCHANGED hushed
    BY DEF Join, At, Hijacking, history
  <1>2. LeaderInv'
    BY JoinGroups DEF GroupsInv
  <1>3. thread[t] \in Thread /\ thread \in [Threads -> Thread]
    BY DEF Types
  <1>4. thread'[t].op = thread[t].op /\ \A u \in Threads \ {t} : thread'[u] = thread[u]
    BY <1>3 DEF Join, Thread
  <1>5. \A u \in Threads : StopKept(u)
    BY <1>1, <1>4 DEF StopKept, Hijacking
  <1>. QED
    BY <1>1, <1>2, <1>5, LockedGroups

LEMMA ResumeGroups ==
    ASSUME Types, GroupsInv, NEW t \in Threads, Resume(t)
    PROVE  GroupsInv'
  <1>1. thread' = [Disturbed(thread) EXCEPT ![t] = Idle] /\ hushed' = {} /\ UNCHANGED leader
        /\ \/ UNCHANGED <<playing, paused>>
           \/ /\ leader[coord] = coord
              /\ playing' \subseteq playing \cup {coord} /\ paused' = paused \ {coord}
    BY DEF Resume, Leads
  <1>2. thread'[t] = Idle /\ \A u \in Threads \ {t} : thread'[u] = Mute(thread[u])
    BY <1>1, DisturbThread, IdleIsThread
  <1>3. thread'[t].op # "stop"
    BY <1>2 DEF Idle
  <1>4. LeaderInv'
    BY <1>1 DEF GroupsInv, LeaderInv
  <1>. QED
    BY <1>1, <1>2, <1>3, <1>4, DisturbedGroups

LEMMA PauseGroups ==
    ASSUME Types, GroupsInv, NEW t \in Threads, Pause(t)
    PROVE  GroupsInv'
  <1>1. UNCHANGED <<leader, lock, hushed>> /\ Ends(t)
        /\ \/ UNCHANGED <<playing, paused>>
           \/ /\ leader[coord] = coord
              /\ playing' = playing \ {coord}
              /\ paused' \subseteq paused \cup {coord}
    BY DEF Pause, Leads
  <1>2. LeaderInv'
    BY <1>1 DEF GroupsInv, LeaderInv
  <1>3. \A u \in Threads : StopKept(u)
    BY <1>1, EndedIsKept
  <1>4. StopInv'
    BY <1>1, <1>3 DEF GroupsInv, StopInv, StopKept, Alone, Group
  <1>5. HushedInv'
    BY <1>1 DEF GroupsInv, HushedInv, Alone, Group
  <1>. QED
    BY <1>2, <1>4, <1>5 DEF GroupsInv

\* One speaker of a reset less to leave its group, or to stop.
LEMMA ResetGroups ==
    ASSUME Types, GroupsInv, NEW t \in Threads, ResetUnjoin(t) \/ ResetHalt(t)
    PROVE  GroupsInv'
  <1>1. thread[t] \in Thread /\ thread \in [Threads -> Thread]
    BY DEF Types
  <1>2. UNCHANGED <<lock, hushed>>
    BY DEF ResetUnjoin, ResetHalt, history
  <1>3. \A u \in Threads : thread[u].found \subseteq Speakers
    BY DEF Types, Thread
  <1>4. CASE ResetUnjoin(t)
    <2>1. PICK s \in thread[t].unjoin :
             /\ thread' = [thread EXCEPT ![t].unjoin = @ \ {s}, ![t].halt = @ \cup {s}]
             /\ Unjoin(s)
      BY <1>4 DEF ResetUnjoin
    <2>2. s \in Speakers
      BY <1>1 DEF Thread
    <2>3. /\ LeaderInv' /\ Alone(s)'
          /\ \A x \in Speakers : Alone(x) => Alone(x)' /\ (x \in playing' => x \in playing)
      BY <2>1, <2>2, UnjoinGroups DEF GroupsInv
    <2>4. /\ thread'[t].op = thread[t].op /\ (thread'[t].smooth <=> thread[t].smooth)
          /\ thread'[t].found = thread[t].found
          /\ thread'[t].unjoin = thread[t].unjoin \ {s}
          /\ thread'[t].halt = thread[t].halt \cup {s}
      BY <1>1, <2>1 DEF Thread
    <2>5. \A u \in Threads \ {t} : thread'[u] = thread[u]
      BY <1>1, <2>1
    <2>6. ASSUME NEW u \in Threads, thread'[u].op = "stop", thread'[u].smooth
          PROVE  /\ ~lock'
                 /\ \A x \in thread'[u].found :
                       /\ x \notin thread'[u].unjoin => Alone(x)'
                       /\ x \notin thread'[u].unjoin \cup thread'[u].halt => x \notin playing'
      <3>1. thread[u].op = "stop" /\ thread[u].smooth /\ thread'[u].found = thread[u].found
        BY <2>4, <2>5, <2>6
      <3>2. ~lock'
        BY <1>2, <3>1 DEF GroupsInv, StopInv
      <3>3. ASSUME NEW x \in thread'[u].found
            PROVE  /\ x \notin thread'[u].unjoin => Alone(x)'
                   /\ x \notin thread'[u].unjoin \cup thread'[u].halt => x \notin playing'
        <4>1. x \in thread[u].found /\ x \in Speakers
          BY <1>3, <3>1, <3>3
        <4>2. /\ x \notin thread[u].unjoin => Alone(x)
              /\ x \notin thread[u].unjoin \cup thread[u].halt => x \notin playing
          BY <3>1, <4>1 DEF GroupsInv, StopInv
        <4>3. /\ x \notin thread'[u].unjoin /\ x # s => x \notin thread[u].unjoin
              /\ x \notin thread'[u].unjoin \cup thread'[u].halt =>
                    x \notin thread[u].unjoin \cup thread[u].halt
          BY <2>4, <2>5
        <4>. QED
          BY <2>3, <4>1, <4>2, <4>3
      <3>. QED
        BY <3>2, <3>3
    <2>7. StopInv'
      BY <2>6 DEF StopInv
    <2>8. HushedInv'
      BY <1>2, <2>3 DEF GroupsInv, HushedInv, Types
    <2>. QED
      BY <2>3, <2>7, <2>8 DEF GroupsInv
  <1>5. CASE ResetHalt(t)
    <2>1. PICK s \in thread[t].halt :
             thread' = [thread EXCEPT ![t].halt = @ \ {s}] /\ Halt(s)
      BY <1>5 DEF ResetHalt
    <2>2. s \in Speakers
      BY <1>1 DEF Thread
    <2>3. /\ LeaderInv' /\ UNCHANGED leader
          /\ playing' \subseteq playing
          /\ Alone(s) => s \notin playing'
      BY <2>1, <2>2, HaltGroups DEF GroupsInv
    <2>4. /\ thread'[t].op = thread[t].op /\ (thread'[t].smooth <=> thread[t].smooth)
          /\ thread'[t].found = thread[t].found
          /\ thread'[t].unjoin = thread[t].unjoin
          /\ thread'[t].halt = thread[t].halt \ {s}
      BY <1>1, <2>1 DEF Thread
    <2>5. \A u \in Threads \ {t} : thread'[u] = thread[u]
      BY <1>1, <2>1
    <2>6. ASSUME NEW u \in Threads, thread'[u].op = "stop", thread'[u].smooth
          PROVE  /\ ~lock'
                 /\ \A x \in thread'[u].found :
                       /\ x \notin thread'[u].unjoin => Alone(x)'
                       /\ x \notin thread'[u].unjoin \cup thread'[u].halt => x \notin playing'
      <3>1. thread[u].op = "stop" /\ thread[u].smooth /\ thread'[u].found = thread[u].found
            /\ thread'[u].unjoin = thread[u].unjoin
        BY <2>4, <2>5, <2>6
      <3>2. ~lock'
        BY <1>2, <3>1 DEF GroupsInv, StopInv
      <3>3. ASSUME NEW x \in thread'[u].found
            PROVE  /\ x \notin thread'[u].unjoin => Alone(x)'
                   /\ x \notin thread'[u].unjoin \cup thread'[u].halt => x \notin playing'
        <4>1. /\ x \notin thread[u].unjoin => Alone(x)
              /\ x \notin thread[u].unjoin \cup thread[u].halt => x \notin playing
          BY <3>1, <3>3 DEF GroupsInv, StopInv
        <4>2. Alone(x)' <=> Alone(x)
          BY <2>3 DEF Alone, Group
        <4>3. x \notin thread'[u].halt /\ x # s => x \notin thread[u].halt
          BY <2>4, <2>5
        <4>. QED
          BY <2>3, <3>1, <4>1, <4>2, <4>3
      <3>. QED
        BY <3>2, <3>3
    <2>7. StopInv'
      BY <2>6 DEF StopInv
    <2>8. HushedInv'
      BY <1>2, <2>3 DEF GroupsInv, HushedInv, Alone, Group
    <2>. QED
      BY <2>3, <2>7, <2>8 DEF GroupsInv
  <1>. QED
    BY <1>4, <1>5

LEMMA StopEndsGroups ==
    ASSUME Types, GroupsInv, NEW t \in Threads, StopEnds(t)
    PROVE  GroupsInv'
  <1>1. /\ thread[t].op = "stop" /\ thread[t].unjoin = {} /\ thread[t].halt = {}
        /\ UNCHANGED <<lock, leader, playing, paused>> /\ Ends(t)
        /\ hushed' = hushed \/ (thread[t].smooth /\ hushed' = thread[t].found)
    BY DEF StopEnds, IsReset, speakers
  <1>2. LeaderInv'
    BY <1>1 DEF GroupsInv, LeaderInv
  <1>3. StopInv'
    BY <1>1, EndedIsKept DEF GroupsInv, StopInv, StopKept, Alone, Group
  <1>4. HushedInv'
    <2>1. CASE hushed' = hushed
      BY <1>1, <2>1 DEF GroupsInv, HushedInv, Alone, Group
    <2>2. CASE thread[t].smooth /\ hushed' = thread[t].found
      <3>1. /\ ~lock
            /\ \A s \in thread[t].found : Alone(s) /\ s \notin playing
        BY <1>1, <2>2 DEF GroupsInv, StopInv
      <3>. QED
        BY <1>1, <2>2, <3>1 DEF HushedInv, Alone, Group
    <2>. QED
      BY <1>1, <2>1, <2>2
  <1>. QED
    BY <1>2, <1>3, <1>4 DEF GroupsInv

LEMMA RequestStopGroups ==
    ASSUME Types, GroupsInv, NEW t \in Threads, RequestStop(t)
    PROVE  GroupsInv'
  <1>. DEFINE r == [Idle EXCEPT !.op = "stop", !.at = "reset", !.smooth = ~lock,
                                !.found = Group(coord), !.unjoin = Group(coord)]
  <1>1. /\ thread' = [thread EXCEPT ![t] = r]
        /\ UNCHANGED <<lock, leader, playing, paused, hushed>>
    BY DEF RequestStop, speakers, history
  <1>2. r.found = Group(coord) /\ r.unjoin = Group(coord) /\ (r.smooth <=> ~lock)
    BY DEF Idle
  <1>. HIDE DEF r
  <1>3. thread'[t] = r /\ \A u \in Threads \ {t} : thread'[u] = thread[u]
    BY <1>1 DEF Types
  <1>4. LeaderInv'
    BY <1>1 DEF GroupsInv, LeaderInv
  <1>5. ASSUME NEW u \in Threads, thread'[u].op = "stop", thread'[u].smooth
        PROVE  /\ ~lock'
               /\ \A x \in thread'[u].found :
                     /\ x \notin thread'[u].unjoin => Alone(x)'
                     /\ x \notin thread'[u].unjoin \cup thread'[u].halt => x \notin playing'
    <2>1. CASE u = t
      BY <1>1, <1>2, <1>3, <1>5, <2>1
    <2>2. CASE u # t
      BY <1>1, <1>3, <1>5, <2>2 DEF GroupsInv, StopInv, Alone, Group
    <2>. QED
      BY <2>1, <2>2
  <1>6. StopInv'
    BY <1>5 DEF StopInv
  <1>7. HushedInv'
    BY <1>1 DEF GroupsInv, HushedInv, Alone, Group
  <1>. QED
    BY <1>4, <1>6, <1>7 DEF GroupsInv

\* The steps of threads that do not touch speakers.
LEMMA QuietGroups ==
    ASSUME Types, LockInv, GroupsInv, NEW t \in Threads,
           \/ RequestContext(t) \/ Ask(t) \/ AskRaises(t) \/ Wait(t) \/ TimeOut(t)
           \/ ReturnContext(t) \/ ReadContext(t) \/ Discover(t) \/ HijackReset(t) \/ Break(t)
           \/ ResetFails(t)
           \/ RequestToggle(t) /\ coord # None
           \/ Query(t) /\ ~StartHijack(t)
    PROVE  GroupsInv'
  <1>1. thread[t] \in Thread /\ thread \in [Threads -> Thread]
    BY DEF Types
  <1>2. UNCHANGED <<speakers, hushed>>
    BY DEF RequestContext, Ask, AskRaises, Wait, TimeOut, ReturnContext, ReadContext, Discover,
           HijackReset, Break, ResetFails, RequestToggle, Query, history
  <1>3. lock' = lock \/ lock' = FALSE
    BY DEF RequestContext, Ask, AskRaises, Wait, TimeOut, ReturnsNothing, Releases, ReturnContext,
           ReadContext, Discover, HijackReset, Break, ResetFails, RequestToggle, Query
  <1>4. ASSUME thread'[t].op # "stop" \/ ~thread'[t].smooth,
               \A u \in Threads \ {t} : thread'[u] = thread[u]
        PROVE  GroupsInv'
    <2>1. \A u \in Threads : StopKept(u)
      BY <1>4 DEF StopKept
    <2>. QED
      BY <1>2, <1>3, <2>1, RestGroups
  <1>5. ASSUME Ends(t) PROVE GroupsInv'
    BY <1>2, <1>3, <1>5, EndedIsKept, RestGroups
  <1>6. CASE RequestContext(t)
    <2>1. thread' = [thread EXCEPT ![t] = [Idle EXCEPT !.op = "context", !.at = "ask"]]
      BY <1>6 DEF RequestContext
    <2>2. [Idle EXCEPT !.op = "context", !.at = "ask"].op # "stop"
      BY DEF Idle
    <2>. QED
      BY <1>1, <1>4, <2>1, <2>2
  <1>7. CASE RequestToggle(t) /\ coord # None
    <2>1. thread' = [thread EXCEPT ![t] = [Idle EXCEPT !.op = "toggle", !.at = "query"]]
      BY <1>7 DEF RequestToggle
    <2>2. [Idle EXCEPT !.op = "toggle", !.at = "query"].op # "stop"
      BY DEF Idle
    <2>. QED
      BY <1>1, <1>4, <2>1, <2>2
  <1>8. CASE Ask(t)
    <2>1. thread[t].op # "stop"
      BY <1>8 DEF Ask, LockInv
    <2>. QED
      BY <1>1, <1>4, <1>8, <2>1 DEF Ask, Thread
  <1>9. CASE Wait(t)
    <2>1. thread[t].op # "stop"
      BY <1>9 DEF Wait, LockInv
    <2>. QED
      BY <1>1, <1>4, <1>9, <2>1 DEF Wait, Goes, Thread
  <1>10. CASE AskRaises(t)
    <2>1. thread' = [thread EXCEPT ![t] = Idle]
      BY <1>10 DEF AskRaises, ReturnsNothing, Releases, Ends
    <2>. QED
      BY <1>1, <1>4, <2>1 DEF Idle
  <1>11. CASE TimeOut(t) \/ ReturnContext(t) \/ Break(t)
    BY <1>5, <1>11 DEF TimeOut, ReturnsNothing, Releases, ReturnContext, Break
  <1>12. CASE ReadContext(t) \/ Discover(t)
    <2>1. thread[t].op = "hijack"
      BY <1>12 DEF ReadContext, Discover, At
    <2>2. \/ Ends(t)
          \/ thread' = [thread EXCEPT ![t].at = "discover", ![t].since = 0]
          \/ \E found \in SUBSET Speakers, head \in Speakers :
                thread' = [thread EXCEPT ![t].at = "reset", ![t].head = head,
                                         ![t].found = found, ![t].unjoin = found]
      BY <1>12 DEF ReadContext, Discover, Releases
    <2>3. CASE thread' = [thread EXCEPT ![t].at = "discover", ![t].since = 0]
      BY <1>1, <1>4, <2>1, <2>3 DEF Thread
    <2>4. ASSUME NEW found, NEW head,
                 thread' = [thread EXCEPT ![t].at = "reset", ![t].head = head,
                                          ![t].found = found, ![t].unjoin = found]
          PROVE  GroupsInv'
      BY <1>1, <1>4, <2>1, <2>4 DEF Thread
    <2>. QED
      BY <1>5, <2>2, <2>3, <2>4
  <1>13. CASE HijackReset(t)
    <2>1. thread[t].op = "hijack" /\ Goes(t, "group")
      BY <1>13 DEF HijackReset, Hijacking
    <2>. QED
      BY <1>1, <1>4, <2>1 DEF Goes, Thread
  <1>14. CASE ResetFails(t)
    <2>1. ASSUME NEW a, NEW b,
                 thread' = [thread EXCEPT ![t].unjoin = a, ![t].halt = b, ![t].smooth = FALSE]
          PROVE  GroupsInv'
      BY <1>1, <1>4, <2>1 DEF Thread
    <2>2. ASSUME NEW b, thread' = [thread EXCEPT ![t].halt = b, ![t].smooth = FALSE]
          PROVE  GroupsInv'
      BY <1>1, <1>4, <2>2 DEF Thread
    <2>. QED
      BY <1>14, <2>1, <2>2 DEF ResetFails
  <1>15. CASE Query(t) /\ ~StartHijack(t)
    <2>1. thread[t].op = "toggle"
      BY <1>15 DEF Query, At
    <2>2. Ends(t) \/ \E at \in {"pause", "resume"} : Goes(t, at)
      BY <1>15 DEF Query
    <2>3. ASSUME NEW at \in {"pause", "resume"}, Goes(t, at) PROVE GroupsInv'
      BY <1>1, <1>4, <2>1, <2>3 DEF Goes, Thread
    <2>. QED
      BY <1>5, <2>2, <2>3
  <1>. QED
    BY <1>6, <1>7, <1>8, <1>9, <1>10, <1>11, <1>12, <1>13, <1>14, <1>15

LEMMA ElseGroups ==
    ASSUME Types, GroupsInv,
           \/ Answered \/ Publish \/ PublishNone \/ PublishRaises \/ Refresh \/ Expires
           \/ SpotifyLeaves \/ SpotifyReturns \/ (\E media \in Media : Change(media))
           \/ UNCHANGED vars
    PROVE  GroupsInv'
  <1>1. UNCHANGED <<speakers, hushed, lock>>
    BY DEF Answered, Publish, PublishNone, Answers, PublishRaises, Refresh, Expires, SpotifyLeaves,
           SpotifyReturns, Change, vars, history, speakers
  <1>2. \A u \in Threads : StopKept(u)
    <2>1. CASE UNCHANGED thread
      BY <2>1 DEF StopKept
    <2>2. ASSUME Answered, NEW u \in Threads PROVE StopKept(u)
      <3>1. thread[u] \in Thread
        BY DEF Types
      <3>2. thread'[u] = thread[u] \/ thread'[u] = [thread[u] EXCEPT !.at = "answered"]
        BY <2>2, AnsweredThreads
      <3>3. CASE thread'[u] = [thread[u] EXCEPT !.at = "answered"]
        BY <3>1, <3>3 DEF StopKept, Thread
      <3>. QED
        BY <3>2, <3>3, SameIsKept
    <2>3. Answered \/ UNCHANGED thread
      BY DEF Publish, PublishNone, Answers, PublishRaises, Refresh, Expires, SpotifyLeaves,
             SpotifyReturns, Change, vars
    <2>. QED
      BY <2>1, <2>2, <2>3
  <1>. QED
    BY <1>1, <1>2, RestGroups

LEMMA NextGroups == Types /\ LockInv /\ GroupsInv /\ [Next]_vars => GroupsInv'
  <1>. SUFFICES ASSUME Types, LockInv, GroupsInv, [Next]_vars PROVE GroupsInv'
    OBVIOUS
  <1>1. ASSUME NEW t \in Threads,
               \/ RequestHijack(t)
               \/ RequestToggle(t) /\ coord = None
               \/ Query(t) /\ StartHijack(t)
        PROVE  GroupsInv'
    <2>1. StartHijack(t) /\ UNCHANGED speakers
      BY <1>1 DEF RequestHijack, RequestToggle, Query
    <2>. QED
      BY <2>1, StartHijackGroups
  <1>2. ASSUME NEW t \in Threads,
               \/ RequestContext(t) \/ Ask(t) \/ AskRaises(t) \/ Wait(t) \/ TimeOut(t)
               \/ ReturnContext(t) \/ ReadContext(t) \/ Discover(t) \/ HijackReset(t) \/ Break(t)
               \/ ResetFails(t)
               \/ RequestToggle(t) /\ coord # None
               \/ Query(t) /\ ~StartHijack(t)
        PROVE  GroupsInv'
    BY <1>2, QuietGroups
  <1>3. ASSUME NEW t \in Threads, Play(t) \/ GiveUp(t) PROVE GroupsInv'
    BY <1>3, PlayGroups
  <1>4. ASSUME NEW t \in Threads, Join(t) PROVE GroupsInv'
    BY <1>4, JoinStopGroups
  <1>5. ASSUME NEW t \in Threads, Resume(t) PROVE GroupsInv'
    BY <1>5, ResumeGroups
  <1>6. ASSUME NEW t \in Threads, Pause(t) PROVE GroupsInv'
    BY <1>6, PauseGroups
  <1>7. ASSUME NEW t \in Threads, ResetUnjoin(t) \/ ResetHalt(t) PROVE GroupsInv'
    BY <1>7, ResetGroups
  <1>8. ASSUME NEW t \in Threads, StopEnds(t) PROVE GroupsInv'
    BY <1>8, StopEndsGroups
  <1>9. ASSUME NEW t \in Threads, RequestStop(t) PROVE GroupsInv'
    BY <1>9, RequestStopGroups
  <1>10. CASE \/ Answered \/ Publish \/ PublishNone \/ PublishRaises \/ Refresh \/ Expires
              \/ SpotifyLeaves \/ SpotifyReturns \/ (\E media \in Media : Change(media))
              \/ UNCHANGED vars
    BY <1>10, ElseGroups
  <1>11. ASSUME NEW t \in Threads,
                \/ RequestHijack(t) \/ RequestContext(t) \/ RequestToggle(t) \/ RequestStop(t)
                \/ Ask(t) \/ AskRaises(t) \/ Wait(t) \/ TimeOut(t) \/ ReturnContext(t)
                \/ ReadContext(t) \/ Discover(t) \/ HijackReset(t) \/ Join(t) \/ Play(t)
                \/ GiveUp(t) \/ ResetUnjoin(t) \/ ResetHalt(t) \/ ResetFails(t) \/ Break(t)
                \/ Query(t) \/ Pause(t) \/ Resume(t) \/ StopEnds(t)
         PROVE  GroupsInv'
    <2>1. CASE RequestToggle(t)
      BY <1>1, <1>2, <2>1
    <2>2. CASE Query(t)
      BY <1>1, <1>2, <2>2
    <2>3. CASE RequestHijack(t)
      BY <1>1, <2>3
    <2>4. CASE \/ RequestContext(t) \/ Ask(t) \/ AskRaises(t) \/ Wait(t) \/ TimeOut(t)
               \/ ReturnContext(t) \/ ReadContext(t) \/ Discover(t) \/ HijackReset(t) \/ Break(t)
               \/ ResetFails(t)
      BY <1>2, <2>4
    <2>5. CASE \/ RequestStop(t) \/ Join(t) \/ Play(t) \/ GiveUp(t) \/ ResetUnjoin(t)
               \/ ResetHalt(t) \/ Pause(t) \/ Resume(t) \/ StopEnds(t)
      BY <1>3, <1>4, <1>5, <1>6, <1>7, <1>8, <1>9, <2>5
    <2>. QED
      BY <1>11, <2>1, <2>2, <2>3, <2>4, <2>5
  <1>. QED
    BY <1>10, <1>11 DEF Next

-----------------------------------------------------------------------------
(* Theorems *)

LEMMA InitInv == Init => SonosInv
  <1>. SUFFICES ASSUME Init PROVE SonosInv
    OBVIOUS
  <1>1. 0 \in 0 .. MaxRequests /\ 0 \in 0 .. MaxChanges /\ 0 \in 0 .. MaxOutages
    BY SonosAssumption
  <1>2. NoSong \in Song /\ [media |-> "uri", at |-> 0] \in Song
    BY <1>1 DEF NoSong, Song, Media
  <1>3. thread \in [Threads -> Thread] /\ \A t \in Threads : thread[t] = Idle
    BY IdleIsThread DEF Init
  <1>4. \A t \in Threads : /\ thread[t].op = "none" /\ thread[t].at = "idle"
                           /\ thread[t].since = 0
    BY <1>3 DEF Idle
  <1>5. count \in Counts /\ count.requests = 0 /\ count.changes = 0
    BY <1>1 DEF Init, Counts
  <1>6. Types
    <2>1. answers = <<>> /\ now.at = 0 /\ leader = [s \in Speakers |-> s]
      BY DEF Init
    <2>2. answers \in Seq(Song) /\ leader \in [Speakers -> Speakers] /\ now.at = count.changes
      BY <1>5, <2>1
    <2>3. coord \in Speakers \cup {None} /\ auth \in {"none", "expired", "valid"} /\ asks \in Nat
      BY DEF Init
    <2>4. lock \in BOOLEAN /\ ready \in BOOLEAN /\ known \in BOOLEAN
      BY DEF Init
    <2>5. context \in Song /\ now \in Song
      BY <1>2 DEF Init
    <2>6. /\ playing \subseteq Speakers /\ paused \subseteq Speakers /\ hushed \subseteq Speakers
          /\ unlucky \subseteq Threads /\ crossed \subseteq Threads
      BY DEF Init
    <2>. QED
      BY <1>3, <1>5, <2>2, <2>3, <2>4, <2>5, <2>6 DEF Types
  <1>7. LockInv
    BY <1>4 DEF Init, LockInv, Hijacking
  <1>8. AsksInv
    <2>1. Owing = {}
      BY <1>4 DEF Owing
    <2>. QED
      BY <1>5, <2>1, FS_EmptySet DEF Init, AsksInv
  <1>9. ContextInv /\ FreshContext /\ ComingInv /\ AnswerIsComing
    BY <1>4 DEF Init, ContextInv, FreshContext, ComingInv, AnswerIsComing, Asking
  <1>10. LeaderInv
    BY DEF Init, LeaderInv
  <1>11. StopInv /\ HushedInv
    BY <1>4 DEF Init, StopInv, HushedInv
  <1>. QED
    BY <1>6, <1>7, <1>8, <1>9, <1>10, <1>11 DEF SonosInv

THEOREM Invariance == Spec => []SonosInv
  <1>1. SonosInv /\ [Next]_vars => SonosInv'
    BY NextTypes, NextLock, NextAsks, NextContext, NextGroups DEF SonosInv, GroupsInv
  <1>. QED
    BY <1>1, InitInv, PTL DEF Spec

\* _spotify_hijack: it keeps its types, and the lock is held exactly while one
\* thread hijacks, whatever raises.
THEOREM TypeCorrect == Spec => []TypeOK
  <1>1. SonosInv => TypeOK
    <2>. SUFFICES ASSUME SonosInv PROVE TypeOK
      OBVIOUS
    <2>. DEFINE H == {t \in Threads : Hijacking(t)}
    <2>1. Cardinality(H) = IF lock THEN 1 ELSE 0
      <3>1. CASE lock
        <4>1. PICK t \in Threads : Hijacking(t)
          BY <3>1 DEF SonosInv, LockInv
        <4>2. H = {t}
          BY <4>1 DEF SonosInv, LockInv
        <4>. QED
          BY <3>1, <4>2, FS_Singleton
      <3>2. CASE ~lock
        <4>1. H = {}
          BY <3>2 DEF SonosInv, LockInv
        <4>. QED
          BY <3>2, <4>1, FS_EmptySet
      <3>. QED
        BY <3>1, <3>2
    <2>2. asks \in 0 .. MaxRequests
      <3>1. asks \in Nat /\ count.requests \in 0 .. MaxRequests
        BY DEF SonosInv, Types, Counts
      <3>. QED
        BY <3>1, OwingFinite, SonosAssumption DEF SonosInv, AsksInv
    <2>3. paused \subseteq Speakers \ playing
      BY DEF SonosInv, Types, LeaderInv
    <2>4. {unlucky, crossed} \subseteq SUBSET Threads
      BY DEF SonosInv, Types
    <2>. QED
      BY <2>1, <2>2, <2>3, <2>4 DEF SonosInv, Types, TypeOK
  <1>. QED
    BY <1>1, Invariance, PTL

\* _get_spotify_context: a hijack never plays the answer to an older question, unless
\* that was on its way when it asked.
THEOREM ContextAlwaysFresh == Spec => []FreshContext
  <1>1. SonosInv => FreshContext
    BY DEF SonosInv
  <1>. QED
    BY <1>1, Invariance, PTL

\* _get_spotify_context: although all threads clear the one event, none waits for
\* an answer that has already come, unless one was lost.
THEOREM AnswerAlwaysComing == Spec => []AnswerIsComing
  <1>1. SonosInv => AnswerIsComing
    BY DEF SonosInv
  <1>. QED
    BY <1>1, Invariance, PTL

\* sonos_reset_state: what a stop of all silenced stays silent until somebody asks
\* for music, in whatever order speakers leave their group and stop.
THEOREM StopAlwaysSilences == Spec => []StopAllSilences
  <1>1. SonosInv => StopAllSilences
    <2>. SUFFICES ASSUME SonosInv, NEW s \in hushed PROVE leader[s] \notin playing
      BY DEF StopAllSilences
    <2>1. s \in Speakers /\ Alone(s) /\ s \notin playing
      BY DEF SonosInv, Types, HushedInv
    <2>. QED
      BY <2>1, AloneLeads DEF SonosInv
  <1>. QED
    BY <1>1, Invariance, PTL

=============================================================================
