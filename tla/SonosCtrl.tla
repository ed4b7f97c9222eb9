----------------------------- MODULE SonosCtrl -----------------------------
(***************************************************************************)
(* The controller of the speakers (zmw_sonos_ctrl.py, sonos_helpers.py)    *)
(* and the Spotify service it asks what to play (zmw_spotify.py).  Each    *)
(* request, from the web or over MQTT, runs on a thread of its own; the    *)
(* MQTT thread handles what Spotify's service answers.  A step of a thread *)
(* ends where it waits, for an answer, a speaker, or the user's browser.   *)
(***************************************************************************)
EXTENDS Integers, Sequences, FiniteSets

CONSTANTS
    Threads,      \* requests that can be handled at the same time
    Speakers,
    None,
    MaxRequests,  \* bound: requests of users
    MaxChanges,   \* bound: what plays on Spotify changes
    MaxOutages    \* bound: the Spotify service goes, or its token expires

ASSUME SonosAssumption ==
    /\ IsFiniteSet(Threads)
    /\ None \notin Speakers
    /\ MaxRequests \in Nat
    /\ MaxChanges \in Nat
    /\ MaxOutages \in Nat

VARIABLES
    lock,      \* _hijack_in_progress
    coord,     \* _last_active_coord
    ready,     \* _spotify_ready
    context,   \* _spotify_context
    thread,    \* what each thread does, where it is, and with which speakers
    known,     \* the Spotify service was announced
    auth,      \* ZmwSpotify._spotipy: none, or with a token that is valid or not
    asks,      \* publish_state messages on their way: all alike
    answers,   \* the states published, on their way
    now,       \* what plays on Spotify, and since when
    leader,    \* the coordinator each speaker follows
    playing,   \* coordinators whose group plays
    paused,    \* and those it was paused on
    unlucky,   \* history: threads that wait, and an answer was lost
    crossed,   \* history: threads that asked with an answer on its way
    hushed,    \* history: speakers the last stop of all silenced
    count      \* bounds: requests, changes, outages

vars == <<lock, coord, ready, context, thread, known, auth, asks, answers, now,
          leader, playing, paused, unlucky, crossed, hushed, count>>

event    == <<ready, context>>
spotify  == <<known, auth, asks, answers, now>>
speakers == <<leader, playing, paused>>
history  == <<unlucky, crossed, hushed>>

-----------------------------------------------------------------------------

Op == {"none", "hijack", "context", "toggle", "stop"}

Place == {"idle", "ask", "asked", "waits", "answered", "discover", "reset",
          "group", "play", "query", "pause", "resume"}

\* What a published state says of the media.  For "none", media_info is None because
\* ZmwSpotify could not tell, or its context is, because what plays is of no list.
Media == {"none", "nothing", "uri"}

Song == [media : Media, at : 0 .. MaxChanges]

NoSong == [media |-> "none", at |-> 0]

\* found are the speakers it works on, head the coordinator of the group they will
\* be; unjoin and halt those that still have to leave their group, and to stop.
\* since and smooth are history: when it asked, and whether nothing came between.
Thread == [op : Op, at : Place, head : Speakers \cup {None}, found : SUBSET Speakers,
           unjoin : SUBSET Speakers, halt : SUBSET Speakers,
           since : 0 .. MaxChanges, smooth : BOOLEAN]

Idle == [op |-> "none", at |-> "idle", head |-> None, found |-> {},
         unjoin |-> {}, halt |-> {}, since |-> 0, smooth |-> TRUE]

\* Music may start: no stop that is under way is answerable for it.
Disturbed(th) == [t \in Threads |-> [th[t] EXCEPT !.smooth = FALSE]]

\* After the lock was taken.
Hijacking(t) == thread[t].op = "hijack"

Init ==
    /\ lock = FALSE
    /\ coord = None
    /\ ready = FALSE
    /\ context = NoSong
    /\ thread = [t \in Threads |-> Idle]
    /\ known = TRUE
    /\ auth = "valid"
    /\ asks = 0
    /\ answers = <<>>
    /\ now = [media |-> "uri", at |-> 0]
    /\ leader = [s \in Speakers |-> s]
    /\ playing = {}
    /\ paused = {}
    /\ unlucky = {} /\ crossed = {} /\ hushed = {}
    /\ count = [requests |-> 0, changes |-> 0, outages |-> 0]

-----------------------------------------------------------------------------
(* Threads *)

At(t, op, at) == thread[t].op = op /\ thread[t].at = at

Goes(t, at) == thread' = [thread EXCEPT ![t].at = at]

\* The end of a request; with an exception or without.
Ends(t) ==
    /\ thread' = [thread EXCEPT ![t] = Idle]
    /\ unlucky' = unlucky \ {t}
    /\ crossed' = crossed \ {t}

\* ... and of a hijack: whatever happened, finally releases the lock.
Releases(t, c) ==
    /\ Ends(t)
    /\ lock' = FALSE
    /\ coord' = c

\* _get_spotify_context returns None.
ReturnsNothing(t) ==
    IF Hijacking(t) THEN Releases(t, coord) ELSE Ends(t) /\ UNCHANGED <<lock, coord>>

Outage ==
    /\ count.outages < MaxOutages
    /\ count' = [count EXCEPT !.outages = @ + 1]

Request(t) ==
    /\ thread[t].at = "idle"
    /\ count.requests < MaxRequests
    /\ count' = [count EXCEPT !.requests = @ + 1]

\* A second hijack is refused.
StartHijack(t) ==
    /\ ~lock
    /\ lock' = TRUE
    /\ thread' = [Disturbed(thread) EXCEPT ![t] = [Idle EXCEPT !.op = "hijack", !.at = "ask"]]
    /\ hushed' = {}

\* _ws_spotify_hijack, or its message.
RequestHijack(t) ==
    /\ Request(t)
    /\ StartHijack(t)
    /\ UNCHANGED <<coord, event, spotify, speakers, unlucky, crossed>>

\* The page asks for it whenever it becomes visible.
RequestContext(t) ==
    /\ Request(t)
    /\ thread' = [thread EXCEPT ![t] = [Idle EXCEPT !.op = "context", !.at = "ask"]]
    /\ UNCHANGED <<lock, coord, event, spotify, speakers, history>>

-----------------------------------------------------------------------------
(* _get_spotify_context *)

Waiting == {t \in Threads : thread[t].at \in {"asked", "waits"}}

\* Forgetting to clear the event, and clearing it too late.
AskUncleared(t) ==
    /\ thread[t].at = "ask"
    /\ known
    /\ asks' = asks + 1
    /\ ready' = ready
    /\ thread' = [thread EXCEPT ![t].at = "asked", ![t].since = now.at]
    /\ crossed' = IF answers # <<>> THEN crossed \cup {t} ELSE crossed
    /\ UNCHANGED <<lock, coord, context, known, auth, answers, now, speakers,
                   unlucky, hushed, count>>

\* clear, and then the message: an answer that arrives in between is as good as
\* one that arrives right after.
Ask(t) ==
    /\ thread[t].at = "ask"
    /\ known
    /\ asks' = asks + 1
    /\ ready' = FALSE
    /\ thread' = [thread EXCEPT ![t].at = "asked", ![t].since = now.at]
    /\ crossed' = IF answers # <<>> THEN crossed \cup {t} ELSE crossed
    /\ UNCHANGED <<lock, coord, context, known, auth, answers, now, speakers,
                   unlucky, hushed, count>>

\* message_svc raises for a service that is not known; the event was cleared.
AskRaises(t) ==
    /\ thread[t].at = "ask"
    /\ ~known
    /\ ready' = FALSE
    /\ ReturnsNothing(t)
    /\ unlucky' = (unlucky \cup Waiting) \ {t}
    /\ UNCHANGED <<context, spotify, speakers, hushed, count>>

WaitClears(t) ==
    /\ thread[t].at = "asked"
    /\ ready' = FALSE
    /\ Goes(t, "waits")
    /\ UNCHANGED <<lock, coord, context, spotify, speakers, history, count>>

\* Event.wait returns at once if the event is set.
Wait(t) ==
    /\ thread[t].at = "asked"
    /\ Goes(t, IF ready THEN "answered" ELSE "waits")
    /\ UNCHANGED <<lock, coord, event, spotify, speakers, history, count>>

TimeOut(t) ==
    /\ thread[t].at = "waits"
    /\ ReturnsNothing(t)
    /\ UNCHANGED <<event, spotify, speakers, hushed, count>>

\* on_dep_published_message keeps the state, and raises before it sets the event
\* if there is a None in the chain of get().  Setting it wakes all who wait.
Answered ==
    /\ answers # <<>>
    /\ answers' = Tail(answers)
    /\ context' = Head(answers)
    /\ IF Head(answers).media = "none"
       THEN /\ unlucky' = unlucky \cup Waiting
            /\ UNCHANGED <<ready, thread>>
       ELSE /\ ready' = TRUE
            /\ thread' = [t \in Threads |->
                            IF thread[t].at = "waits" THEN [thread[t] EXCEPT !.at = "answered"]
                            ELSE thread[t]]
            /\ unlucky' = {}
    /\ UNCHANGED <<lock, coord, known, auth, asks, now, speakers, crossed,
                   hushed, count>>

ReturnContext(t) ==
    /\ At(t, "context", "answered")
    /\ Ends(t)
    /\ UNCHANGED <<lock, coord, event, spotify, speakers, hushed, count>>

-----------------------------------------------------------------------------
(* ZmwSpotify: it answers from one thread, in order *)

\* _refresh_access_tok: by the job, or after a new authorization.
Refresh ==
    /\ \/ auth' = "valid"
       \/ auth # "none" /\ auth' = "none" /\ count.outages < MaxOutages
    /\ auth' # auth
    /\ count' = [count EXCEPT !.outages = @ + (IF auth' = "none" THEN 1 ELSE 0)]
    /\ UNCHANGED <<lock, coord, event, thread, known, asks, answers, now, speakers, history>>

Expires ==
    /\ auth = "valid"
    /\ count.outages < MaxOutages
    /\ auth' = "expired"
    /\ count' = [count EXCEPT !.outages = @ + 1]
    /\ UNCHANGED <<lock, coord, event, thread, known, asks, answers, now, speakers, history>>

Answers(media) ==
    /\ asks > 0
    /\ asks' = asks - 1
    /\ answers' = Append(answers, [media |-> media, at |-> now.at])
    /\ UNCHANGED <<lock, coord, event, thread, known, now, speakers, history, count>>

\* _get_full_state.  Refused for its token, it first asks for a new one.
Publish == auth # "none" /\ Answers(now.media) /\ auth' = "valid"

\* There is no token, or no new one, or a request fails.
PublishNone == Answers("none") /\ auth' \in {auth} \cup (IF auth = "expired" THEN {"none"} ELSE {})

\* Nothing is published: there is no new token (SpotifyOauthError), or what is played
\* lacks something, as an album (KeyError, TypeError).
PublishRaises ==
    /\ auth # "none"
    /\ asks > 0
    /\ asks' = asks - 1
    /\ unlucky' = unlucky \cup Waiting
    /\ UNCHANGED <<lock, coord, event, thread, known, auth, answers, now, speakers,
                   crossed, hushed, count>>

\* The service leaves, with the questions it has not got yet.
SpotifyLeaves ==
    /\ known
    /\ count.outages < MaxOutages
    /\ count' = [count EXCEPT !.outages = @ + 1]
    /\ known' = FALSE
    /\ asks' = 0
    /\ unlucky' = unlucky \cup Waiting
    /\ UNCHANGED <<lock, coord, event, thread, auth, answers, now, speakers, crossed, hushed>>

SpotifyReturns ==
    /\ ~known
    /\ known' = TRUE
    /\ UNCHANGED <<lock, coord, event, thread, auth, asks, answers, now, speakers,
                   history, count>>

\* The user plays something else.
Change(media) ==
    /\ count.changes < MaxChanges
    /\ count' = [count EXCEPT !.changes = @ + 1]
    /\ now' = [media |-> media, at |-> now.at + 1]
    /\ UNCHANGED <<lock, coord, event, thread, known, auth, asks, answers, speakers, history>>

-----------------------------------------------------------------------------
(* Speakers *)

Group(s) == {x \in Speakers : leader[x] = leader[s]}

\* A coordinator that leaves hands the music to another of its group; who leaves
\* it, or leaves nobody behind, is on its own.
Unjoin(s) ==
    LET rest == Group(s) \ {s} IN
    IF rest = {} THEN UNCHANGED speakers
    ELSE IF leader[s] # s THEN leader' = [leader EXCEPT ![s] = s] /\ UNCHANGED <<playing, paused>>
    ELSE \E heir \in rest :
           /\ leader' = [x \in Speakers |-> IF x \in rest THEN heir ELSE leader[x]]
           /\ playing' = IF s \in playing THEN (playing \ {s}) \cup {heir} ELSE playing
           /\ paused' = IF s \in paused THEN (paused \ {s}) \cup {heir} ELSE paused

NoHalt(s) == UNCHANGED speakers

\* Only a coordinator can be told to stop; for the others it raises.
Halt(s) ==
    /\ playing' = IF leader[s] = s THEN playing \ {s} ELSE playing
    /\ paused' = IF leader[s] = s THEN paused \ {s} ELSE paused
    /\ UNCHANGED leader

\* sonos_reset_state, of all speakers in parallel: each leaves its group, and stops.
ResetUnjoin(t) ==
    /\ thread[t].at = "reset"
    /\ \E s \in thread[t].unjoin :
          /\ thread' = [thread EXCEPT ![t].unjoin = @ \ {s}, ![t].halt = @ \cup {s}]
          /\ Unjoin(s)
    /\ UNCHANGED <<lock, coord, event, spotify, history, count>>

ResetHalt(t) ==
    /\ thread[t].at = "reset"
    /\ \E s \in thread[t].halt :
          /\ thread' = [thread EXCEPT ![t].halt = @ \ {s}]
          /\ Halt(s)
    /\ UNCHANGED <<lock, coord, event, spotify, history, count>>

\* Failures are ignored.
ResetFails(t) ==
    /\ thread[t].at = "reset"
    /\ Outage
    /\ \/ \E s \in thread[t].unjoin :
             thread' = [thread EXCEPT ![t].unjoin = @ \ {s}, ![t].halt = @ \cup {s},
                                      ![t].smooth = FALSE]
       \/ \E s \in thread[t].halt :
             thread' = [thread EXCEPT ![t].halt = @ \ {s}, ![t].smooth = FALSE]
    /\ UNCHANGED <<lock, coord, event, spotify, speakers, history>>

IsReset(t) == thread[t].at = "reset" /\ thread[t].unjoin = {} /\ thread[t].halt = {}

-----------------------------------------------------------------------------
(* The hijack, after the question was answered *)

\* sonos_fix_spotify_uris: only what is of a playlist, or a disc, can be played.
HasUri(song) == song.media = "uri"

\* What is published meanwhile can still make it raise.  Without a playlist there is
\* no new coordinator, and the old one is forgotten.
ReadContext(t) ==
    /\ At(t, "hijack", "answered")
    /\ IF HasUri(context)
       THEN /\ thread' = [thread EXCEPT ![t].at = "discover", ![t].since = 0]
            /\ crossed' = crossed \ {t}
            /\ UNCHANGED <<lock, coord, unlucky>>
       ELSE Releases(t, IF context.media = "nothing" THEN None ELSE coord)
    /\ UNCHANGED <<event, spotify, speakers, hushed, count>>

\* ls_speaker_filter finds some of the speakers; the first will lead.
Discover(t) ==
    /\ At(t, "hijack", "discover")
    /\ \/ Releases(t, None)
       \/ /\ \E found \in SUBSET Speakers \ {{}} : \E head \in found :
                thread' = [thread EXCEPT ![t].at = "reset", ![t].head = head,
                                         ![t].found = found, ![t].unjoin = found]
          /\ UNCHANGED <<lock, coord, unlucky, crossed>>
    /\ UNCHANGED <<event, spotify, speakers, hushed, count>>

HijackReset(t) ==
    /\ IsReset(t) /\ Hijacking(t)
    /\ Goes(t, "group")
    /\ UNCHANGED <<lock, coord, event, spotify, speakers, history, count>>

\* join, by all that left their groups, or some if speakers fail.
Join(t) ==
    LET alone == {s \in thread[t].found : Group(s) = {s}} IN
    /\ At(t, "hijack", "group")
    /\ \E some \in SUBSET alone :
          /\ IF some = alone THEN UNCHANGED count ELSE Outage
          /\ leader' = [s \in Speakers |-> IF s \in some THEN leader[thread[t].head] ELSE leader[s]]
          /\ playing' = {s \in playing : leader'[s] = s}
          /\ paused' = {s \in paused : leader'[s] = s}
    /\ thread' = [thread EXCEPT ![t].at = "play", ![t].found = {}]
    /\ UNCHANGED <<lock, coord, event, spotify, history>>

Starts(head) ==
    /\ leader[head] = head
    /\ playing' = playing \cup {head}
    /\ paused' = paused \ {head}

\* sonos_hijack_spotify tries up to three times to make it play, and returns the
\* coordinator if it was seen to.
Play(t) ==
    /\ At(t, "hijack", "play")
    /\ Starts(thread[t].head)
    /\ Releases(t, thread[t].head)
    /\ UNCHANGED <<event, spotify, leader, hushed, count>>

\* It does not play, or not within five seconds.
GiveUp(t) ==
    /\ At(t, "hijack", "play")
    /\ Starts(thread[t].head) \/ UNCHANGED <<playing, paused>>
    /\ Releases(t, None)
    /\ UNCHANGED <<event, spotify, leader, hushed, count>>

\* An exception, of a speaker, or because the user closed the page that is told of
\* the progress.
Break(t) ==
    /\ Hijacking(t)
    /\ thread[t].at \in {"ask", "discover", "group", "play"}
    /\ Outage
    /\ Releases(t, coord)
    /\ UNCHANGED <<event, spotify, speakers, hushed>>

-----------------------------------------------------------------------------
(* The other requests *)

\* _spotify_hijack_or_toggle_play.
RequestToggle(t) ==
    /\ Request(t)
    /\ IF coord = None THEN StartHijack(t)
       ELSE /\ thread' = [thread EXCEPT ![t] = [Idle EXCEPT !.op = "toggle", !.at = "query"]]
            /\ UNCHANGED <<lock, hushed>>
    /\ UNCHANGED <<coord, event, spotify, speakers, unlucky, crossed>>

\* The coordinator is read again, and may be None by now: that raises.  One that does
\* not answer counts as stopped, whatever it plays.
Query(t) ==
    /\ At(t, "toggle", "query")
    /\ \/ coord = None /\ Ends(t) /\ UNCHANGED <<lock, hushed>>
       \/ /\ coord # None
          /\ leader[coord] \in playing \cup paused
          /\ Goes(t, IF leader[coord] \in playing THEN "pause" ELSE "resume")
          /\ UNCHANGED <<lock, unlucky, crossed, hushed>>
       \/ coord # None /\ lock /\ Ends(t) /\ UNCHANGED <<lock, hushed>>
       \/ coord # None /\ ~lock /\ StartHijack(t) /\ UNCHANGED <<unlucky, crossed>>
    /\ UNCHANGED <<coord, event, spotify, speakers, count>>

\* And a speaker that does not lead its group raises.
Leads(c) == c # None /\ leader[c] = c

Pause(t) ==
    /\ At(t, "toggle", "pause")
    /\ IF Leads(coord)
       THEN /\ playing' = playing \ {coord}
            /\ paused' = IF coord \in playing THEN paused \cup {coord} ELSE paused
       ELSE UNCHANGED <<playing, paused>>
    /\ Ends(t)
    /\ UNCHANGED <<lock, coord, event, spotify, leader, hushed, count>>

Resume(t) ==
    /\ At(t, "toggle", "resume")
    /\ IF Leads(coord)
       THEN /\ playing' = IF coord \in paused THEN playing \cup {coord} ELSE playing
            /\ paused' = paused \ {coord}
       ELSE UNCHANGED <<playing, paused>>
    /\ thread' = [Disturbed(thread) EXCEPT ![t] = Idle]
    /\ hushed' = {}
    /\ UNCHANGED <<lock, coord, event, spotify, leader, unlucky, crossed, count>>

\* _stop_all tells Spotify, which raises if that service is not known, and then
\* resets the group of the coordinator.
RequestStop(t) ==
    /\ Request(t)
    /\ known
    /\ coord # None
    /\ thread' = [thread EXCEPT ![t] = [Idle EXCEPT !.op = "stop", !.at = "reset", !.smooth = ~lock,
                                          !.found = Group(coord), !.unjoin = Group(coord)]]
    /\ UNCHANGED <<lock, coord, event, spotify, speakers, history>>

StopEnds(t) ==
    /\ IsReset(t) /\ thread[t].op = "stop"
    /\ hushed' = IF thread[t].smooth THEN thread[t].found ELSE hushed
    /\ Ends(t)
    /\ UNCHANGED <<lock, coord, event, spotify, speakers, count>>

-----------------------------------------------------------------------------

Next ==
    \/ \E t \in Threads :
          \/ RequestHijack(t) \/ RequestContext(t) \/ RequestToggle(t) \/ RequestStop(t)
          \/ Ask(t) \/ AskRaises(t) \/ Wait(t) \/ TimeOut(t) \/ ReturnContext(t)
          \/ ReadContext(t) \/ Discover(t) \/ HijackReset(t) \/ Join(t) \/ Play(t) \/ GiveUp(t)
          \/ ResetUnjoin(t) \/ ResetHalt(t) \/ ResetFails(t) \/ Break(t)
          \/ Query(t) \/ Pause(t) \/ Resume(t) \/ StopEnds(t)
    \/ Answered \/ Publish \/ PublishNone \/ PublishRaises
    \/ Refresh \/ Expires \/ SpotifyLeaves \/ SpotifyReturns
    \/ \E media \in Media : Change(media)

Spec == Init /\ [][Next]_vars

-----------------------------------------------------------------------------
(* Properties *)

\* The state, and: the lock is held exactly while one thread hijacks, whatever
\* raises; "finally" never leaves it locked, nor frees that of another thread.
TypeOK ==
    /\ thread \in [Threads -> Thread]
    /\ lock \in BOOLEAN
    /\ Cardinality({t \in Threads : Hijacking(t)}) = IF lock THEN 1 ELSE 0
    /\ coord \in Speakers \cup {None}
    /\ ready \in BOOLEAN
    /\ context \in Song
    /\ known \in BOOLEAN
    /\ auth \in {"none", "expired", "valid"}
    /\ asks \in 0 .. MaxRequests
    /\ answers \in Seq(Song)
    /\ now \in Song
    /\ leader \in [Speakers -> Speakers]
    /\ playing \subseteq Speakers /\ paused \subseteq Speakers \ playing
    /\ {unlucky, crossed} \subseteq SUBSET Threads

\* A hijack plays what Spotify played when it asked, or later, not what an earlier
\* question was answered: unless that answer was on its way when it asked.
FreshContext ==
    \A t \in Threads :
        thread[t].at = "answered" => context.at >= thread[t].since \/ t \in crossed

\* Threads share one event, and each clears it before it asks: still nobody waits
\* for an answer that has already come, unless one was lost.
AnswerIsComing ==
    \A t \in Threads :
        thread[t].at = "waits" => asks > 0 \/ answers # <<>> \/ t \in unlucky

\* After a request to stop all, the speakers that were in the coordinator's group
\* are silent, although each is reset on its own and one that leads hands its music
\* to another: unless a speaker failed, or somebody asked for music.
StopAllSilences == \A s \in hushed : leader[s] \notin playing

=============================================================================
