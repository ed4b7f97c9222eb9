------------------------------ MODULE Recorder ------------------------------
(***************************************************************************)
(* What the recordings of one camera promise to the rest of the service    *)
(* (rtsp.py): one ffmpeg at a time, each stopped when its time is up, and   *)
(* one announcement, of a new or of a failed recording, for each of them.  *)
(* Recording implements it with threads and a lock; Camera uses it as it   *)
(* is.                                                                     *)
(***************************************************************************)
EXTENDS Naturals

CONSTANT MaxRecordings   \* bound: recordings in a behaviour

VARIABLES
    phase,     \* "idle", "recording", or "ending" once the time is up
    made,      \* recordings tried so far
    current,   \* the recording ffmpeg writes, or 0
    owed,      \* recordings that ended, and were not announced yet
    told       \* recordings announced

rec == <<phase, made, current, owed, told>>

Recordings == 1 .. MaxRecordings

\* The state.
TypeOK ==
    /\ phase \in {"idle", "recording", "ending"}
    /\ made \in 0 .. MaxRecordings
    /\ current \in 0 .. MaxRecordings
    /\ owed \in SUBSET Recordings
    /\ told \in SUBSET Recordings

Init ==
    /\ phase = "idle"
    /\ made = 0
    /\ current = 0
    /\ owed = {}
    /\ told = {}

\* ffmpeg starts, and the time of the recording begins.
Start ==
    /\ phase = "idle"
    /\ made < MaxRecordings
    /\ phase' = "recording"
    /\ made' = made + 1
    /\ current' = made + 1
    /\ UNCHANGED <<owed, told>>

\* ffmpeg does not start: the failure is announced at once.
StartFails ==
    /\ phase = "idle"
    /\ made < MaxRecordings
    /\ made' = made + 1
    /\ told' = told \cup {made + 1}
    /\ UNCHANGED <<phase, current, owed>>

\* The time is up: from here on the recording cannot be made longer.
TimeUp ==
    /\ phase = "recording"
    /\ phase' = "ending"
    /\ UNCHANGED <<made, current, owed, told>>

\* ffmpeg has stopped, and the next recording may start.
Finish ==
    /\ phase = "ending"
    /\ phase' = "idle"
    /\ current' = 0
    /\ owed' = owed \cup {current}
    /\ UNCHANGED <<made, told>>

Tell(id) ==
    /\ id \in owed
    /\ owed' = owed \ {id}
    /\ told' = told \cup {id}
    /\ UNCHANGED <<phase, made, current>>

Next ==
    \/ Start
    \/ StartFails
    \/ TimeUp
    \/ Finish
    \/ \E id \in Recordings : Tell(id)

Fairness ==
    /\ WF_rec(TimeUp)
    /\ WF_rec(Finish)
    /\ \A id \in Recordings : WF_rec(Tell(id))

Spec == Init /\ [][Next]_rec /\ Fairness

=============================================================================
