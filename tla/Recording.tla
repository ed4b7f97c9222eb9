------------------------------ MODULE Recording ------------------------------
(***************************************************************************)
(* The recordings of one camera (class Rtsp of rtsp.py), at the grain of   *)
(* its threads.  The threads that serve webhooks, web requests and MQTT    *)
(* messages trigger recordings and extend them; a worker of the scheduler  *)
(* ends them.  The lock is held within one step; what the code does        *)
(* outside of it, because ffmpeg may be slow, are steps of their own.      *)
(***************************************************************************)
EXTENDS Naturals, FiniteSets

CONSTANTS
    Callers,         \* the threads that call trigger_recording and pet_timer
    MaxLaunches,     \* bound: recordings in a behaviour
    MaxRequests      \* bound: requests in a behaviour

ASSUME RecordingAssumption ==
    /\ IsFiniteSet(Callers)
    /\ MaxLaunches \in Nat
    /\ MaxRequests \in Nat

VARIABLES
    pc,         \* where each caller is
    updating,   \* _recording_job_updating
    job,        \* _recording_job, named by its recording; 0 is None
    store,      \* the jobs the scheduler still has to run
    due,        \* the time of the scheduled job has come
    worker,     \* where the worker that runs _on_recording_complete is
    ffmpeg,     \* the recording the running ffmpeg writes; 0 is None
    outfile,    \* _recording_outfile; 0 is None
    launched,   \* recordings tried so far
    ended,      \* recordings that ended, whose worker has to announce them
    announced,  \* recordings announced
    requests    \* bound: requests so far

rtspVars == <<pc, updating, job, store, due, worker, ffmpeg, outfile, launched, ended,
          announced, requests>>

Recordings == 1 .. MaxLaunches

\* The state; jobs, files and announcements are those of recordings that were made.
RtspTypeOK ==
    /\ pc \in [Callers -> {"idle", "launch", "addjob", "clear", "pet"}]
    /\ updating \in BOOLEAN
    /\ job \in 0 .. MaxLaunches
    /\ store \in SUBSET Recordings
    /\ due \in BOOLEAN
    /\ worker \in {"idle", "fired", "stopping"}
    /\ ffmpeg \in 0 .. MaxLaunches
    /\ outfile \in 0 .. MaxLaunches
    /\ launched \in 0 .. MaxLaunches
    /\ ended \in SUBSET Recordings
    /\ announced \in SUBSET Recordings
    /\ requests \in 0 .. MaxRequests

RtspInit ==
    /\ pc = [c \in Callers |-> "idle"]
    /\ updating = FALSE
    /\ job = 0
    /\ store = {}
    /\ due = FALSE
    /\ worker = "idle"
    /\ ffmpeg = 0
    /\ outfile = 0
    /\ launched = 0
    /\ ended = {}
    /\ announced = {}
    /\ requests = 0

-----------------------------------------------------------------------------
(* A caller *)

Goto(c, to) == pc' = [pc EXCEPT ![c] = to]

Request(c) ==
    /\ pc[c] = "idle"
    /\ requests < MaxRequests
    /\ requests' = requests + 1

\* Job.reschedule raises JobLookupError for a job the scheduler has handed to a
\* worker; start_recording logs the exception.
Postpone == due' = (due /\ job \notin store)

\* trigger_recording, up to the end of its critical section: bail out while a
\* recording is set up or torn down, extend the one in progress, or claim a new one.
Trigger(c) ==
    /\ Request(c)
    /\ \/ /\ updating
          /\ UNCHANGED <<pc, updating, due>>
       \/ /\ ~updating
          /\ job # 0
          /\ Postpone
          /\ UNCHANGED <<pc, updating>>
       \/ /\ ~updating
          /\ job = 0
          /\ launched < MaxLaunches
          /\ updating' = TRUE
          /\ Goto(c, "launch")
          /\ UNCHANGED due
    /\ UNCHANGED <<job, store, worker, ffmpeg, outfile, launched, ended, announced>>

\* _launch_new_recording_job starts ffmpeg, or announces that it could not.
Launch(c) ==
    /\ pc[c] = "launch"
    /\ launched' = launched + 1
    /\ \/ /\ ffmpeg' = launched + 1
          /\ outfile' = launched + 1
          /\ Goto(c, "addjob")
          /\ UNCHANGED announced
       \/ /\ announced' = announced \cup {launched + 1}
          /\ outfile' = 0
          /\ Goto(c, "clear")
          /\ UNCHANGED ffmpeg
    /\ UNCHANGED <<updating, job, store, due, worker, ended, requests>>

\* ... and schedules _on_recording_complete.
AddJob(c) ==
    /\ pc[c] = "addjob"
    /\ job' = outfile
    /\ store' = store \cup {outfile}
    /\ due' = FALSE
    /\ Goto(c, "clear")
    /\ UNCHANGED <<updating, worker, ffmpeg, outfile, launched, ended, announced, requests>>

\* trigger_recording returns.
EndTrigger(c) ==
    /\ pc[c] = "clear"
    /\ updating' = FALSE
    /\ Goto(c, "idle")
    /\ UNCHANGED <<job, store, due, worker, ffmpeg, outfile, launched, ended, announced, requests>>

\* pet_timer looks for a job before it takes the lock.
Pet(c) ==
    /\ Request(c)
    /\ job # 0
    /\ Goto(c, "pet")
    /\ UNCHANGED <<updating, job, store, due, worker, ffmpeg, outfile, launched, ended, announced>>

\* pet_timer, with the lock: the job may have run, or be gone, by now; then it
\* raises.
PetLocked(c) ==
    /\ pc[c] = "pet"
    /\ Postpone
    /\ Goto(c, "idle")
    /\ UNCHANGED <<updating, job, store, worker, ffmpeg, outfile, launched, ended, announced, requests>>

-----------------------------------------------------------------------------
(* The scheduler and its worker *)

\* A recording lasts seconds at least, so its time does not come before
\* trigger_recording has executed its last assignment.
Elapse ==
    /\ store # {}
    /\ ~due
    /\ \A c \in Callers : pc[c] # "clear"
    /\ due' = TRUE
    /\ UNCHANGED <<pc, updating, job, store, worker, ffmpeg, outfile, launched, ended,
                   announced, requests>>

\* The scheduler forgets a date job as it hands it to a worker.
Fire ==
    /\ store # {}
    /\ due
    /\ store' = {}
    /\ due' = FALSE
    /\ worker' = "fired"
    /\ UNCHANGED <<pc, updating, job, ffmpeg, outfile, launched, ended, announced, requests>>

StopUnlocked ==
    /\ worker = "fired"
    /\ worker' = "stopping"
    /\ job' = 0
    /\ UNCHANGED <<pc, updating, store, due, ffmpeg, outfile, launched, ended, announced, requests>>

\* _on_recording_complete, its critical section.
BeginStop ==
    /\ worker = "fired"
    /\ updating' = TRUE
    /\ worker' = "stopping"
    /\ UNCHANGED <<pc, job, store, due, ffmpeg, outfile, launched, ended, announced, requests>>

StopUntold ==
    /\ worker = "stopping"
    /\ job' = 0
    /\ ffmpeg' = 0
    /\ outfile' = 0
    /\ updating' = FALSE
    /\ worker' = "idle"
    /\ UNCHANGED <<pc, store, due, launched, ended, announced, requests>>

\* ffmpeg is stopped, killed if it must be, the state cleared, and the next
\* recording may start before this one is announced.
Stop ==
    /\ worker = "stopping"
    /\ job' = 0
    /\ ffmpeg' = 0
    /\ outfile' = 0
    /\ ended' = ended \cup {outfile}
    /\ updating' = FALSE
    /\ worker' = "idle"
    /\ UNCHANGED <<pc, store, due, launched, announced, requests>>

\* on_new_recording if there is a file, and on_recording_failed otherwise.
Announce(id) ==
    /\ id \in ended
    /\ ended' = ended \ {id}
    /\ announced' = announced \cup {id}
    /\ UNCHANGED <<pc, updating, job, store, due, worker, ffmpeg, outfile, launched, requests>>

-----------------------------------------------------------------------------

Return(c) == Launch(c) \/ AddJob(c) \/ EndTrigger(c) \/ PetLocked(c)

RtspNext ==
    \/ \E c \in Callers : Trigger(c) \/ Pet(c) \/ Return(c)
    \/ Elapse
    \/ Fire
    \/ BeginStop
    \/ Stop
    \/ \E id \in Recordings : Announce(id)

\* Calls return, time passes, and the scheduler runs its jobs.  Nobody has to
\* ask for a recording.
RtspFairness ==
    /\ \A c \in Callers : WF_rtspVars(Return(c))
    /\ WF_rtspVars(Elapse)
    /\ WF_rtspVars(Fire)
    /\ WF_rtspVars(BeginStop)
    /\ WF_rtspVars(Stop)
    /\ \A id \in Recordings : WF_rtspVars(Announce(id))

RtspSpec == RtspInit /\ [][RtspNext]_rtspVars /\ RtspFairness

-----------------------------------------------------------------------------
(* Properties *)

Launching(c) == pc[c] \in {"launch", "addjob"}

\* No ffmpeg is left running for good, and none is cut off from its recording:
\* whatever triggers, pets and completions overlap, the running ffmpeg is the one
\* the state describes, and a thread is about to schedule its end, or the
\* scheduler has the job, or a worker is running it.
FfmpegIsWatched ==
    /\ ffmpeg = outfile
    /\ ffmpeg # 0 => \/ \E c \in Callers : pc[c] = "addjob"
                     \/ job = ffmpeg /\ (job \in store \/ worker # "idle")

\* _recording_job_updating keeps two threads from setting up a recording at the
\* same time, and from doing so while a worker tears one down.
OneAtATime ==
    /\ \A c, d \in Callers : Launching(c) /\ Launching(d) => c = d
    /\ \A c \in Callers : Launching(c) => worker = "idle"

\* Every recording is told to the service once, and ffmpeg runs one at a time.
Phase == IF worker # "idle" THEN "ending"
         ELSE IF ffmpeg # 0 THEN "recording" ELSE "idle"

Promise == INSTANCE Recorder WITH
    MaxRecordings <- MaxLaunches,
    phase <- Phase, made <- launched, current <- ffmpeg, owed <- ended, told <- announced

\* The threads and the lock implement the promise of Recorder: one ffmpeg at a
\* time, each recording stopped and announced exactly once, and in the end.
KeepsPromise == Promise!Spec

=============================================================================
