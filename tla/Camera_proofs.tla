---------------------------- MODULE Camera_proofs ----------------------------
(***************************************************************************)
(* What one camera guarantees for any history of pictures, and any number  *)
(* of events, watchdogs, recordings and outages; and, in the second part,  *)
(* what its recordings guarantee for any number of threads that ask for    *)
(* them.  Recording and Camera share no state.                             *)
(***************************************************************************)
EXTENDS Camera, Recording, FiniteSetTheorems, WellFoundedInduction, TLAPS

-----------------------------------------------------------------------------
(* Pictures *)

Pics == 1 .. MaxSnaps

\* A picture is on disk, or as many newer ones are as the history holds.
Kept(f) == f \in files \cup {0} \/ Cardinality(Snaps!Newer(f, files)) >= SnapHistory

\* What is written will be the last snapshot later, and has to be kept until then.
SnapsInv ==
    /\ files \subseteq Pics
    /\ last \in 0 .. MaxSnaps
    /\ second \in 0 .. MaxSnaps
    /\ saving \in [Snaps!Savers -> 0 .. MaxSnaps]
    /\ Kept(last)
    /\ \A s \in Snaps!Savers : Kept(saving[s])

LEMMA SameCardinality == \A S : Snaps!Cardinality(S) = Cardinality(S)
  BY DEF Snaps!Cardinality, Cardinality, Snaps!IsFiniteSet, IsFiniteSet

LEMMA PicsAreFinite ==
    ASSUME NEW S \in SUBSET (0 .. MaxSnaps)
    PROVE  IsFiniteSet(S) /\ S \subseteq Nat /\ Cardinality(S) \in Nat
  <1>1. MaxSnaps \in Nat
    BY CameraAssumption
  <1>2. IsFiniteSet(0 .. MaxSnaps)
    BY <1>1, FS_Interval
  <1>3. IsFiniteSet(S)
    BY <1>2, FS_Subset
  <1>4. Cardinality(S) \in Nat
    BY <1>3, FS_CardinalityType
  <1>. QED
    BY <1>1, <1>3, <1>4

LEMMA LargestPic ==
    ASSUME NEW S \in SUBSET (0 .. MaxSnaps), S # {}
    PROVE  \E m \in S : \A g \in S : m >= g
  <1>1. MaxSnaps \in Nat /\ S \subseteq Nat
    BY PicsAreFinite, CameraAssumption
  <1>. DEFINE D == {MaxSnaps - g : g \in S}
  <1>2. D \subseteq Nat /\ D # {}
    <2>1. \A g \in S : MaxSnaps - g \in Nat
      BY <1>1
    <2>. QED
      BY <2>1
  <1>3. PICK d \in D : \A e \in D : ~(<<e, d>> \in OpToRel(<, Nat))
    <2>. HIDE DEF D
    <2>. QED
      BY <1>2, NatLessThanWellFounded, WFMin
  <1>4. PICK m \in S : d = MaxSnaps - m
    BY <1>3
  <1>5. ASSUME NEW g \in S PROVE m >= g
    <2>1. MaxSnaps - g \in D /\ d \in Nat /\ MaxSnaps - g \in Nat
      BY <1>2, <1>3
    <2>2. ~(MaxSnaps - g < d)
      BY <1>3, <2>1 DEF OpToRel
    <2>. QED
      BY <1>1, <1>4, <2>2
  <1>. QED
    BY <1>5

LEMMA MaxIsLargest ==
    ASSUME NEW S \in SUBSET (0 .. MaxSnaps), S # {}
    PROVE  Snaps!Max(S) \in S
  BY LargestPic DEF Snaps!Max

LEMMA FewerAreNewer ==
    ASSUME NEW S \in SUBSET (0 .. MaxSnaps), NEW T \in SUBSET S, Cardinality(T) >= SnapHistory
    PROVE  Cardinality(S) >= SnapHistory
  <1>1. IsFiniteSet(S) /\ Cardinality(S) \in Nat /\ Cardinality(T) \in Nat
    BY PicsAreFinite
  <1>2. Cardinality(T) <= Cardinality(S)
    BY <1>1, FS_Subset
  <1>. QED
    BY <1>1, <1>2, CameraAssumption

\* What _cleanup_old_snaps leaves has as many pictures newer than one it removes as
\* the history holds: those newer than the newest that it removes.
LEMMA CleanupKeeps ==
    ASSUME NEW S \in SUBSET Pics, NEW f \in Nat,
           f \in S \cup {0} \/ Cardinality(Snaps!Newer(f, S)) >= SnapHistory
    PROVE  LET R == S \ Snaps!Surplus(S)
           IN  f \in R \cup {0} \/ Cardinality(Snaps!Newer(f, R)) >= SnapHistory
  <1>. DEFINE T == Snaps!Surplus(S)
              R == S \ T
  <1>1. Pics \subseteq 0 .. MaxSnaps /\ S \subseteq Nat
    BY CameraAssumption DEF Pics
  <1>2. T \subseteq S /\ R \subseteq 0 .. MaxSnaps
    BY <1>1 DEF Snaps!Surplus
  <1>3. Snaps!Newer(f, R) \subseteq 0 .. MaxSnaps
    BY <1>2 DEF Snaps!Newer
  <1>4. CASE T = {}
    BY <1>4 DEF Snaps!Newer
  <1>5. CASE T # {}
    <2>1. PICK m \in T : \A g \in T : m >= g
      BY <1>1, <1>2, <1>5, LargestPic
    <2>2. Cardinality(Snaps!Newer(m, S)) >= SnapHistory
      <3>1. T = {g \in S : Cardinality(Snaps!Newer(g, S)) >= SnapHistory}
        BY SameCardinality DEF Snaps!Surplus
      <3>. HIDE DEF T
      <3>. QED
        BY <2>1, <3>1
    <2>3. m \in Nat /\ T \subseteq Nat
      BY <1>1, <1>2, <2>1
    <2>4. Snaps!Newer(m, S) \subseteq R
      BY <1>1, <2>1, <2>3 DEF Snaps!Newer
    <2>5. CASE f <= m
      <3>1. Snaps!Newer(m, S) \subseteq Snaps!Newer(f, R)
        <4>1. \A g \in S : g > m => g > f
          BY <1>1, <2>3, <2>5
        <4>. HIDE DEF R
        <4>. QED
          BY <2>4, <4>1 DEF Snaps!Newer
      <3>. QED
        BY <1>3, <2>2, <3>1, FewerAreNewer
    <2>6. CASE ~(f <= m)
      <3>1. f \notin T
        BY <2>1, <2>3, <2>6
      <3>2. CASE f \in S \cup {0}
        BY <3>1, <3>2
      <3>3. CASE f \notin S \cup {0}
        <4>1. Snaps!Newer(f, S) \subseteq Snaps!Newer(f, R)
          BY <1>1, <2>1, <2>3, <2>6 DEF Snaps!Newer
        <4>. QED
          BY <1>3, <3>3, <4>1, FewerAreNewer
      <3>. QED
        BY <3>2, <3>3
    <2>. QED
      BY <2>3, <2>5, <2>6
  <1>. QED
    BY <1>4, <1>5

\* More pictures do no harm.
LEMMA MoreKeep ==
    ASSUME NEW S \in SUBSET Pics, NEW More \in SUBSET Pics, NEW f \in Nat,
           f \in S \cup {0} \/ Cardinality(Snaps!Newer(f, S)) >= SnapHistory
    PROVE  \/ f \in (S \cup More) \cup {0}
           \/ Cardinality(Snaps!Newer(f, S \cup More)) >= SnapHistory
  <1>1. CASE f \in S \cup {0}
    BY <1>1
  <1>2. CASE Cardinality(Snaps!Newer(f, S)) >= SnapHistory
    <2>1. Pics \subseteq 0 .. MaxSnaps
      BY CameraAssumption DEF Pics
    <2>2. Snaps!Newer(f, S) \subseteq Snaps!Newer(f, S \cup More)
          /\ Snaps!Newer(f, S \cup More) \subseteq 0 .. MaxSnaps
      BY <2>1 DEF Snaps!Newer
    <2>. QED
      BY <1>2, <2>2, FewerAreNewer
  <1>. QED
    BY <1>1, <1>2

LEMMA NextSecondsArePics == Snaps!NextSeconds \subseteq Pics
  BY DEF Snaps!NextSeconds, Pics

LEMMA PhotographKeeps ==
    ASSUME SnapsInv, NEW n, Snaps!Photograph(n)
    PROVE  SnapsInv'
  <1>1. PICK pics \in SUBSET Pics :
            /\ files' = (files \cup pics)
                          \ (IF pics = {} THEN {} ELSE Snaps!Surplus(files \cup pics))
            /\ last' = IF pics = {} THEN last ELSE Snaps!Max(pics)
            /\ second' = Snaps!Max(pics \cup {second})
            /\ UNCHANGED saving
    BY NextSecondsArePics DEF Snaps!Photograph
  <1>. DEFINE all == files \cup pics
  <1>2. all \in SUBSET Pics /\ Pics \subseteq 0 .. MaxSnaps /\ Pics \subseteq Nat
    BY CameraAssumption DEF SnapsInv, Pics
  <1>3. second' \in 0 .. MaxSnaps
    <2>1. pics \cup {second} \in SUBSET (0 .. MaxSnaps) /\ pics \cup {second} # {}
      BY <1>2 DEF SnapsInv
    <2>. QED
      BY <1>1, <2>1, MaxIsLargest
  <1>4. CASE pics = {}
    <2>1. files' = files /\ last' = last
      BY <1>1, <1>4
    <2>. QED
      BY <1>1, <1>3, <2>1 DEF SnapsInv, Kept
  <1>5. CASE pics # {}
    <2>1. files' = all \ Snaps!Surplus(all) /\ last' = Snaps!Max(pics)
      BY <1>1, <1>5
    <2>2. last' \in pics /\ last' \in all /\ last' \in 0 .. MaxSnaps
      BY <1>2, <1>5, <2>1, MaxIsLargest
    <2>3. ASSUME NEW f \in 0 .. MaxSnaps,
                 f \in all \cup {0} \/ Cardinality(Snaps!Newer(f, all)) >= SnapHistory
          PROVE  f \in files' \cup {0} \/ Cardinality(Snaps!Newer(f, files')) >= SnapHistory
      <3>1. f \in Nat
        BY CameraAssumption
      <3>. HIDE DEF all
      <3>. QED
        BY <1>2, <2>1, <2>3, <3>1, CleanupKeeps
    <2>4. Kept(last)'
      BY <2>2, <2>3 DEF Kept
    <2>5. ASSUME NEW s \in Snaps!Savers PROVE Kept(saving[s])'
      <3>1. saving[s] \in 0 .. MaxSnaps /\ saving[s] \in Nat /\ Kept(saving[s])
            /\ files \in SUBSET Pics
        BY CameraAssumption DEF SnapsInv
      <3>2. saving[s] \in all \cup {0} \/ Cardinality(Snaps!Newer(saving[s], all)) >= SnapHistory
        BY <3>1, MoreKeep DEF Kept
      <3>3. saving[s] \in files' \cup {0}
            \/ Cardinality(Snaps!Newer(saving[s], files')) >= SnapHistory
        BY <2>3, <3>1, <3>2
      <3>. QED
        BY <1>1, <3>3 DEF Kept
    <2>6. files' \subseteq Pics
      BY <1>2, <2>1
    <2>. QED
      BY <1>1, <1>3, <2>2, <2>4, <2>5, <2>6 DEF SnapsInv
  <1>. QED
    BY <1>4, <1>5

LEMMA WriteKeeps ==
    ASSUME SnapsInv, NEW s \in Snaps!Savers, Snaps!Write(s)
    PROVE  SnapsInv'
  <1>1. PICK i \in Pics : /\ files' = files \cup {i} /\ second' = i /\ last' = last
                          /\ saving' = [saving EXCEPT ![s] = i]
    BY NextSecondsArePics DEF Snaps!Write
  <1>2. i \in 0 .. MaxSnaps /\ files \in SUBSET Pics /\ {i} \in SUBSET Pics
    BY CameraAssumption DEF Pics, SnapsInv
  <1>3. ASSUME NEW f \in 0 .. MaxSnaps, Kept(f)
        PROVE  f \in files' \cup {0} \/ Cardinality(Snaps!Newer(f, files')) >= SnapHistory
    <2>1. f \in Nat
      BY CameraAssumption
    <2>. QED
      BY <1>1, <1>2, <1>3, <2>1, MoreKeep DEF Kept
  <1>4. Kept(last)'
    BY <1>1, <1>3 DEF SnapsInv, Kept
  <1>5. ASSUME NEW r \in Snaps!Savers PROVE Kept(saving[r])'
    <2>1. CASE r = s
      BY <1>1, <2>1 DEF SnapsInv, Kept
    <2>2. CASE r # s
      <3>1. saving'[r] = saving[r] /\ saving[r] \in 0 .. MaxSnaps /\ Kept(saving[r])
        BY <1>1, <2>2 DEF SnapsInv
      <3>. QED
        BY <1>3, <3>1 DEF Kept
    <2>. QED
      BY <2>1, <2>2
  <1>. QED
    BY <1>1, <1>2, <1>4, <1>5 DEF SnapsInv

LEMMA FinishKeeps ==
    ASSUME SnapsInv, NEW s \in Snaps!Savers, Snaps!Finish(s)
    PROVE  SnapsInv'
  <1>1. /\ files' = files \ Snaps!Surplus(files) /\ last' = saving[s] /\ second' = second
        /\ saving' = [saving EXCEPT ![s] = 0]
    BY DEF Snaps!Finish
  <1>2. files \in SUBSET Pics /\ 0 \in 0 .. MaxSnaps
    BY CameraAssumption DEF SnapsInv
  <1>3. ASSUME NEW f \in 0 .. MaxSnaps, Kept(f)
        PROVE  f \in files' \cup {0} \/ Cardinality(Snaps!Newer(f, files')) >= SnapHistory
    <2>1. f \in Nat
      BY CameraAssumption
    <2>. QED
      BY <1>1, <1>2, <1>3, <2>1, CleanupKeeps DEF Kept
  <1>4. Kept(last)' /\ last' \in 0 .. MaxSnaps
    BY <1>1, <1>3 DEF SnapsInv, Kept
  <1>5. ASSUME NEW r \in Snaps!Savers PROVE Kept(saving[r])'
    <2>1. CASE r = s
      BY <1>1, <2>1 DEF SnapsInv, Kept
    <2>2. CASE r # s
      <3>1. saving'[r] = saving[r] /\ saving[r] \in 0 .. MaxSnaps /\ Kept(saving[r])
        BY <1>1, <2>2 DEF SnapsInv
      <3>. QED
        BY <1>3, <3>1 DEF Kept
    <2>. QED
      BY <2>1, <2>2
  <1>. QED
    BY <1>1, <1>2, <1>4, <1>5 DEF SnapsInv

\* A new process, and a step that leaves the pictures alone.
LEMMA RestKeeps == SnapsInv /\ (Snaps!Restart \/ UNCHANGED snaps) => SnapsInv'
  <1>. SUFFICES ASSUME SnapsInv, Snaps!Restart \/ UNCHANGED snaps PROVE SnapsInv'
    OBVIOUS
  <1>1. CASE UNCHANGED snaps
    BY <1>1 DEF snaps, SnapsInv, Kept
  <1>2. CASE Snaps!Restart
    <2>1. 0 \in 0 .. MaxSnaps
      BY CameraAssumption
    <2>. QED
      BY <1>2, <2>1 DEF Snaps!Restart, SnapsInv, Kept
  <1>. QED
    BY <1>1, <1>2

LEMMA NextSnaps == SnapsInv /\ [Next]_vars => SnapsInv'
  <1>. SUFFICES ASSUME SnapsInv, [Next]_vars PROVE SnapsInv'
    OBVIOUS
  <1>1. CASE CamEvent
    <2>1. PICK active \in SUBSET Keys :
              \/ WebhookBlocks(active) \/ WebhookIgnored(active) \/ MotionBegins(active)
              \/ MotionGoesOn(active) \/ MotionClears(active) \/ NoMotion(active)
      BY <1>1 DEF CamEvent
    <2>2. UNCHANGED snaps \/ Photos(active, 0) \/ Photos(active, 1)
      BY <2>1 DEF WebhookBlocks, WebhookIgnored, MotionBegins, MotionGoesOn, MotionClears,
                  NoMotion
    <2>3. UNCHANGED snaps \/ \E n : Snaps!Photograph(n)
      BY <2>2 DEF Photos
    <2>. QED
      BY <2>3, PhotographKeeps, RestKeeps
  <1>2. ASSUME NEW s \in Snaps!Savers, Snap(s) \/ SnapSaved(s) PROVE SnapsInv'
    BY <1>2, WriteKeeps, FinishKeeps, RestKeeps DEF Snap, SnapSaved
  <1>3. CASE \/ Connect \/ Lapse \/ Resubscribe \/ Reconnect \/ RecorderStep \/ Record
             \/ (\E key \in Keys : Settle(key))
             \/ (\E j \in JobIds : WatchdogWaits(j) \/ WatchdogEnds(j) \/ WatchdogBlocks(j))
             \/ UNCHANGED vars
    <2>1. UNCHANGED snaps
      BY <1>3 DEF Connect, Lapse, Resubscribe, Reconnect, RecorderStep, Record, Settle,
                  WatchdogWaits, WatchdogEnds, WatchdogBlocks, vars
    <2>. QED
      BY <2>1, RestKeeps
  <1>4. CASE Restart
    BY <1>4, RestKeeps DEF Restart
  <1>. QED
    BY <1>1, <1>2, <1>3, <1>4 DEF Next

-----------------------------------------------------------------------------
(* Recordings *)

\* What is being recorded, or ended, is one of the recordings.
RecInv == Recorder!TypeOK /\ (phase # "idle" => current > 0)

LEMMA RecorderKeeps ==
    ASSUME RecInv,
           \/ Recorder!Start \/ Recorder!StartFails \/ Recorder!TimeUp \/ Recorder!Finish
           \/ (\E id \in Recorder!Recordings : Recorder!Tell(id))
           \/ UNCHANGED rec
    PROVE  RecInv'
  <1>. USE CameraAssumption DEF RecInv, Recorder!TypeOK, Recorder!Recordings
  <1>1. CASE Recorder!Start
    BY <1>1 DEF Recorder!Start
  <1>2. CASE Recorder!StartFails
    BY <1>2 DEF Recorder!StartFails
  <1>3. CASE Recorder!TimeUp
    BY <1>3 DEF Recorder!TimeUp
  <1>4. CASE Recorder!Finish
    BY <1>4 DEF Recorder!Finish
  <1>5. ASSUME NEW id \in Recorder!Recordings, Recorder!Tell(id) PROVE RecInv'
    BY <1>5 DEF Recorder!Tell
  <1>6. CASE UNCHANGED rec
    BY <1>6 DEF rec
  <1>. QED
    BY <1>1, <1>2, <1>3, <1>4, <1>5, <1>6

LEMMA NextRec == RecInv /\ [Next]_vars => RecInv'
  <1>. SUFFICES ASSUME RecInv, [Next]_vars PROVE RecInv'
    OBVIOUS
  <1>1. CASE CamEvent
    <2>1. PICK active \in SUBSET Keys :
              \/ WebhookBlocks(active) \/ WebhookIgnored(active) \/ MotionBegins(active)
              \/ MotionGoesOn(active) \/ MotionClears(active) \/ NoMotion(active)
      BY <1>1 DEF CamEvent
    <2>2. UNCHANGED rec \/ StartRecording
      BY <2>1 DEF WebhookBlocks, WebhookIgnored, MotionBegins, MotionGoesOn, MotionClears,
                  NoMotion, rec
    <2>. QED
      BY <2>2, RecorderKeeps DEF StartRecording
  <1>2. CASE RecorderStep
    BY <1>2, RecorderKeeps DEF RecorderStep
  <1>3. CASE Record
    BY <1>3, RecorderKeeps DEF Record, StartRecording
  <1>4. CASE Restart
    BY <1>4, CameraAssumption DEF Restart, RecInv, Recorder!TypeOK
  <1>5. CASE \/ Connect \/ Lapse \/ Resubscribe \/ Reconnect
             \/ (\E s \in Snaps!Savers : Snap(s) \/ SnapSaved(s))
             \/ (\E key \in Keys : Settle(key))
             \/ (\E j \in JobIds : WatchdogWaits(j) \/ WatchdogEnds(j) \/ WatchdogBlocks(j))
             \/ UNCHANGED vars
    <2>1. UNCHANGED rec
      BY <1>5 DEF Connect, Lapse, Resubscribe, Reconnect, Snap, SnapSaved, Settle,
                  WatchdogWaits, WatchdogEnds, WatchdogBlocks, vars
    <2>. QED
      BY <2>1, RecorderKeeps
  <1>. QED
    BY <1>1, <1>2, <1>3, <1>4, <1>5 DEF Next

-----------------------------------------------------------------------------
(* Motion *)

Threads == {"webhook", "mqtt", "web", "watchdog", "check"}

MotionInv ==
    /\ conn \in {"connecting", "failed", "up"}
    /\ sub \in BOOLEAN
    /\ loop \in {"free", "stuck"}
    /\ blocked \in SUBSET Threads
    /\ level \in 0 .. Cardinality(Motions)
    /\ jobs \in SUBSET JobIds
    /\ mjob \in {0} \cup jobs
    /\ recent \in SUBSET Keys
    /\ said \in {"none", "detected", "cleared", "timeout"}
    /\ events \in 0 .. MaxEvents
    /\ outages \in 0 .. MaxOutages
    /\ NoSilentMotion

LEMMA MotionsFinite == IsFiniteSet(Motions) /\ Cardinality(Motions) \in Nat
  <1>1. IsFiniteSet({"Motion", "MotionAlarm", "PeopleDetect"})
    <2>1. IsFiniteSet({"Motion"}) /\ IsFiniteSet({"MotionAlarm"}) /\ IsFiniteSet({"PeopleDetect"})
      BY FS_Singleton
    <2>2. IsFiniteSet({"Motion"} \cup {"MotionAlarm"})
      BY <2>1, FS_Union
    <2>3. IsFiniteSet(({"Motion"} \cup {"MotionAlarm"}) \cup {"PeopleDetect"})
      BY <2>1, <2>2, FS_Union
    <2>. QED
      BY <2>3
  <1>2. Motions \subseteq {"Motion", "MotionAlarm", "PeopleDetect"}
    BY CameraAssumption DEF Motions
  <1>3. IsFiniteSet(Motions)
    BY <1>1, <1>2, FS_Subset
  <1>. QED
    BY <1>3, FS_CardinalityType

LEMMA LevelIs ==
    ASSUME NEW active \in SUBSET Keys
    PROVE  Level(active) \in 0 .. Cardinality(Motions) /\ (Level(active) > 0 => active # {})
  <1>. DEFINE M == Fresh(active) \cap Motions
  <1>1. IsFiniteSet(M) /\ Cardinality(M) <= Cardinality(Motions)
    BY MotionsFinite, FS_Subset
  <1>2. Cardinality(M) \in Nat
    BY <1>1, FS_CardinalityType
  <1>3. active = {} => Cardinality(M) = 0
    <2>1. active = {} => M = {}
      BY DEF Fresh
    <2>. QED
      BY <2>1, FS_EmptySet
  <1>. HIDE DEF M
  <1>4. Level(active) = Cardinality(M)
    BY DEF Level, M
  <1>. QED
    BY <1>1, <1>2, <1>3, <1>4, MotionsFinite

LEMMA RescheduleType ==
    ASSUME NEW used \in SUBSET JobIds, Reschedule(used)
    PROVE  jobs' \in SUBSET JobIds /\ mjob' \in jobs'
  BY DEF Reschedule, NewJob

LEMMA WebhookMotionInv ==
    ASSUME MotionInv, NEW active \in SUBSET Keys,
           \/ WebhookBlocks(active) \/ WebhookIgnored(active) \/ MotionBegins(active)
           \/ MotionGoesOn(active) \/ MotionClears(active) \/ NoMotion(active)
    PROVE  MotionInv'
  <1>1. events' \in 0 .. MaxEvents /\ recent' \in SUBSET Keys /\ "webhook" \notin blocked
        /\ UNCHANGED <<conn, sub, loop, outages>>
    <2>1. Webhook /\ UNCHANGED <<link, outages>> /\ \E heard \in SUBSET Keys : Hears(heard)
      BY DEF WebhookBlocks, WebhookIgnored, MotionBegins, MotionGoesOn, MotionClears, NoMotion,
             WebhookMotion, Keys
    <2>2. events' \in 0 .. MaxEvents
      BY <2>1, CameraAssumption DEF MotionInv, Webhook, Event
    <2>. QED
      BY <2>1, <2>2 DEF MotionInv, Webhook, Hears, link
  <1>2. CASE WebhookBlocks(active) \/ WebhookIgnored(active)
    <2>1. UNCHANGED <<level, mjob, jobs, said>> /\ blocked' \in SUBSET Threads
          /\ blocked \subseteq blocked'
      BY <1>2 DEF WebhookBlocks, WebhookIgnored, motion, MotionInv, Threads
    <2>. QED
      BY <1>1, <2>1 DEF MotionInv, NoSilentMotion
  <1>3. ASSUME WebhookMotion(active), level' > 0
        PROVE  level' \in 0 .. Cardinality(Motions) /\ ~(level' = 0)
    BY <1>3, LevelIs, MotionsFinite DEF WebhookMotion
  <1>4. CASE MotionBegins(active)
    <2>1. jobs' \in SUBSET JobIds /\ mjob' \in jobs'
      BY <1>4, RescheduleType DEF MotionBegins, MotionInv
    <2>2. level' \in 0 .. Cardinality(Motions) /\ ~(level' = 0)
      BY <1>3, <1>4 DEF MotionBegins
    <2>3. \/ blocked' = blocked \cup {"webhook"} /\ said' = said
          \/ blocked' = blocked /\ said' = "detected"
      BY <1>4 DEF MotionBegins
    <2>. QED
      BY <1>1, <2>1, <2>2, <2>3 DEF MotionInv, NoSilentMotion, Threads
  <1>5. CASE MotionGoesOn(active)
    <2>1. jobs \ {mjob} \in SUBSET JobIds
      BY DEF MotionInv
    <2>2. jobs' \in SUBSET JobIds /\ mjob' \in jobs'
      BY <1>5, <2>1, RescheduleType DEF MotionGoesOn
    <2>3. level' \in 0 .. Cardinality(Motions) /\ ~(level' = 0) /\ level > 0
          /\ UNCHANGED <<blocked, said>>
      BY <1>3, <1>5 DEF MotionGoesOn
    <2>. QED
      BY <1>1, <2>2, <2>3 DEF MotionInv, NoSilentMotion
  <1>6. CASE MotionClears(active)
    BY <1>1, <1>6, MotionsFinite DEF MotionClears, MotionInv, NoSilentMotion
  <1>7. CASE NoMotion(active)
    BY <1>1, <1>7, MotionsFinite DEF NoMotion, MotionInv, NoSilentMotion
  <1>. QED
    BY <1>2, <1>4, <1>5, <1>6, <1>7

LEMMA WatchdogInv ==
    ASSUME MotionInv, NEW j \in JobIds,
           WatchdogWaits(j) \/ WatchdogEnds(j) \/ WatchdogBlocks(j)
    PROVE  MotionInv'
  <1>1. CASE WatchdogWaits(j)
    <2>1. jobs' \in SUBSET JobIds /\ mjob' \in jobs'
      BY <1>1, RescheduleType DEF WatchdogWaits, MotionInv
    <2>. QED
      BY <1>1, <2>1 DEF WatchdogWaits, MotionInv, NoSilentMotion, link
  <1>2. CASE WatchdogEnds(j)
    BY <1>2 DEF WatchdogEnds, MotionInv, NoSilentMotion, link
  <1>3. CASE WatchdogBlocks(j)
    BY <1>3 DEF WatchdogBlocks, MotionInv, NoSilentMotion, link, motion, Threads
  <1>. QED
    BY <1>1, <1>2, <1>3

LEMMA NextMotion == MotionInv /\ [Next]_vars => MotionInv'
  <1>. SUFFICES ASSUME MotionInv, [Next]_vars PROVE MotionInv'
    OBVIOUS
  <1>1. CASE CamEvent
    BY <1>1, WebhookMotionInv DEF CamEvent
  <1>2. CASE \E j \in JobIds : WatchdogWaits(j) \/ WatchdogEnds(j) \/ WatchdogBlocks(j)
    BY <1>2, WatchdogInv
  <1>3. CASE Connect \/ Lapse \/ Resubscribe \/ Reconnect
    <2>1. /\ conn' \in {"connecting", "failed", "up"} /\ sub' \in BOOLEAN
          /\ loop' \in {"free", "stuck"} /\ blocked' \in SUBSET Threads
          /\ blocked \subseteq blocked' /\ ("webhook" \in blocked' => "webhook" \in blocked)
          /\ UNCHANGED <<level, mjob, jobs, recent, said, events>>
      BY <1>3 DEF Connect, Lapse, Resubscribe, Reconnect, MotionInv, motion, Threads
    <2>2. outages' \in 0 .. MaxOutages
      <3>1. outages' = outages \/ (outages < MaxOutages /\ outages' = outages + 1)
        BY <1>3 DEF Connect, Lapse, Resubscribe, Reconnect
      <3>. QED
        BY <3>1, CameraAssumption DEF MotionInv
    <2>. QED
      BY <2>1, <2>2 DEF MotionInv, NoSilentMotion
  <1>4. CASE Restart
    <2>1. outages' \in 0 .. MaxOutages
      BY <1>4, CameraAssumption DEF Restart, MotionInv
    <2>2. /\ conn' = "connecting" /\ sub' \in BOOLEAN /\ loop' = "free" /\ blocked' = {}
          /\ level' = 0 /\ mjob' = 0 /\ jobs' = {} /\ recent' = {} /\ said' = "none"
          /\ events' = events
      BY <1>4 DEF Restart, MotionInv
    <2>3. 0 \in 0 .. Cardinality(Motions)
      BY MotionsFinite
    <2>. QED
      BY <2>1, <2>2, <2>3 DEF MotionInv, NoSilentMotion
  <1>5. CASE RecorderStep \/ Record
    <2>1. UNCHANGED <<conn, sub, loop, blocked, level, mjob, jobs, recent, said, outages>>
      BY <1>5 DEF RecorderStep, Record, link, motion
    <2>2. events' \in 0 .. MaxEvents
      BY <1>5, CameraAssumption DEF RecorderStep, Record, Event, MotionInv
    <2>. QED
      BY <2>1, <2>2 DEF MotionInv, NoSilentMotion
  <1>6. ASSUME NEW s \in Snaps!Savers, Snap(s) \/ SnapSaved(s) PROVE MotionInv'
    <2>1. UNCHANGED <<conn, sub, loop, level, mjob, jobs, recent, said, outages>>
          /\ blocked' \subseteq blocked \cup {s}
      BY <1>6 DEF Snap, SnapSaved, link, motion
    <2>2. events' \in 0 .. MaxEvents
      BY <1>6, CameraAssumption DEF Snap, SnapSaved, Event, MotionInv
    <2>3. s \in Threads /\ s # "webhook"
      BY DEF Snaps!Savers, Threads
    <2>4. blocked \subseteq blocked'
      BY <1>6 DEF Snap, SnapSaved
    <2>. QED
      BY <2>1, <2>2, <2>3, <2>4 DEF MotionInv, NoSilentMotion
  <1>7. ASSUME NEW key \in Keys, Settle(key) PROVE MotionInv'
    BY <1>7 DEF Settle, MotionInv, NoSilentMotion, link, motion
  <1>8. CASE UNCHANGED vars
    BY <1>8 DEF vars, MotionInv, NoSilentMotion, link, motion
  <1>. QED
    BY <1>1, <1>2, <1>3, <1>4, <1>5, <1>6, <1>7, <1>8 DEF Next

-----------------------------------------------------------------------------
(* Theorems *)

CameraInv == SnapsInv /\ RecInv /\ MotionInv

LEMMA InitCamera == Init => CameraInv
  <1>. SUFFICES ASSUME Init PROVE CameraInv
    OBVIOUS
  <1>1. SnapsInv
    BY CameraAssumption DEF Init, Snaps!Init, SnapsInv, Kept
  <1>2. RecInv
    BY CameraAssumption DEF Init, Recorder!Init, RecInv, Recorder!TypeOK
  <1>3. MotionInv
    BY CameraAssumption, MotionsFinite DEF Init, MotionInv, NoSilentMotion
  <1>. QED
    BY <1>1, <1>2, <1>3 DEF CameraInv

\* The inductive invariant holds in every state of the camera.
THEOREM CameraInvariance == Spec => []CameraInv
  <1>1. CameraInv /\ [Next]_vars => CameraInv'
    BY NextSnaps, NextRec, NextMotion DEF CameraInv
  <1>. QED
    BY <1>1, InitCamera, PTL DEF Spec

\* The types; with them, the job the service remembers is one the scheduler still
\* has, so that removing it never raises (reolink.py, on_cam_webhook).
THEOREM CameraTypeCorrect == Spec => []TypeOK
  <1>1. CameraInv => TypeOK
    BY DEF CameraInv, RecInv, MotionInv, TypeOK, Threads
  <1>. QED
    BY <1>1, CameraInvariance, PTL

\* snap_on_movement.py: whatever the order of webhooks, requests and the MQTT thread,
\* the last snapshot is on disk, or as many newer ones are as the history holds.
THEOREM LastSnapAlwaysKept == Spec => []LastSnapIsKept
  <1>1. CameraInv => LastSnapIsKept
    BY SameCardinality DEF CameraInv, SnapsInv, Kept, LastSnapIsKept, Snaps!LastSnapIsKept
  <1>. QED
    BY <1>1, CameraInvariance, PTL

\* reolink.py, on_cam_webhook and _motion_check_active: no motion that was announced
\* is forgotten without a word, and none goes on unannounced.
THEOREM NeverSilentMotion == Spec => []NoSilentMotion
  <1>1. CameraInv => NoSilentMotion
    BY DEF CameraInv, MotionInv
  <1>. QED
    BY <1>1, CameraInvariance, PTL

LEMMA NextDetected ==
    CameraInv /\ [Next]_vars =>
        (said' = "detected" /\ level = 0 /\ level' > 0 /\ conn = "up"
           => phase' = "recording" \/ made' > made \/ made = MaxRecordings)
  <1>. SUFFICES ASSUME CameraInv, [Next]_vars,
                       said' = "detected", level = 0, level' > 0, conn = "up"
                PROVE  phase' = "recording" \/ made' > made \/ made = MaxRecordings
    OBVIOUS
  <1>1. said # "detected"
    BY DEF CameraInv, MotionInv, NoSilentMotion
  <1>2. said' # said
    BY <1>1
  <1>3. \E active \in SUBSET Keys : MotionBegins(active)
    BY <1>1 DEF Next, CamEvent, Connect, Lapse, Resubscribe, Reconnect, Restart, RecorderStep,
                Record, Snap, SnapSaved, WebhookBlocks, WebhookIgnored, MotionGoesOn, MotionClears,
                NoMotion, Settle, WatchdogWaits, WatchdogEnds, WatchdogBlocks, vars
  <1>4. PICK active \in SUBSET Keys : MotionBegins(active)
    BY <1>3
  <1>5. StartRecording
    BY <1>1, <1>4 DEF MotionBegins
  <1>6. active # {} /\ ~PetRaises(active)
    BY <1>4, LevelIs DEF MotionBegins, WebhookMotion
  <1>7. phase # "ending"
    BY <1>6 DEF PetRaises
  <1>8. /\ phase \in {"idle", "recording", "ending"} /\ made \in 0 .. MaxRecordings
        /\ MaxRecordings \in Nat
    BY CameraAssumption DEF CameraInv, RecInv, Recorder!TypeOK
  <1>9. CASE phase = "idle" /\ made < MaxRecordings
    BY <1>5, <1>8, <1>9 DEF StartRecording, Recorder!Start, Recorder!StartFails
  <1>10. CASE phase = "recording"
    BY <1>5, <1>10 DEF StartRecording, rec
  <1>. QED
    BY <1>7, <1>8, <1>9, <1>10

\* reolink.py, on_cam_webhook: a connected camera announces no motion without a
\* recording that is running, or was tried and failed.
THEOREM DetectedAlwaysRecorded == Spec => DetectedIsRecorded
  BY NextDetected, CameraInvariance, PTL DEF Spec, DetectedIsRecorded

-----------------------------------------------------------------------------
(* The recordings, at the grain of the threads that make them: the inductive *)
(* invariant                                                               *)

\* The caller has claimed the recording to be set up, and not let go of it yet.
Setting(c) == pc[c] \in {"launch", "addjob", "clear"}

\* The flag is up while a caller sets up a recording, which is one at a time, or
\* while the worker tears one down, which is never at the same time.
FlagInv ==
    /\ updating <=> (worker = "stopping" \/ \E c \in Callers : Setting(c))
    /\ \A c, d \in Callers : Setting(c) /\ Setting(d) => c = d
    /\ \A c \in Callers : Setting(c) => worker = "idle"

\* What a caller finds at each step of setting up a recording.
SetupInv ==
    \A c \in Callers :
        /\ pc[c] = "launch" => job = 0 /\ ffmpeg = 0 /\ launched < MaxLaunches
        /\ pc[c] = "addjob" => job = 0 /\ ffmpeg # 0
        /\ pc[c] = "clear" => ~due

\* The job is the scheduler's or the worker's, and that of the running ffmpeg.
JobInv ==
    /\ job # 0 => job = ffmpeg /\ (store = {job} <=> worker = "idle")
    /\ job = 0 => worker = "idle" /\ (ffmpeg # 0 => \E c \in Callers : pc[c] = "addjob")
    /\ store \subseteq {job} \ {0}
    /\ due => store # {}

RtspInv ==
    /\ RtspTypeOK
    /\ FlagInv
    /\ SetupInv
    /\ JobInv
    /\ ffmpeg = outfile

-----------------------------------------------------------------------------
(* The initial state, and what the invariant says of a busy worker and of a    *)
(* caller that sets up a recording                                             *)

LEMMA Bounds == MaxLaunches \in Nat
  BY RecordingAssumption

LEMMA InitRtspInv ==
    ASSUME RtspInit
    PROVE  RtspInv
  <1>. USE RecordingAssumption
  <1>1. RtspTypeOK
    <2>1. updating \in BOOLEAN /\ due \in BOOLEAN
      BY DEF RtspInit
    <2>. QED
      BY <2>1, Bounds DEF RtspInit, RtspTypeOK, Recordings
  <1>. QED
    BY <1>1 DEF RtspInit, RtspInv, FlagInv, SetupInv, JobInv, Setting

\* No caller sets up a recording while the worker is busy.
LEMMA BusyWorker ==
    ASSUME RtspInv, worker # "idle"
    PROVE  /\ \A c \in Callers : pc[c] \in {"idle", "pet"}
           /\ job # 0
           /\ job \in Recordings
           /\ ffmpeg = job
           /\ outfile = job
           /\ store = {}
           /\ ~due
  <1>1. \A c \in Callers : pc[c] \in {"idle", "pet"}
    BY DEF RtspInv, FlagInv, Setting, RtspTypeOK
  <1>2. job # 0 /\ ffmpeg = job /\ outfile = job
    BY DEF RtspInv, JobInv
  <1>3. job \in Recordings
    BY <1>2, Bounds DEF RtspInv, RtspTypeOK, Recordings
  <1>4. store = {}
    <2>1. store # {job} /\ store \subseteq {job}
      BY <1>2 DEF RtspInv, JobInv
    <2>. QED
      BY <2>1
  <1>. QED
    BY <1>1, <1>2, <1>3, <1>4 DEF RtspInv, JobInv

\* While one caller sets up a recording the worker and the other callers do not.
LEMMA OnlySetter ==
    ASSUME RtspInv, NEW c \in Callers, Setting(c)
    PROVE  /\ worker = "idle"
           /\ updating
           /\ \A d \in Callers : d # c => pc[d] \in {"idle", "pet"}
  <1>1. \A d \in Callers : d # c => ~Setting(d)
    BY DEF RtspInv, FlagInv
  <1>. QED
    BY <1>1 DEF RtspInv, FlagInv, Setting, RtspTypeOK

-----------------------------------------------------------------------------
(* Each step of a caller *)

LEMMA TriggerRtspInv ==
    ASSUME RtspInv, NEW c \in Callers, Trigger(c)
    PROVE  RtspInv'
  <1>. USE DEF Trigger, Request
  <1>1. RtspTypeOK'
    <2>1. updating' \in BOOLEAN /\ due' \in BOOLEAN
      BY DEF RtspInv, RtspTypeOK, Postpone
    <2>2. requests' \in 0 .. MaxRequests
      BY RecordingAssumption DEF RtspInv, RtspTypeOK
    <2>3. pc' \in [Callers -> {"idle", "launch", "addjob", "clear", "pet"}]
      BY DEF RtspInv, RtspTypeOK, Goto
    <2>. QED
      BY <2>1, <2>2, <2>3 DEF RtspInv, RtspTypeOK
  <1>2. CASE UNCHANGED <<pc, updating>>
    <2>1. FlagInv' /\ (ffmpeg = outfile)'
      BY <1>2 DEF RtspInv, FlagInv, Setting
    <2>2. due' => due
      BY <1>2 DEF Postpone, Goto, RtspInv, RtspTypeOK
    <2>3. SetupInv' /\ JobInv'
      BY <1>2, <2>2 DEF RtspInv, SetupInv, JobInv
    <2>. QED
      BY <1>1, <2>1, <2>3 DEF RtspInv
  <1>3. CASE /\ ~updating /\ job = 0 /\ launched < MaxLaunches
             /\ updating' = TRUE /\ Goto(c, "launch") /\ UNCHANGED due
    <2>1. worker = "idle" /\ \A d \in Callers : ~Setting(d)
      BY <1>3 DEF RtspInv, FlagInv, JobInv
    <2>2. pc' = [pc EXCEPT ![c] = "launch"]
      BY <1>3 DEF Goto
    <2>3. /\ pc'[c] = "launch"
          /\ \A d \in Callers : d # c => pc'[d] = pc[d]
      BY <2>2 DEF RtspInv, RtspTypeOK
    <2>4. FlagInv'
      BY <1>3, <2>1, <2>3 DEF FlagInv, Setting
    <2>5. ffmpeg = 0 /\ store = {}
      BY <1>3, <2>1 DEF RtspInv, JobInv, Setting
    <2>6. SetupInv'
      BY <1>3, <2>1, <2>3, <2>5 DEF SetupInv, Setting
    <2>7. JobInv'
      BY <1>3, <2>1, <2>5 DEF RtspInv, JobInv
    <2>. QED
      BY <1>1, <2>4, <2>6, <2>7 DEF RtspInv
  <1>. QED
    BY <1>2, <1>3

LEMMA LaunchRtspInv ==
    ASSUME RtspInv, NEW c \in Callers, Launch(c)
    PROVE  RtspInv'
  <1>. USE DEF Launch
  <1>1. /\ worker = "idle"
        /\ updating
        /\ \A d \in Callers : d # c => pc[d] \in {"idle", "pet"}
    BY OnlySetter DEF Setting
  <1>2. job = 0 /\ ffmpeg = 0 /\ launched < MaxLaunches /\ store = {} /\ ~due
    BY DEF RtspInv, SetupInv, JobInv
  <1>3. launched + 1 \in Recordings
    BY <1>2, Bounds DEF RtspInv, RtspTypeOK, Recordings
  <1>4. RtspTypeOK'
    <2>1. /\ launched' \in 0 .. MaxLaunches
          /\ ffmpeg' \in 0 .. MaxLaunches
          /\ outfile' \in 0 .. MaxLaunches
      BY <1>3, Bounds DEF RtspInv, RtspTypeOK, Recordings
    <2>2. announced' \in SUBSET Recordings
      BY <1>3 DEF RtspInv, RtspTypeOK
    <2>3. pc' \in [Callers -> {"idle", "launch", "addjob", "clear", "pet"}]
      BY DEF RtspInv, RtspTypeOK, Goto
    <2>. QED
      BY <2>1, <2>2, <2>3 DEF RtspInv, RtspTypeOK
  <1>5. /\ pc'[c] \in {"addjob", "clear"}
        /\ pc'[c] = "addjob" => ffmpeg' # 0
        /\ ffmpeg' # 0 => pc'[c] = "addjob"
        /\ \A d \in Callers : d # c => pc'[d] = pc[d]
    BY <1>2, <1>3 DEF RtspInv, RtspTypeOK, Goto, Recordings
  <1>6. FlagInv'
    BY <1>1, <1>5 DEF FlagInv, Setting
  <1>7. SetupInv'
    BY <1>1, <1>2, <1>5 DEF SetupInv
  <1>8. JobInv'
    BY <1>1, <1>2, <1>5 DEF JobInv
  <1>9. (ffmpeg = outfile)'
    BY <1>2
  <1>. QED
    BY <1>4, <1>6, <1>7, <1>8, <1>9 DEF RtspInv

LEMMA AddJobRtspInv ==
    ASSUME RtspInv, NEW c \in Callers, AddJob(c)
    PROVE  RtspInv'
  <1>. USE DEF AddJob
  <1>1. /\ worker = "idle"
        /\ updating
        /\ \A d \in Callers : d # c => pc[d] \in {"idle", "pet"}
    BY OnlySetter DEF Setting
  <1>2. job = 0 /\ ffmpeg # 0 /\ outfile = ffmpeg /\ store = {}
    BY DEF RtspInv, SetupInv, JobInv
  <1>3. outfile \in Recordings
    BY <1>2, Bounds DEF RtspInv, RtspTypeOK, Recordings
  <1>4. RtspTypeOK'
    BY <1>3, Bounds DEF RtspInv, RtspTypeOK, Goto, Recordings
  <1>5. /\ pc'[c] = "clear"
        /\ \A d \in Callers : d # c => pc'[d] = pc[d]
    BY DEF RtspInv, RtspTypeOK, Goto
  <1>6. FlagInv'
    BY <1>1, <1>5 DEF FlagInv, Setting
  <1>7. SetupInv'
    BY <1>1, <1>5 DEF SetupInv
  <1>8. JobInv'
    BY <1>1, <1>2 DEF JobInv
  <1>. QED
    BY <1>2, <1>4, <1>6, <1>7, <1>8 DEF RtspInv

LEMMA EndTriggerRtspInv ==
    ASSUME RtspInv, NEW c \in Callers, EndTrigger(c)
    PROVE  RtspInv'
  <1>. USE DEF EndTrigger
  <1>1. /\ worker = "idle"
        /\ \A d \in Callers : d # c => pc[d] \in {"idle", "pet"}
    BY OnlySetter DEF Setting
  <1>2. RtspTypeOK'
    BY DEF RtspInv, RtspTypeOK, Goto
  <1>3. /\ pc'[c] = "idle"
        /\ \A d \in Callers : d # c => pc'[d] = pc[d]
    BY DEF RtspInv, RtspTypeOK, Goto
  <1>4. FlagInv'
    BY <1>1, <1>3 DEF FlagInv, Setting
  <1>5. SetupInv'
    BY <1>1, <1>3 DEF SetupInv
  <1>6. JobInv'
    <2>1. \A d \in Callers : pc[d] # "addjob"
      BY <1>1
    <2>. QED
      BY <1>1, <2>1 DEF RtspInv, JobInv
  <1>. QED
    BY <1>2, <1>4, <1>5, <1>6 DEF RtspInv

\* A caller that goes to and from "pet" neither sets up a recording nor ends one.
LEMMA PetStepRtspInv ==
    ASSUME RtspInv, NEW c \in Callers, Pet(c) \/ PetLocked(c)
    PROVE  RtspInv'
  <1>. USE DEF Pet, PetLocked, Request
  <1>1. RtspTypeOK'
    <2>1. due' \in BOOLEAN
      BY DEF RtspInv, RtspTypeOK, Postpone
    <2>2. requests' \in 0 .. MaxRequests
      BY RecordingAssumption DEF RtspInv, RtspTypeOK
    <2>3. pc' \in [Callers -> {"idle", "launch", "addjob", "clear", "pet"}]
      BY DEF RtspInv, RtspTypeOK, Goto
    <2>. QED
      BY <2>1, <2>2, <2>3 DEF RtspInv, RtspTypeOK
  <1>2. /\ \A d \in Callers : d # c => pc'[d] = pc[d]
        /\ pc[c] \in {"idle", "pet"}
        /\ pc'[c] \in {"idle", "pet"}
    BY DEF RtspInv, RtspTypeOK, Goto
  <1>3. due' => due
    BY DEF Postpone, RtspInv, RtspTypeOK
  <1>4. FlagInv'
    <2>1. \A d \in Callers : Setting(d)' <=> Setting(d)
      BY <1>2 DEF Setting
    <2>. QED
      BY <2>1 DEF RtspInv, FlagInv
  <1>5. SetupInv'
    BY <1>2, <1>3 DEF RtspInv, SetupInv
  <1>6. JobInv'
    <2>1. (\E d \in Callers : pc[d] = "addjob") => \E d \in Callers : pc'[d] = "addjob"
      BY <1>2
    <2>. QED
      BY <1>3, <2>1 DEF RtspInv, JobInv
  <1>. QED
    BY <1>1, <1>4, <1>5, <1>6 DEF RtspInv

-----------------------------------------------------------------------------
(* Each step of the scheduler and its worker *)

LEMMA ElapseRtspInv ==
    ASSUME RtspInv, Elapse
    PROVE  RtspInv'
  BY DEF Elapse, RtspInv, RtspTypeOK, FlagInv, SetupInv, JobInv, Setting

\* The time of a recording is up: nobody is setting one up then.
LEMMA FireFacts ==
    ASSUME RtspInv, Fire
    PROVE  /\ \A c \in Callers : ~Setting(c)
           /\ worker = "idle"
           /\ job # 0
           /\ store = {job}
  <1>1. job # 0 /\ store = {job}
    BY DEF Fire, RtspInv, JobInv
  <1>2. worker = "idle"
    BY <1>1 DEF RtspInv, JobInv
  <1>3. \A c \in Callers : ~Setting(c)
    BY <1>1 DEF Fire, RtspInv, SetupInv, Setting
  <1>. QED
    BY <1>1, <1>2, <1>3

LEMMA FireRtspInv ==
    ASSUME RtspInv, Fire
    PROVE  RtspInv'
  <1>. USE DEF Fire
  <1>1. RtspTypeOK'
    BY DEF RtspInv, RtspTypeOK
  <1>2. FlagInv' /\ SetupInv'
    BY FireFacts DEF RtspInv, FlagInv, SetupInv, Setting
  <1>3. JobInv'
    BY FireFacts DEF RtspInv, JobInv
  <1>. QED
    BY <1>1, <1>2, <1>3 DEF RtspInv

LEMMA BeginStopRtspInv ==
    ASSUME RtspInv, BeginStop
    PROVE  RtspInv'
  <1>. USE DEF BeginStop
  <1>1. RtspTypeOK'
    BY DEF RtspInv, RtspTypeOK
  <1>2. FlagInv' /\ SetupInv'
    BY BusyWorker DEF FlagInv, SetupInv, Setting
  <1>3. JobInv'
    BY BusyWorker DEF JobInv
  <1>. QED
    BY <1>1, <1>2, <1>3 DEF RtspInv

LEMMA StopRtspInv ==
    ASSUME RtspInv, Stop
    PROVE  RtspInv'
  <1>. USE DEF Stop
  <1>1. RtspTypeOK'
    <2>1. outfile \in Recordings /\ ended' \in SUBSET Recordings
      BY BusyWorker DEF RtspInv, RtspTypeOK
    <2>2. 0 \in 0 .. MaxLaunches
      BY Bounds
    <2>3. updating' \in BOOLEAN
      OBVIOUS
    <2>. QED
      BY <2>1, <2>2, <2>3 DEF RtspInv, RtspTypeOK
  <1>2. FlagInv' /\ SetupInv'
    BY BusyWorker DEF FlagInv, SetupInv, Setting
  <1>3. JobInv'
    BY BusyWorker DEF JobInv
  <1>. QED
    BY <1>1, <1>2, <1>3 DEF RtspInv

LEMMA AnnounceRtspInv ==
    ASSUME RtspInv, NEW id \in Recordings, Announce(id)
    PROVE  RtspInv'
  BY DEF Announce, RtspInv, RtspTypeOK, FlagInv, SetupInv, JobInv, Setting

LEMMA StutterRtspInv ==
    ASSUME RtspInv, UNCHANGED rtspVars
    PROVE  RtspInv'
  BY DEF rtspVars, RtspInv, RtspTypeOK, FlagInv, SetupInv, JobInv, Setting

-----------------------------------------------------------------------------
(* Theorems *)

LEMMA NextRtspInv == RtspInv /\ [RtspNext]_rtspVars => RtspInv'
  <1>. SUFFICES ASSUME RtspInv, [RtspNext]_rtspVars
                PROVE  RtspInv'
    OBVIOUS
  <1>1. ASSUME NEW c \in Callers, Trigger(c) \/ Pet(c) \/ Return(c)
        PROVE  RtspInv'
    BY <1>1, TriggerRtspInv, PetStepRtspInv, LaunchRtspInv, AddJobRtspInv, EndTriggerRtspInv DEF Return
  <1>2. ASSUME NEW id \in Recordings, Announce(id)
        PROVE  RtspInv'
    BY <1>2, AnnounceRtspInv
  <1>. QED
    BY <1>1, <1>2, ElapseRtspInv, FireRtspInv, BeginStopRtspInv, StopRtspInv, StutterRtspInv DEF RtspNext

\* The inductive invariant holds in every state of the recorder.
THEOREM RtspInvariance == RtspSpec => []RtspInv
  BY InitRtspInv, NextRtspInv, PTL DEF RtspSpec

\* Jobs, flags and recordings keep their types: no recording is made of nothing.
THEOREM RtspTypeCorrect == RtspSpec => []RtspTypeOK
  <1>1. RtspInv => RtspTypeOK
    BY DEF RtspInv
  <1>. QED
    BY <1>1, RtspInvariance, PTL

\* A running ffmpeg is the one the state describes, and its end is scheduled, or
\* about to be, or under way, for any number of threads.
THEOREM FfmpegAlwaysWatched == RtspSpec => []FfmpegIsWatched
  <1>1. ASSUME RtspInv, ffmpeg # 0, job = 0
        PROVE  \E c \in Callers : pc[c] = "addjob"
    BY <1>1 DEF RtspInv, JobInv
  <1>2. ASSUME RtspInv, job # 0
        PROVE  job = ffmpeg /\ (job \in store \/ worker # "idle")
    BY <1>2 DEF RtspInv, JobInv
  <1>3. RtspInv => FfmpegIsWatched
    BY <1>1, <1>2 DEF RtspInv, FfmpegIsWatched
  <1>. QED
    BY <1>3, RtspInvariance, PTL

\* Two threads never set up a recording at a time, nor does one while the worker
\* tears one down.
THEOREM AlwaysOneAtATime == RtspSpec => []OneAtATime
  <1>1. RtspInv => OneAtATime
    BY DEF RtspInv, FlagInv, OneAtATime, Launching, Setting
  <1>. QED
    BY <1>1, RtspInvariance, PTL

-----------------------------------------------------------------------------
(* Recording implements Recorder, up to fairness *)

LEMMA InitRefines == RtspInit => Promise!Init
  BY DEF RtspInit, Promise!Init, Phase

LEMMA LaunchRefines ==
    ASSUME RtspInv, NEW c \in Callers, Launch(c)
    PROVE  Promise!Start \/ Promise!StartFails
  <1>. USE DEF Launch
  <1>1. worker = "idle"
    BY OnlySetter DEF Setting
  <1>2. ffmpeg = 0 /\ launched < MaxLaunches /\ launched \in Nat
    BY DEF RtspInv, SetupInv, RtspTypeOK
  <1>3. CASE ffmpeg' = launched + 1 /\ UNCHANGED announced
    BY <1>1, <1>2, <1>3 DEF Promise!Start, Phase
  <1>4. CASE announced' = announced \cup {launched + 1} /\ UNCHANGED ffmpeg
    BY <1>1, <1>2, <1>4 DEF Promise!StartFails, Phase
  <1>. QED
    BY <1>3, <1>4

LEMMA FireRefines ==
    ASSUME RtspInv, Fire
    PROVE  Promise!TimeUp
  <1>1. worker = "idle" /\ ffmpeg # 0
    BY FireFacts DEF RtspInv, JobInv
  <1>. QED
    BY <1>1 DEF Fire, Promise!TimeUp, Phase

LEMMA StopRefines ==
    ASSUME RtspInv, Stop
    PROVE  Promise!Finish
  BY DEF RtspInv, Stop, Promise!Finish, Phase

LEMMA AnnounceRefines ==
    ASSUME NEW id \in Recordings, Announce(id)
    PROVE  Promise!Tell(id)
  BY DEF Announce, Promise!Tell, Phase

LEMMA NextRefines == RtspInv /\ [RtspNext]_rtspVars => [Promise!Next]_(Promise!rec)
  <1>. SUFFICES ASSUME RtspInv, [RtspNext]_rtspVars
                PROVE  [Promise!Next]_(Promise!rec)
    OBVIOUS
  <1>. USE DEF Promise!Next
  <1>1. ASSUME NEW c \in Callers, Launch(c)
        PROVE  Promise!Next
    BY <1>1, LaunchRefines
  <1>2. ASSUME NEW c \in Callers,
               Trigger(c) \/ Pet(c) \/ AddJob(c) \/ EndTrigger(c) \/ PetLocked(c)
        PROVE  UNCHANGED Promise!rec
    BY <1>2 DEF Trigger, Pet, AddJob, EndTrigger, PetLocked, Promise!rec, Phase
  <1>3. ASSUME Elapse \/ UNCHANGED rtspVars
        PROVE  UNCHANGED Promise!rec
    BY <1>3 DEF Elapse, rtspVars, Promise!rec, Phase
  <1>4. ASSUME BeginStop
        PROVE  UNCHANGED Promise!rec
    BY <1>4 DEF BeginStop, Promise!rec, Phase
  <1>5. ASSUME NEW id \in Recordings, Announce(id)
        PROVE  Promise!Next
    BY <1>5, AnnounceRefines DEF Promise!Recordings, Recordings
  <1>. QED
    BY <1>1, <1>2, <1>3, <1>4, <1>5, FireRefines, StopRefines DEF RtspNext, Return

\* The threads and their lock do what Recorder promises: each recording starts when
\* none is running, ends once, and is announced once after that.
THEOREM RefinesRecorder == RtspSpec => Promise!Init /\ [][Promise!Next]_(Promise!rec)
  BY InitRefines, NextRefines, RtspInvariance, PTL DEF RtspSpec

=============================================================================
