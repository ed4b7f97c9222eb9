----------------------------- MODULE Snapshots -----------------------------
(***************************************************************************)
(* The snapshots of one camera (snap_on_movement.py): a directory with the *)
(* last few pictures, and which of them is the last one.  A picture is     *)
(* named after the second it was taken in; its number is that second.      *)
(*                                                                         *)
(* Webhooks, web requests and the MQTT thread save pictures with no lock   *)
(* between them.  A webhook saves its own in one step; the others first    *)
(* write one and then make it the last and remove the surplus.             *)
(***************************************************************************)
EXTENDS Naturals, FiniteSets, FiniteSetsExt

CONSTANTS
    SnapHistory,  \* snap_history_len
    MaxSnaps      \* bound: seconds in which a picture is taken

Savers == {"web", "mqtt"}

VARIABLES
    files,   \* the pictures in the directory
    last,    \* _last_snap; 0 is None
    second,  \* the second the last picture was taken in
    saving   \* the picture that each saver has written; 0 is none

vars == <<files, last, second, saving>>

Init ==
    /\ files = {} /\ last = 0 /\ second = 0
    /\ saving = [s \in Savers |-> 0]

\* A new process finds the pictures, and has none to offer.
Restart ==
    /\ last' = 0
    /\ saving' = [s \in Savers |-> 0]
    /\ UNCHANGED <<files, second>>

\* The second of the next picture: two of them may be taken in the same one, and
\* are then the same file.
NextSeconds == {i \in 1 .. MaxSnaps : i >= second}

Newer(f, pics) == {g \in pics : g > f}

\* snaps[self._max_snaps:], without the reverse=True of the sort.
SurplusNewest(pics) ==
    {f \in pics : Cardinality({g \in pics : g < f}) >= SnapHistory}

\* snaps[self._max_snaps:], newest first.
Surplus(pics) == {f \in pics : Cardinality(Newer(f, pics)) >= SnapHistory}

\* A webhook takes up to n pictures, at the door and of the motion; each may fail.
Photograph(n) ==
    \E pics \in SUBSET NextSeconds :
        /\ Cardinality(pics) <= n
        /\ files' = (files \cup pics) \ (IF pics = {} THEN {} ELSE Surplus(files \cup pics))
        /\ last' = IF pics = {} THEN last ELSE Max(pics)
        /\ second' = Max(pics \cup {second})
        /\ UNCHANGED saving

\* save_snapshot writes what the camera sent.
Write(s) ==
    /\ saving[s] = 0
    /\ \E i \in NextSeconds :
          /\ files' = files \cup {i}
          /\ second' = i
          /\ saving' = [saving EXCEPT ![s] = i]
    /\ UNCHANGED last

\* What it has written is the last snapshot; _cleanup_old_snaps.
Finish(s) ==
    /\ saving[s] # 0
    /\ last' = saving[s]
    /\ files' = files \ Surplus(files)
    /\ saving' = [saving EXCEPT ![s] = 0]
    /\ UNCHANGED second

\* Whatever the order of the savers, the last snapshot that pages are offered is on
\* disk, or as many newer ones are as the history holds.
LastSnapIsKept ==
    last \in files \cup {0} \/ Cardinality(Newer(last, files)) >= SnapHistory

=============================================================================
