---------------------------- MODULE MCSonosCtrl ----------------------------
(***************************************************************************)
(* Nothing tells the threads, or the speakers, apart: SonosCtrl only       *)
(* compares them, and its properties are invariants.                       *)
(***************************************************************************)
EXTENDS SonosCtrl, TLC

Symmetry == Permutations(Threads) \cup Permutations(Speakers)

=============================================================================
