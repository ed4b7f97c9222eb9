---------------------------- MODULE MCContactMon ----------------------------
(***************************************************************************)
(* Two sensors for TLC: a door with every action of the template config,   *)
(* and a window of which only leaving it open matters.                     *)
(***************************************************************************)
EXTENDS ContactMon

CONSTANTS door, window

MCSensors == {door, window}

MCActs == [s \in MCSensors |->
             IF s = door THEN {"open", "close", "timeout", "curfew"} ELSE {"timeout"}]

MCAnnounced == [s \in MCSensors |-> IF s = door THEN {"open", "close"} ELSE {}]

=============================================================================
