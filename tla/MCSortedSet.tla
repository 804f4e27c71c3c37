---------------------------- MODULE MCSortedSet ----------------------------
(* Instances of SortedSet for TLC. *)
EXTENDS SortedSet

SixMembers == 1..6
TwoScores == 0..1
=============================================================================
