------------------------------ MODULE MCAlarm ------------------------------
(* Instances of Alarm for TLC. *)
EXTENDS Alarm

\* A callback may stop any alarm.
AllPairs == Alarms \X Alarms

\* Every delay a caller may pass but the longest.
ShortDelays == 0..(WRAP - 2)
AllIntervals == 0..(WRAP - 1)
=============================================================================
