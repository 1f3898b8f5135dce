---------------------------- MODULE MCSpawnRobot ----------------------------
(* TLC instance of SpawnRobot: two launches, one after the other or at the   *)
(* same time, that leave the namespace empty, so that both name their robot  *)
(* "robot0"; each may be repeated once.                                      *)
EXTENDS SpawnRobot

CONSTANTS s1, s2

Names == [s \in Spawners |-> "robot0"]
=============================================================================
