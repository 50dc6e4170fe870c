---------------------------- MODULE MCRedMainTrace ----------------------------
(* Small instances of RedMainTrace for TLC. *)
EXTENDS RedMainTrace

CONSTANTS job1, job2, test1, test2

\* Jobs that wait for none, and a second job that waits for the first.
Independent == [j \in Jobs |-> {}]
SecondWaits == [j \in Jobs |-> IF j = job2 THEN {job1} ELSE {}]
=============================================================================
