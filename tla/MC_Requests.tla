------------------------------ MODULE MC_Requests ------------------------------
(* One user, three threads: the event loop and two workers of the pool.     *)
EXTENDS RequestGate

CONSTANTS loop, w1, w2, u1, team, global

MCThreads == {loop, w1, w2}
MCDepts == {team, global}
ThreeIngests == [t \in MCThreads |-> IF t = w1 THEN 2 ELSE 1]
BurstOfOne == [s \in {"ingest", "read"} |-> 1]
=============================================================================
