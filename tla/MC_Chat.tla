-------------------------------- MODULE MC_Chat --------------------------------
(* Instance of Chat for TLC.                                                 *)
EXTENDS Chat, TLC

CONSTANTS u1, u2, t1, t2, c1, q1, q2

TwoUsers == {u1, u2}
OneUser == {u1}
TwoTeams == {t1, t2}
OneTeam == {t1}
OneConv == {c1}
TwoRequests == {q1, q2}
TwoLimits == {0, 2}
NoneOrOne == {0, 1}
NoneOrTwo == {0, 2}
Proxies == {{}, {"coding-model", "other-model"}}
Nodes == {{}, {"rag-model"}}

Symmetry == Permutations(Request)
================================================================================
