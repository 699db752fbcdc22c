------------------------------- MODULE MC_Fleet -------------------------------
(* Instance of Fleet for TLC.                                               *)
EXTENDS Fleet, TLC

CONSTANTS n1, r1, r2, m1, t1, t2

OneNode == {n1}
TwoRoles == {r1, r2}
OneModel == {m1}
BothOrSecond == {{r1, r2}, {r2}}
FirstRole == (m1 :> r1)
TwoThreads == {t1, t2}

Symmetry == Permutations(Thread)
================================================================================
