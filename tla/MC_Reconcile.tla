----------------------------- MODULE MC_Reconcile -----------------------------
(* Instance of StoreReconciler for TLC.                                     *)
EXTENDS StoreReconciler, TLC

CONSTANTS d1, d2, c1, w1

TwoDocs == {d1, d2}
OneContent == {c1}
OneWorker == {w1}
TwoParts == {1, 2}

(* One call of each kind fails; the others fail in the runs of MC_Ingest. *)
SomeFaults == {"insert", "status", "record", "delete", "tenants"}

Symmetry == Permutations(Doc)
================================================================================
