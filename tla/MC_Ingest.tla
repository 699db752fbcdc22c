------------------------------- MODULE MC_Ingest -------------------------------
(* Instances of IngestLifecycle for TLC: its constants and their symmetry.  *)
EXTENDS IngestLifecycle, TLC

CONSTANTS d1, d2, c1, c2, w1, w2

OneDoc == {d1}
TwoDocs == {d1, d2}
OneContent == {c1}
TwoContents == {c1, c2}
OneWorker == {w1}
TwoWorkers == {w1, w2}
TwoParts == {1, 2}

(* Every failure that is reported to the caller. *)
LoudFaults == FaultPoints \ {"tenants"}
(* Failures that leave nothing behind while the process lives. *)
CleanFaults == {"build", "insert", "tenants"}
NoFaults == {}
CompensateFaults == {"insert", "compensate"}
TenantFaults == {"tenants"}

UpdateAndCreate == {"create", "update"}
DeleteAndCreate == {"create", "delete"}

Symmetry == Permutations(Doc) \cup Permutations(Content) \cup Permutations(Worker)
================================================================================
